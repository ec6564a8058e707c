---------------------------- MODULE ModuleRegistry ----------------------------
(***************************************************************************)
(* What the import of modules promises, whatever the order of the files    *)
(* and the tables in which their symbols are kept: found is the set of     *)
(* the modules that a lookup by path answers.  The declaration of a        *)
(* program ends with exactly the modules that its imports need, or is      *)
(* refused when the file of one of them is missing or erroneous.           *)
(***************************************************************************)

CONSTANTS
    Path,     \* the paths of the modules
    Root,     \* the compiled module
    Core,     \* the modules of the core library, imported by every module
    Program   \* one record per source program

VARIABLES
    prog,     \* the program being compiled
    found,    \* the modules a lookup finds
    phase     \* "declaring", then "validating" or "failed"

vars == <<prog, found, phase>>

\* The modules a program imports, directly or not.
Needed ==
    {p \in Path : \A S \in SUBSET Path :
         {Root} \cup Core \subseteq S /\ (\A q \in S : prog.imports[q] \subseteq S) => p \in S}

Broken == {p \in Path : prog.where[p] = {} \/ p \in prog.faulty}

Init ==
    /\ prog \in Program
    /\ found = {}
    /\ phase = "declaring"

Declare(p) ==
    /\ phase = "declaring" => p \in Needed
    /\ found' = found \cup {p}
    /\ UNCHANGED <<prog, phase>>

Accept ==
    /\ phase = "declaring"
    /\ Needed \cap Broken = {}
    /\ found' = Needed
    /\ phase' = "validating"
    /\ UNCHANGED prog

Refuse ==
    /\ phase = "declaring"
    /\ Needed \cap Broken # {}
    /\ phase' = "failed"
    /\ UNCHANGED <<prog, found>>

Next == Accept \/ Refuse \/ \E p \in Path : Declare(p)

Spec == Init /\ [][Next]_vars
=============================================================================
