------------------------------ MODULE Declarator ------------------------------
(***************************************************************************)
(* The import of modules by semantic/declarator/Visitor.cc and the tree of *)
(* modules it fills (semantic/Symbol.cc, semantic/Table.cc).               *)
(*                                                                         *)
(* The declarator reads the file of each import when it meets it, in the   *)
(* middle of the module that imports: the C++ call stack of visitModule is *)
(* the variable stack.  Modules are objects shared by reference: mods is   *)
(* the heap, and roots, the tables of the modules and the cache hold       *)
(* positions of mods, or None.                                             *)
(***************************************************************************)
EXTENDS Integers, Sequences, SequencesExt

CONSTANTS
    Name,     \* identifiers: the components of the paths, and the functions
    Path,     \* paths of modules, sequences of names
    Root,     \* the module that is compiled
    Core,     \* the modules of the core directory
    Include,  \* the directories of State::getIncludeDirs, in their order
    CoreDir,  \* the one whose modules are imported by every module
    Program   \* the programs, one record each

ASSUME PathAssumption    == Path \subseteq Seq(Name) \ {<<>>} /\ Root \in Path
ASSUME IncludeAssumption == Include \subseteq Nat \ {0} /\ Core \subseteq Path

Dir  == {0} \cup Include      \* 0 is the working directory
None == 0

ProgramType ==
    [imports : [Path -> SUBSET Path],  \* the import declarations of each file
     funs    : [Path -> SUBSET Name],  \* the functions it declares
     where   : [Path -> SUBSET Dir],   \* the directories that have its file
     faulty  : SUBSET Path,            \* the files with an erroneous declaration
     local   : SUBSET Path]            \* the imports written inside of blocks

ASSUME ProgramAssumption ==
    \A pr \in Program :
        /\ pr \in ProgramType
        /\ pr.where[Root] = {0}
        /\ \A p \in Core : CoreDir \in pr.where[p]

VARIABLES
    prog,    \* the program being compiled
    phase,   \* "declaring", then "validating" or "failed"
    stack,   \* the active calls of visitModule for a file
    marked,  \* declarator::Visitor::__imported__: a directory and a path each
    mods,    \* the modules that were created
    roots,   \* Symbol::__imported__
    cache,   \* Symbol::__fast_mod_access__
    done     \* history: the modules whose file was visited to its end

tree == <<mods, roots, cache>>
vars == <<prog, phase, stack, marked, tree, done>>

-----------------------------------------------------------------------------
(* A module: its submodules and its functions by name (Table::_syms).  A    *)
(* function is known by the module that declared it and its name.           *)

NewModule == [subs |-> [n \in Name |-> None], funs |-> {}]

\* Table::replace, which erases every symbol of that name.
Replace(m, n, id) ==
    [subs |-> [m.subs EXCEPT ![n] = id], funs |-> {f \in m.funs : f[2] # n}]

\* Mutant: the older module of the same path is forgotten.
MergeNothing(last, old) == last

\* The symbols of an older module of the same path are inserted in last.
Merge(last, old) ==
    [subs |-> [n \in Name |-> IF last.subs[n] # None THEN last.subs[n] ELSE old.subs[n]],
     funs |-> last.funs \cup old.funs]

\* One name of the way to a submodule: the module of that name, or a new one.
Descend(way, n) ==
    LET child == way.heap[way.at].subs[n]
        fresh == Len(way.heap) + 1
    IN  IF child # None
        THEN [heap |-> [way.heap EXCEPT ![way.at] = Replace(@, n, child)], at |-> child]
        ELSE [heap |-> Append([way.heap EXCEPT ![way.at].subs[n] = fresh], NewModule),
              at |-> fresh]

CreateSubModules(heap, from, names, last) ==
    LET way[i \in 0 .. Len(names) - 1] ==
            IF i = 0 THEN [heap |-> heap, at |-> from] ELSE Descend(way[i - 1], names[i])
        end == way[Len(names) - 1]
        n   == Last(names)
        old == end.heap[end.at].subs[n]
        new == IF old = None THEN end.heap
               ELSE [end.heap EXCEPT ![last] = Merge(@, end.heap[old])]
    IN  [new EXCEPT ![end.at] = Replace(@, n, last)]

\* getModuleByPath without its cache: follow the names from the root.
Follow(heap, tops, p) ==
    LET at[i \in 1 .. Len(p)] ==
            IF i = 1 THEN tops[p[1]]
            ELSE IF at[i - 1] = None THEN None ELSE heap[at[i - 1]].subs[p[i]]
    IN  at[Len(p)]

Walk(p) == Follow(mods, roots, p)

\* ... and with it.
GetModuleByPath(p) == IF cache[p] # None THEN cache[p] ELSE Walk(p)

-----------------------------------------------------------------------------
(* The search of a file (visitImport): the working directory, then the     *)
(* include directories in their order.                                      *)

Unread(p) == {d \in prog.where[p] \ {0} : <<d, p>> \notin marked}

\* The file an import reads: none or one.
FileOf(p) ==
    IF <<0, p>> \in marked THEN {}
    ELSE IF 0 \in prog.where[p] THEN {0}
    ELSE {d \in Unread(p) : \A e \in Unread(p) : d <= e}

\* Mutant: an import waits for the module to be complete.
KnownWhenDone(p) == FileOf(p) = {} /\ p \in done

\* Read before: nothing to read, and the import succeeds.
Known(p) == FileOf(p) = {} /\ \E d \in Dir : <<d, p>> \in marked

Missing(p) == FileOf(p) = {} /\ \A d \in Dir : <<d, p>> \notin marked

\* Mutant: a file is not marked before it is visited.
EnterUnmarked(d, p, below) ==
    /\ Len(below) <= Cardinality(Path)
    /\ stack' = Append(below, [path |-> p, mod |-> Len(mods) + 1, core |-> {},
                               imports |-> prog.imports[p], funs |-> prog.funs[p]])
    /\ mods' = Append(mods, NewModule)
    /\ UNCHANGED <<prog, phase, marked, roots, cache, done>>

\* visitImport and visitModule (92-120) for the file of p in the directory d,
\* called by the visit at the top of below.  A path of one name continues the
\* module of that name, when there is one.
Enter(d, p, below) ==
    LET known == IF Len(p) = 1 THEN roots[p[1]] ELSE None
        id    == IF known = None THEN Len(mods) + 1 ELSE known
    IN  /\ marked' = marked \cup {<<d, p>>}
        /\ stack' = Append(below, [path |-> p, mod |-> id, core |-> {},
                                   imports |-> prog.imports[p], funs |-> prog.funs[p]])
        /\ mods' = IF known = None THEN Append(mods, NewModule) ELSE mods
        /\ cache' = IF known # None /\ cache[p] = None
                    THEN [cache EXCEPT ![p] = known] ELSE cache
        /\ UNCHANGED <<prog, phase, roots, done>>

Active == stack # <<>>
Top    == Last(stack)

\* The file being visited has its core imports done.
Visiting == Active /\ Top.core = {}

\* The stack once the visit at its top is done with a core module, an import
\* or a function.
AfterCore(p)     == [stack EXCEPT ![Len(stack)].core = @ \ {p}]
AfterImport(p)   == [stack EXCEPT ![Len(stack)].imports = @ \ {p}]
AfterFunction(n) == [stack EXCEPT ![Len(stack)].funs = @ \ {n}]

-----------------------------------------------------------------------------
(* Actions.                                                                 *)

\* importAllCoreFiles.  Only the first module visited imports the files, the
\* list of entries being static; the others only use them.
ImportCore(p) ==
    /\ Active
    /\ p \in Top.core
    /\ \/ <<CoreDir, p>> \in marked
          /\ stack' = AfterCore(p)
          /\ UNCHANGED <<prog, phase, marked, tree, done>>
       \/ <<CoreDir, p>> \notin marked
          /\ Enter(CoreDir, p, AfterCore(p))

ImportKnown(p) ==
    /\ Visiting
    /\ p \in Top.imports
    /\ Known(p)
    /\ stack' = AfterImport(p)
    /\ UNCHANGED <<prog, phase, marked, tree, done>>

ImportFile(p) ==
    /\ Visiting
    /\ p \in Top.imports
    /\ \E d \in FileOf(p) : Enter(d, p, AfterImport(p))

\* visitFunction.
DeclareFunction(n) ==
    /\ Visiting
    /\ n \in Top.funs
    /\ mods' = [mods EXCEPT ![Top.mod].funs = @ \cup {<<Top.path, n>>}]
    /\ stack' = AfterFunction(n)
    /\ UNCHANGED <<prog, phase, marked, roots, cache, done>>

\* Every visitImport throws what it catches again: the error of a file ends
\* the visits of all the files above it.  It ends the compilation, unless the
\* import is in a block that is validated speculatively.
Throw ==
    /\ stack' = <<>>
    /\ phase' = IF phase = "declaring" THEN "failed" ELSE phase
    /\ UNCHANGED <<prog, marked, tree, done>>

ImportMissing(p) == Visiting /\ p \in Top.imports /\ Missing(p) /\ Throw

Fault == Visiting /\ Top.path \in prog.faulty /\ Throw

\* visitModule (126-146): the module takes its place in the tree.
EndModule ==
    /\ Visiting
    /\ Top.imports = {} /\ Top.funs = {} /\ Top.path \notin prog.faulty
    /\ LET p     == Top.path
           known == roots[p[1]] # None
           glob  == IF known THEN roots[p[1]] ELSE Len(mods) + 1
           heap  == IF known THEN mods ELSE Append(mods, NewModule)
       IN  \/ /\ Len(p) = 1
              /\ roots' = [roots EXCEPT ![p[1]] = Top.mod]
              /\ UNCHANGED mods
           \/ /\ Len(p) > 1
              /\ mods' = CreateSubModules(heap, glob, Tail(p), Top.mod)
              /\ roots' = [roots EXCEPT ![p[1]] = glob]
    /\ done' = done \cup {Top.path}
    /\ stack' = Front(stack)
    /\ phase' = IF Len(stack) = 1 THEN "validating" ELSE phase
    /\ UNCHANGED <<prog, marked, cache>>

\* The validator resolves a "use" or a ModRef.
Lookup(p) ==
    /\ phase = "validating" /\ ~ Active
    /\ cache[p] = None /\ Walk(p) # None
    /\ cache' = [cache EXCEPT ![p] = Walk(p)]
    /\ UNCHANGED <<prog, phase, stack, marked, mods, roots, done>>

\* validateInnerModule: an import inside a block, met by the validator.
LocalImport(p) ==
    /\ phase = "validating" /\ ~ Active
    /\ p \in prog.local
    /\ \E d \in FileOf(p) : Enter(d, p, <<>>)

-----------------------------------------------------------------------------
\* Parser::semanticTime calls the declarator for the root.
Init ==
    /\ prog \in Program
    /\ phase = "declaring"
    /\ stack = <<[path |-> Root, mod |-> 1, core |-> Core,
                  imports |-> prog.imports[Root], funs |-> prog.funs[Root]]>>
    /\ marked = {<<0, Root>>}
    /\ mods = <<NewModule>>
    /\ roots = [n \in Name |-> None]
    /\ cache = [p \in Path |-> None]
    /\ done = {}

Import(p) ==
    ImportCore(p) \/ ImportKnown(p) \/ ImportFile(p) \/ ImportMissing(p)

Next ==
    \/ \E p \in Path : Import(p) \/ Lookup(p) \/ LocalImport(p)
    \/ \E n \in Name : DeclareFunction(n)
    \/ Fault
    \/ EndModule

Spec     == Init /\ [][Next]_vars
FairSpec == Spec /\ WF_vars(Next)

-----------------------------------------------------------------------------
(* The programs whose modules are always found (README, bounds).            *)

\* The modules of S and those that they import, directly or not.
ReachedFrom(pr, S) ==
    {p \in Path : \A T \in SUBSET Path :
                     S \subseteq T /\ (\A q \in T : pr.imports[q] \subseteq T) => p \in T}

Imported(pr, p) == pr.imports[p] \cup (IF p = Root THEN Core ELSE {})

IsBelow(p, q) == Len(q) < Len(p) /\ SubSeq(p, 1, Len(q)) = q

\* A module of one name does not import, directly or not, a module below it.
ImportsNoneBelow(pr) ==
    \A p, q \in Path : Len(p) = 1 /\ IsBelow(q, p) => q \notin ReachedFrom(pr, Imported(pr, p))

\* No function has the name of a module that is next to it.
NamesDiffer(pr) ==
    \A p, q \in Path : IsBelow(p, q) => p[Len(q) + 1] \notin pr.funs[q]

\* What a block imports, directly or not, was needed by the program, has one name,
\* or is imported by the modules below it.
BlocksImportLast(pr) ==
    \A p, q \in Path :
        /\ p \in ReachedFrom(pr, pr.local) \ ReachedFrom(pr, {Root} \cup Core)
        /\ Len(p) > 1
        /\ IsBelow(q, p)
        => p \in pr.imports[q]

\* No module has a file in two of the directories that are searched: with two
\* of them a second import of the module reads the second file.
OneFile == \A pr \in Program : \A p \in Path : \A d, e \in pr.where[p] : d = e

IsSettled(pr) == ImportsNoneBelow(pr) /\ NamesDiffer(pr) /\ BlocksImportLast(pr)

-----------------------------------------------------------------------------
Module   == DOMAIN mods
Optional == Module \cup {None}

Frame == [path : Path, mod : Module, core : SUBSET Path,
          imports : SUBSET Path, funs : SUBSET Name]

\* visitImport marks a file before it reads it, "to prevent infinite import
\* loops": no module is visited while it is being visited, nor once it was.
VisitedOnce ==
    /\ \A i, j \in DOMAIN stack : stack[i].path = stack[j].path => i = j
    /\ \A i \in DOMAIN stack : stack[i].path \notin done

\* The lookup of a module, through the tree or the cache, gives a module that
\* has everything the file declared.
Answers(p) ==
    LET id == GetModuleByPath(p)
    IN  id # None /\ {p} \X prog.funs[p] \subseteq mods[id].funs

\* getModuleByPath finds every module whose file was visited, whatever was
\* imported, looked up or registered since, and while others are visited.
LookupAnswers == \A p \in done : Answers(p)

\* The declarator implements the abstract registry of modules.
Registry == INSTANCE ModuleRegistry WITH found <- {p \in done : Answers(p)}
RegistrySpec == Registry!Spec

\* The declaration of a program ends, with import cycles too.
DeclarationEnds == phase = "declaring" ~> phase # "declaring"
=============================================================================
