---------------------------- MODULE TypeGeneration ----------------------------
(***************************************************************************)
(* The types of the global variables as they are generated, when a module  *)
(* has been validated without an error (generator/Visitor.cc, Tree.cc).    *)
(* The layout of a structure is computed once, from its fields, and kept;  *)
(* a structure that is met inside of itself is void there.                 *)
(***************************************************************************)
EXTENDS GlobalSymbols

VARIABLES emitted,  \* how many global variables are generated
          current,  \* the structures that are being laid out, the last one on top
          dones     \* the layouts that are known: what each field is

generated == <<emitted, current, dones>>

\* Mutant: a structure stays current when it is laid out.
StaysInside(n) == (\E i \in DOMAIN current : current[i].name = n) \/ dones[n] # <<>>

Inside(n) == \E i \in DOMAIN current : current[i].name = n

Opened == current[Len(current)]
Remains(f) == Len(f.tags) < Len(fields[f.name])
TheField(f) == fields[f.name][Len(f.tags) + 1]

IsStruct(t) == t.base \in Names /\ Kind(t.base) = "struct"
Unknowable(t) == IsStruct(t) /\ Inside(t.base)
Laid(t)    == IsStruct(t) => (Inside(t.base) \/ dones[t.base] # <<>>)

\* What a field is: a pointer, maybe to void, or all of its type, maybe void.
Tag(t) ==
    IF t.ptr THEN (IF Unknowable(t) THEN "opaque" ELSE "pointer")
    ELSE IF Unknowable(t) THEN "void" ELSE "whole"

-----------------------------------------------------------------------------
Generating == Running /\ stack = <<>> /\ answer = Empty /\ ModuleEnded /\ ~thrown
Declaring  == Generating /\ current = <<>> /\ emitted < Len(list)
LayingOut  == Generating /\ current # <<>>

TheVar == list[emitted + 1]

TypeInit == Init /\ emitted = 0 /\ current = <<>> /\ dones = [n \in Names |-> <<>>]

\* A structure whose validation has failed has no field to read.
LayOut(n) ==
    /\ IF gen[n].is = "struct"
       THEN current' = Append(current, [name |-> n, tags |-> <<>>]) /\ UNCHANGED outcome
       ELSE outcome' = "crashed" /\ UNCHANGED current
    /\ UNCHANGED <<prog, gen, fields, list, names, stack, answer, thrown, done, emitted, dones>>

LayOutVar   == Declaring /\ ~Laid(TheVar.type) /\ LayOut(TheVar.type.base)
LayOutField == LayingOut /\ Remains(Opened) /\ ~Laid(TheField(Opened))
                         /\ LayOut(TheField(Opened).base)

GenerateVar ==
    /\ Declaring /\ Laid(TheVar.type)
    /\ emitted' = emitted + 1
    /\ UNCHANGED <<vars, current, dones>>

GenerateField ==
    /\ LayingOut /\ Remains(Opened) /\ Laid(TheField(Opened))
    /\ current' = [current EXCEPT ![Len(current)].tags = Append(@, Tag(TheField(Opened)))]
    /\ UNCHANGED <<vars, emitted, dones>>

\* One byte stands for no field; void has no size to add.
Padded(tags) == IF tags = <<>> THEN <<"whole">> ELSE tags
HasSize(tags) == \A i \in DOMAIN tags : tags[i] # "void"

EndType ==
    /\ LayingOut /\ ~Remains(Opened) /\ HasSize(Opened.tags)
    /\ dones' = [dones EXCEPT ![Opened.name] = Padded(Opened.tags)]
    /\ current' = SubSeq(current, 1, Len(current) - 1)
    /\ UNCHANGED <<vars, emitted>>

EndVoid ==
    /\ LayingOut /\ ~Remains(Opened) /\ ~HasSize(Opened.tags)
    /\ outcome' = "crashed"
    /\ UNCHANGED <<prog, gen, fields, list, names, stack, answer, thrown, done, generated>>

-----------------------------------------------------------------------------
Over ==
    \/ ~Running
    \/ stack = <<>> /\ answer = Empty /\ ModuleEnded /\ thrown
    \/ Generating /\ current = <<>> /\ emitted = Len(list)

Stop == Over /\ UNCHANGED <<vars, generated>>

Validates == Next /\ UNCHANGED generated

TypeNext ==
    \/ Validates
    \/ LayOutVar \/ LayOutField \/ GenerateVar \/ GenerateField \/ EndType \/ EndVoid
    \/ Stop

TypeSpec == TypeInit /\ [][TypeNext]_<<vars, generated>>
=============================================================================
