-------------------------------- MODULE Vtable --------------------------------
(***************************************************************************)
(* The virtual table of a class: what a class inherits, what the traits it *)
(* implements add, what its own methods and the ones of its impl blocks    *)
(* override, and when the class is refused (ClassVisitor.cc).              *)
(*                                                                         *)
(* The classes are those of one line of descent: the last one validated is *)
(* the ancestor of the next one, and one that is refused has no child.  A  *)
(* signature is a name, the types of the parameters and of the result, and *)
(* whether self is mutable.                                                *)
(***************************************************************************)
EXTENDS Sequences, Integers

CONSTANTS Signatures, Exceptions, TraitNames,
          Traits,       \* of a trait, its methods in order
          Declarations, \* the classes that may be declared
          NoTrait, NoMethod,
          MaxDepth      \* bound: the classes of the line of descent

Protections == {"pub", "prot", "prv"}
Method == [sig : Signatures, prot : Protections, over : BOOLEAN, final : BOOLEAN,
           body : BOOLEAN, throws : SUBSET Exceptions]
Impl == [trait : TraitNames, methods : Seq(Method)]
Declaration == [abs : BOOLEAN, impls : Seq(Impl), methods : Seq(Method)]

ASSUME DepthAssumption == MaxDepth \in Nat
ASSUME TraitsAssumption == Traits \in [TraitNames -> Seq(Method)]
ASSUME NoTraitAssumption == NoTrait \notin TraitNames
ASSUME DeclarationsAssumption == Declarations \subseteq Declaration

VARIABLES
    chain,      \* the classes validated, each one the child of the one before
    decl,       \* the class that is being validated
    phase,      \* what of it is
    at, nth,    \* the impl (or method), and its method
    vtable,     \* its slots: [sig, trait, final, empty, throws, by]
    protection, \* of each slot; "parent" is PRV_PARENT
    added,      \* of each slot known before the methods, what the class adds to emit it
    base,       \* implVtable: the slots before the methods of the class
    implemented,\* the impls whose trait is validated
    errors,     \* of the class
    implErrors  \* of the trait of an impl

class == <<decl, phase, at, nth, vtable, protection, added, base, implemented, errors, implErrors>>
vars  == <<chain, class>>

Level == Len(chain) + 1
HasAncestor == chain # <<>>
Ancestor == chain[Len(chain)]
AncestorVtable == IF HasAncestor THEN Ancestor.vtable ELSE <<>>

Nothing == [method |-> NoMethod, trait |-> NoTrait]
Function(m, trait) == [method |-> m, trait |-> trait]

\* validateMethodProto
Proto(m, trait) ==
    [sig |-> m.sig, trait |-> trait, final |-> m.final, empty |-> ~m.body,
     throws |-> m.throws, by |-> [level |-> Level, function |-> Function(m, trait)]]

\* Mutant: a private method of the ancestor is one of the child.
StaysPrivate(p) == p

\* A private method stays in the table of the child, out of its reach.
Inherited(p) == IF p = "prv" THEN "parent" ELSE p

\* The first slot of a table with a signature.
IsSlotOf(table, sig, i) ==
    /\ i \in DOMAIN table
    /\ table[i].sig = sig
    /\ \A j \in 1 .. i - 1 : table[j].sig # sig
HasSlot(table, sig) == \E i \in DOMAIN table : table[i].sig = sig

-----------------------------------------------------------------------------
NoClass == [abs |-> FALSE, impls |-> <<>>, methods |-> <<>>]

Init ==
    /\ chain = <<>>
    /\ decl = NoClass /\ phase = "idle" /\ at = 1 /\ nth = 1
    /\ vtable = <<>> /\ protection = <<>> /\ added = <<>> /\ base = <<>>
    /\ implemented = {} /\ errors = {} /\ implErrors = {}

Declare ==
    /\ phase = "idle"
    /\ Len(chain) < MaxDepth
    /\ decl' \in Declarations
    /\ vtable' = AncestorVtable
    /\ protection' = IF HasAncestor
                     THEN [i \in DOMAIN Ancestor.protection |-> Inherited(Ancestor.protection[i])]
                     ELSE <<>>
    /\ added' = [i \in DOMAIN AncestorVtable |-> Nothing]
    /\ base' = <<>> /\ implemented' = {}
    /\ errors' = {} /\ implErrors' = {}
    /\ phase' = "traits" /\ at' = 1 /\ nth' = 1
    /\ UNCHANGED chain

-----------------------------------------------------------------------------
(* The traits: the methods of a trait, with the bodies it gives them, take *)
(* the slots that an ancestor got from a trait, or new ones.               *)

TraitOf(i) == decl.impls[i].trait

Put(i, m, trait) == vtable' = [vtable EXCEPT ![i] = Proto(m, trait)]
PushSlot(m, trait) ==
    /\ vtable' = Append(vtable, Proto(m, trait))
    /\ protection' = Append(protection, m.prot)

\* Mutant: the slot of the ancestor keeps the function that the ancestor emits.
KeepsAdded(i, f) == added' = added
Adds(i, f) == added' = [added EXCEPT ![i] = f]

TraitMethod ==
    LET trait == TraitOf(at)
        m == Traits[trait][nth]
    IN  /\ phase = "traits" /\ at <= Len(decl.impls) /\ nth <= Len(Traits[trait])
        /\ nth' = nth + 1
        /\ \/ \E i \in DOMAIN AncestorVtable :
                 /\ IsSlotOf(AncestorVtable, m.sig, i)
                 /\ \/ /\ AncestorVtable[i].trait = NoTrait
                       /\ implErrors' = implErrors \cup {"IMPLICIT_OVERRIDE_BY_TRAIT"}
                       /\ UNCHANGED <<vtable, protection, added>>
                    \/ /\ AncestorVtable[i].trait # NoTrait
                       /\ Put(i, m, trait)
                       /\ Adds(i, Function(m, trait))
                       /\ UNCHANGED <<protection, implErrors>>
           \/ /\ ~HasSlot(AncestorVtable, m.sig)
              /\ PushSlot(m, trait)
              /\ added' = Append(added, Function(m, trait))
              /\ UNCHANGED implErrors
        /\ UNCHANGED <<chain, decl, phase, at, base, implemented, errors>>

EndTrait ==
    /\ phase = "traits" /\ at <= Len(decl.impls) /\ nth > Len(Traits[TraitOf(at)])
    /\ implemented' = IF implErrors = {} THEN implemented \cup {at} ELSE implemented
    /\ errors' = errors \cup implErrors
    /\ implErrors' = {}
    /\ at' = at + 1 /\ nth' = 1
    /\ UNCHANGED <<chain, decl, phase, vtable, protection, added, base>>

EndTraits ==
    /\ phase = "traits" /\ at > Len(decl.impls)
    /\ base' = vtable
    /\ phase' = "methods" /\ at' = 1 /\ nth' = 1
    /\ UNCHANGED <<chain, decl, vtable, protection, added, implemented, errors, implErrors>>

-----------------------------------------------------------------------------
(* validateVtableMethod: a method against the slots of the base.           *)

\* Mutant: the exceptions of the methods are not compared.
RuleWithoutThrows(m, trait, i) ==
    IF ~m.over THEN "IMPLICIT_OVERRIDE"
    ELSE IF protection[i] # m.prot THEN "OVERRIDE_MISMATCH_PROTECTION"
    ELSE IF base[i].final THEN "CANNOT_OVERRIDE_FINAL"
    ELSE IF trait # base[i].trait THEN "WRONG_IMPLEMENT"
    ELSE "none"

\* The first rule that an override breaks.
BrokenRule(m, trait, i) ==
    LET slot == base[i] IN
    IF ~m.over THEN "IMPLICIT_OVERRIDE"
    ELSE IF protection[i] = "parent" THEN "OVERRIDE_PRIVATE"
    ELSE IF m.prot \in {"pub", "prot"} /\ protection[i] # m.prot
         THEN "OVERRIDE_MISMATCH_PROTECTION"
    ELSE IF m.prot = "prv" THEN "CANNOT_OVERRIDE_AS_PRIVATE"
    ELSE IF slot.final THEN "CANNOT_OVERRIDE_FINAL"
    ELSE IF trait = NoTrait /\ slot.trait # NoTrait THEN "CANNOT_OVERRIDE_TRAIT_OUTSIDE_IMPL"
    ELSE IF trait # NoTrait /\ slot.trait = NoTrait THEN "CANNOT_OVERRIDE_NON_TRAIT_IN_IMPL"
    ELSE IF trait # slot.trait THEN "WRONG_IMPLEMENT"
    ELSE IF ~(m.throws \subseteq slot.throws) THEN "RETHROW_NOT_MATCHING_PARENT"
    ELSE "none"

Overrides(m, trait, i) == IsSlotOf(base, m.sig, i) /\ BrokenRule(m, trait, i) = "none"

\* A method that has no slot in the base.
New(m) == ~HasSlot(base, m.sig)
BrokenNew(m) ==
    IF m.over THEN "NOT_OVERRIDE"
    ELSE IF \E i \in Len(base) + 1 .. Len(vtable) : vtable[i].sig = m.sig
    THEN "CONFLICTING_DECLARATIONS"
    ELSE "none"

\* The method is refused, and nothing changes.
MethodRefused(m, trait, e) ==
    /\ \/ \E i \in DOMAIN base : IsSlotOf(base, m.sig, i) /\ e = BrokenRule(m, trait, i)
       \/ New(m) /\ e = BrokenNew(m)
    /\ e # "none"
    /\ UNCHANGED <<vtable, protection>>

NoBody(m) == IF m.body THEN {} ELSE {"NO_BODY_METHOD"}

OwnMethod ==
    LET m == decl.methods[at]
        noBody == IF decl.abs THEN {} ELSE NoBody(m)
    IN  /\ phase = "methods" /\ at <= Len(decl.methods)
        /\ \/ \E i \in DOMAIN base : /\ Overrides(m, NoTrait, i)
                                     /\ Put(i, m, NoTrait)
                                     /\ errors' = errors \cup noBody
                                     /\ UNCHANGED protection
           \/ /\ New(m) /\ BrokenNew(m) = "none"
              /\ PushSlot(m, NoTrait)
              /\ errors' = errors \cup noBody
           \/ \E e \in {BrokenNew(m)} \cup {BrokenRule(m, NoTrait, i) : i \in DOMAIN base} :
                 MethodRefused(m, NoTrait, e) /\ errors' = errors \cup {e}
        /\ at' = at + 1
        /\ UNCHANGED <<chain, decl, phase, nth, added, base, implemented, implErrors>>

EndMethods ==
    /\ phase = "methods" /\ at > Len(decl.methods)
    /\ phase' = "impls" /\ at' = 1 /\ nth' = 1
    /\ UNCHANGED <<chain, decl, vtable, protection, added, base, implemented, errors, implErrors>>

-----------------------------------------------------------------------------
(* The impls whose trait is validated: an error ends one.                  *)

ImplDone(i) == i \notin implemented \/ nth > Len(decl.impls[i].methods)

LeaveImpl(es) == errors' = errors \cup es /\ at' = at + 1 /\ nth' = 1
NextOfImpl    == nth' = nth + 1 /\ UNCHANGED <<at, errors>>

ImplMethod ==
    LET m == decl.impls[at].methods[nth]
        trait == TraitOf(at)
    IN  /\ phase = "impls" /\ at <= Len(decl.impls) /\ ~ImplDone(at)
        /\ \/ \E i \in DOMAIN base :
                 /\ Overrides(m, trait, i)
                 /\ Put(i, m, trait)
                 /\ UNCHANGED protection
                 /\ IF m.body THEN Adds(i, Function(m, trait)) /\ NextOfImpl
                    ELSE LeaveImpl(NoBody(m)) /\ UNCHANGED added
           \/ /\ New(m) /\ BrokenNew(m) = "none"
              /\ PushSlot(m, trait)
              /\ LeaveImpl(IF m.body THEN {"TRAIT_NO_METHOD"} ELSE NoBody(m))
              /\ UNCHANGED added
           \/ \E e \in {BrokenNew(m)} \cup {BrokenRule(m, trait, i) : i \in DOMAIN base} :
                 MethodRefused(m, trait, e) /\ LeaveImpl({e}) /\ UNCHANGED added
        /\ UNCHANGED <<chain, decl, phase, base, implemented, implErrors>>

EndImpl ==
    /\ phase = "impls" /\ at <= Len(decl.impls) /\ ImplDone(at)
    /\ LeaveImpl({})
    /\ UNCHANGED <<chain, decl, phase, vtable, protection, added, base, implemented, implErrors>>

-----------------------------------------------------------------------------
(* The class is refused, or its table is set and its functions emitted.    *)

Collision == \E i, j \in DOMAIN vtable : i # j /\ vtable[i].sig = vtable[j].sig
Incomplete == ~decl.abs /\ \E i \in DOMAIN vtable : vtable[i].empty

Valid == errors = {} /\ ~Collision /\ ~Incomplete

\* validateInnerClass: the methods of the class, and the added ones.
Emitted ==
    LET own   == {Function(decl.methods[i], NoTrait) : i \in DOMAIN decl.methods}
        taken == {added[i] : i \in DOMAIN added} \ {Nothing}
    IN  {f \in own \cup taken : f.method.body}

EndClass ==
    /\ phase = "impls" /\ at > Len(decl.impls)
    /\ chain' = IF Valid
                THEN Append(chain, [decl |-> decl, vtable |-> vtable,
                                    protection |-> protection, emitted |-> Emitted])
                ELSE chain
    /\ decl' = NoClass /\ phase' = "idle" /\ at' = 1 /\ nth' = 1
    /\ vtable' = <<>> /\ protection' = <<>> /\ added' = <<>> /\ base' = <<>>
    /\ implemented' = {} /\ errors' = {} /\ implErrors' = {}

Next ==
    \/ Declare \/ TraitMethod \/ EndTrait \/ EndTraits
    \/ OwnMethod \/ EndMethods \/ ImplMethod \/ EndImpl \/ EndClass

Spec == Init /\ [][Next]_vars

-----------------------------------------------------------------------------
(* Properties                                                              *)

\* A call through the table reads a slot by its index in the table of the static
\* class: in the table of every descendant that index has the same signature, and a
\* protection that differs only in that what was private is out of reach
\* (ClassVisitor.cc:304-316, DotVisitor.cc:294-298).
LayoutIsKept ==
    \A k, n \in DOMAIN chain : k < n =>
        \A i \in DOMAIN chain[k].vtable :
            /\ i \in DOMAIN chain[n].vtable
            /\ chain[n].vtable[i].sig = chain[k].vtable[i].sig
            /\ \/ /\ chain[k].protection[i] \in {"pub", "prot", "parent"}
                  /\ chain[n].protection[i] = chain[k].protection[i]
               \/ chain[k].protection[i] = "prv" /\ chain[n].protection[i] = "parent"

\* The method m may take the place of another one: a slot, or a method of a trait.
AllowedOver(old, protected, m) ==
    /\ m.over
    /\ ~old.final
    /\ m.prot = protected /\ protected \in {"pub", "prot"}
    /\ m.throws \subseteq old.throws

\* The class implements the trait of the slot, which holds the method of the trait, or
\* an override of it.
Retaken(d, slot, protected) ==
    \E i \in DOMAIN d.impls, j \in DOMAIN Traits[slot.trait] :
        LET t == Traits[slot.trait][j]
            m == slot.by.function.method
        IN  /\ d.impls[i].trait = slot.trait
            /\ t.sig = slot.sig
            /\ m = t \/ AllowedOver(t, protected, m)

\* A function that takes a slot of an ancestor is an override of a method that may be
\* overridden, with its protection and no exception that it does not throw; or a trait
\* gave the slot and the class implements one again, whose own method takes it, or an
\* override of that one under the same rules (ClassVisitor.cc:336-405, 503-574).
OverridesAreAllowed ==
    \A n \in DOMAIN chain : n > 1 =>
        \A i \in DOMAIN chain[n - 1].vtable :
            LET old == chain[n - 1].vtable[i]
                new == chain[n].vtable[i]
                protected == chain[n - 1].protection[i]
            IN  \/ new = old
                \/ AllowedOver(old, protected, new.by.function.method)
                \/ old.trait # NoTrait /\ Retaken(chain[n].decl, new, protected)

Distinct(methods) == \A i, j \in DOMAIN methods : methods[i].sig = methods[j].sig => i = j
Holds(n, m, trait) ==
    \E i \in DOMAIN chain[n].vtable :
        chain[n].vtable[i].by = [level |-> n, function |-> Function(m, trait)]

\* Every function that a table holds is emitted by the class that put it there, and the
\* table of a class that may be instantiated has no empty slot; a method of a class, or of
\* its impl, is the one that its table holds, unless the same list declares it twice
\* (ClassVisitor.cc:336-405, 646-689; generator/Visitor.cc:481-487).
DispatchIsComplete ==
    \A n \in DOMAIN chain :
        LET d == chain[n].decl
        IN  /\ \A i \in DOMAIN chain[n].vtable :
                LET slot == chain[n].vtable[i]
                IN  /\ slot.empty => d.abs
                    /\ ~slot.empty => slot.by.function \in chain[slot.by.level].emitted
            /\ Distinct(d.methods) =>
                  \A i \in DOMAIN d.methods : Holds(n, d.methods[i], NoTrait)
            /\ Len(d.impls) = 1 /\ Distinct(d.impls[1].methods) =>
                  \A i \in DOMAIN d.impls[1].methods :
                      Holds(n, d.impls[1].methods[i], d.impls[1].trait)

=============================================================================
