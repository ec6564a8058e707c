---------------------------- MODULE Vtable_proofs -----------------------------
(***************************************************************************)
(* What the table of a class keeps of the one of its ancestor, what may    *)
(* take a slot of it, and that what it holds is emitted, for every set of  *)
(* traits, every line of classes and every order of their methods.         *)
(*                                                                         *)
(* Each of the three theorems has its invariant, about the class that is   *)
(* being validated:                                                        *)
(*   IInv  its table already keeps the one of the ancestor, and the slots  *)
(*         that were there before its methods, against which a method is   *)
(*         compared (base), are still where they were in the table that    *)
(*         the method is put in;                                           *)
(*   FInv  the traits only took slots that the ancestor got from a trait;  *)
(*   DInv  the slots that the class has taken hold functions that it will  *)
(*         emit, and a method that was put in a slot stays in it.          *)
(***************************************************************************)
EXTENDS Vtable, TLAPS

Slot == [sig : Signatures, trait : TraitNames \cup {NoTrait}, final : BOOLEAN,
         empty : BOOLEAN, throws : SUBSET Exceptions,
         by : [level : Nat, function : [method : Method, trait : TraitNames \cup {NoTrait}]]]

\* A table and the protections of its slots.
Table(t, p) == t \in Seq(Slot) /\ p \in Seq(Protections \cup {"parent"}) /\ Len(p) = Len(t)

SameSigs(old, new) ==
    \A i \in DOMAIN old : i \in DOMAIN new /\ new[i].sig = old[i].sig

\* The table of a descendant, seen from an ancestor.
Keeps(old, oldp, new, newp) ==
    /\ SameSigs(old, new)
    /\ \A i \in DOMAIN old : newp[i] = Inherited(oldp[i])

ChainTables ==
    /\ \E S : chain \in Seq(S)
    /\ \A k \in DOMAIN chain : Table(chain[k].vtable, chain[k].protection)

ChainKeeps ==
    \A k, n \in DOMAIN chain : k < n =>
        Keeps(chain[k].vtable, chain[k].protection, chain[n].vtable, chain[n].protection)

Phases == {"idle", "traits", "methods", "impls"}

Current ==
    /\ decl \in Declaration
    /\ phase \in Phases
    /\ at \in Nat \ {0} /\ nth \in Nat \ {0}
    /\ Table(vtable, protection)
    /\ base \in Seq(Slot)

KeepsAncestor ==
    phase # "idle" /\ HasAncestor =>
        Keeps(Ancestor.vtable, Ancestor.protection, vtable, protection)

KeepsBase == phase \in {"methods", "impls"} => SameSigs(base, vtable)

IInv == ChainTables /\ ChainKeeps /\ Current /\ KeepsAncestor /\ KeepsBase

-----------------------------------------------------------------------------
(* Tables *)

LEMMA ProtoIsSlot ==
    ASSUME NEW m \in Method, NEW trait \in TraitNames \cup {NoTrait}, ChainTables
    PROVE  Proto(m, trait) \in Slot /\ Proto(m, trait).sig = m.sig
<1>1. Level \in Nat
    BY DEF ChainTables, Level
<1> QED
    BY <1>1 DEF Proto, Slot, Method, Function

LEMMA MethodOf ==
    ASSUME NEW ms \in Seq(Method), NEW i \in Nat \ {0}, i <= Len(ms)
    PROVE  ms[i] \in Method /\ ms[i].prot \in Protections /\ ms[i].sig \in Signatures
<1>1. ms[i] \in Method
    OBVIOUS
<1> QED
    BY <1>1 DEF Method

LEMMA ImplOf ==
    ASSUME NEW d \in Declaration, NEW i \in Nat \ {0}, i <= Len(d.impls)
    PROVE  /\ d.impls[i].trait \in TraitNames
           /\ d.impls[i].methods \in Seq(Method)
           /\ Traits[d.impls[i].trait] \in Seq(Method)
<1>1. d.impls \in Seq(Impl)
    BY DEF Declaration
<1>2. d.impls[i] \in Impl
    BY <1>1
<1> QED
    BY <1>2, TraitsAssumption DEF Impl

\* A function of the same signature takes a slot.
LEMMA PutKeepsSigs ==
    ASSUME NEW t, NEW p, Table(t, p), NEW i \in DOMAIN t, NEW s \in Slot, s.sig = t[i].sig
    PROVE  /\ Table([t EXCEPT ![i] = s], p)
           /\ SameSigs(t, [t EXCEPT ![i] = s])
           /\ DOMAIN [t EXCEPT ![i] = s] = DOMAIN t
BY DEF Table, SameSigs

LEMMA PushKeepsSigs ==
    ASSUME NEW t, NEW p, Table(t, p), NEW s \in Slot, NEW q \in Protections
    PROVE  /\ Table(Append(t, s), Append(p, q))
           /\ SameSigs(t, Append(t, s))
           /\ \A i \in DOMAIN t : Append(p, q)[i] = p[i]
BY DEF Table, SameSigs

LEMMA SigsTransitive ==
    ASSUME NEW a, NEW b, NEW c, SameSigs(a, b), SameSigs(b, c)
    PROVE  SameSigs(a, c)
BY DEF SameSigs

LEMMA KeepsTransitive ==
    ASSUME NEW a, NEW p, NEW b, NEW q, NEW c, NEW r,
           Keeps(a, p, b, q), Keeps(b, q, c, r)
    PROVE  Keeps(a, p, c, r)
BY DEF Keeps, SameSigs, Inherited

\* What keeps the slots of a table, and their protections, keeps what it kept.
LEMMA KeepsContinues ==
    ASSUME NEW a, NEW p, NEW b, NEW q, NEW c, NEW r,
           Keeps(a, p, b, q), SameSigs(b, c), \A i \in DOMAIN b : r[i] = q[i]
    PROVE  Keeps(a, p, c, r)
BY DEF Keeps, SameSigs

-----------------------------------------------------------------------------
(* A step that leaves the classes that are validated, and either leaves    *)
(* the table, or puts a function in a slot or at its end.                  *)

Grows == SameSigs(vtable, vtable') /\ \A i \in DOMAIN vtable : protection'[i] = protection[i]

LEMMA Unchanged ==
    ASSUME UNCHANGED <<vtable, protection>>, Table(vtable, protection)
    PROVE  Grows /\ Table(vtable', protection')
BY DEF Grows, SameSigs

LEMMA PutGrows ==
    ASSUME NEW m \in Method, NEW trait \in TraitNames \cup {NoTrait}, NEW i \in DOMAIN vtable,
           ChainTables, Table(vtable, protection), vtable[i].sig = m.sig,
           Put(i, m, trait), UNCHANGED protection
    PROVE  Grows /\ Table(vtable', protection')
<1> DEFINE s == Proto(m, trait)
<1>1. s \in Slot /\ s.sig = vtable[i].sig
    BY ProtoIsSlot
<1>2. vtable' = [vtable EXCEPT ![i] = s]
    BY DEF Put
<1> HIDE DEF s
<1> QED
    BY <1>1, <1>2, PutKeepsSigs DEF Grows

LEMMA PushGrows ==
    ASSUME NEW m \in Method, NEW trait \in TraitNames \cup {NoTrait},
           ChainTables, Table(vtable, protection), PushSlot(m, trait)
    PROVE  Grows /\ Table(vtable', protection')
<1> DEFINE s == Proto(m, trait)
<1>1. s \in Slot /\ m.prot \in Protections
    BY ProtoIsSlot DEF Method
<1>2. vtable' = Append(vtable, s) /\ protection' = Append(protection, m.prot)
    BY DEF PushSlot
<1> HIDE DEF s
<1> QED
    BY <1>1, <1>2, PushKeepsSigs DEF Grows

LEMMA GrowingKeeps ==
    ASSUME IInv, UNCHANGED <<chain, decl, base>>, phase # "idle",
           Grows, Table(vtable', protection'),
           phase' = phase, at' \in Nat \ {0}, nth' \in Nat \ {0}
    PROVE  IInv'
<1>1. ChainTables' /\ ChainKeeps'
    BY DEF IInv, ChainTables, ChainKeeps
<1>2. Current'
    BY DEF IInv, Current
<1>3. KeepsAncestor'
    BY KeepsContinues DEF IInv, KeepsAncestor, HasAncestor, Ancestor, Grows
<1>4. KeepsBase'
    BY SigsTransitive DEF IInv, KeepsBase, Grows
<1> QED
    BY <1>1, <1>2, <1>3, <1>4 DEF IInv

-----------------------------------------------------------------------------
LEMMA InitHolds == Init => IInv
BY DEF Init, IInv, ChainTables, ChainKeeps, Current, KeepsAncestor, KeepsBase, HasAncestor,
       NoClass, Declaration, Table, Phases

LEMMA DeclareHolds == IInv /\ Declare => IInv'
<1> SUFFICES ASSUME IInv, Declare PROVE IInv'
    OBVIOUS
<1>1. chain' = chain /\ ChainTables' /\ ChainKeeps'
    BY DEF IInv, Declare, ChainTables, ChainKeeps
<1>2. CASE HasAncestor
    <2>1. Table(Ancestor.vtable, Ancestor.protection)
        BY <1>2 DEF IInv, ChainTables, HasAncestor, Ancestor
    <2>2. vtable' = Ancestor.vtable
        BY <1>2 DEF Declare, AncestorVtable
    <2>3. /\ DOMAIN protection' = DOMAIN Ancestor.protection
          /\ \A i \in DOMAIN Ancestor.protection :
                protection'[i] = Inherited(Ancestor.protection[i])
          /\ protection' \in Seq(Protections \cup {"parent"})
          /\ Len(protection') = Len(Ancestor.protection)
        <3> DEFINE p == Ancestor.protection
        <3>1. p \in Seq(Protections \cup {"parent"})
            BY <2>1 DEF Table
        <3>2. protection' = [i \in DOMAIN p |-> Inherited(p[i])]
            BY <1>2 DEF Declare
        <3>3. \A q \in Protections \cup {"parent"} : Inherited(q) \in Protections \cup {"parent"}
            BY DEF Inherited
        <3> HIDE DEF p
        <3>4. DOMAIN p = 1 .. Len(p) /\ Len(p) \in Nat
              /\ \A i \in DOMAIN p : p[i] \in Protections \cup {"parent"}
            BY <3>1
        <3>5. protection' \in Seq(Protections \cup {"parent"}) /\ Len(protection') = Len(p)
            BY <3>2, <3>3, <3>4
        <3>6. DOMAIN protection' = DOMAIN p /\ \A i \in DOMAIN p : protection'[i] = Inherited(p[i])
            BY <3>2
        <3> QED
            BY <3>5, <3>6 DEF p
    <2>4. Table(vtable', protection')
        BY <2>1, <2>2, <2>3 DEF Table
    <2>5. Keeps(Ancestor.vtable, Ancestor.protection, vtable', protection')
        BY <2>1, <2>2, <2>3 DEF Keeps, SameSigs, Table
    <2>6. KeepsAncestor'
        BY <1>1, <2>5 DEF KeepsAncestor, Ancestor
    <2> QED
        BY <1>1, <2>4, <2>6, DeclarationsAssumption
        DEF IInv, Declare, Current, KeepsBase, Phases
<1>3. CASE ~HasAncestor
    <2>1. vtable' = <<>> /\ protection' = <<>>
        BY <1>3 DEF Declare, AncestorVtable
    <2>2. Table(vtable', protection')
        BY <2>1 DEF Table
    <2>3. KeepsAncestor'
        BY <1>1, <1>3 DEF KeepsAncestor, HasAncestor
    <2> QED
        BY <1>1, <2>2, <2>3, DeclarationsAssumption
        DEF IInv, Declare, Current, KeepsBase, Phases
<1> QED
    BY <1>2, <1>3

LEMMA TraitMethodHolds == IInv /\ TraitMethod => IInv'
<1> SUFFICES ASSUME IInv, TraitMethod PROVE IInv'
    OBVIOUS
<1> DEFINE trait == TraitOf(at)
           m == Traits[trait][nth]
<1>1. /\ phase = "traits" /\ phase' = phase /\ UNCHANGED <<chain, decl, base>>
      /\ at' \in Nat \ {0} /\ nth' \in Nat \ {0}
    BY DEF TraitMethod, IInv, Current
<1>2. ChainTables /\ Table(vtable, protection)
    BY DEF IInv, Current
<1>3. trait \in TraitNames /\ m \in Method
    BY ImplOf, MethodOf DEF TraitMethod, IInv, Current, TraitOf
<1>4. \A i \in DOMAIN AncestorVtable : i \in DOMAIN vtable /\ vtable[i].sig = AncestorVtable[i].sig
    BY <1>1 DEF IInv, KeepsAncestor, Keeps, SameSigs, AncestorVtable
<1>5. Grows /\ Table(vtable', protection')
    <2>1. CASE UNCHANGED <<vtable, protection>>
        BY <2>1, <1>2, Unchanged
    <2>2. ASSUME NEW i \in DOMAIN AncestorVtable, IsSlotOf(AncestorVtable, m.sig, i),
                 Put(i, m, trait), UNCHANGED protection
          PROVE  Grows /\ Table(vtable', protection')
        <3>1. i \in DOMAIN vtable /\ vtable[i].sig = m.sig
            BY <1>4, <2>2 DEF IsSlotOf
        <3> HIDE DEF m, trait
        <3> QED
            BY <1>2, <1>3, <2>2, <3>1, PutGrows
    <2>3. CASE PushSlot(m, trait)
        <3> HIDE DEF m, trait
        <3> QED
            BY <1>2, <1>3, <2>3, PushGrows
    <2> QED
        BY <2>1, <2>2, <2>3 DEF TraitMethod
<1> QED
    BY <1>1, <1>5, GrowingKeeps

\* The override of a slot of the base is one of the same slot of the table.
LEMMA OverrideGrows ==
    ASSUME NEW m \in Method, NEW trait \in TraitNames \cup {NoTrait}, NEW i \in DOMAIN base,
           IInv, phase \in {"methods", "impls"},
           Overrides(m, trait, i), Put(i, m, trait), UNCHANGED protection
    PROVE  Grows /\ Table(vtable', protection')
<1>1. i \in DOMAIN vtable /\ vtable[i].sig = m.sig
    BY DEF IInv, KeepsBase, SameSigs, Overrides, IsSlotOf
<1> QED
    BY <1>1, PutGrows DEF IInv, Current

LEMMA OwnMethodHolds == IInv /\ OwnMethod => IInv'
<1> SUFFICES ASSUME IInv, OwnMethod PROVE IInv'
    OBVIOUS
<1> DEFINE m == decl.methods[at]
<1>1. /\ phase = "methods" /\ phase' = phase /\ UNCHANGED <<chain, decl, base>>
      /\ at' \in Nat \ {0} /\ nth' \in Nat \ {0}
    BY DEF OwnMethod, IInv, Current
<1>2. ChainTables /\ Table(vtable, protection)
    BY DEF IInv, Current
<1>3. m \in Method
    BY MethodOf DEF OwnMethod, IInv, Current, Declaration
<1>4. \/ \E i \in DOMAIN base : Overrides(m, NoTrait, i) /\ Put(i, m, NoTrait) /\ UNCHANGED protection
      \/ PushSlot(m, NoTrait)
      \/ UNCHANGED <<vtable, protection>>
    BY DEF OwnMethod, MethodRefused
<1>5. Grows /\ Table(vtable', protection')
    <2> HIDE DEF m
    <2>1. CASE UNCHANGED <<vtable, protection>>
        BY <2>1, <1>2, Unchanged
    <2>2. CASE PushSlot(m, NoTrait)
        BY <2>2, <1>2, <1>3, PushGrows
    <2>3. CASE \E i \in DOMAIN base : Overrides(m, NoTrait, i) /\ Put(i, m, NoTrait)
                                      /\ UNCHANGED protection
        BY <2>3, <1>1, <1>3, OverrideGrows
    <2> QED
        BY <1>4, <2>1, <2>2, <2>3
<1> QED
    BY <1>1, <1>5, GrowingKeeps

LEMMA ImplMethodHolds == IInv /\ ImplMethod => IInv'
<1> SUFFICES ASSUME IInv, ImplMethod PROVE IInv'
    OBVIOUS
<1> DEFINE trait == TraitOf(at)
           m == decl.impls[at].methods[nth]
<1>1. /\ phase = "impls" /\ phase' = phase /\ UNCHANGED <<chain, decl, base>>
      /\ at' \in Nat \ {0} /\ nth' \in Nat \ {0}
    BY DEF ImplMethod, LeaveImpl, NextOfImpl, IInv, Current
<1>2. ChainTables /\ Table(vtable, protection)
    BY DEF IInv, Current
<1>3. trait \in TraitNames /\ m \in Method
    <2>1. /\ decl \in Declaration /\ at \in Nat \ {0} /\ nth \in Nat \ {0}
          /\ at <= Len(decl.impls) /\ ~ImplDone(at)
        BY DEF ImplMethod, IInv, Current
    <2>2. trait \in TraitNames /\ decl.impls[at].methods \in Seq(Method)
        BY <2>1, ImplOf DEF TraitOf
    <2>3. nth <= Len(decl.impls[at].methods)
        BY <2>1, <2>2 DEF ImplDone
    <2> QED
        BY <2>1, <2>2, <2>3, MethodOf
<1>4. \/ \E i \in DOMAIN base : Overrides(m, trait, i) /\ Put(i, m, trait) /\ UNCHANGED protection
      \/ PushSlot(m, trait)
      \/ UNCHANGED <<vtable, protection>>
    BY DEF ImplMethod, MethodRefused
<1>5. Grows /\ Table(vtable', protection')
    <2> HIDE DEF m, trait
    <2>1. CASE UNCHANGED <<vtable, protection>>
        BY <2>1, <1>2, Unchanged
    <2>2. CASE PushSlot(m, trait)
        BY <2>2, <1>2, <1>3, PushGrows
    <2>3. CASE \E i \in DOMAIN base : Overrides(m, trait, i) /\ Put(i, m, trait)
                                      /\ UNCHANGED protection
        BY <2>3, <1>1, <1>3, OverrideGrows
    <2> QED
        BY <1>4, <2>1, <2>2, <2>3
<1> QED
    BY <1>1, <1>5, GrowingKeeps

\* From one list to the next, the table stays.
LEMMA NextListHolds == IInv /\ (EndTrait \/ EndTraits \/ EndMethods \/ EndImpl) => IInv'
<1> SUFFICES ASSUME IInv, EndTrait \/ EndTraits \/ EndMethods \/ EndImpl PROVE IInv'
    OBVIOUS
<1>1. UNCHANGED <<chain, decl, vtable, protection>>
    BY DEF EndTrait, EndTraits, EndMethods, EndImpl
<1>2. ChainTables' /\ ChainKeeps'
    BY <1>1 DEF IInv, ChainTables, ChainKeeps
<1>3. KeepsAncestor'
    BY <1>1 DEF IInv, KeepsAncestor, HasAncestor, Ancestor, EndTrait, EndTraits, EndMethods, EndImpl
<1>4. Table(vtable', protection') /\ vtable \in Seq(Slot)
    BY <1>1 DEF IInv, Current, Table
<1>5. Current'
    BY <1>1, <1>4 DEF IInv, Current, EndTrait, EndTraits, EndMethods, EndImpl, LeaveImpl, Phases
<1>6. KeepsBase'
    <2>1. CASE EndTraits
        BY <1>1, <2>1 DEF KeepsBase, EndTraits, SameSigs
    <2>2. CASE EndTrait \/ EndMethods \/ EndImpl
        BY <1>1, <2>2 DEF IInv, KeepsBase, EndTrait, EndMethods, EndImpl
    <2> QED
        BY <2>1, <2>2
<1> QED
    BY <1>2, <1>3, <1>5, <1>6 DEF IInv

LEMMA EndClassHolds == IInv /\ EndClass => IInv'
<1> SUFFICES ASSUME IInv, EndClass PROVE IInv'
    OBVIOUS
<1>1. Current' /\ KeepsAncestor' /\ KeepsBase'
    BY DEF EndClass, Current, KeepsAncestor, KeepsBase, NoClass, Declaration, Table, Phases
<1>2. CASE chain' = chain
    BY <1>1, <1>2 DEF IInv, ChainTables, ChainKeeps
<1>3. CASE chain' # chain
    <2> DEFINE c == [decl |-> decl, vtable |-> vtable, protection |-> protection,
                     emitted |-> Emitted]
    <2>1. chain' = Append(chain, c)
        BY <1>3 DEF EndClass
    <2>2. c.vtable = vtable /\ c.protection = protection
        OBVIOUS
    <2> HIDE DEF c
    <2>3. PICK S : chain \in Seq(S)
        BY DEF IInv, ChainTables
    <2>4. /\ chain' \in Seq(S \cup {c})
          /\ Len(chain) \in Nat /\ DOMAIN chain = 1 .. Len(chain)
          /\ DOMAIN chain' = 1 .. Len(chain) + 1
          /\ chain'[Len(chain) + 1] = c
          /\ \A k \in 1 .. Len(chain) : chain'[k] = chain[k]
        BY <2>1, <2>3
    <2>5. ChainTables'
        BY <2>2, <2>4 DEF IInv, ChainTables, Current
    <2>6. ASSUME NEW k \in 1 .. Len(chain)
          PROVE  Keeps(chain[k].vtable, chain[k].protection, vtable, protection)
        <3>1. Keeps(Ancestor.vtable, Ancestor.protection, vtable, protection)
            BY <2>3, <2>6 DEF IInv, KeepsAncestor, HasAncestor, EndClass
        <3>2. CASE k = Len(chain)
            BY <3>1, <3>2 DEF Ancestor
        <3>3. CASE k # Len(chain)
            <4>1. k < Len(chain) /\ Len(chain) \in DOMAIN chain /\ k \in DOMAIN chain
                BY <2>4, <3>3
            <4>2. Keeps(chain[k].vtable, chain[k].protection, Ancestor.vtable, Ancestor.protection)
                BY <4>1 DEF IInv, ChainKeeps, Ancestor
            <4> QED
                BY <3>1, <4>2, KeepsTransitive
        <3> QED
            BY <3>2, <3>3
    <2>7. ChainKeeps'
        <3> SUFFICES ASSUME NEW k \in DOMAIN chain', NEW n \in DOMAIN chain', k < n
                     PROVE  Keeps(chain'[k].vtable, chain'[k].protection,
                                  chain'[n].vtable, chain'[n].protection)
            BY DEF ChainKeeps
        <3>1. CASE n = Len(chain) + 1
            BY <2>2, <2>4, <2>6, <3>1
        <3>2. CASE n # Len(chain) + 1
            <4>1. k \in DOMAIN chain /\ n \in DOMAIN chain
                BY <2>4, <3>2
            <4>2. chain'[k] = chain[k] /\ chain'[n] = chain[n]
                BY <2>4, <4>1
            <4> QED
                BY <4>1, <4>2 DEF IInv, ChainKeeps
        <3> QED
            BY <3>1, <3>2
    <2> QED
        BY <1>1, <2>5, <2>7 DEF IInv
<1> QED
    BY <1>2, <1>3

-----------------------------------------------------------------------------
LEMMA IInvGivesLayout == IInv => LayoutIsKept
<1> SUFFICES ASSUME IInv, NEW k \in DOMAIN chain, NEW n \in DOMAIN chain, k < n,
                    NEW i \in DOMAIN chain[k].vtable
             PROVE  /\ i \in DOMAIN chain[n].vtable
                    /\ chain[n].vtable[i].sig = chain[k].vtable[i].sig
                    /\ \/ /\ chain[k].protection[i] \in {"pub", "prot", "parent"}
                          /\ chain[n].protection[i] = chain[k].protection[i]
                       \/ chain[k].protection[i] = "prv" /\ chain[n].protection[i] = "parent"
    BY DEF LayoutIsKept
<1>1. Keeps(chain[k].vtable, chain[k].protection, chain[n].vtable, chain[n].protection)
    BY DEF IInv, ChainKeeps
<1>2. chain[k].protection[i] \in Protections \cup {"parent"}
    BY DEF IInv, ChainTables, Table
<1> QED
    BY <1>1, <1>2 DEF Keeps, SameSigs, Inherited, Protections

LEMMA Inductive == IInv /\ [Next]_vars => IInv'
<1> SUFFICES ASSUME IInv, [Next]_vars PROVE IInv'
    OBVIOUS
<1>1. CASE Declare
    BY <1>1, DeclareHolds
<1>2. CASE TraitMethod
    BY <1>2, TraitMethodHolds
<1>3. CASE EndTrait \/ EndTraits \/ EndMethods \/ EndImpl
    BY <1>3, NextListHolds
<1>4. CASE OwnMethod
    BY <1>4, OwnMethodHolds
<1>5. CASE ImplMethod
    BY <1>5, ImplMethodHolds
<1>6. CASE EndClass
    BY <1>6, EndClassHolds
<1>7. CASE UNCHANGED vars
    BY <1>7 DEF vars, class, IInv, ChainTables, ChainKeeps, Current, KeepsAncestor, KeepsBase,
                HasAncestor, Ancestor
<1> QED
    BY <1>1, <1>2, <1>3, <1>4, <1>5, <1>6, <1>7 DEF Next

LEMMA Invariance == Spec => []IInv
BY InitHolds, Inductive, PTL DEF Spec

\* In every line of classes that are accepted, a slot keeps its index and its signature
\* in every descendant, and its protection but for a private one, which is out of the
\* reach of the descendants.
THEOREM SlotsNeverMove == Spec => []LayoutIsKept
BY Invariance, IInvGivesLayout, PTL

-----------------------------------------------------------------------------
(* The functions that take the slots of an ancestor.  A method is compared *)
(* with the slots of base, not with those of the ancestor: the traits have *)
(* already taken some of them.  The invariant says that they only took     *)
(* slots that the ancestor got from a trait, and that each of them is as   *)
(* the trait declares its method, so that a method that is compared with   *)
(* such a slot follows the rules of the method of the trait.               *)

HasTrait(d, trait) == \E i \in DOMAIN d.impls : d.impls[i].trait = trait

\* A slot as a trait of the class declares it.
GivenBy(d, slot) ==
    \E i \in DOMAIN d.impls, j \in DOMAIN Traits[slot.trait] :
        LET t == Traits[slot.trait][j]
        IN  /\ d.impls[i].trait = slot.trait
            /\ slot.by.function.method = t
            /\ slot.sig = t.sig /\ slot.final = t.final /\ slot.throws = t.throws

\* What the traits of a class make of a slot of the ancestor, and then its methods.
OfTraits(old, new, d) == new = old \/ (old.trait # NoTrait /\ GivenBy(d, new))
Follows(old, oldp, new, d) ==
    \/ new = old
    \/ AllowedOver(old, oldp, new.by.function.method)
    \/ old.trait # NoTrait /\ Retaken(d, new, oldp)

\* The method of the trait, or an override of it, in a slot that the trait gave.
LEMMA GivenIsRetaken ==
    ASSUME NEW d, NEW slot, NEW oldp, GivenBy(d, slot)
    PROVE  Retaken(d, slot, oldp)
BY DEF GivenBy, Retaken

LEMMA OverrideIsRetaken ==
    ASSUME NEW d, NEW slot, NEW new, NEW oldp, GivenBy(d, slot),
           new.trait = slot.trait, new.sig = slot.sig,
           AllowedOver(slot, oldp, new.by.function.method)
    PROVE  Retaken(d, new, oldp)
BY DEF GivenBy, Retaken, AllowedOver

Before == IF phase = "traits" THEN vtable ELSE base

FollowsAncestor ==
    phase # "idle" /\ HasAncestor =>
        \A i \in DOMAIN Ancestor.vtable :
            /\ Follows(Ancestor.vtable[i], Ancestor.protection[i], vtable[i], decl)
            /\ i \in DOMAIN Before /\ OfTraits(Ancestor.vtable[i], Before[i], decl)

FInv == OverridesAreAllowed /\ FollowsAncestor

\* What a step does to the table: nothing, or one slot, or one more.
Taken(i, m, trait) ==
    /\ i \in DOMAIN vtable /\ DOMAIN vtable' = DOMAIN vtable
    /\ vtable'[i] = Proto(m, trait)
    /\ \A j \in DOMAIN vtable : j # i => vtable'[j] = vtable[j]
Grown(m, trait) ==
    /\ DOMAIN vtable' = 1 .. Len(vtable) + 1 /\ DOMAIN vtable = 1 .. Len(vtable)
    /\ vtable'[Len(vtable) + 1] = Proto(m, trait)
    /\ \A j \in DOMAIN vtable : vtable'[j] = vtable[j]

LEMMA PutTakes ==
    ASSUME IInv, NEW m, NEW trait, NEW i \in DOMAIN vtable, Put(i, m, trait)
    PROVE  Taken(i, m, trait)
<1>1. PICK s : s = Proto(m, trait)
    OBVIOUS
<1>2. vtable \in Seq(Slot) /\ vtable' = [vtable EXCEPT ![i] = s]
    BY <1>1 DEF Put, IInv, Current, Table
<1>3. DOMAIN vtable' = DOMAIN vtable /\ vtable'[i] = s
      /\ \A j \in DOMAIN vtable : j # i => vtable'[j] = vtable[j]
    BY <1>2
<1> QED
    BY <1>1, <1>3 DEF Taken

LEMMA PushGrown ==
    ASSUME IInv, NEW m \in Method, NEW trait \in TraitNames \cup {NoTrait}, PushSlot(m, trait)
    PROVE  Grown(m, trait)
<1>1. PICK s : s = Proto(m, trait)
    OBVIOUS
<1>2. vtable \in Seq(Slot) /\ vtable' = Append(vtable, s) /\ s \in Slot
    BY <1>1, ProtoIsSlot DEF PushSlot, IInv, Current, Table
<1>3. /\ DOMAIN vtable' = 1 .. Len(vtable) + 1 /\ DOMAIN vtable = 1 .. Len(vtable)
      /\ vtable'[Len(vtable) + 1] = s
      /\ \A j \in DOMAIN vtable : vtable'[j] = vtable[j]
    BY <1>2
<1> QED
    BY <1>1, <1>3 DEF Grown

\* What a method of the class, or of an impl, does.
Changes(m, trait) ==
    \/ \E i \in DOMAIN base : Overrides(m, trait, i) /\ Taken(i, m, trait)
    \/ New(m) /\ BrokenNew(m) = "none" /\ Grown(m, trait)
    \/ vtable' = vtable

LEMMA OwnMethodChanges ==
    ASSUME IInv, OwnMethod
    PROVE  /\ decl.methods[at] \in Method /\ at \in DOMAIN decl.methods
           /\ Changes(decl.methods[at], NoTrait)
<1>1. PICK m : m = decl.methods[at]
    OBVIOUS
<1>2. m \in Method /\ at \in DOMAIN decl.methods
    BY <1>1, MethodOf DEF OwnMethod, IInv, Current, Declaration
<1>3. \/ \E i \in DOMAIN base : Overrides(m, NoTrait, i) /\ Put(i, m, NoTrait)
      \/ New(m) /\ BrokenNew(m) = "none" /\ PushSlot(m, NoTrait)
      \/ vtable' = vtable
    BY <1>1 DEF OwnMethod, MethodRefused
<1>4. ASSUME NEW i \in DOMAIN base, Put(i, m, NoTrait) PROVE Taken(i, m, NoTrait)
    <2>1. i \in DOMAIN vtable
        BY <1>4 DEF OwnMethod, IInv, KeepsBase, SameSigs
    <2> QED
        BY <1>4, <2>1, PutTakes
<1> QED
    BY <1>1, <1>2, <1>3, <1>4, PushGrown DEF Changes

LEMMA ImplMethodChanges ==
    ASSUME IInv, ImplMethod
    PROVE  /\ TraitOf(at) \in TraitNames /\ at \in DOMAIN decl.impls
           /\ decl.impls[at].methods[nth] \in Method
           /\ nth \in DOMAIN decl.impls[at].methods
           /\ Changes(decl.impls[at].methods[nth], TraitOf(at))
<1>1. PICK m : m = decl.impls[at].methods[nth]
    OBVIOUS
<1>2. PICK trait : trait = TraitOf(at)
    OBVIOUS
<1>3. /\ decl \in Declaration /\ at \in Nat \ {0} /\ nth \in Nat \ {0}
      /\ at <= Len(decl.impls) /\ ~ImplDone(at)
    BY DEF ImplMethod, IInv, Current
<1>4. trait \in TraitNames /\ decl.impls[at].methods \in Seq(Method)
    BY <1>2, <1>3, ImplOf DEF TraitOf
<1>5. nth <= Len(decl.impls[at].methods)
    BY <1>3, <1>4 DEF ImplDone
<1>6. m \in Method /\ nth \in DOMAIN decl.impls[at].methods
    BY <1>1, <1>3, <1>4, <1>5, MethodOf
<1>7. at \in DOMAIN decl.impls
    BY <1>3 DEF Declaration
<1>8. \/ \E i \in DOMAIN base : Overrides(m, trait, i) /\ Put(i, m, trait)
      \/ New(m) /\ BrokenNew(m) = "none" /\ PushSlot(m, trait)
      \/ vtable' = vtable
    BY <1>1, <1>2 DEF ImplMethod, MethodRefused
<1>9. ASSUME NEW i \in DOMAIN base, Put(i, m, trait) PROVE Taken(i, m, trait)
    <2>1. i \in DOMAIN vtable
        BY <1>9 DEF ImplMethod, IInv, KeepsBase, SameSigs
    <2> QED
        BY <1>9, <2>1, PutTakes
<1> QED
    BY <1>1, <1>2, <1>4, <1>6, <1>7, <1>8, <1>9, PushGrown DEF Changes

\* The rules that are not broken.
LEMMA RulesKept ==
    ASSUME NEW m \in Method, NEW trait, NEW i \in DOMAIN base, Overrides(m, trait, i)
    PROVE  /\ m.over /\ ~base[i].final /\ m.prot = protection[i] /\ protection[i] \in {"pub", "prot"}
           /\ m.throws \subseteq base[i].throws /\ trait = base[i].trait
           /\ base[i].sig = m.sig
BY DEF Overrides, BrokenRule, IsSlotOf, Method, Protections

LEMMA TraitMethodChanges ==
    ASSUME IInv, TraitMethod
    PROVE  LET trait == TraitOf(at)
               m == Traits[trait][nth]
           IN  /\ trait \in TraitNames /\ at \in DOMAIN decl.impls
               /\ m \in Method /\ HasTrait(decl, trait)
               /\ nth \in DOMAIN Traits[trait]
               /\ \/ /\ vtable' = vtable /\ added' = added
                     /\ implErrors' # {}
                  \/ \E i \in DOMAIN AncestorVtable :
                        /\ AncestorVtable[i].trait # NoTrait
                        /\ Taken(i, m, trait) /\ Adds(i, Function(m, trait))
                  \/ Grown(m, trait) /\ added' = Append(added, Function(m, trait))
<1> DEFINE trait == TraitOf(at)
           m == Traits[trait][nth]
<1>1. decl \in Declaration /\ at \in Nat \ {0} /\ nth \in Nat \ {0} /\ at <= Len(decl.impls)
    BY DEF TraitMethod, IInv, Current
<1>2. trait \in TraitNames /\ m \in Method /\ nth \in DOMAIN Traits[trait]
    BY <1>1, ImplOf, MethodOf DEF TraitMethod, TraitOf
<1>3. at \in DOMAIN decl.impls /\ HasTrait(decl, trait)
    BY <1>1 DEF Declaration, HasTrait, TraitOf
<1>4. \A i \in DOMAIN AncestorVtable : i \in DOMAIN vtable
    BY DEF IInv, KeepsAncestor, Keeps, SameSigs, AncestorVtable, TraitMethod
<1>5. \/ UNCHANGED <<vtable, added>> /\ implErrors' # {}
      \/ \E i \in DOMAIN AncestorVtable :
            /\ AncestorVtable[i].trait # NoTrait
            /\ Put(i, m, trait) /\ Adds(i, Function(m, trait))
      \/ PushSlot(m, trait) /\ added' = Append(added, Function(m, trait))
    BY DEF TraitMethod
<1> HIDE DEF trait, m
<1>6. ASSUME NEW i \in DOMAIN AncestorVtable, Put(i, m, trait) PROVE Taken(i, m, trait)
    BY <1>4, <1>6, PutTakes
<1>7. PushSlot(m, trait) => Grown(m, trait)
    BY <1>2, PushGrown
<1>8. \/ vtable' = vtable /\ added' = added /\ implErrors' # {}
      \/ \E i \in DOMAIN AncestorVtable :
            /\ AncestorVtable[i].trait # NoTrait
            /\ Taken(i, m, trait) /\ Adds(i, Function(m, trait))
      \/ Grown(m, trait) /\ added' = Append(added, Function(m, trait))
    BY <1>5, <1>6, <1>7
<1> QED
    BY <1>2, <1>3, <1>8 DEF trait, m

\* A step that leaves the lines of classes leaves what is said of them.
LEMMA SameAncestor ==
    ASSUME UNCHANGED chain
    PROVE  /\ HasAncestor' <=> HasAncestor
           /\ Ancestor' = Ancestor /\ AncestorVtable' = AncestorVtable
           /\ Level' = Level
BY DEF HasAncestor, Ancestor, AncestorVtable, Level

LEMMA TraitMethodFollows == IInv /\ FInv /\ TraitMethod => FInv'
<1> SUFFICES ASSUME IInv, FInv, TraitMethod PROVE FInv'
    OBVIOUS
<1> DEFINE trait == TraitOf(at)
           m == Traits[trait][nth]
<1>1. UNCHANGED <<chain, decl, phase, base>> /\ phase = "traits"
    BY DEF TraitMethod
<1>2. OverridesAreAllowed'
    BY <1>1 DEF FInv, OverridesAreAllowed
<1>3. SUFFICES ASSUME HasAncestor, NEW i \in DOMAIN Ancestor.vtable
               PROVE  i \in DOMAIN vtable' /\ OfTraits(Ancestor.vtable[i], vtable'[i], decl)
    BY <1>1, <1>2, <1>3, GivenIsRetaken, SameAncestor DEF FInv, FollowsAncestor, Follows, OfTraits, Before
<1>4. i \in DOMAIN vtable /\ OfTraits(Ancestor.vtable[i], vtable[i], decl)
    BY <1>1, <1>3 DEF FInv, FollowsAncestor, Before
<1>5. AncestorVtable = Ancestor.vtable
    BY <1>3 DEF AncestorVtable
<1>6. CASE vtable' = vtable
    BY <1>4, <1>6
<1>7. CASE Grown(m, trait)
    BY <1>4, <1>7 DEF Grown
<1>8. ASSUME NEW j \in DOMAIN AncestorVtable, AncestorVtable[j].trait # NoTrait, Taken(j, m, trait)
      PROVE  i \in DOMAIN vtable' /\ OfTraits(Ancestor.vtable[i], vtable'[i], decl)
    <2>1. HasTrait(decl, trait) /\ nth \in DOMAIN Traits[trait]
        BY TraitMethodChanges
    <2>2. PICK slot : slot = Proto(m, trait)
        OBVIOUS
    <2>3. GivenBy(decl, slot)
        <3>1. slot.trait = trait /\ slot.by.function.method = m
              /\ slot.sig = m.sig /\ slot.final = m.final /\ slot.throws = m.throws
            BY <2>2 DEF Proto, Function
        <3> QED
            BY <2>1, <3>1 DEF GivenBy, HasTrait
    <2> HIDE DEF m, trait
    <2>4. CASE i = j
        BY <2>2, <2>3, <2>4, <1>4, <1>5, <1>8 DEF Taken, OfTraits
    <2>5. CASE i # j
        BY <2>5, <1>4, <1>8 DEF Taken
    <2> QED
        BY <2>4, <2>5
<1> QED
    BY <1>6, <1>7, <1>8, TraitMethodChanges

\* A method that is put in the slot of base that it may override.
LEMMA ChangeFollows ==
    ASSUME IInv, FInv, phase \in {"methods", "impls"}, phase' = phase,
           UNCHANGED <<chain, decl, base>>,
           NEW m \in Method, NEW trait \in TraitNames \cup {NoTrait}, Changes(m, trait)
    PROVE  FInv'
<1>1. OverridesAreAllowed'
    BY DEF FInv, OverridesAreAllowed
<1>2. SUFFICES ASSUME HasAncestor, NEW i \in DOMAIN Ancestor.vtable
               PROVE  Follows(Ancestor.vtable[i], Ancestor.protection[i], vtable'[i], decl)
    BY <1>1, <1>2, SameAncestor DEF FInv, FollowsAncestor, Before
<1> DEFINE old == Ancestor.vtable[i]
           oldp == Ancestor.protection[i]
<1>3. Follows(old, oldp, vtable[i], decl) /\ i \in DOMAIN base /\ OfTraits(old, base[i], decl)
    BY <1>2 DEF FInv, FollowsAncestor, Before
<1>4. i \in DOMAIN vtable /\ protection[i] = Inherited(oldp)
    BY <1>2 DEF IInv, KeepsAncestor, Keeps, SameSigs
<1>5. CASE vtable' = vtable
    BY <1>3, <1>5
<1>6. CASE Grown(m, trait)
    BY <1>3, <1>4, <1>6 DEF Grown
<1>7. ASSUME NEW j \in DOMAIN base, Overrides(m, trait, j), Taken(j, m, trait)
      PROVE  Follows(old, oldp, vtable'[i], decl)
    <2>1. CASE i # j
        BY <2>1, <1>3, <1>4, <1>7 DEF Taken
    <2>2. CASE i = j
        <3>1. /\ vtable'[i].by.function.method = m
              /\ vtable'[i].trait = trait /\ vtable'[i].sig = m.sig
            <4>1. vtable'[i] = Proto(m, trait)
                BY <2>2, <1>7 DEF Taken
            <4>2. /\ Proto(m, trait).by.function.method = m
                  /\ Proto(m, trait).trait = trait /\ Proto(m, trait).sig = m.sig
                BY DEF Proto, Function
            <4> QED
                BY <4>1, <4>2
        <3>2. /\ m.over /\ ~base[i].final /\ m.prot = protection[i]
              /\ protection[i] \in {"pub", "prot"}
              /\ m.throws \subseteq base[i].throws /\ trait = base[i].trait
              /\ base[i].sig = m.sig
            BY <2>2, <1>7, RulesKept
        <3>3. AllowedOver(base[i], oldp, m)
            <4>1. oldp = protection[i]
                BY <1>4, <3>2 DEF Inherited
            <4> QED
                BY <3>2, <4>1 DEF AllowedOver
        <3>4. CASE base[i] = old
            BY <3>1, <3>3, <3>4 DEF Follows
        <3>5. CASE base[i] # old
            <4>1. old.trait # NoTrait /\ GivenBy(decl, base[i])
                BY <1>3, <3>5 DEF OfTraits
            <4>2. Retaken(decl, vtable'[i], oldp)
                BY <3>1, <3>2, <3>3, <4>1, OverrideIsRetaken
            <4> QED
                BY <4>1, <4>2 DEF Follows
        <3> QED
            BY <3>4, <3>5
    <2> QED
        BY <2>1, <2>2
<1> QED
    BY <1>5, <1>6, <1>7 DEF Changes

LEMMA DeclareFollows == IInv /\ FInv /\ Declare => FInv'
<1> SUFFICES ASSUME IInv, FInv, Declare PROVE FInv'
    OBVIOUS
<1>1. UNCHANGED chain /\ phase' = "traits"
    BY DEF Declare
<1>2. OverridesAreAllowed'
    BY <1>1 DEF FInv, OverridesAreAllowed
<1>3. HasAncestor => vtable' = Ancestor.vtable
    BY DEF Declare, AncestorVtable
<1> QED
    BY <1>1, <1>2, <1>3, SameAncestor DEF FInv, FollowsAncestor, Before, Follows, OfTraits

LEMMA NextListFollows == IInv /\ FInv /\ (EndTrait \/ EndTraits \/ EndMethods \/ EndImpl) => FInv'
<1> SUFFICES ASSUME IInv, FInv, EndTrait \/ EndTraits \/ EndMethods \/ EndImpl PROVE FInv'
    OBVIOUS
<1>1. UNCHANGED <<chain, decl, vtable>> /\ phase # "idle"
    BY DEF EndTrait, EndTraits, EndMethods, EndImpl
<1>2. OverridesAreAllowed'
    BY <1>1 DEF FInv, OverridesAreAllowed
<1>3. Before' = Before
    BY <1>1 DEF Before, EndTrait, EndTraits, EndMethods, EndImpl
<1> QED
    BY <1>1, <1>2, <1>3, SameAncestor DEF FInv, FollowsAncestor

LEMMA EndClassFollows == IInv /\ FInv /\ EndClass => FInv'
<1> SUFFICES ASSUME IInv, FInv, EndClass PROVE FInv'
    OBVIOUS
<1>1. FollowsAncestor' /\ phase # "idle"
    BY DEF FollowsAncestor, EndClass
<1>2. CASE chain' = chain
    BY <1>1, <1>2 DEF FInv, OverridesAreAllowed
<1>3. CASE chain' # chain
    <2>1. PICK c : /\ c.decl = decl /\ c.vtable = vtable
                   /\ chain' = Append(chain, c)
        BY <1>3 DEF EndClass
    <2>2. PICK S : chain \in Seq(S)
        BY DEF IInv, ChainTables
    <2>3. /\ Len(chain) \in Nat /\ DOMAIN chain = 1 .. Len(chain)
          /\ DOMAIN chain' = 1 .. Len(chain) + 1
          /\ chain'[Len(chain) + 1] = c
          /\ \A k \in 1 .. Len(chain) : chain'[k] = chain[k]
        <3>1. chain \in Seq(S \cup {c})
            BY <2>2
        <3> QED
            BY <2>1, <3>1
    <2>4. SUFFICES ASSUME NEW n \in DOMAIN chain', n > 1, NEW i \in DOMAIN chain'[n - 1].vtable
                   PROVE  Follows(chain'[n - 1].vtable[i], chain'[n - 1].protection[i],
                                  chain'[n].vtable[i], chain'[n].decl)
        BY <1>1 DEF FInv, OverridesAreAllowed, Follows
    <2>5. CASE n = Len(chain) + 1
        <3>1. HasAncestor /\ chain'[n - 1] = Ancestor
            BY <2>2, <2>3, <2>4, <2>5 DEF HasAncestor, Ancestor
        <3> QED
            BY <1>1, <2>1, <2>3, <2>4, <2>5, <3>1 DEF FInv, FollowsAncestor
    <2>6. CASE n # Len(chain) + 1
        <3>1. n \in DOMAIN chain /\ chain'[n] = chain[n] /\ chain'[n - 1] = chain[n - 1]
            BY <2>3, <2>4, <2>6
        <3> QED
            BY <2>4, <3>1 DEF FInv, OverridesAreAllowed, Follows
    <2> QED
        BY <2>5, <2>6
<1> QED
    BY <1>2, <1>3

LEMMA FollowsInductive == IInv /\ FInv /\ [Next]_vars => FInv'
<1> SUFFICES ASSUME IInv, FInv, [Next]_vars PROVE FInv'
    OBVIOUS
<1>1. CASE Declare
    BY <1>1, DeclareFollows
<1>2. CASE TraitMethod
    BY <1>2, TraitMethodFollows
<1>3. CASE EndTrait \/ EndTraits \/ EndMethods \/ EndImpl
    BY <1>3, NextListFollows
<1>4. CASE OwnMethod
    <2>1. phase = "methods" /\ phase' = phase /\ UNCHANGED <<chain, decl, base>>
        BY <1>4 DEF OwnMethod
    <2> QED
        BY <1>4, <2>1, OwnMethodChanges, ChangeFollows
<1>5. CASE ImplMethod
    <2>1. phase = "impls" /\ phase' = phase /\ UNCHANGED <<chain, decl, base>>
        BY <1>5 DEF ImplMethod
    <2> QED
        BY <1>5, <2>1, ImplMethodChanges, ChangeFollows
<1>6. CASE EndClass
    BY <1>6, EndClassFollows
<1>7. CASE UNCHANGED vars
    BY <1>7 DEF vars, class, FInv, OverridesAreAllowed, FollowsAncestor, HasAncestor,
                Ancestor, Before
<1> QED
    BY <1>1, <1>2, <1>3, <1>4, <1>5, <1>6, <1>7 DEF Next

\* In every line of classes that are accepted, a function that takes a slot of the
\* class above is an override that its method allows; or a trait gave the slot, the
\* class implements one again, and the function is the one that trait gives or an
\* override that it allows (validateVtableMethod, ClassVisitor.cc:503-574).
THEOREM OverridesKeepTheRules == Spec => []OverridesAreAllowed
<1>1. Init => FInv
    BY DEF Init, FInv, OverridesAreAllowed, FollowsAncestor
<1>2. Spec => []FInv
    BY Invariance, <1>1, FollowsInductive, PTL DEF Spec
<1> QED
    BY <1>2, PTL DEF FInv

-----------------------------------------------------------------------------
(* The functions of a table.  A class emits its own methods and the        *)
(* functions that added names.  The invariant says that, when nothing is   *)
(* refused, the slots that this class has taken hold functions of the one  *)
(* kind or of the other; and that a method that was put in a slot stays    *)
(* there: no other one of its list has its signature, and the methods of   *)
(* the impls only take slots of base that are of a trait.                  *)

Functions == [method : Method \cup {NoMethod}, trait : TraitNames \cup {NoTrait}]

AddedShape == phase # "idle" => added \in Seq(Functions) /\ Len(added) = Len(Before)

Own(d) == {Function(d.methods[j], NoTrait) : j \in DOMAIN d.methods}
IsAdded(i, f) == i \in DOMAIN added /\ added[i] = f /\ f.trait # NoTrait

SlotEmitted(i) ==
    LET slot == vtable[i]
        f == slot.by.function
    IN  \/ slot.by.level \in DOMAIN chain /\ (slot.empty \/ f \in chain[slot.by.level].emitted)
        \/ /\ slot.by.level = Level
           /\ slot.empty \/ f.method.body
           /\ errors # {} \/ slot.empty \/ f \in Own(decl) \/ IsAdded(i, f)

TableEmitted == phase # "idle" => \A i \in DOMAIN vtable : SlotEmitted(i)

ChainEmitted ==
    \A n \in DOMAIN chain : \A i \in DOMAIN chain[n].vtable :
        LET slot == chain[n].vtable[i]
        IN  /\ slot.by.level \in DOMAIN chain
            /\ slot.empty \/ slot.by.function \in chain[slot.by.level].emitted

HeldAt(i, m, trait) ==
    vtable[i].sig = m.sig /\ vtable[i].by = [level |-> Level, function |-> Function(m, trait)]

OwnHeld ==
    phase \in {"methods", "impls"} /\ errors = {} /\ Distinct(decl.methods) =>
        \A j \in DOMAIN decl.methods : (phase = "methods" => j < at) =>
            \E i \in DOMAIN vtable : /\ HeldAt(i, decl.methods[j], NoTrait)
                                     /\ i \in DOMAIN base => base[i].trait = NoTrait

ImplHeld ==
    phase = "impls" /\ errors = {} /\ Len(decl.impls) = 1 /\ Distinct(decl.impls[1].methods) =>
        \A j \in DOMAIN decl.impls[1].methods : (at = 1 => j < nth) =>
            \E i \in DOMAIN vtable : HeldAt(i, decl.impls[1].methods[j], decl.impls[1].trait)

Implemented ==
    phase # "idle" /\ errors = {} =>
        \A j \in DOMAIN decl.impls : (phase = "traits" => j < at) => j \in implemented

DInv ==
    /\ DispatchIsComplete /\ ChainEmitted
    /\ AddedShape /\ TableEmitted /\ OwnHeld /\ ImplHeld /\ Implemented

LEMMA NewSlot ==
    ASSUME NEW m \in Method, NEW trait \in TraitNames \cup {NoTrait}
    PROVE  /\ Proto(m, trait).by = [level |-> Level, function |-> Function(m, trait)]
           /\ Proto(m, trait).by.level = Level
           /\ Proto(m, trait).by.function = Function(m, trait)
           /\ Function(m, trait).method = m /\ Function(m, trait).trait = trait
           /\ Function(m, trait) \in Functions
           /\ Proto(m, trait).sig = m.sig
           /\ Proto(m, trait).empty \/ m.body
BY DEF Proto, Function, Functions, Method

\* A step that puts an error in the list leaves no trace of what it did.
LEMMA OwnMethodSucceeds ==
    ASSUME IInv, OwnMethod, errors' = {}
    PROVE  /\ errors = {}
           /\ \/ \E i \in DOMAIN base : /\ Overrides(decl.methods[at], NoTrait, i)
                                        /\ Taken(i, decl.methods[at], NoTrait)
              \/ New(decl.methods[at]) /\ Grown(decl.methods[at], NoTrait)
<1>1. PICK m : m = decl.methods[at]
    OBVIOUS
<1>2. errors = {} /\ m \in Method
    BY <1>1, OwnMethodChanges DEF OwnMethod
<1>3. \/ \E i \in DOMAIN base : Overrides(m, NoTrait, i) /\ Put(i, m, NoTrait)
      \/ New(m) /\ PushSlot(m, NoTrait)
    BY <1>1 DEF OwnMethod
<1>4. ASSUME NEW i \in DOMAIN base, Put(i, m, NoTrait) PROVE Taken(i, m, NoTrait)
    <2>1. i \in DOMAIN vtable
        BY <1>4 DEF OwnMethod, IInv, KeepsBase, SameSigs
    <2> QED
        BY <1>4, <2>1, PutTakes
<1> QED
    BY <1>1, <1>2, <1>3, <1>4, PushGrown

LEMMA ImplMethodSucceeds ==
    ASSUME IInv, ImplMethod, errors' = {}
    PROVE  /\ errors = {} /\ at' = at /\ nth' = nth + 1
           /\ \E i \in DOMAIN base :
                 /\ Overrides(decl.impls[at].methods[nth], TraitOf(at), i)
                 /\ Taken(i, decl.impls[at].methods[nth], TraitOf(at))
                 /\ Adds(i, Function(decl.impls[at].methods[nth], TraitOf(at)))
<1>1. PICK m : m = decl.impls[at].methods[nth]
    OBVIOUS
<1>2. PICK trait : trait = TraitOf(at)
    OBVIOUS
<1>3. \E i \in DOMAIN base :
         /\ Overrides(m, trait, i)
         /\ Put(i, m, trait)
         /\ Adds(i, Function(m, trait)) /\ NextOfImpl
    BY <1>1, <1>2 DEF ImplMethod, LeaveImpl, NoBody
<1>4. ASSUME NEW i \in DOMAIN base, Put(i, m, trait) PROVE Taken(i, m, trait)
    <2>1. i \in DOMAIN vtable
        BY <1>4 DEF ImplMethod, IInv, KeepsBase, SameSigs
    <2> QED
        BY <1>4, <2>1, PutTakes
<1>5. errors = {} /\ at' = at /\ nth' = nth + 1
    BY <1>3 DEF NextOfImpl
<1> QED
    BY <1>1, <1>2, <1>3, <1>4, <1>5

-----------------------------------------------------------------------------
\* Before the methods of the class, every slot of the table has its place in added.
LEMMA AddedKept == IInv /\ AddedShape /\ [Next]_vars => AddedShape'
<1> SUFFICES ASSUME IInv, AddedShape, [Next]_vars PROVE AddedShape'
    OBVIOUS
<1>1. CASE Declare
    <2>1. AncestorVtable \in Seq(Slot)
        BY DEF IInv, ChainTables, Table, AncestorVtable, HasAncestor, Ancestor
    <2>2. Nothing \in Functions
        BY DEF Nothing, Functions
    <2>3. added' = [i \in DOMAIN AncestorVtable |-> Nothing]
          /\ vtable' = AncestorVtable /\ phase' = "traits"
        BY <1>1 DEF Declare
    <2>4. added' \in Seq(Functions) /\ Len(added') = Len(AncestorVtable)
        BY <2>1, <2>2, <2>3
    <2> QED
        BY <2>3, <2>4 DEF AddedShape, Before
<1>2. CASE TraitMethod
    <2> DEFINE trait == TraitOf(at)
               m == Traits[trait][nth]
               f == Function(m, trait)
    <2>1. phase = "traits" /\ phase' = "traits"
        BY <1>2 DEF TraitMethod
    <2>2. added \in Seq(Functions) /\ Len(added) = Len(vtable) /\ vtable \in Seq(Slot)
        BY <2>1 DEF AddedShape, Before, IInv, Current, Table
    <2>3. vtable' \in Seq(Slot)
        BY <1>2, TraitMethodHolds DEF IInv, Current, Table
    <2>4. f \in Functions
        BY <1>2, TraitMethodChanges, NewSlot
    <2>5. \/ vtable' = vtable /\ added' = added
          \/ \E i : Taken(i, m, trait) /\ Adds(i, f)
          \/ Grown(m, trait) /\ added' = Append(added, f)
        BY <1>2, TraitMethodChanges
    <2> HIDE DEF f, m, trait
    <2>6. CASE vtable' = vtable /\ added' = added
        BY <2>1, <2>2, <2>6 DEF AddedShape, Before
    <2>7. ASSUME NEW i, Taken(i, m, trait), Adds(i, f) PROVE AddedShape'
        <3>1. Len(vtable') = Len(vtable)
            BY <2>2, <2>3, <2>7 DEF Taken
        <3>2. i \in DOMAIN added /\ added' = [added EXCEPT ![i] = f]
            BY <2>2, <2>7 DEF Adds, Taken
        <3>3. added' \in Seq(Functions) /\ Len(added') = Len(added)
            BY <2>2, <2>4, <3>2
        <3> QED
            BY <2>1, <2>2, <3>1, <3>3 DEF AddedShape, Before
    <2>8. CASE Grown(m, trait) /\ added' = Append(added, f)
        <3>1. Len(vtable') = Len(vtable) + 1
            BY <2>2, <2>3, <2>8 DEF Grown
        <3>2. added' \in Seq(Functions) /\ Len(added') = Len(added) + 1
            BY <2>2, <2>4, <2>8
        <3> QED
            BY <2>1, <2>2, <3>1, <3>2 DEF AddedShape, Before
    <2> QED
        BY <2>5, <2>6, <2>7, <2>8
<1>3. CASE ImplMethod
    <2>1. PICK f : f = Function(decl.impls[at].methods[nth], TraitOf(at))
        OBVIOUS
    <2>2. f \in Functions
        BY <1>3, <2>1, ImplMethodChanges, NewSlot
    <2>3. added \in Seq(Functions) /\ (added' = added \/ \E i \in DOMAIN base : Adds(i, f))
        BY <1>3, <2>1 DEF ImplMethod, AddedShape
    <2>4. added' \in Seq(Functions) /\ Len(added') = Len(added)
        BY <2>2, <2>3 DEF Adds
    <2>5. phase' = "impls" /\ phase = "impls" /\ base' = base
        BY <1>3 DEF ImplMethod
    <2> QED
        BY <2>4, <2>5 DEF AddedShape, Before
<1>4. CASE EndTrait \/ EndTraits \/ EndMethods \/ EndImpl \/ OwnMethod
    <2>1. UNCHANGED added /\ phase # "idle"
        BY <1>4 DEF EndTrait, EndTraits, EndMethods, EndImpl, OwnMethod
    <2>2. Before' = Before
        BY <1>4 DEF Before, EndTrait, EndTraits, EndMethods, EndImpl, OwnMethod
    <2> QED
        BY <2>1, <2>2 DEF AddedShape
<1>5. CASE EndClass
    BY <1>5 DEF EndClass, AddedShape
<1>6. CASE UNCHANGED vars
    BY <1>6 DEF vars, class, AddedShape, Before
<1> QED
    BY <1>1, <1>2, <1>3, <1>4, <1>5, <1>6 DEF Next

\* Without an error, every trait of the class is validated.
LEMMA ImplementedKept == IInv /\ Implemented /\ [Next]_vars => Implemented'
<1> SUFFICES ASSUME IInv, Implemented, [Next]_vars PROVE Implemented'
    OBVIOUS
<1>1. CASE Declare
    <2>1. decl' \in Declaration /\ at' = 1 /\ phase' = "traits"
        BY <1>1, DeclarationsAssumption DEF Declare
    <2>2. \A j \in DOMAIN decl'.impls : ~(j < 1)
        BY <2>1 DEF Declaration
    <2> QED
        BY <2>1, <2>2 DEF Implemented
<1>2. CASE TraitMethod
    BY <1>2 DEF TraitMethod, Implemented
<1>3. CASE EndTrait
    <2>1. decl' = decl /\ phase' = "traits" /\ phase = "traits" /\ at' = at + 1 /\ at \in Nat
        BY <1>3 DEF EndTrait, IInv, Current
    <2>2. errors' = {} => errors = {} /\ implemented' = implemented \cup {at}
        BY <1>3 DEF EndTrait
    <2>3. \A j \in DOMAIN decl.impls : j \in Nat
        BY DEF IInv, Current, Declaration
    <2> QED
        BY <2>1, <2>2, <2>3 DEF Implemented
<1>4. CASE EndTraits
    <2>1. decl' = decl /\ errors' = errors /\ implemented' = implemented /\ at > Len(decl.impls)
          /\ phase = "traits"
        BY <1>4 DEF EndTraits
    <2>2. \A j \in DOMAIN decl.impls : j < at
        BY <2>1 DEF IInv, Current, Declaration
    <2> QED
        BY <2>1, <2>2 DEF Implemented
<1>5. CASE OwnMethod \/ ImplMethod
    <2>1. decl' = decl /\ implemented' = implemented /\ phase \in {"methods", "impls"}
          /\ phase' = phase
        BY <1>5 DEF OwnMethod, ImplMethod
    <2>2. errors' = {} => errors = {}
        BY <1>5, OwnMethodSucceeds, ImplMethodSucceeds
    <2> QED
        BY <2>1, <2>2 DEF Implemented
<1>6. CASE EndMethods \/ EndImpl
    BY <1>6 DEF EndMethods, EndImpl, LeaveImpl, Implemented
<1>7. CASE EndClass
    BY <1>7 DEF EndClass, Implemented
<1>8. CASE UNCHANGED vars
    BY <1>8 DEF vars, class, Implemented
<1> QED
    BY <1>1, <1>2, <1>3, <1>4, <1>5, <1>6, <1>7, <1>8 DEF Next

-----------------------------------------------------------------------------
\* What a step leaves in the table, and what it puts there, is emitted.
LEMMA OldSlotKept ==
    ASSUME NEW j, UNCHANGED <<chain, decl>>, vtable'[j] = vtable[j],
           errors' = {} => errors = {} /\ (j \in DOMAIN added => j \in DOMAIN added'
                                                              /\ added'[j] = added[j]),
           SlotEmitted(j)
    PROVE  SlotEmitted(j)'
<1>1. Level' = Level
    BY SameAncestor
<1> QED
    BY <1>1 DEF SlotEmitted, IsAdded, Own

LEMMA NewSlotKept ==
    ASSUME NEW j, NEW m \in Method, NEW trait \in TraitNames \cup {NoTrait},
           UNCHANGED <<chain, decl>>, vtable'[j] = Proto(m, trait),
           errors' = {} => \/ Function(m, trait) \in Own(decl)
                           \/ /\ j \in DOMAIN added' /\ added'[j] = Function(m, trait)
                              /\ trait # NoTrait
    PROVE  SlotEmitted(j)'
<1>1. Level' = Level
    BY SameAncestor
<1>2. PICK s : s = Proto(m, trait)
    OBVIOUS
<1>3. PICK f : f = Function(m, trait)
    OBVIOUS
<1>4. /\ s.by.level = Level /\ s.by.function = f /\ f.method = m /\ f.trait = trait
      /\ s.empty \/ m.body
    <2>1. m.body \in BOOLEAN
        BY DEF Method
    <2> QED
        BY <1>2, <1>3, <2>1 DEF Proto, Function
<1>5. /\ vtable'[j].by.level = Level' /\ vtable'[j].by.function = f
      /\ vtable'[j].empty \/ f.method.body
    BY <1>1, <1>2, <1>4
<1>6. errors' = {} => f \in Own(decl') \/ IsAdded(j, f)'
    BY <1>3, <1>4 DEF IsAdded
<1> QED
    BY <1>5, <1>6 DEF SlotEmitted

LEMMA TableEmittedKept ==
    IInv /\ AddedShape /\ ChainEmitted /\ TableEmitted /\ [Next]_vars => TableEmitted'
<1> SUFFICES ASSUME IInv, AddedShape, ChainEmitted, TableEmitted, [Next]_vars,
                    phase' # "idle", NEW j \in DOMAIN vtable'
             PROVE  SlotEmitted(j)'
    BY DEF TableEmitted
<1>1. CASE Declare
    <2>1. vtable' = AncestorVtable /\ UNCHANGED chain
        BY <1>1 DEF Declare
    <2>2. HasAncestor /\ AncestorVtable = chain[Len(chain)].vtable /\ Len(chain) \in DOMAIN chain
        BY <2>1 DEF AncestorVtable, HasAncestor, Ancestor, IInv, ChainTables
    <2> QED
        BY <2>1, <2>2 DEF ChainEmitted, SlotEmitted
<1>2. CASE TraitMethod
    <2> DEFINE trait == TraitOf(at)
               m == Traits[trait][nth]
               f == Function(m, trait)
    <2>1. UNCHANGED <<chain, decl, errors>> /\ phase = "traits"
        BY <1>2 DEF TraitMethod
    <2>2. added \in Seq(Functions) /\ Len(added) = Len(vtable) /\ vtable \in Seq(Slot)
        BY <2>1 DEF AddedShape, Before, IInv, Current, Table
    <2>3. trait \in TraitNames /\ m \in Method /\ trait # NoTrait
        BY <1>2, TraitMethodChanges, NoTraitAssumption
    <2>4. f \in Functions
        BY <2>3, NewSlot
    <2>5. \/ vtable' = vtable /\ added' = added
          \/ \E i \in DOMAIN AncestorVtable : Taken(i, m, trait) /\ Adds(i, f)
          \/ Grown(m, trait) /\ added' = Append(added, f)
        BY <1>2, TraitMethodChanges
    <2>6. j \in DOMAIN vtable => SlotEmitted(j)
        BY <2>1 DEF TableEmitted
    <2> HIDE DEF m, trait
    <2>7. CASE vtable' = vtable /\ added' = added
        BY <2>1, <2>6, <2>7, OldSlotKept
    <2>8. ASSUME NEW i, Taken(i, m, trait), Adds(i, f) PROVE SlotEmitted(j)'
        <3> HIDE DEF f
        <3>1. i \in DOMAIN added /\ DOMAIN added = DOMAIN vtable /\ added' = [added EXCEPT ![i] = f]
            BY <2>2, <2>8 DEF Adds, Taken
        <3>2. CASE j = i
            <4>1. j \in DOMAIN added' /\ added'[j] = f
                BY <2>2, <3>1, <3>2
            <4>2. vtable'[j] = Proto(m, trait)
                BY <2>8, <3>2 DEF Taken
            <4> QED
                BY <2>1, <2>3, <4>1, <4>2, NewSlotKept DEF f
        <3>3. CASE j # i
            <4>1. j \in DOMAIN vtable /\ vtable'[j] = vtable[j]
                BY <2>8, <3>3 DEF Taken
            <4>2. j \in DOMAIN added' /\ added'[j] = added[j]
                BY <2>2, <3>1, <3>3, <4>1
            <4> QED
                BY <2>1, <2>6, <4>1, <4>2, OldSlotKept
        <3> QED
            BY <3>2, <3>3
    <2>9. CASE Grown(m, trait) /\ added' = Append(added, f)
        <3>1. \/ j = Len(vtable) + 1 /\ vtable'[j] = Proto(m, trait)
              \/ j \in DOMAIN vtable /\ vtable'[j] = vtable[j]
            BY <2>9 DEF Grown
        <3> HIDE DEF f
        <3>2. /\ Len(vtable) + 1 \in DOMAIN added' /\ added'[Len(vtable) + 1] = f
              /\ \A k \in DOMAIN added : k \in DOMAIN added' /\ added'[k] = added[k]
            BY <2>2, <2>4, <2>9
        <3>3. CASE j = Len(vtable) + 1 /\ vtable'[j] = Proto(m, trait)
            BY <2>1, <2>3, <3>2, <3>3, NewSlotKept DEF f
        <3>4. CASE j \in DOMAIN vtable /\ vtable'[j] = vtable[j]
            BY <2>1, <2>6, <3>2, <3>4, OldSlotKept
        <3> QED
            BY <3>1, <3>3, <3>4
    <2> QED
        BY <2>5, <2>7, <2>8, <2>9
<1>3. CASE OwnMethod
    <2>1. PICK m : m = decl.methods[at]
        OBVIOUS
    <2>2. UNCHANGED <<chain, decl, added>> /\ phase = "methods"
        BY <1>3 DEF OwnMethod
    <2>3. m \in Method /\ Changes(m, NoTrait) /\ Function(m, NoTrait) \in Own(decl)
        BY <1>3, <2>1, OwnMethodChanges DEF Own
    <2>4. errors' = {} => errors = {}
        BY <1>3, OwnMethodSucceeds
    <2>5. CASE j \in DOMAIN vtable /\ vtable'[j] = vtable[j]
        BY <2>2, <2>4, <2>5, OldSlotKept DEF TableEmitted
    <2>6. CASE vtable'[j] = Proto(m, NoTrait)
        BY <2>2, <2>3, <2>6, NewSlotKept
    <2> QED
        BY <2>3, <2>5, <2>6 DEF Changes, Taken, Grown
<1>4. CASE ImplMethod
    <2>1. PICK m : m = decl.impls[at].methods[nth]
        OBVIOUS
    <2>2. PICK trait : trait = TraitOf(at)
        OBVIOUS
    <2>3. UNCHANGED <<chain, decl, base>> /\ phase = "impls"
        BY <1>4 DEF ImplMethod
    <2>4. m \in Method /\ trait \in TraitNames /\ trait # NoTrait /\ Changes(m, trait)
        BY <1>4, <2>1, <2>2, ImplMethodChanges, NoTraitAssumption
    <2>5. CASE errors' # {}
        <3>1. CASE j \in DOMAIN vtable /\ vtable'[j] = vtable[j]
            BY <2>3, <2>5, <3>1, OldSlotKept DEF TableEmitted
        <3>2. CASE vtable'[j] = Proto(m, trait)
            BY <2>3, <2>4, <2>5, <3>2, NewSlotKept
        <3> QED
            BY <2>4, <3>1, <3>2 DEF Changes, Taken, Grown
    <2>6. CASE errors' = {}
        <3> DEFINE f == Function(m, trait)
        <3>1. errors = {} /\ \E i \in DOMAIN base : Taken(i, m, trait) /\ Adds(i, f)
            BY <1>4, <2>1, <2>2, <2>6, ImplMethodSucceeds
        <3>2. PICK i \in DOMAIN base : Taken(i, m, trait) /\ Adds(i, f)
            BY <3>1
        <3>3. added \in Seq(Functions) /\ Len(added) = Len(base) /\ base \in Seq(Slot)
              /\ f \in Functions
            BY <2>3, <2>4, NewSlot DEF AddedShape, Before, IInv, Current
        <3> HIDE DEF f
        <3>4. i \in DOMAIN added /\ added' = [added EXCEPT ![i] = f]
            BY <3>2, <3>3 DEF Adds
        <3>5. /\ DOMAIN added' = DOMAIN added /\ added'[i] = f
              /\ \A k \in DOMAIN added : k # i => added'[k] = added[k]
            BY <3>3, <3>4
        <3>6. CASE j = i
            <4>1. vtable'[j] = Proto(m, trait)
                BY <3>2, <3>6 DEF Taken
            <4> QED
                BY <2>3, <2>4, <3>4, <3>5, <3>6, <4>1, NewSlotKept DEF f
        <3>7. CASE j # i
            <4>1. j \in DOMAIN vtable /\ vtable'[j] = vtable[j]
                BY <3>2, <3>7 DEF Taken
            <4> QED
                BY <2>3, <3>1, <3>5, <3>7, <4>1, OldSlotKept DEF TableEmitted
        <3> QED
            BY <3>6, <3>7
    <2> QED
        BY <2>5, <2>6
<1>5. CASE EndTrait \/ EndTraits \/ EndMethods \/ EndImpl
    <2>1. UNCHANGED <<chain, decl, vtable, added>> /\ phase # "idle"
        BY <1>5 DEF EndTrait, EndTraits, EndMethods, EndImpl
    <2>2. errors' = {} => errors = {}
        BY <1>5 DEF EndTrait, EndTraits, EndMethods, EndImpl, LeaveImpl
    <2> QED
        BY <2>1, <2>2, OldSlotKept DEF TableEmitted
<1>6. CASE EndClass
    BY <1>6 DEF EndClass
<1>7. CASE UNCHANGED vars
    BY <1>7, OldSlotKept DEF vars, class, TableEmitted
<1> QED
    BY <1>1, <1>2, <1>3, <1>4, <1>5, <1>6, <1>7 DEF Next

-----------------------------------------------------------------------------
\* A method stays in the slot it was put in.
LEMMA StaysHeld ==
    ASSUME NEW i, NEW m, NEW trait, HeldAt(i, m, trait), UNCHANGED chain, vtable'[i] = vtable[i]
    PROVE  HeldAt(i, m, trait)'
<1>1. Level' = Level
    BY SameAncestor
<1> QED
    BY <1>1 DEF HeldAt

LEMMA IsHeld ==
    ASSUME NEW i, NEW m \in Method, NEW trait \in TraitNames \cup {NoTrait}, UNCHANGED chain,
           vtable'[i] = Proto(m, trait)
    PROVE  HeldAt(i, m, trait)'
<1>1. Level' = Level
    BY SameAncestor
<1>2. Proto(m, trait).sig = m.sig
      /\ Proto(m, trait).by = [level |-> Level, function |-> Function(m, trait)]
    BY NewSlot
<1> QED
    BY <1>1, <1>2 DEF HeldAt

\* The method that takes a slot of base finds in it no method of another signature.
LEMMA OtherSlot ==
    ASSUME IInv, phase \in {"methods", "impls"},
           NEW k \in DOMAIN base, NEW i \in DOMAIN vtable,
           NEW m \in Method, NEW trait, Overrides(m, trait, k),
           NEW n, NEW other, HeldAt(i, n, other), n.sig # m.sig
    PROVE  i # k
<1>1. base[k].sig = m.sig
    BY RulesKept
<1>2. vtable[k].sig = base[k].sig
    BY DEF IInv, KeepsBase, SameSigs
<1> QED
    BY <1>1, <1>2 DEF HeldAt

LEMMA OwnMethodHeld == IInv /\ OwnHeld /\ OwnMethod => OwnHeld'
<1> SUFFICES ASSUME IInv, OwnHeld, OwnMethod, errors' = {}, Distinct(decl.methods),
                    NEW j \in DOMAIN decl.methods, j < at + 1
             PROVE  \E i \in DOMAIN vtable' : /\ HeldAt(i, decl.methods[j], NoTrait)'
                                              /\ i \in DOMAIN base => base[i].trait = NoTrait
    BY DEF OwnMethod, OwnHeld
<1>1. UNCHANGED <<chain, decl, base>> /\ phase = "methods"
    BY DEF OwnMethod
<1>2. /\ decl.methods \in Seq(Method) /\ at \in Nat /\ j \in Nat
      /\ at \in DOMAIN decl.methods /\ vtable \in Seq(Slot)
    BY OwnMethodChanges DEF IInv, Current, Declaration, Table
<1>3. PICK m : m = decl.methods[at]
    OBVIOUS
<1>4. m \in Method
    BY <1>2, <1>3
<1>5. /\ errors = {}
      /\ \/ \E k \in DOMAIN base : Overrides(m, NoTrait, k) /\ Taken(k, m, NoTrait)
         \/ Grown(m, NoTrait)
    BY <1>3, OwnMethodSucceeds
<1>6. \A i \in DOMAIN base : i \in DOMAIN vtable
    BY <1>1 DEF IInv, KeepsBase, SameSigs
<1>7. CASE j = at
    <2>1. CASE Grown(m, NoTrait)
        <3>1. Len(vtable) + 1 \in DOMAIN vtable' /\ Len(vtable) + 1 \notin DOMAIN base
            BY <1>2, <1>6, <2>1 DEF Grown
        <3> QED
            BY <1>1, <1>3, <1>4, <1>7, <2>1, <3>1, IsHeld DEF Grown
    <2>2. ASSUME NEW k \in DOMAIN base, Overrides(m, NoTrait, k), Taken(k, m, NoTrait)
          PROVE  \E i \in DOMAIN vtable' : /\ HeldAt(i, decl.methods[j], NoTrait)'
                                           /\ i \in DOMAIN base => base[i].trait = NoTrait
        <3>1. base[k].trait = NoTrait
            BY <1>4, <2>2, RulesKept
        <3>2. k \in DOMAIN vtable' /\ HeldAt(k, m, NoTrait)'
            BY <1>1, <1>4, <2>2, IsHeld DEF Taken
        <3> QED
            BY <1>1, <1>3, <1>7, <3>1, <3>2
    <2> QED
        BY <1>5, <2>1, <2>2
<1>8. CASE j # at
    <2>1. PICK i \in DOMAIN vtable : /\ HeldAt(i, decl.methods[j], NoTrait)
                                     /\ i \in DOMAIN base => base[i].trait = NoTrait
        BY <1>1, <1>2, <1>5, <1>8 DEF OwnHeld
    <2>2. decl.methods[j].sig # m.sig
        BY <1>2, <1>3, <1>8 DEF Distinct
    <2>3. i \in DOMAIN vtable' /\ vtable'[i] = vtable[i]
        <3>1. CASE Grown(m, NoTrait)
            BY <1>2, <2>1, <3>1 DEF Grown
        <3>2. ASSUME NEW k \in DOMAIN base, Overrides(m, NoTrait, k), Taken(k, m, NoTrait)
              PROVE  i \in DOMAIN vtable' /\ vtable'[i] = vtable[i]
            <4>1. i # k
                BY <1>1, <1>4, <2>1, <2>2, <3>2, OtherSlot
            <4> QED
                BY <3>2, <4>1 DEF Taken
        <3> QED
            BY <1>5, <3>1, <3>2
    <2> QED
        BY <1>1, <2>1, <2>3, StaysHeld
<1> QED
    BY <1>7, <1>8

LEMMA ImplMethodLeavesOwn == IInv /\ OwnHeld /\ ImplMethod => OwnHeld'
<1> SUFFICES ASSUME IInv, OwnHeld, ImplMethod, errors' = {}, Distinct(decl.methods),
                    NEW j \in DOMAIN decl.methods
             PROVE  \E i \in DOMAIN vtable' : /\ HeldAt(i, decl.methods[j], NoTrait)'
                                              /\ i \in DOMAIN base => base[i].trait = NoTrait
    BY DEF ImplMethod, OwnHeld
<1>1. UNCHANGED <<chain, decl, base>> /\ phase = "impls"
    BY DEF ImplMethod
<1>2. PICK m : m = decl.impls[at].methods[nth]
    OBVIOUS
<1>3. PICK trait : trait = TraitOf(at)
    OBVIOUS
<1>4. m \in Method /\ trait # NoTrait
    BY <1>2, <1>3, ImplMethodChanges, NoTraitAssumption
<1>5. errors = {} /\ \E k \in DOMAIN base : Overrides(m, trait, k) /\ Taken(k, m, trait)
    BY <1>2, <1>3, ImplMethodSucceeds
<1>6. PICK k \in DOMAIN base : Overrides(m, trait, k) /\ Taken(k, m, trait)
    BY <1>5
<1>7. PICK i \in DOMAIN vtable : /\ HeldAt(i, decl.methods[j], NoTrait)
                                 /\ i \in DOMAIN base => base[i].trait = NoTrait
    BY <1>1, <1>5 DEF OwnHeld
<1>8. i # k
    BY <1>4, <1>6, <1>7, RulesKept
<1>9. i \in DOMAIN vtable' /\ vtable'[i] = vtable[i]
    BY <1>6, <1>7, <1>8 DEF Taken
<1> QED
    BY <1>1, <1>7, <1>9, StaysHeld

LEMMA OwnHeldKept == IInv /\ OwnHeld /\ [Next]_vars => OwnHeld'
<1> SUFFICES ASSUME IInv, OwnHeld, [Next]_vars PROVE OwnHeld'
    OBVIOUS
<1>1. CASE Declare \/ TraitMethod \/ EndTrait \/ EndClass
    BY <1>1 DEF Declare, TraitMethod, EndTrait, EndClass, OwnHeld
<1>2. CASE EndTraits
    <2>1. \A j \in DOMAIN decl.methods : ~(j < 1)
        BY DEF IInv, Current, Declaration
    <2> QED
        BY <1>2, <2>1 DEF EndTraits, OwnHeld
<1>3. CASE OwnMethod
    BY <1>3, OwnMethodHeld
<1>4. CASE ImplMethod
    BY <1>4, ImplMethodLeavesOwn
<1>5. CASE EndMethods
    <2>1. \A j \in DOMAIN decl.methods : j < at
        BY <1>5 DEF IInv, Current, Declaration, EndMethods
    <2> QED
        BY <1>5, <2>1 DEF EndMethods, OwnHeld, HeldAt, Level
<1>6. CASE EndImpl
    BY <1>6 DEF EndImpl, LeaveImpl, OwnHeld, HeldAt, Level
<1>7. CASE UNCHANGED vars
    BY <1>7 DEF vars, class, OwnHeld, HeldAt, Level
<1> QED
    BY <1>1, <1>2, <1>3, <1>4, <1>5, <1>6, <1>7 DEF Next

LEMMA ImplMethodHeld == IInv /\ ImplHeld /\ ImplMethod => ImplHeld'
<1> DEFINE methods == decl.impls[1].methods
<1> SUFFICES ASSUME IInv, ImplHeld, ImplMethod, errors' = {}, Len(decl.impls) = 1,
                    Distinct(methods), NEW j \in DOMAIN methods, at' = 1 => j < nth'
             PROVE  \E i \in DOMAIN vtable' : HeldAt(i, methods[j], decl.impls[1].trait)'
    BY DEF ImplMethod, ImplHeld
<1>1. UNCHANGED <<chain, decl, base>> /\ phase = "impls"
    BY DEF ImplMethod
<1>2. at = 1
    BY DEF ImplMethod, IInv, Current
<1>3. PICK m : m = methods[nth]
    OBVIOUS
<1>4. PICK trait : trait = decl.impls[1].trait
    OBVIOUS
<1>5. /\ m \in Method /\ trait \in TraitNames /\ nth \in DOMAIN methods /\ nth \in Nat
      /\ methods \in Seq(Method)
    BY <1>2, <1>3, <1>4, ImplMethodChanges, ImplOf DEF TraitOf, IInv, Current
<1>6. /\ errors = {} /\ at' = 1 /\ nth' = nth + 1
      /\ \E k \in DOMAIN base : Overrides(m, trait, k) /\ Taken(k, m, trait)
    BY <1>2, <1>3, <1>4, ImplMethodSucceeds DEF TraitOf
<1>7. PICK k \in DOMAIN base : Overrides(m, trait, k) /\ Taken(k, m, trait)
    BY <1>6
<1>8. CASE j = nth
    <2>1. k \in DOMAIN vtable' /\ vtable'[k] = Proto(m, trait)
        BY <1>7 DEF Taken
    <2> QED
        BY <1>1, <1>3, <1>4, <1>5, <1>8, <2>1, IsHeld
<1>9. CASE j # nth
    <2>1. j < nth
        BY <1>5, <1>6, <1>9
    <2>2. PICK i \in DOMAIN vtable : HeldAt(i, methods[j], trait)
        BY <1>1, <1>4, <1>6, <2>1 DEF ImplHeld
    <2>3. methods[j].sig # m.sig
        BY <1>3, <1>5, <1>9 DEF Distinct
    <2>4. i # k
        BY <1>1, <1>5, <1>7, <2>2, <2>3, OtherSlot
    <2>5. i \in DOMAIN vtable' /\ vtable'[i] = vtable[i]
        BY <1>7, <2>2, <2>4 DEF Taken
    <2> QED
        BY <1>1, <1>4, <2>2, <2>5, StaysHeld
<1> QED
    BY <1>8, <1>9

LEMMA ImplHeldKept == IInv /\ Implemented /\ ImplHeld /\ [Next]_vars => ImplHeld'
<1> SUFFICES ASSUME IInv, Implemented, ImplHeld, [Next]_vars PROVE ImplHeld'
    OBVIOUS
<1>1. CASE Declare \/ TraitMethod \/ EndTrait \/ EndTraits \/ OwnMethod \/ EndClass
    BY <1>1 DEF Declare, TraitMethod, EndTrait, EndTraits, OwnMethod, EndClass, ImplHeld
<1>2. CASE EndMethods
    <2>1. phase' = "impls" /\ at' = 1 /\ nth' = 1 /\ decl' = decl
        BY <1>2 DEF EndMethods
    <2>2. Len(decl.impls) = 1 => \A j \in DOMAIN decl.impls[1].methods : ~(j < 1)
        BY ImplOf DEF IInv, Current
    <2> QED
        BY <2>1, <2>2 DEF ImplHeld
<1>3. CASE ImplMethod
    BY <1>3, ImplMethodHeld
<1>4. CASE EndImpl
    <2>1. UNCHANGED <<chain, decl, vtable>> /\ phase = "impls" /\ phase' = "impls"
          /\ (errors' = {} => errors = {}) /\ at <= Len(decl.impls) /\ ImplDone(at)
        BY <1>4 DEF EndImpl, LeaveImpl
    <2>2. Len(decl.impls) = 1 /\ errors = {} =>
             /\ at = 1
             /\ \A j \in DOMAIN decl.impls[1].methods : j < nth
        <3> SUFFICES ASSUME Len(decl.impls) = 1, errors = {}
                     PROVE  /\ at = 1
                            /\ \A j \in DOMAIN decl.impls[1].methods : j < nth
            OBVIOUS
        <3>1. at = 1 /\ decl \in Declaration /\ nth \in Nat
            BY <2>1 DEF IInv, Current
        <3>2. 1 \in DOMAIN decl.impls
            BY <3>1 DEF Declaration
        <3>3. nth > Len(decl.impls[1].methods)
            BY <2>1, <3>1, <3>2 DEF Implemented, ImplDone
        <3> QED
            BY <3>1, <3>3, ImplOf
    <2> QED
        BY <2>1, <2>2 DEF ImplHeld, HeldAt, Level
<1>5. CASE UNCHANGED vars
    BY <1>5 DEF vars, class, ImplHeld, HeldAt, Level
<1> QED
    BY <1>1, <1>2, <1>3, <1>4, <1>5 DEF Next

-----------------------------------------------------------------------------
\* What is said of the table of a class that is set, but what it emits.
Complete(n) ==
    LET d == chain[n].decl
    IN  /\ \A i \in DOMAIN chain[n].vtable : chain[n].vtable[i].empty => d.abs
        /\ Distinct(d.methods) =>
              \A i \in DOMAIN d.methods : Holds(n, d.methods[i], NoTrait)
        /\ Len(d.impls) = 1 /\ Distinct(d.impls[1].methods) =>
              \A i \in DOMAIN d.impls[1].methods :
                  Holds(n, d.impls[1].methods[i], d.impls[1].trait)

LEMMA CompleteParts == DispatchIsComplete => \A n \in DOMAIN chain : Complete(n)
BY DEF Complete, DispatchIsComplete

LEMMA EmittedOfClass ==
    ASSUME IInv, NEW f,
           f.method.body, f \in Own(decl) \/ \E i \in DOMAIN added : IsAdded(i, f)
    PROVE  f \in Emitted
<1>1. CASE f \in Own(decl)
    BY <1>1 DEF Emitted, Own
<1>2. ASSUME NEW i \in DOMAIN added, IsAdded(i, f) PROVE f \in Emitted
    <2>1. f # Nothing
        BY <1>2 DEF IsAdded, Nothing
    <2> QED
        BY <1>2, <2>1 DEF IsAdded, Emitted
<1> QED
    BY <1>1, <1>2

LEMMA EndClassDispatches == IInv /\ DInv /\ EndClass => ChainEmitted' /\ DispatchIsComplete'
<1> SUFFICES ASSUME IInv, DInv, EndClass PROVE ChainEmitted' /\ DispatchIsComplete'
    OBVIOUS
<1>1. CASE chain' = chain
    BY <1>1 DEF DInv, ChainEmitted, DispatchIsComplete, Holds
<1>2. CASE chain' # chain
    <2>1. PICK c : /\ c.decl = decl /\ c.vtable = vtable /\ c.emitted = Emitted
                   /\ chain' = Append(chain, c)
        BY <1>2 DEF EndClass
    <2>2. errors = {} /\ ~Incomplete /\ phase = "impls" /\ at > Len(decl.impls)
        BY <1>2 DEF EndClass, Valid
    <2>3. PICK S : chain \in Seq(S)
        BY DEF IInv, ChainTables
    <2>4. chain \in Seq(S \cup {c})
        BY <2>3
    <2>5. /\ Len(chain) \in Nat /\ DOMAIN chain = 1 .. Len(chain)
          /\ DOMAIN chain' = 1 .. Len(chain) + 1
          /\ chain'[Level] = c /\ Level = Len(chain) + 1
          /\ \A k \in DOMAIN chain : k \in DOMAIN chain' /\ chain'[k] = chain[k]
        BY <2>1, <2>4 DEF Level
    <2>6. ASSUME NEW i \in DOMAIN vtable
          PROVE  /\ vtable[i].by.level \in DOMAIN chain'
                 /\ \/ vtable[i].empty
                    \/ vtable[i].by.function \in chain'[vtable[i].by.level].emitted
        <3>1. SlotEmitted(i)
            BY <2>2 DEF DInv, TableEmitted
        <3>2. CASE /\ vtable[i].by.level \in DOMAIN chain
                   /\ \/ vtable[i].empty
                      \/ vtable[i].by.function \in chain[vtable[i].by.level].emitted
            BY <2>5, <3>2
        <3>3. CASE vtable[i].by.level = Level
            <4>1. vtable[i].empty \/ vtable[i].by.function \in Emitted
                BY <2>2, <2>5, <3>1, <3>3, EmittedOfClass DEF SlotEmitted, IsAdded
            <4> QED
                BY <2>1, <2>5, <3>3, <4>1
        <3> QED
            BY <3>1, <3>2, <3>3 DEF SlotEmitted
    <2>7. ChainEmitted'
        <3> SUFFICES ASSUME NEW n \in DOMAIN chain', NEW i \in DOMAIN chain'[n].vtable
                     PROVE  /\ chain'[n].vtable[i].by.level \in DOMAIN chain'
                            /\ \/ chain'[n].vtable[i].empty
                               \/ chain'[n].vtable[i].by.function
                                    \in chain'[chain'[n].vtable[i].by.level].emitted
            BY DEF ChainEmitted
        <3>1. CASE n = Level
            BY <2>1, <2>5, <2>6, <3>1
        <3>2. CASE n # Level
            <4>1. n \in DOMAIN chain /\ chain'[n] = chain[n]
                BY <2>5, <3>2
            <4>2. /\ chain[n].vtable[i].by.level \in DOMAIN chain
                  /\ \/ chain[n].vtable[i].empty
                     \/ chain[n].vtable[i].by.function \in chain[chain[n].vtable[i].by.level].emitted
                BY <4>1 DEF DInv, ChainEmitted
            <4> QED
                BY <2>5, <4>1, <4>2
        <3> QED
            BY <3>1, <3>2
    <2>8. Distinct(decl.methods) =>
             \A j \in DOMAIN decl.methods :
                \E i \in DOMAIN vtable : HeldAt(i, decl.methods[j], NoTrait)
        BY <2>2 DEF DInv, OwnHeld
    <2>9. Len(decl.impls) = 1 /\ Distinct(decl.impls[1].methods) =>
             \A j \in DOMAIN decl.impls[1].methods :
                \E i \in DOMAIN vtable : HeldAt(i, decl.impls[1].methods[j], decl.impls[1].trait)
        BY <2>2 DEF DInv, ImplHeld
    <2>10. \A i \in DOMAIN vtable : vtable[i].empty => decl.abs
        BY <2>2 DEF Incomplete
    <2>11. ASSUME NEW n \in DOMAIN chain' PROVE Complete(n)'
        <3>1. CASE n = Level
            <4>1. chain'[n].decl = decl /\ chain'[n].vtable = vtable
                BY <2>1, <2>5, <3>1
            <4> QED
                BY <2>8, <2>9, <2>10, <3>1, <4>1 DEF Complete, HeldAt, Holds
        <3>2. CASE n # Level
            <4>1. n \in DOMAIN chain /\ chain'[n] = chain[n]
                BY <2>5, <3>2
            <4>2. Complete(n)
                BY <4>1, CompleteParts DEF DInv
            <4> QED
                BY <4>1, <4>2 DEF Complete, Holds
        <3> QED
            BY <3>1, <3>2
    <2> QED
        BY <2>7, <2>11 DEF Complete, ChainEmitted, DispatchIsComplete
<1> QED
    BY <1>1, <1>2

LEMMA DispatchInductive == IInv /\ DInv /\ [Next]_vars => DInv'
<1> SUFFICES ASSUME IInv, DInv, [Next]_vars PROVE DInv'
    OBVIOUS
<1>1. AddedShape' /\ TableEmitted'
    BY AddedKept, TableEmittedKept DEF DInv
<1>2. OwnHeld' /\ ImplHeld' /\ Implemented'
    BY OwnHeldKept, ImplHeldKept, ImplementedKept DEF DInv
<1>3. ChainEmitted' /\ DispatchIsComplete'
    <2>1. CASE EndClass
        BY <2>1, EndClassDispatches
    <2>2. CASE ~EndClass
        <3>1. UNCHANGED chain
            BY <2>2 DEF Next, vars, class, Declare, TraitMethod, EndTrait, EndTraits, OwnMethod,
                        EndMethods, ImplMethod, EndImpl
        <3> QED
            BY <3>1 DEF DInv, ChainEmitted, DispatchIsComplete, Holds
    <2> QED
        BY <2>1, <2>2
<1> QED
    BY <1>1, <1>2, <1>3 DEF DInv

\* Every function that a table holds is emitted by the class that put it there, no slot
\* of a class that may be instantiated is empty, and the methods of a class, and of its
\* impl, are the ones that its table holds.
THEOREM EveryCallIsDispatched == Spec => []DispatchIsComplete
<1>1. Init => DInv
    BY DEF Init, DInv, DispatchIsComplete, ChainEmitted, AddedShape, TableEmitted, OwnHeld,
           ImplHeld, Implemented
<1>2. Spec => []DInv
    BY Invariance, <1>1, DispatchInductive, PTL DEF Spec
<1> QED
    BY <1>2, PTL DEF DInv

=============================================================================
