-------------------------- MODULE Declarator_proofs --------------------------
(***************************************************************************)
(* The import of modules visits no file twice, for every set of programs   *)
(* whose modules have one file each, whatever they import; it finds every  *)
(* module that was visited, and implements the registry of modules, for    *)
(* those whose modules are settled (Declarator.IsSettled).                 *)
(***************************************************************************)
EXTENDS Declarator, FiniteSetTheorems, WellFoundedInduction, TLAPS

-----------------------------------------------------------------------------
(* Stacks of visits.                                                        *)

IsVisit(v) ==
    \E m : v \in [path : Path, mod : {m}, core : SUBSET Core,
                  imports : SUBSET Path, funs : SUBSET Name]

IsStack(s) ==
    /\ s \in Seq({s[i] : i \in DOMAIN s})
    /\ \A i \in DOMAIN s : IsVisit(s[i])

\* The same files are visited.
SamePaths(s, t) ==
    /\ Len(t) = Len(s)
    /\ \A i \in 1 .. Len(s) : t[i].path = s[i].path

LEMMA StackLen ==
    ASSUME NEW s, IsStack(s)
    PROVE  Len(s) \in Nat /\ DOMAIN s = 1 .. Len(s)
    BY DEF IsStack

LEMMA StackOf ==
    ASSUME NEW S, NEW s \in Seq(S), \A i \in 1 .. Len(s) : IsVisit(s[i])
    PROVE  IsStack(s)
  <1>1. Len(s) \in Nat /\ DOMAIN s = 1 .. Len(s)
    OBVIOUS
  <1>2. s \in Seq({s[i] : i \in DOMAIN s})
    BY <1>1
  <1> QED BY <1>1, <1>2 DEF IsStack

LEMMA AppendStack ==
    ASSUME NEW s, IsStack(s), NEW v, IsVisit(v)
    PROVE  /\ IsStack(Append(s, v))
           /\ Len(Append(s, v)) = Len(s) + 1
           /\ \A i \in 1 .. Len(s) : Append(s, v)[i] = s[i]
           /\ Append(s, v)[Len(s) + 1] = v
  <1> DEFINE S == {s[i] : i \in DOMAIN s} \cup {v}
  <1>1. s \in Seq(S)
    BY StackLen DEF IsStack
  <1>2. Append(s, v) \in Seq(S)
    BY <1>1
  <1>3. /\ Len(Append(s, v)) = Len(s) + 1
        /\ \A i \in 1 .. Len(s) : Append(s, v)[i] = s[i]
        /\ Append(s, v)[Len(s) + 1] = v
    BY <1>1
  <1>4. \A i \in 1 .. Len(Append(s, v)) : IsVisit(Append(s, v)[i])
    BY <1>3, StackLen DEF IsStack
  <1>5. IsStack(Append(s, v))
    <2> HIDE DEF S
    <2> QED BY <1>2, <1>4, StackOf
  <1> QED BY <1>3, <1>5

LEMMA FrontStack ==
    ASSUME NEW s, IsStack(s), s # <<>>
    PROVE  /\ IsStack(Front(s))
           /\ Len(Front(s)) = Len(s) - 1
           /\ \A i \in 1 .. Len(Front(s)) : Front(s)[i] = s[i]
           /\ Len(s) \in Nat \ {0}
  <1> DEFINE S == {s[i] : i \in DOMAIN s}
  <1>1. s \in Seq(S)
    BY DEF IsStack
  <1> HIDE DEF S
  <1>2. Len(s) \in Nat \ {0}
    BY <1>1
  <1>3. /\ Front(s) \in Seq(S)
        /\ Len(Front(s)) = Len(s) - 1
        /\ \A i \in 1 .. Len(Front(s)) : Front(s)[i] = s[i]
    BY <1>1, <1>2 DEF Front
  <1>4. \A i \in 1 .. Len(Front(s)) : IsVisit(Front(s)[i])
    BY <1>2, <1>3, StackLen DEF IsStack
  <1> QED BY <1>2, <1>3, <1>4, StackOf

\* A change of the visit at the top that leaves its file.
LEMMA TopStack ==
    ASSUME NEW s, IsStack(s), s # <<>>, NEW v, IsVisit(v), v.path = s[Len(s)].path
    PROVE  /\ IsStack([s EXCEPT ![Len(s)] = v])
           /\ SamePaths(s, [s EXCEPT ![Len(s)] = v])
  <1> DEFINE t == [s EXCEPT ![Len(s)] = v]
             S == {s[i] : i \in DOMAIN s} \cup {v}
  <1>1. s \in Seq(S) /\ Len(s) \in Nat /\ DOMAIN s = 1 .. Len(s)
    BY StackLen DEF IsStack
  <1>2. t \in Seq(S) /\ Len(t) = Len(s)
    BY <1>1
  <1>3. \A i \in 1 .. Len(s) : t[i] = IF i = Len(s) THEN v ELSE s[i]
    BY <1>1
  <1>4. \A i \in 1 .. Len(t) : IsVisit(t[i])
    BY <1>1, <1>2, <1>3 DEF IsStack
  <1>5. SamePaths(s, t)
    BY <1>2, <1>3 DEF SamePaths
  <1>6. IsStack(t)
    <2> HIDE DEF S, t
    <2> QED BY <1>2, <1>4, StackOf
  <1> QED BY <1>5, <1>6

LEMMA AfterStack ==
    ASSUME IsStack(stack), stack # <<>>, NEW x
    PROVE  /\ IsStack(AfterCore(x)) /\ SamePaths(stack, AfterCore(x))
           /\ IsStack(AfterImport(x)) /\ SamePaths(stack, AfterImport(x))
           /\ IsStack(AfterFunction(x)) /\ SamePaths(stack, AfterFunction(x))
  <1> DEFINE v == stack[Len(stack)]
  <1>1. IsVisit(v)
    BY FrontStack, StackLen DEF IsStack
  <1>2. IsVisit([v EXCEPT !.core = @ \ {x}]) /\ [v EXCEPT !.core = @ \ {x}].path = v.path
    BY <1>1 DEF IsVisit
  <1>3. IsVisit([v EXCEPT !.imports = @ \ {x}]) /\ [v EXCEPT !.imports = @ \ {x}].path = v.path
    BY <1>1 DEF IsVisit
  <1>4. IsVisit([v EXCEPT !.funs = @ \ {x}]) /\ [v EXCEPT !.funs = @ \ {x}].path = v.path
    BY <1>1 DEF IsVisit
  <1> QED BY <1>2, <1>3, <1>4, TopStack DEF AfterCore, AfterImport, AfterFunction

-----------------------------------------------------------------------------
(* The invariant.                                                           *)

\* The files of p, in the program pr, are among the marked ones of ms.
Marked(pr, ms, p) == \A d \in pr.where[p] : <<d, p>> \in ms

\* What every step of the declarator keeps.  VisitedOnce alone is not
\* inductive: that the module which is entered is not being visited, and was
\* not, follows from the marks of those that are or were.
IInv ==
    /\ prog \in Program
    /\ IsStack(stack)
    /\ done \subseteq Path
    /\ \A i \in DOMAIN stack : Marked(prog, marked, stack[i].path)
    /\ \A p \in done : Marked(prog, marked, p)
    /\ VisitedOnce

LEMMA InitIInv == Init => IInv
  <1> SUFFICES ASSUME Init PROVE IInv
    OBVIOUS
  <1> DEFINE v == [path |-> Root, mod |-> 1, core |-> Core,
                   imports |-> prog.imports[Root], funs |-> prog.funs[Root]]
  <1>1. prog \in Program /\ prog \in ProgramType /\ prog.where[Root] = {0}
    BY ProgramAssumption DEF Init
  <1>2. IsVisit(v)
    <2>1. v \in [path : Path, mod : {1}, core : SUBSET Core,
                 imports : SUBSET Path, funs : SUBSET Name]
      BY <1>1, PathAssumption, IncludeAssumption DEF ProgramType
    <2> QED BY <2>1 DEF IsVisit
  <1>3. stack = <<v>>
    BY DEF Init
  <1>4. IsStack(stack) /\ Len(stack) = 1 /\ DOMAIN stack = 1 .. 1 /\ stack[1].path = Root
    <2> HIDE DEF v
    <2>1. stack \in Seq({v}) /\ Len(stack) = 1 /\ stack[1] = v
      BY <1>3
    <2>2. v.path = Root
      BY DEF v
    <2> QED BY <1>2, <2>1, <2>2, StackOf, StackLen
  <1>5. Marked(prog, marked, Root)
    BY <1>1 DEF Init, Marked
  <1>6. done = {}
    BY DEF Init
  <1> QED BY <1>1, <1>4, <1>5, <1>6 DEF IInv, VisitedOnce

\* A file is entered: none of the visits is of its module.
LEMMA Entered ==
    ASSUME OneFile, IInv, NEW p \in Path, NEW d \in prog.where[p], <<d, p>> \notin marked,
           NEW below, IsStack(below), SamePaths(stack, below), Enter(d, p, below)
    PROVE  IInv'
  <1> DEFINE s == stack'
             n == Len(stack)
             m == (IF (IF Len(p) = 1 THEN roots[p[1]] ELSE None) = None THEN Len(mods) + 1
                   ELSE IF Len(p) = 1 THEN roots[p[1]] ELSE None)
             v == [path |-> p, mod |-> m, core |-> {},
                   imports |-> prog.imports[p], funs |-> prog.funs[p]]
  <1>1. s = Append(below, v) /\ marked' = marked \cup {<<d, p>>}
        /\ prog' = prog /\ done' = done
    BY DEF Enter
  <1>2. prog \in Program /\ prog \in ProgramType
    BY ProgramAssumption DEF IInv
  <1>3. IsVisit(v) /\ v.path = p
    <2> HIDE DEF m
    <2>1. v \in [path : Path, mod : {m}, core : SUBSET Core,
                 imports : SUBSET Path, funs : SUBSET Name]
      BY <1>2 DEF ProgramType
    <2> QED BY <2>1 DEF IsVisit
  <1> HIDE DEF v, m
  <1>4. /\ n \in Nat /\ DOMAIN stack = 1 .. n /\ DOMAIN s = 1 .. n + 1
        /\ IsStack(s)
        /\ \A i \in 1 .. n : s[i].path = stack[i].path
        /\ s[n + 1].path = p
    <2>1. n \in Nat /\ DOMAIN stack = 1 .. n /\ Len(below) = n
      BY StackLen DEF IInv, SamePaths
    <2>2. IsStack(s) /\ Len(s) = n + 1 /\ s[n + 1] = v
      BY <1>1, <1>3, <2>1, AppendStack
    <2>3. \A i \in 1 .. n : s[i] = below[i]
      BY <1>1, <1>3, <2>1, AppendStack
    <2>4. DOMAIN s = 1 .. n + 1
      BY <2>2, StackLen
    <2>5. \A i \in 1 .. n : s[i].path = stack[i].path
      BY <2>3 DEF SamePaths
    <2> QED BY <1>3, <2>1, <2>2, <2>4, <2>5
  <1>5. ~ Marked(prog, marked, p)
    BY DEF Marked
  <1>6. p \notin done /\ \A i \in 1 .. n : stack[i].path # p
    BY <1>4, <1>5 DEF IInv
  <1>7. Marked(prog', marked', p) /\ \A q : Marked(prog, marked, q) => Marked(prog', marked', q)
    BY <1>1, <1>2 DEF OneFile, Marked
  <1>8. \A i \in DOMAIN s : Marked(prog', marked', s[i].path)
    <2>1. TAKE i \in DOMAIN s
    <2>2. CASE i = n + 1
      BY <1>4, <1>7, <2>2
    <2>3. CASE i \in 1 .. n
      <3>1. Marked(prog, marked, stack[i].path)
        BY <1>4, <2>3 DEF IInv
      <3>2. Marked(prog', marked', stack[i].path)
        BY <1>1, <3>1 DEF Marked
      <3> QED BY <1>4, <2>3, <3>2
    <2> QED BY <1>4, <2>1, <2>2, <2>3
  <1>9. VisitedOnce'
    <2>1. \A i, j \in DOMAIN s : s[i].path = s[j].path => i = j
      BY <1>4, <1>6 DEF IInv, VisitedOnce
    <2>2. \A i \in DOMAIN s : s[i].path \notin done
      BY <1>4, <1>6 DEF IInv, VisitedOnce
    <2> QED BY <1>1, <2>1, <2>2 DEF VisitedOnce
  <1> QED BY <1>1, <1>2, <1>4, <1>7, <1>8, <1>9 DEF IInv

\* The visit at the top goes on.
LEMMA GoesOn ==
    ASSUME IInv, IsStack(stack'), SamePaths(stack, stack'), UNCHANGED <<prog, marked, done>>
    PROVE  IInv'
  <1>1. DOMAIN stack = 1 .. Len(stack) /\ DOMAIN stack' = 1 .. Len(stack)
    BY StackLen DEF IInv, SamePaths
  <1>2. \A i \in DOMAIN stack' : stack'[i].path = stack[i].path
    BY <1>1 DEF SamePaths
  <1> QED BY <1>1, <1>2 DEF IInv, Marked, VisitedOnce

LEMMA FileUnmarked ==
    ASSUME NEW p, NEW d \in FileOf(p)
    PROVE  d \in prog.where[p] /\ <<d, p>> \notin marked
    BY DEF FileOf, Unread

LEMMA NextIInv == ASSUME OneFile, IInv, [Next]_vars PROVE IInv'
  <1>1. ASSUME NEW p \in Path, ImportCore(p) PROVE IInv'
    <2>1. IsStack(AfterCore(p)) /\ SamePaths(stack, AfterCore(p))
      BY <1>1, AfterStack DEF ImportCore, Active, IInv
    <2>2. CASE <<CoreDir, p>> \in marked
      BY <1>1, <2>1, <2>2, GoesOn DEF ImportCore
    <2>3. CASE <<CoreDir, p>> \notin marked
      <3>1. Enter(CoreDir, p, AfterCore(p))
        BY <1>1, <2>3 DEF ImportCore
      <3>2. p \in Core
        <4>1. IsVisit(stack[Len(stack)])
          BY <1>1, FrontStack, StackLen DEF ImportCore, Active, IInv, IsStack
        <4> QED BY <1>1, <4>1 DEF ImportCore, Top, Last, IsVisit
      <3>3. CoreDir \in prog.where[p]
        BY <3>2, ProgramAssumption DEF IInv
      <3> QED BY <2>1, <2>3, <3>1, <3>3, Entered
    <2> QED BY <2>2, <2>3
  <1>2. ASSUME NEW p \in Path, ImportKnown(p) PROVE IInv'
    BY <1>2, AfterStack, GoesOn DEF ImportKnown, Visiting, Active, IInv
  <1>3. ASSUME NEW p \in Path, ImportFile(p) PROVE IInv'
    <2>1. PICK d \in FileOf(p) : Enter(d, p, AfterImport(p))
      BY <1>3 DEF ImportFile
    <2>2. IsStack(AfterImport(p)) /\ SamePaths(stack, AfterImport(p))
      BY <1>3, AfterStack DEF ImportFile, Visiting, Active, IInv
    <2> QED BY <2>1, <2>2, FileUnmarked, Entered
  <1>4. ASSUME Throw PROVE IInv'
    <2>1. IsStack(<<>>) /\ stack' = <<>> /\ DOMAIN stack' = {}
      BY <1>4 DEF Throw, IsStack
    <2> QED BY <1>4, <2>1 DEF Throw, IInv, Marked, VisitedOnce
  <1>5. ASSUME NEW n \in Name, DeclareFunction(n) PROVE IInv'
    BY <1>5, AfterStack, GoesOn DEF DeclareFunction, Visiting, Active, IInv
  <1>6. ASSUME EndModule PROVE IInv'
    <2> DEFINE n == Len(stack)
               p == stack[n].path
    <2>1. /\ stack # <<>> /\ stack' = Front(stack) /\ done' = done \cup {p}
          /\ UNCHANGED <<prog, marked>>
      BY <1>6 DEF EndModule, Visiting, Active, Top, Last
    <2>2. /\ IsStack(stack') /\ n \in Nat \ {0}
          /\ DOMAIN stack = 1 .. n /\ DOMAIN stack' = 1 .. n - 1
          /\ \A i \in 1 .. n - 1 : stack'[i] = stack[i]
      BY <2>1, FrontStack, StackLen DEF IInv
    <2>3. p \in Path /\ Marked(prog, marked, p)
      BY <2>2 DEF IInv, IsStack, IsVisit
    <2>4. \A i \in 1 .. n - 1 : stack[i].path # p
      BY <2>2 DEF IInv, VisitedOnce
    <2>5. VisitedOnce'
      BY <2>1, <2>2, <2>4 DEF IInv, VisitedOnce
    <2>6. \A q : Marked(prog, marked, q) => Marked(prog', marked', q)
      BY <2>1 DEF Marked
    <2>7. \A i \in DOMAIN stack' : Marked(prog', marked', stack'[i].path)
      BY <2>1, <2>2 DEF IInv, Marked
    <2>8. \A q \in done' : Marked(prog', marked', q)
      BY <2>1, <2>3, <2>6 DEF IInv
    <2> QED BY <2>1, <2>2, <2>3, <2>5, <2>7, <2>8 DEF IInv
  <1>7. ASSUME NEW p \in Path, LocalImport(p) PROVE IInv'
    <2>1. PICK d \in FileOf(p) : Enter(d, p, <<>>)
      BY <1>7 DEF LocalImport
    <2>2. IsStack(<<>>) /\ SamePaths(stack, <<>>)
      BY <1>7 DEF LocalImport, Active, IsStack, SamePaths
    <2> QED BY <2>1, <2>2, FileUnmarked, Entered
  <1>8. ASSUME UNCHANGED <<prog, stack, marked, done>> PROVE IInv'
    BY <1>8 DEF IInv, Marked, VisitedOnce
  <1> QED BY <1>1, <1>2, <1>3, <1>4, <1>5, <1>6, <1>7, <1>8
          DEF Next, Import, ImportMissing, Fault, Lookup, vars

\* No file is visited while it is being visited, nor again after: the import
\* cycles of a program end, and each of its modules is declared once.
THEOREM FilesVisitedOnce == ASSUME OneFile PROVE Spec => []VisitedOnce
  <1>1. IInv => VisitedOnce
    BY DEF IInv
  <1>2. IInv /\ [Next]_vars => IInv'
    BY NextIInv
  <1> QED BY InitIInv, <1>1, <1>2, PTL DEF Spec

-----------------------------------------------------------------------------
(* Inductions on numbers and on paths.                                      *)

\* Every set of numbers that is not empty has a least one.
LEMMA LeastNumber ==
    ASSUME NEW T, T \subseteq Nat, T # {}
    PROVE  \E n \in T : \A m \in T : n <= m
  <1>1. PICK top \in T : TRUE
    OBVIOUS
  <1> DEFINE below(k) == 1 .. k
             sets == {below(k) : k \in {j \in T : j <= top}}
  <1>2. sets \subseteq FiniteSubsetsOf(Nat)
    <2>1. ASSUME NEW k \in Nat
          PROVE  below(k) \in SUBSET Nat /\ IsFiniteSet(below(k))
      BY FS_Interval
    <2> QED BY <2>1 DEF FiniteSubsetsOf
  <1>3. sets # {}
    BY <1>1
  <1>4. IsWellFoundedOn(StrictSubsetOrdering(Nat), FiniteSubsetsOf(Nat))
    BY FS_StrictSubsetOrderingWellFounded
  <1>5. PICK s \in sets : \A t \in sets : <<t, s>> \notin StrictSubsetOrdering(Nat)
    <2> HIDE DEF sets
    <2> QED BY <1>2, <1>3, <1>4, WFMin
  <1>6. PICK n \in T : n <= top /\ s = below(n)
    BY <1>5
  <1>7. ASSUME NEW m \in T, m < n
        PROVE  FALSE
    <2>1. below(m) \in sets
      BY <1>1, <1>6, <1>7
    <2>2. below(m) \subseteq below(n) /\ below(m) \in SUBSET Nat /\ below(n) \in SUBSET Nat
      BY <1>7
    <2>3. n \in below(n) /\ n \notin below(m)
      BY <1>7
    <2>4. <<below(m), s>> \in StrictSubsetOrdering(Nat)
      BY <1>6, <2>2, <2>3 DEF StrictSubsetOrdering
    <2> QED BY <1>5, <2>1, <2>4
  <1> QED BY <1>6, <1>7

\* A set with 0 and the successors of its numbers has them all.
LEMMA Numbers ==
    ASSUME NEW T, 0 \in T, \A n \in Nat : n \in T => n + 1 \in T
    PROVE  Nat \subseteq T
  <1> SUFFICES ASSUME Nat \ T # {} PROVE FALSE
    OBVIOUS
  <1>1. PICK n \in Nat \ T : \A m \in Nat \ T : n <= m
    BY LeastNumber
  <1>2. n - 1 \in Nat /\ n - 1 \in T
    BY <1>1
  <1> QED BY <1>1, <1>2

\* Paths of modules, those of the directories included.
Paths == Seq(Name) \ {<<>>}

LEMMA PathParts ==
    ASSUME NEW p \in Paths
    PROVE  /\ Len(p) \in Nat \ {0} /\ p[1] \in Name /\ p[Len(p)] \in Name
           /\ DOMAIN p = 1 .. Len(p)
           /\ Len(p) = 1 => p = <<p[1]>>
           /\ Len(p) > 1 => /\ Front(p) \in Paths /\ Len(Front(p)) = Len(p) - 1
                            /\ \A i \in 1 .. Len(p) - 1 : Front(p)[i] = p[i]
                            /\ p = Append(Front(p), p[Len(p)])
  <1>1. p \in Seq(Name) /\ Len(p) \in Nat \ {0} /\ DOMAIN p = 1 .. Len(p)
    BY DEF Paths
  <1>2. Len(p) = 1 => p = <<p[1]>>
    BY <1>1
  <1>3. ASSUME Len(p) > 1
        PROVE  /\ Front(p) \in Paths /\ Len(Front(p)) = Len(p) - 1
               /\ \A i \in 1 .. Len(p) - 1 : Front(p)[i] = p[i]
               /\ p = Append(Front(p), p[Len(p)])
    <2>1. /\ Front(p) \in Seq(Name) /\ Len(Front(p)) = Len(p) - 1
          /\ \A i \in 1 .. Len(p) - 1 : Front(p)[i] = p[i]
      BY <1>1, <1>3 DEF Front
    <2>2. Front(p) # <<>>
      BY <1>1, <1>3, <2>1
    <2> DEFINE e == p[Len(p)]
               a == Append(Front(p), e)
    <2>3. e \in Name
      BY <1>1
    <2>4. /\ a \in Seq(Name) /\ Len(a) = Len(Front(p)) + 1 /\ a[Len(Front(p)) + 1] = e
          /\ \A i \in 1 .. Len(Front(p)) : a[i] = Front(p)[i]
      <3> HIDE DEF e
      <3> QED BY <2>1, <2>3
    <2>5. Len(a) = Len(p) /\ \A i \in 1 .. Len(p) : a[i] = p[i]
      <3> HIDE DEF a
      <3> QED BY <1>1, <2>1, <2>4
    <2>6. p = a
      <3> HIDE DEF a
      <3> QED BY <1>1, <2>4, <2>5
    <2> QED BY <2>1, <2>2, <2>6 DEF Paths
  <1>4. p[1] \in Name /\ p[Len(p)] \in Name
    BY <1>1
  <1> QED BY <1>1, <1>2, <1>3, <1>4

LEMMA OneName ==
    ASSUME NEW n \in Name
    PROVE  <<n>> \in Paths /\ Len(<<n>>) = 1 /\ <<n>>[1] = n
    BY DEF Paths

LEMMA OneMore ==
    ASSUME NEW q \in Paths, NEW n \in Name
    PROVE  /\ Append(q, n) \in Paths
           /\ Len(Append(q, n)) = Len(q) + 1
           /\ \A i \in 1 .. Len(q) : Append(q, n)[i] = q[i]
           /\ Append(q, n)[Len(q) + 1] = n
    BY DEF Paths

\* A set with the paths of one name, and with those one name longer than its
\* own, has them all.
LEMMA AllPaths ==
    ASSUME NEW T, \A n \in Name : <<n>> \in T,
           \A q \in Paths, n \in Name : q \in T => Append(q, n) \in T
    PROVE  Paths \subseteq T
  <1> DEFINE L == {Len(p) : p \in Paths \ T}
  <1> SUFFICES ASSUME L # {} PROVE FALSE
    OBVIOUS
  <1>1. L \subseteq Nat
    BY PathParts
  <1>2. PICK k \in L : \A m \in L : k <= m
    <2> HIDE DEF L
    <2> QED BY <1>1, LeastNumber
  <1>3. PICK p \in Paths \ T : k = Len(p)
    BY <1>2
  <1>4. Len(p) # 1
    BY <1>3, PathParts
  <1>5. Front(p) \in Paths /\ Len(Front(p)) = Len(p) - 1 /\ Len(p) \in Nat
    BY <1>3, <1>4, PathParts
  <1>6. Front(p) \in T
    <2>1. Len(Front(p)) \notin L
      BY <1>2, <1>3, <1>5
    <2> QED BY <1>5, <2>1
  <1>7. p = Append(Front(p), p[Len(p)]) /\ p[Len(p)] \in Name
    BY <1>3, <1>4, PathParts
  <1> QED BY <1>3, <1>5, <1>6, <1>7

-----------------------------------------------------------------------------
(* What Follow computes.                                                    *)

\* The modules on the way of p.
IsTrail(F, h, t, p) ==
    F = [i \in 1 .. Len(p) |->
            IF i = 1 THEN t[p[1]]
            ELSE IF F[i - 1] = None THEN None ELSE h[F[i - 1]].subs[p[i]]]

LEMMA TrailsAgree ==
    ASSUME NEW h, NEW t, NEW p \in Paths, NEW F, IsTrail(F, h, t, p), NEW G, IsTrail(G, h, t, p)
    PROVE  F[Len(p)] = G[Len(p)]
  <1> DEFINE T == {i \in Nat : i + 1 \in 1 .. Len(p) => F[i + 1] = G[i + 1]}
  <1>1. Len(p) \in Nat \ {0}
    BY PathParts
  <1>2. \A i \in 1 .. Len(p) :
           /\ F[i] = IF i = 1 THEN t[p[1]]
                     ELSE IF F[i - 1] = None THEN None ELSE h[F[i - 1]].subs[p[i]]
           /\ G[i] = IF i = 1 THEN t[p[1]]
                     ELSE IF G[i - 1] = None THEN None ELSE h[G[i - 1]].subs[p[i]]
    BY DEF IsTrail
  <1>3. 0 \in T
    BY <1>1, <1>2
  <1>4. ASSUME NEW n \in Nat, n \in T
        PROVE  n + 1 \in T
    <2> SUFFICES ASSUME n + 2 \in 1 .. Len(p) PROVE F[n + 2] = G[n + 2]
      BY <1>4
    <2>1. n + 1 \in 1 .. Len(p) /\ n + 2 # 1 /\ (n + 2) - 1 = n + 1
      BY <1>1
    <2>2. F[n + 1] = G[n + 1]
      BY <1>4, <2>1
    <2> QED BY <1>2, <2>1, <2>2
  <1>5. Nat \subseteq T
    <2> HIDE DEF T
    <2> QED BY <1>3, <1>4, Numbers
  <1>6. Len(p) - 1 \in Nat /\ (Len(p) - 1) + 1 = Len(p)
    BY <1>1
  <1> QED BY <1>1, <1>5, <1>6

LEMMA FollowTrail ==
    ASSUME NEW h, NEW t, NEW p \in Paths, NEW F, IsTrail(F, h, t, p)
    PROVE  Follow(h, t, p) = F[Len(p)]
  <1> DEFINE G == CHOOSE a : IsTrail(a, h, t, p)
  <1>1. IsTrail(G, h, t, p)
    OBVIOUS
  <1>2. Follow(h, t, p) = G[Len(p)]
    BY DEF Follow, IsTrail
  <1> HIDE DEF G
  <1> QED BY <1>1, <1>2, TrailsAgree

LEMMA TrailOne ==
    ASSUME NEW h, NEW t, NEW n \in Name
    PROVE  IsTrail([i \in 1 .. 1 |-> t[n]], h, t, <<n>>)
    BY OneName DEF IsTrail

LEMMA TrailMore ==
    ASSUME NEW h, NEW t, NEW q \in Paths, NEW n \in Name, NEW F, IsTrail(F, h, t, q)
    PROVE  LET k == Len(q)
           IN  IsTrail([i \in 1 .. k + 1 |->
                          IF i = k + 1 THEN IF F[k] = None THEN None ELSE h[F[k]].subs[n] ELSE F[i]],
                       h, t, Append(q, n))
  <1> DEFINE k == Len(q)
             p == Append(q, n)
             v == IF F[k] = None THEN None ELSE h[F[k]].subs[n]
             G == [i \in 1 .. k + 1 |-> IF i = k + 1 THEN v ELSE F[i]]
  <1>1. k \in Nat \ {0} /\ Len(p) = k + 1 /\ p[k + 1] = n /\ \A i \in 1 .. k : p[i] = q[i]
    BY OneMore, PathParts
  <1>2. \A i \in 1 .. k : F[i] = IF i = 1 THEN t[q[1]]
                                 ELSE IF F[i - 1] = None THEN None ELSE h[F[i - 1]].subs[q[i]]
    BY DEF IsTrail
  <1>3. ASSUME NEW i \in 1 .. k + 1
        PROVE  G[i] = IF i = 1 THEN t[p[1]]
                      ELSE IF G[i - 1] = None THEN None ELSE h[G[i - 1]].subs[p[i]]
    <2> HIDE DEF v
    <2>1. CASE i = k + 1
      <3>1. G[i - 1] = F[k] /\ G[i] = v /\ i # 1
        BY <1>1, <2>1
      <3> QED BY <1>1, <2>1, <3>1 DEF v
    <2>2. CASE i \in 1 .. k /\ i # 1
      <3>1. i - 1 \in 1 .. k /\ i - 1 # k + 1 /\ i # k + 1
        BY <1>1, <2>2
      <3>2. G[i] = F[i] /\ G[i - 1] = F[i - 1]
        BY <1>1, <2>2, <3>1
      <3> HIDE DEF G
      <3> QED BY <1>1, <1>2, <2>2, <3>2
    <2>3. CASE i = 1 /\ i \in 1 .. k
      <3>1. G[i] = F[1]
        BY <1>1, <2>3
      <3> HIDE DEF G
      <3> QED BY <1>1, <1>2, <2>3, <3>1
    <2> QED BY <1>1, <2>1, <2>2, <2>3
  <1> HIDE DEF v
  <1>4. G = [i \in 1 .. k + 1 |-> IF i = 1 THEN t[p[1]]
                      ELSE IF G[i - 1] = None THEN None ELSE h[G[i - 1]].subs[p[i]]]
    <2>1. G = [i \in 1 .. k + 1 |-> G[i]]
      OBVIOUS
    <2> HIDE DEF G
    <2> QED BY <1>3, <2>1
  <1>5. IsTrail(G, h, t, p)
    BY <1>1, <1>4 DEF IsTrail
  <1> QED BY <1>5 DEF v

LEMMA Trails ==
    ASSUME NEW h, NEW t
    PROVE  \A p \in Paths : \E F : IsTrail(F, h, t, p)
  <1> DEFINE T == {p \in Paths : \E F : IsTrail(F, h, t, p)}
  <1>1. \A n \in Name : <<n>> \in T
    BY TrailOne, OneName
  <1>2. \A q \in Paths, n \in Name : q \in T => Append(q, n) \in T
    BY TrailMore, OneMore
  <1>3. Paths \subseteq T
    <2> HIDE DEF T
    <2> QED BY <1>1, <1>2, AllPaths
  <1> QED BY <1>3

LEMMA FollowOne ==
    ASSUME NEW h, NEW t, NEW n \in Name
    PROVE  Follow(h, t, <<n>>) = t[n]
  <1> DEFINE F == [i \in 1 .. 1 |-> t[n]]
  <1>1. IsTrail(F, h, t, <<n>>) /\ <<n>> \in Paths /\ Len(<<n>>) = 1
    BY TrailOne, OneName
  <1>2. F[1] = t[n]
    OBVIOUS
  <1> HIDE DEF F
  <1> QED BY <1>1, <1>2, FollowTrail

LEMMA FollowMore ==
    ASSUME NEW h, NEW t, NEW q \in Paths, NEW n \in Name
    PROVE  Follow(h, t, Append(q, n)) =
              IF Follow(h, t, q) = None THEN None ELSE h[Follow(h, t, q)].subs[n]
  <1> DEFINE k == Len(q)
  <1>1. PICK F : IsTrail(F, h, t, q)
    BY Trails
  <1> DEFINE v == IF F[k] = None THEN None ELSE h[F[k]].subs[n]
             G == [i \in 1 .. k + 1 |-> IF i = k + 1 THEN v ELSE F[i]]
  <1>2. Follow(h, t, q) = F[k]
    BY <1>1, FollowTrail
  <1>3. IsTrail(G, h, t, Append(q, n))
    BY <1>1, TrailMore
  <1>4. Append(q, n) \in Paths /\ Len(Append(q, n)) = k + 1 /\ k \in Nat
    BY OneMore, PathParts
  <1>5. G[k + 1] = v
    <2> HIDE DEF v
    <2> QED BY <1>4
  <1>6. Follow(h, t, Append(q, n)) = G[k + 1]
    <2> HIDE DEF G
    <2> QED BY <1>3, <1>4, FollowTrail
  <1> QED BY <1>2, <1>5, <1>6

-----------------------------------------------------------------------------
(* The tree of the modules.                                                 *)

ModuleType == [subs : [Name -> Nat], funs : SUBSET (Path \X Name)]

\* The functions that a program has in q.
Own(pr, q) == IF q \in Path THEN pr.funs[q] ELSE {}

\* Each module of the heap has its place: the tables lead from a place to those
\* below it, and the functions of a module are those of its place.
IsTree(pr, h, t, place) ==
    /\ h \in Seq(ModuleType) /\ t \in [Name -> Nat]
    /\ place \in [1 .. Len(h) -> Paths]
    /\ \A n \in Name : t[n] # None => t[n] \in 1 .. Len(h) /\ place[t[n]] = <<n>>
    /\ \A i \in 1 .. Len(h), n \in Name :
          h[i].subs[n] # None => /\ h[i].subs[n] \in 1 .. Len(h)
                                 /\ place[h[i].subs[n]] = Append(place[i], n)
    /\ \A i \in 1 .. Len(h) : h[i].funs \subseteq {place[i]} \X Own(pr, place[i])

\* A path leads to a module of that place.
LEMMA FollowPlace ==
    ASSUME NEW pr, NEW h, NEW t, NEW place, IsTree(pr, h, t, place)
    PROVE  \A r \in Paths : Follow(h, t, r) # None =>
              Follow(h, t, r) \in 1 .. Len(h) /\ place[Follow(h, t, r)] = r
  <1> DEFINE T == {r \in Paths : Follow(h, t, r) # None =>
                      Follow(h, t, r) \in 1 .. Len(h) /\ place[Follow(h, t, r)] = r}
  <1>1. ASSUME NEW n \in Name PROVE <<n>> \in T
    BY FollowOne, OneName DEF IsTree
  <1>2. ASSUME NEW q \in Paths, NEW n \in Name, q \in T PROVE Append(q, n) \in T
    <2>1. Append(q, n) \in Paths
      BY OneMore
    <2>2. Follow(h, t, Append(q, n)) =
             IF Follow(h, t, q) = None THEN None ELSE h[Follow(h, t, q)].subs[n]
      BY FollowMore
    <2> QED BY <1>2, <2>1, <2>2 DEF IsTree
  <1>3. Paths \subseteq T
    <2> HIDE DEF T
    <2> QED BY <1>1, <1>2, AllPaths
  <1> QED BY <1>3

LEMMA FollowIn ==
    ASSUME NEW pr, NEW h, NEW t, NEW place, IsTree(pr, h, t, place), NEW r \in Paths
    PROVE  /\ Follow(h, t, r) \in Nat /\ Len(h) \in Nat
           /\ Follow(h, t, r) # None =>
                 Follow(h, t, r) \in 1 .. Len(h) /\ place[Follow(h, t, r)] = r
  <1>1. Len(h) \in Nat
    BY DEF IsTree
  <1> QED BY <1>1, FollowPlace DEF None

\* The module last takes the place p: it is the one to which the tables lead, and
\* has the submodules of the one that was there.
Grafts(h, t, place, h2, t2, p, last) ==
    /\ h2 \in Seq(ModuleType) /\ t2 \in [Name -> Nat]
    /\ last \in 1 .. Len(h2)
    /\ last <= Len(h) => Len(h2) = Len(h) /\ place[last] = p
    /\ last > Len(h) => Len(h2) = Len(h) + 1
    /\ Len(p) = 1 \/ Follow(h, t, Front(p)) # None
    /\ \A n \in Name : t2[n] = IF p = <<n>> THEN last ELSE t[n]
    /\ \A i \in 1 .. Len(h), n \in Name : i # last =>
          h2[i].subs[n] = IF p = Append(place[i], n) /\ Follow(h, t, place[i]) = i
                          THEN last ELSE h[i].subs[n]
    /\ \A n \in Name :
          h2[last].subs[n] = IF Follow(h, t, p) = None THEN None ELSE h[Follow(h, t, p)].subs[n]

LEMMA GraftFollow ==
    ASSUME NEW pr, NEW h, NEW t, NEW place, IsTree(pr, h, t, place),
           NEW h2, NEW t2, NEW p \in Paths, NEW last, Grafts(h, t, place, h2, t2, p, last)
    PROVE  \A r \in Paths : Follow(h2, t2, r) = IF r = p THEN last ELSE Follow(h, t, r)
  <1> DEFINE T == {r \in Paths : Follow(h2, t2, r) = IF r = p THEN last ELSE Follow(h, t, r)}
  <1>1. ASSUME NEW n \in Name PROVE <<n>> \in T
    BY FollowOne, OneName DEF Grafts
  <1>2. ASSUME NEW q \in Paths, NEW n \in Name, q \in T PROVE Append(q, n) \in T
    <2> DEFINE r == Append(q, n)
    <2>1. r \in Paths /\ Len(r) = Len(q) + 1 /\ Len(q) \in Nat \ {0}
      BY OneMore, PathParts
    <2>2. /\ Follow(h, t, r) = IF Follow(h, t, q) = None THEN None ELSE h[Follow(h, t, q)].subs[n]
          /\ Follow(h2, t2, r) =
                IF Follow(h2, t2, q) = None THEN None ELSE h2[Follow(h2, t2, q)].subs[n]
      BY FollowMore
    <2>3. last # None
      BY DEF Grafts, None
    <2>4. CASE q = p
      <3>1. r # p
        BY <2>1, <2>4
      <3>2. Follow(h2, t2, q) = last
        BY <1>2, <2>4
      <3>3. Follow(h2, t2, r) = Follow(h, t, r)
        BY <2>2, <2>3, <2>4, <3>2 DEF Grafts
      <3> QED BY <2>1, <3>1, <3>3
    <2>5. CASE q # p
      <3> DEFINE i == Follow(h, t, q)
      <3>1. Follow(h2, t2, q) = i
        BY <1>2, <2>5
      <3>2. CASE i = None
        <4>1. r # p
          <5> SUFFICES ASSUME r = p PROVE FALSE
            OBVIOUS
          <5>1. Len(p) # 1
            BY <2>1
          <5>2. Front(p) = q
            <6>1. q \in Seq(Name) /\ r = Append(q, n)
              BY DEF Paths
            <6>2. Len(Front(r)) = Len(q) /\ \A j \in 1 .. Len(q) : Front(r)[j] = q[j]
              BY <2>1, PathParts, OneMore
            <6>3. Front(r) \in Seq(Name)
              BY <2>1, PathParts DEF Paths
            <6> HIDE DEF r
            <6> QED BY <6>1, <6>2, <6>3
          <5> QED BY <3>2, <5>1, <5>2 DEF Grafts
        <4> QED BY <2>1, <2>2, <3>1, <3>2, <4>1
      <3>3. CASE i # None
        <4>1. i \in 1 .. Len(h) /\ place[i] = q
          BY <3>3, FollowPlace
        <4>2. i # last
          BY <2>5, <4>1 DEF Grafts
        <4>3. h2[i].subs[n] = IF p = r THEN last ELSE h[i].subs[n]
          <5> HIDE DEF i
          <5> QED BY <4>1, <4>2, <3>1 DEF Grafts, i
        <4> QED BY <2>1, <2>2, <3>1, <3>3, <4>3
      <3> QED BY <3>2, <3>3
    <2> QED BY <2>4, <2>5
  <1>3. Paths \subseteq T
    <2> HIDE DEF T
    <2> QED BY <1>1, <1>2, AllPaths
  <1> QED BY <1>3

LEMMA GraftTree ==
    ASSUME NEW pr, NEW h, NEW t, NEW place, IsTree(pr, h, t, place),
           NEW h2, NEW t2, NEW p \in Paths, NEW last, Grafts(h, t, place, h2, t2, p, last),
           \A i \in 1 .. Len(h) : i # last => h2[i].funs \subseteq h[i].funs,
           h2[last].funs \subseteq {p} \X Own(pr, p)
    PROVE  IsTree(pr, h2, t2, [i \in 1 .. Len(h2) |-> IF i <= Len(h) THEN place[i] ELSE p])
  <1> DEFINE place2 == [i \in 1 .. Len(h2) |-> IF i <= Len(h) THEN place[i] ELSE p]
  <1>1. /\ Len(h) \in Nat /\ Len(h2) \in Nat /\ last \in 1 .. Len(h2)
        /\ \A i \in 1 .. Len(h2) : i # last => i \in 1 .. Len(h)
        /\ Len(h) <= Len(h2)
    <2>1. h \in Seq(ModuleType) /\ h2 \in Seq(ModuleType)
      BY DEF IsTree, Grafts
    <2>2. Len(h) \in Nat /\ Len(h2) \in Nat
      BY <2>1
    <2> QED BY <2>2 DEF Grafts
  <1>2. \A i \in 1 .. Len(h) : place2[i] = place[i] /\ place[i] \in Paths
    BY <1>1 DEF IsTree
  <1>3. place2[last] = p
    BY <1>1 DEF Grafts
  <1>4. place2 \in [1 .. Len(h2) -> Paths]
    <2>1. ASSUME NEW i \in 1 .. Len(h2)
          PROVE  (IF i <= Len(h) THEN place[i] ELSE p) \in Paths
      <3>1. CASE i <= Len(h)
        <4>1. i \in 1 .. Len(h)
          BY <1>1, <3>1
        <4> QED BY <1>2, <3>1, <4>1
      <3>2. CASE ~ (i <= Len(h))
        BY <3>2
      <3> QED BY <3>1, <3>2
    <2> QED BY <2>1
  <1> HIDE DEF place2
  <1>5. ASSUME NEW n \in Name, t2[n] # None
        PROVE  t2[n] \in 1 .. Len(h2) /\ place2[t2[n]] = <<n>>
    BY <1>1, <1>2, <1>3, <1>5 DEF Grafts, IsTree
  <1>6. ASSUME NEW i \in 1 .. Len(h2), NEW n \in Name, h2[i].subs[n] # None
        PROVE  h2[i].subs[n] \in 1 .. Len(h2) /\ place2[h2[i].subs[n]] = Append(place2[i], n)
    <2>1. CASE i # last
      <3>1. i \in 1 .. Len(h) /\ place2[i] = place[i]
        BY <1>1, <1>2, <2>1
      <3>2. (h2[i].subs[n] = last /\ p = Append(place[i], n)) \/ h2[i].subs[n] = h[i].subs[n]
        BY <2>1, <3>1 DEF Grafts
      <3>3. CASE h2[i].subs[n] = last /\ p = Append(place[i], n)
        BY <1>1, <1>3, <3>1, <3>3
      <3>4. CASE h2[i].subs[n] = h[i].subs[n]
        <4>1. h[i].subs[n] \in 1 .. Len(h) /\ place[h[i].subs[n]] = Append(place[i], n)
          BY <1>6, <3>1, <3>4 DEF IsTree
        <4> QED BY <1>1, <1>2, <3>1, <3>4, <4>1
      <3> QED BY <3>2, <3>3, <3>4
    <2>2. CASE i = last
      <3> DEFINE old == Follow(h, t, p)
      <3>1. old # None /\ h2[i].subs[n] = h[old].subs[n]
        BY <1>6, <2>2 DEF Grafts
      <3>2. old \in 1 .. Len(h) /\ place[old] = p
        BY <3>1, FollowPlace
      <3>3. h[old].subs[n] \in 1 .. Len(h) /\ place[h[old].subs[n]] = Append(p, n)
        <4> HIDE DEF old
        <4> QED BY <1>6, <3>1, <3>2 DEF IsTree
      <3> DEFINE c == h[old].subs[n]
      <3>4. c \in 1 .. Len(h2) /\ place2[c] = Append(p, n)
        <4> HIDE DEF old
        <4>1. c \in 1 .. Len(h) /\ place[c] = Append(p, n)
          BY <3>3
        <4> HIDE DEF c
        <4> QED BY <1>1, <1>2, <4>1
      <3>5. h2[i].subs[n] = c /\ place2[i] = p
        BY <1>3, <2>2, <3>1
      <3> HIDE DEF c
      <3> QED BY <3>4, <3>5
    <2> QED BY <2>1, <2>2
  <1>7. ASSUME NEW i \in 1 .. Len(h2)
        PROVE  h2[i].funs \subseteq {place2[i]} \X Own(pr, place2[i])
    <2>1. CASE i = last
      BY <1>3, <2>1
    <2>2. CASE i # last
      <3>1. i \in 1 .. Len(h) /\ place2[i] = place[i]
        BY <1>1, <1>2, <2>2
      <3>2. h[i].funs \subseteq {place[i]} \X Own(pr, place[i])
        BY <3>1 DEF IsTree
      <3> QED BY <2>2, <3>1, <3>2
    <2> QED BY <2>1, <2>2
  <1>8. h2 \in Seq(ModuleType) /\ t2 \in [Name -> Nat]
    BY DEF Grafts
  <1>9. IsTree(pr, h2, t2, place2)
    BY <1>4, <1>5, <1>6, <1>7, <1>8 DEF IsTree
  <1> QED BY <1>9 DEF place2

-----------------------------------------------------------------------------
(* The way to a submodule.                                                  *)

LEMMA Upto ==
    ASSUME NEW p \in Paths, NEW k \in 1 .. Len(p)
    PROVE  /\ SubSeq(p, 1, k) \in Paths /\ Len(SubSeq(p, 1, k)) = k
           /\ \A i \in 1 .. k : SubSeq(p, 1, k)[i] = p[i]
  <1>1. p \in Seq(Name) /\ Len(p) \in Nat /\ k \in Nat \ {0} /\ k <= Len(p)
    BY DEF Paths
  <1>2. /\ SubSeq(p, 1, k) \in Seq(Name) /\ Len(SubSeq(p, 1, k)) = k
        /\ \A i \in 1 .. k : SubSeq(p, 1, k)[i] = p[i]
    BY <1>1
  <1> QED BY <1>1, <1>2 DEF Paths

LEMMA UptoOne == ASSUME NEW p \in Paths PROVE SubSeq(p, 1, 1) = <<p[1]>>
  <1>1. Len(p) \in Nat \ {0} /\ p[1] \in Name
    BY PathParts
  <1>2. SubSeq(p, 1, 1) \in Paths /\ Len(SubSeq(p, 1, 1)) = 1 /\ SubSeq(p, 1, 1)[1] = p[1]
    BY <1>1, Upto
  <1> QED BY <1>2, PathParts

LEMMA UptoMore ==
    ASSUME NEW p \in Paths, NEW k \in 1 .. Len(p) - 1
    PROVE  /\ SubSeq(p, 1, k + 1) = Append(SubSeq(p, 1, k), p[k + 1])
           /\ p[k + 1] \in Name
           /\ IsBelow(p, SubSeq(p, 1, k))
  <1>1. Len(p) \in Nat /\ k \in 1 .. Len(p) /\ k + 1 \in 1 .. Len(p) /\ k < Len(p)
    BY PathParts
  <1> DEFINE a == SubSeq(p, 1, k)
             b == SubSeq(p, 1, k + 1)
  <1>2. a \in Paths /\ Len(a) = k /\ \A i \in 1 .. k : a[i] = p[i]
    BY <1>1, Upto
  <1>3. b \in Paths /\ Len(b) = k + 1 /\ \A i \in 1 .. k + 1 : b[i] = p[i]
    <2> DEFINE j == k + 1
    <2>1. j \in 1 .. Len(p)
      BY <1>1
    <2> HIDE DEF j
    <2>2. SubSeq(p, 1, j) \in Paths /\ Len(SubSeq(p, 1, j)) = j
          /\ \A i \in 1 .. j : SubSeq(p, 1, j)[i] = p[i]
      BY <2>1, Upto
    <2> QED BY <2>2 DEF j
  <1> HIDE DEF a, b
  <1>4. Len(b) # 1 /\ b[Len(b)] = p[k + 1] /\ Len(b) > 1
    BY <1>1, <1>3
  <1>5. /\ b[Len(b)] \in Name /\ Front(b) \in Paths /\ Len(Front(b)) = k
        /\ \A i \in 1 .. k : Front(b)[i] = b[i]
        /\ b = Append(Front(b), b[Len(b)])
    BY <1>1, <1>3, <1>4, PathParts
  <1>6. Front(b) = a
    <2>1. Front(b) \in Seq(Name) /\ a \in Seq(Name)
      BY <1>2, <1>5 DEF Paths
    <2>2. \A i \in 1 .. k : Front(b)[i] = a[i]
      BY <1>1, <1>2, <1>3, <1>5
    <2> HIDE DEF Front
    <2> DEFINE f == Front(b)
    <2>3. f \in Seq(Name) /\ Len(f) = k /\ \A i \in 1 .. k : f[i] = a[i]
      BY <1>5, <2>1, <2>2
    <2> HIDE DEF f
    <2>4. f = a
      BY <1>2, <2>1, <2>3
    <2> QED BY <2>4 DEF f
  <1>7. IsBelow(p, a)
    BY <1>1, <1>2 DEF IsBelow, a
  <1> QED BY <1>4, <1>5, <1>6, <1>7 DEF a, b

LEMMA UptoFront ==
    ASSUME NEW p \in Paths, Len(p) > 1
    PROVE  SubSeq(p, 1, Len(p) - 1) = Front(p)
    BY DEF Front

LEMMA PathsOf == Path \subseteq Paths
    BY PathAssumption DEF Paths

\* The tables that lead to p do not hide the functions on the way.
LEMMA NoClash ==
    ASSUME NEW pr \in Program, NamesDiffer(pr),
           NEW h, NEW t, NEW place, IsTree(pr, h, t, place),
           NEW p \in Path, NEW k \in 1 .. Len(p) - 1,
           NEW i \in 1 .. Len(h), place[i] = SubSeq(p, 1, k), NEW n, n = p[k + 1], NEW c \in Nat
    PROVE  Replace(h[i], n, c) = [subs |-> [h[i].subs EXCEPT ![n] = c], funs |-> h[i].funs]
  <1>1. p \in Paths /\ Len(p) \in Nat /\ k \in 1 .. Len(p)
    BY PathsOf, PathParts
  <1>2. IsBelow(p, place[i]) /\ Len(place[i]) = k
    BY <1>1, UptoMore, Upto
  <1>3. place[i] \in Path => p[k + 1] \notin pr.funs[place[i]]
    BY <1>2 DEF NamesDiffer
  <1>4. \A f \in h[i].funs : f[2] # p[k + 1]
    <2>1. h[i].funs \subseteq {place[i]} \X Own(pr, place[i])
      BY DEF IsTree
    <2> QED BY <1>3, <2>1 DEF Own
  <1>5. {f \in h[i].funs : f[2] # p[k + 1]} = h[i].funs
    BY <1>4
  <1> QED BY <1>5 DEF Replace

\* The tree h2, t2 has all that h, t has, and else only modules that p is below.
Keeps(h, t, place, h2, t2, place2, p) ==
    /\ Len(h) <= Len(h2)
    /\ \A i \in 1 .. Len(h) : place2[i] = place[i] /\ h[i].funs \subseteq h2[i].funs
    /\ \A i \in 1 .. Len(h) : Follow(h, t, place[i]) # i => h2[i] = h[i]
    /\ \A r \in Paths : Follow(h, t, r) # None => Follow(h2, t2, r) = Follow(h, t, r)
    /\ \A r \in Paths : Follow(h, t, r) = None /\ Follow(h2, t2, r) # None =>
          IsBelow(p, r) /\ Follow(h2, t2, r) > Len(h)

LEMMA KeepsSame ==
    ASSUME NEW h, NEW t, NEW place, NEW p, Len(h) \in Nat
    PROVE  Keeps(h, t, place, h, t, place, p)
    BY DEF Keeps

LEMMA KeepsOn ==
    ASSUME NEW pr, NEW h1, NEW t1, NEW pl1, IsTree(pr, h1, t1, pl1),
           NEW h2, NEW t2, NEW pl2, IsTree(pr, h2, t2, pl2),
           NEW h3, NEW t3, NEW pl3, IsTree(pr, h3, t3, pl3), NEW p,
           Keeps(h1, t1, pl1, h2, t2, pl2, p), Keeps(h2, t2, pl2, h3, t3, pl3, p)
    PROVE  Keeps(h1, t1, pl1, h3, t3, pl3, p)
  <1>1. /\ Len(h1) \in Nat /\ Len(h2) \in Nat /\ Len(h3) \in Nat
        /\ Len(h1) <= Len(h2) /\ Len(h2) <= Len(h3)
        /\ \A i \in 1 .. Len(h1) : i \in 1 .. Len(h2) /\ i \in 1 .. Len(h3) /\ pl1[i] \in Paths
    <2>1. Len(h1) \in Nat /\ Len(h2) \in Nat /\ Len(h3) \in Nat
      BY DEF IsTree
    <2>2. Len(h1) <= Len(h2) /\ Len(h2) <= Len(h3)
      BY DEF Keeps
    <2>3. \A i \in 1 .. Len(h1) : pl1[i] \in Paths
      BY DEF IsTree
    <2> QED BY <2>1, <2>2, <2>3
  <1>2. ASSUME NEW i \in 1 .. Len(h1), Follow(h1, t1, pl1[i]) # i PROVE h3[i] = h1[i]
    <2>1. h2[i] = h1[i] /\ pl2[i] = pl1[i]
      BY <1>2 DEF Keeps
    <2>2. Follow(h2, t2, pl1[i]) # i
      <3>1. CASE Follow(h1, t1, pl1[i]) # None
        BY <1>1, <1>2, <3>1 DEF Keeps
      <3>2. CASE Follow(h1, t1, pl1[i]) = None
        <4>1. i # None /\ ~ (i > Len(h1))
          BY <1>1 DEF None
        <4>2. pl1[i] \in Paths
          BY <1>1
        <4> QED BY <3>2, <4>1, <4>2 DEF Keeps
      <3> QED BY <3>1, <3>2
    <2> QED BY <1>1, <2>1, <2>2 DEF Keeps
  <1>3. ASSUME NEW i \in 1 .. Len(h1) PROVE pl3[i] = pl1[i] /\ h1[i].funs \subseteq h3[i].funs
    BY <1>1 DEF Keeps
  <1>4. ASSUME NEW r \in Paths, Follow(h1, t1, r) # None
        PROVE  Follow(h3, t3, r) = Follow(h1, t1, r)
    BY <1>4 DEF Keeps
  <1>5. ASSUME NEW r \in Paths, Follow(h1, t1, r) = None, Follow(h3, t3, r) # None
        PROVE  IsBelow(p, r) /\ Follow(h3, t3, r) > Len(h1)
    <2>1. CASE Follow(h2, t2, r) = None
      <3>1. Follow(h3, t3, r) \in Nat
        BY FollowIn
      <3> QED BY <1>1, <1>5, <2>1, <3>1 DEF Keeps
    <2>2. CASE Follow(h2, t2, r) # None
      BY <1>5, <2>2 DEF Keeps
    <2> QED BY <2>1, <2>2
  <1> QED BY <1>1, <1>2, <1>3, <1>4, <1>5 DEF Keeps

\* A module that is new and has nothing.
LEMMA NewOk == NewModule \in ModuleType /\ NewModule.funs = {}
               /\ \A n \in Name : NewModule.subs[n] = None
    BY DEF NewModule, ModuleType, None

\* A new module below which p is.
LEMMA NewGraft ==
    ASSUME NEW pr, NEW h, NEW t, NEW place, IsTree(pr, h, t, place),
           NEW h2, NEW t2, NEW p, NEW q \in Paths, IsBelow(p, q), Follow(h, t, q) = None,
           NEW last, last = Len(h) + 1, Grafts(h, t, place, h2, t2, q, last),
           \A i \in 1 .. Len(h) : h2[i].funs = h[i].funs,
           \A i \in 1 .. Len(h) : Follow(h, t, place[i]) # i => h2[i] = h[i],
           h2[last].funs = {}
    PROVE  /\ Follow(h2, t2, q) = last
           /\ \E place2 : IsTree(pr, h2, t2, place2) /\ Keeps(h, t, place, h2, t2, place2, p)
  <1> DEFINE place2 == [i \in 1 .. Len(h2) |-> IF i <= Len(h) THEN place[i] ELSE q]
  <1>1. Len(h) \in Nat /\ Len(h2) = Len(h) + 1
    <2>1. Len(h) \in Nat
      BY DEF IsTree
    <2> QED BY <2>1 DEF Grafts
  <1>2. \A r \in Paths : Follow(h2, t2, r) = IF r = q THEN last ELSE Follow(h, t, r)
    BY GraftFollow
  <1>3. IsTree(pr, h2, t2, place2)
    <2>1. \A i \in 1 .. Len(h) : i # last => h2[i].funs \subseteq h[i].funs
      OBVIOUS
    <2>2. h2[last].funs \subseteq {q} \X Own(pr, q)
      OBVIOUS
    <2>3. Grafts(h, t, place, h2, t2, q, last)
      OBVIOUS
    <2> HIDE DEF place2
    <2> QED BY <2>1, <2>2, <2>3, GraftTree DEF place2
  <1>4. \A i \in 1 .. Len(h) : place2[i] = place[i]
    BY <1>1
  <1> HIDE DEF place2
  <1>5. Keeps(h, t, place, h2, t2, place2, p)
    BY <1>1, <1>2, <1>4 DEF Keeps
  <1> QED BY <1>2, <1>3, <1>5

LEMMA SameParts ==
    ASSUME NEW q \in Paths, NEW n \in Name, NEW r \in Paths, NEW m \in Name,
           Append(q, n) = Append(r, m)
    PROVE  q = r /\ n = m
  <1> DEFINE a == Append(q, n)
             b == Append(r, m)
  <1>1. /\ Len(a) = Len(q) + 1 /\ \A i \in 1 .. Len(q) : a[i] = q[i]
        /\ a[Len(q) + 1] = n
    BY OneMore
  <1>2. /\ Len(b) = Len(r) + 1 /\ \A i \in 1 .. Len(r) : b[i] = r[i]
        /\ b[Len(r) + 1] = m
    BY OneMore
  <1>3. q \in Seq(Name) /\ r \in Seq(Name) /\ Len(q) \in Nat /\ Len(r) \in Nat
    BY DEF Paths
  <1>4. a = b
    OBVIOUS
  <1> HIDE DEF a, b
  <1>5. Len(q) = Len(r) /\ n = m /\ \A i \in 1 .. Len(q) : q[i] = r[i]
    BY <1>1, <1>2, <1>3, <1>4
  <1> QED BY <1>3, <1>5

LEMMA SetSub ==
    ASSUME NEW m \in ModuleType, NEW n \in Name, NEW c \in Nat
    PROVE  /\ [m EXCEPT !.subs[n] = c] \in ModuleType
           /\ [m EXCEPT !.subs[n] = c].funs = m.funs
           /\ \A k \in Name : [m EXCEPT !.subs[n] = c].subs[k] = IF k = n THEN c ELSE m.subs[k]
  <1>1. m.subs \in [Name -> Nat] /\ m.funs \in SUBSET (Path \X Name)
        /\ m = [subs |-> m.subs, funs |-> m.funs]
    BY DEF ModuleType
  <1> DEFINE s == [m.subs EXCEPT ![n] = c]
  <1>2. s \in [Name -> Nat] /\ \A k \in Name : s[k] = IF k = n THEN c ELSE m.subs[k]
    BY <1>1
  <1>3. [m EXCEPT !.subs[n] = c] = [subs |-> s, funs |-> m.funs]
    BY <1>1
  <1> HIDE DEF s
  <1> QED BY <1>1, <1>2, <1>3 DEF ModuleType

LEMMA DescendKeeps ==
    ASSUME NEW pr \in Program, NamesDiffer(pr),
           NEW h, NEW t, NEW place, IsTree(pr, h, t, place),
           NEW p \in Path, NEW k \in 1 .. Len(p) - 1, k + 1 < Len(p),
           NEW w, w = [heap |-> h, at |-> Follow(h, t, SubSeq(p, 1, k))], w.at # None
    PROVE  LET v == Descend(w, p[k + 1])
           IN  /\ v = [heap |-> v.heap, at |-> Follow(v.heap, t, SubSeq(p, 1, k + 1))]
               /\ v.at # None
               /\ \E place2 : /\ IsTree(pr, v.heap, t, place2)
                              /\ Keeps(h, t, place, v.heap, t, place2, p)
  <1> DEFINE q  == SubSeq(p, 1, k)
             n  == p[k + 1]
             at == Follow(h, t, q)
             c  == h[at].subs[n]
             r  == SubSeq(p, 1, k + 1)
             v  == Descend(w, n)
  <1>1. p \in Paths /\ Len(p) \in Nat /\ k \in 1 .. Len(p) /\ k + 1 \in 1 .. Len(p) - 1
    BY PathsOf, PathParts
  <1>2. q \in Paths /\ Len(q) = k /\ r \in Paths /\ Len(r) = k + 1
    <2> DEFINE j == k + 1
    <2>1. j \in 1 .. Len(p)
      BY <1>1
    <2> HIDE DEF j
    <2>2. SubSeq(p, 1, j) \in Paths /\ Len(SubSeq(p, 1, j)) = j
      BY <1>1, <2>1, Upto
    <2> QED BY <1>1, <2>2, Upto DEF j
  <1>3. r = Append(q, n) /\ n \in Name
    BY <1>1, UptoMore
  <1>4. IsBelow(p, r)
    <2> DEFINE j == k + 1
    <2>1. j \in 1 .. Len(p) - 1
      BY <1>1
    <2> HIDE DEF j
    <2>2. IsBelow(p, SubSeq(p, 1, j))
      BY <1>1, <2>1, UptoMore
    <2> QED BY <2>2 DEF j
  <1>5. at \in 1 .. Len(h) /\ place[at] = q /\ Len(h) \in Nat /\ w.heap = h /\ w.at = at
    <2>1. at # None /\ w.heap = h /\ w.at = at
      OBVIOUS
    <2> HIDE DEF at, q
    <2> QED BY <1>2, <2>1, FollowIn DEF at
  <1>6. /\ h \in Seq(ModuleType) /\ h[at] \in ModuleType
        /\ c \in Nat /\ Follow(h, t, r) = c
        /\ c # None => c \in 1 .. Len(h)
    <2>1. h \in Seq(ModuleType)
      BY DEF IsTree
    <2>2. h[at] \in ModuleType
      <3> HIDE DEF at
      <3> QED BY <1>5, <2>1
    <2>3. c \in Nat
      <3> HIDE DEF at, n
      <3> QED BY <1>3, <2>2 DEF ModuleType
    <2>4. Follow(h, t, r) = c
      <3>1. Follow(h, t, Append(q, n)) = IF at = None THEN None ELSE h[at].subs[n]
        <4> HIDE DEF q, n
        <4> QED BY <1>2, <1>3, FollowMore DEF at
      <3>2. at # None
        OBVIOUS
      <3> HIDE DEF at, q, n, r
      <3> QED BY <1>3, <3>1, <3>2 DEF c
    <2>5. c # None => c \in 1 .. Len(h)
      <3> HIDE DEF at, n, q
      <3> QED BY <1>3, <1>5 DEF IsTree
    <2> QED BY <2>1, <2>2, <2>3, <2>4, <2>5
  <1> HIDE DEF at, q, r, n, c
  <1>7. CASE c # None
    <2>1. Replace(h[at], n, c) = [subs |-> [h[at].subs EXCEPT ![n] = c], funs |-> h[at].funs]
      BY <1>5, <1>6, NoClash DEF n, q
    <2>2. Replace(h[at], n, c) = h[at]
      <3>1. [h[at].subs EXCEPT ![n] = c] = h[at].subs
        BY <1>3, <1>6 DEF ModuleType, c
      <3> QED BY <1>6, <2>1, <3>1 DEF ModuleType
    <2>3. [h EXCEPT ![at] = Replace(@, n, c)] = h
      BY <1>5, <1>6, <2>2
    <2>4. v = [heap |-> h, at |-> c]
      BY <1>5, <1>7, <2>3 DEF Descend, c
    <2>5. Keeps(h, t, place, h, t, place, p)
      BY <1>5, KeepsSame
    <2> HIDE DEF v
    <2> QED BY <1>6, <1>7, <2>4, <2>5 DEF v, n, r
  <1>8. CASE c = None
    <2> DEFINE f  == Len(h) + 1
               g  == [h EXCEPT ![at].subs[n] = f]
               h2 == Append(g, NewModule)
    <2>1. v = [heap |-> h2, at |-> f]
      BY <1>5, <1>8 DEF Descend, c
    <2>2. g \in Seq(ModuleType) /\ Len(g) = Len(h)
      <3>1. [h[at] EXCEPT !.subs[n] = f] \in ModuleType
        BY <1>3, <1>5, <1>6, SetSub
      <3> DEFINE m == [h[at] EXCEPT !.subs[n] = f]
      <3>2. g = [h EXCEPT ![at] = m]
        OBVIOUS
      <3>3. m \in ModuleType
        BY <3>1
      <3> HIDE DEF m, g
      <3> QED BY <1>5, <1>6, <3>2, <3>3
    <2>3. \A i \in 1 .. Len(h) :
             /\ i # at => g[i] = h[i]
             /\ i = at => g[i] = [h[at] EXCEPT !.subs[n] = f]
      BY <1>5, <1>6
    <2> HIDE DEF g
    <2>4. /\ h2 \in Seq(ModuleType) /\ Len(h2) = Len(h) + 1
          /\ \A i \in 1 .. Len(h) : h2[i] = g[i]
          /\ h2[Len(h) + 1] = NewModule
      BY <2>2, NewOk, <1>5
    <2> HIDE DEF h2, v
    <2>5. \A i \in 1 .. Len(h) : h2[i].funs = h[i].funs
      <3>1. [h[at] EXCEPT !.subs[n] = f].funs = h[at].funs
        BY <1>3, <1>5, <1>6, SetSub
      <3> QED BY <2>3, <2>4, <3>1
    <2>6. \A i \in 1 .. Len(h), m \in Name :
             h2[i].subs[m] = IF i = at /\ m = n THEN f ELSE h[i].subs[m]
      <3>1. \A m \in Name : [h[at] EXCEPT !.subs[n] = f].subs[m] = IF m = n THEN f ELSE h[at].subs[m]
        <4>1. f \in Nat
          BY <1>5
        <4> HIDE DEF f
        <4> QED BY <1>3, <1>6, <4>1, SetSub
      <3>2. TAKE i \in 1 .. Len(h), m \in Name
      <3>3. CASE i = at
        BY <2>3, <2>4, <3>1, <3>3
      <3>4. CASE i # at
        BY <2>3, <2>4, <3>4
      <3> QED BY <3>3, <3>4
    <2>7. \A i \in 1 .. Len(h), m \in Name :
             r = Append(place[i], m) /\ Follow(h, t, place[i]) = i <=> i = at /\ m = n
      <3>1. TAKE i \in 1 .. Len(h), m \in Name
      <3>2. place[i] \in Paths
        BY DEF IsTree
      <3>3. ASSUME r = Append(place[i], m), Follow(h, t, place[i]) = i
            PROVE  i = at /\ m = n
        <4>1. Append(place[i], m) = Append(q, n)
          BY <1>3, <3>3
        <4>2. place[i] = q /\ m = n
          BY <1>2, <1>3, <3>2, <4>1, SameParts
        <4> QED BY <3>3, <4>2 DEF at
      <3>4. ASSUME i = at, m = n
            PROVE  r = Append(place[i], m) /\ Follow(h, t, place[i]) = i
        <4>1. Follow(h, t, place[at]) = at
          BY <1>5 DEF at
        <4> QED BY <1>3, <1>5, <3>4, <4>1
      <3> QED BY <3>3, <3>4
    <2>8. Grafts(h, t, place, h2, t, r, f)
      <3>1. t \in [Name -> Nat]
        BY DEF IsTree
      <3>2. \A m \in Name : r # <<m>>
        <4>1. Len(r) # 1
          BY <1>1, <1>2
        <4> QED BY <4>1, OneName
      <3>3. Front(r) = q /\ at # None
        <4>1. Len(r) > 1 /\ r = Append(Front(r), r[Len(r)]) /\ Front(r) \in Seq(Name) /\ q \in Seq(Name)
          BY <1>1, <1>2, PathParts DEF Paths
        <4>2. Front(r) = q
          <5> HIDE DEF Front
          <5> DEFINE fr == Front(r)
                     e  == r[Len(r)]
          <5>1. Append(fr, e) = Append(q, n) /\ fr \in Seq(Name) /\ q \in Seq(Name) /\ e \in Name
            BY <1>2, <1>3, <4>1, PathParts
          <5> HIDE DEF fr, e
          <5>2. fr = q
            BY <1>3, <5>1
          <5> QED BY <5>2 DEF fr
        <4>3. at # None
          BY <1>5 DEF None
        <4> QED BY <4>2, <4>3
      <3>4. \A m \in Name : h2[Len(h) + 1].subs[m] = None
        BY <2>4, NewOk
      <3>5. \A i \in 1 .. Len(h), m \in Name : i # f =>
               h2[i].subs[m] = IF r = Append(place[i], m) /\ Follow(h, t, place[i]) = i
                               THEN f ELSE h[i].subs[m]
        BY <2>6, <2>7
      <3>6. f \in 1 .. Len(h2) /\ ~ (f <= Len(h)) /\ h2[f] = h2[Len(h) + 1] /\ Len(h2) = Len(h) + 1
        BY <1>5, <2>4
      <3>7. /\ h2 \in Seq(ModuleType) /\ Follow(h, t, Front(r)) # None /\ Follow(h, t, r) = None
            /\ \A m \in Name : t[m] = IF r = <<m>> THEN f ELSE t[m]
        BY <1>6, <1>8, <2>4, <3>2, <3>3 DEF at
      <3>8. \A m \in Name : h2[f].subs[m] = None
        BY <3>4
      <3> HIDE DEF f
      <3> QED BY <3>1, <3>5, <3>6, <3>7, <3>8 DEF Grafts
    <2>9. \A i \in 1 .. Len(h) : Follow(h, t, place[i]) # i => h2[i] = h[i]
      <3>1. Follow(h, t, place[at]) = at
        BY <1>5 DEF at
      <3> QED BY <2>3, <2>4, <3>1
    <2>10. h2[Len(h) + 1].funs = {}
      BY <2>4, NewOk
    <2>11. /\ Follow(h2, t, r) = Len(h) + 1
           /\ \E place2 : IsTree(pr, h2, t, place2) /\ Keeps(h, t, place, h2, t, place2, p)
      <3>1. f = Len(h) + 1 /\ h2[f].funs = {}
        BY <2>10
      <3> HIDE DEF f
      <3> QED BY <1>2, <1>4, <1>6, <1>8, <2>5, <2>8, <2>9, <3>1, NewGraft
    <2>12. f # None
      BY <1>5 DEF None
    <2> QED BY <2>1, <2>11, <2>12 DEF v, n, r
  <1> QED BY <1>7, <1>8

\* The tree h2, t2 has the module last at the place p; everywhere else it has
\* what h, t has, and new modules that p is below.
Attached(h, t, place, h2, t2, place2, p, last) ==
    /\ Len(h) <= Len(h2)
    /\ \A i \in 1 .. Len(h) : place2[i] = place[i] /\ h[i].funs \subseteq h2[i].funs
    /\ \A i \in 1 .. Len(h) : i # last /\ Follow(h, t, place[i]) # i => h2[i] = h[i]
    /\ Follow(h2, t2, p) = last
    /\ \A r \in Paths : r # p /\ Follow(h, t, r) # None => Follow(h2, t2, r) = Follow(h, t, r)
    /\ \A r \in Paths : r # p /\ Follow(h, t, r) = None /\ Follow(h2, t2, r) # None =>
          IsBelow(p, r) /\ Follow(h2, t2, r) > Len(h)

LEMMA AttachedOn ==
    ASSUME NEW pr, NEW h1, NEW t1, NEW pl1, IsTree(pr, h1, t1, pl1),
           NEW h2, NEW t2, NEW pl2, IsTree(pr, h2, t2, pl2),
           NEW h3, NEW t3, NEW pl3, IsTree(pr, h3, t3, pl3), NEW p, NEW last,
           Keeps(h1, t1, pl1, h2, t2, pl2, p), Attached(h2, t2, pl2, h3, t3, pl3, p, last)
    PROVE  Attached(h1, t1, pl1, h3, t3, pl3, p, last)
  <1>1. /\ Len(h1) \in Nat /\ Len(h2) \in Nat /\ Len(h3) \in Nat
        /\ Len(h1) <= Len(h2) /\ Len(h2) <= Len(h3)
        /\ \A i \in 1 .. Len(h1) : i \in 1 .. Len(h2) /\ i \in 1 .. Len(h3) /\ pl1[i] \in Paths
    <2>1. Len(h1) \in Nat /\ Len(h2) \in Nat /\ Len(h3) \in Nat
      BY DEF IsTree
    <2>2. Len(h1) <= Len(h2) /\ Len(h2) <= Len(h3)
      BY DEF Keeps, Attached
    <2>3. \A i \in 1 .. Len(h1) : pl1[i] \in Paths
      BY DEF IsTree
    <2> QED BY <2>1, <2>2, <2>3
  <1>2. ASSUME NEW i \in 1 .. Len(h1), i # last, Follow(h1, t1, pl1[i]) # i PROVE h3[i] = h1[i]
    <2>1. h2[i] = h1[i] /\ pl2[i] = pl1[i]
      BY <1>2 DEF Keeps
    <2>2. Follow(h2, t2, pl1[i]) # i
      <3>1. CASE Follow(h1, t1, pl1[i]) # None
        BY <1>1, <1>2, <3>1 DEF Keeps
      <3>2. CASE Follow(h1, t1, pl1[i]) = None
        <4>1. i # None /\ ~ (i > Len(h1))
          BY <1>1 DEF None
        <4>2. pl1[i] \in Paths
          BY <1>1
        <4> QED BY <3>2, <4>1, <4>2 DEF Keeps
      <3> QED BY <3>1, <3>2
    <2> QED BY <1>1, <1>2, <2>1, <2>2 DEF Attached
  <1>3. ASSUME NEW i \in 1 .. Len(h1) PROVE pl3[i] = pl1[i] /\ h1[i].funs \subseteq h3[i].funs
    BY <1>1 DEF Keeps, Attached
  <1>4. ASSUME NEW r \in Paths, r # p, Follow(h1, t1, r) # None
        PROVE  Follow(h3, t3, r) = Follow(h1, t1, r)
    BY <1>4 DEF Keeps, Attached
  <1>5. ASSUME NEW r \in Paths, r # p, Follow(h1, t1, r) = None, Follow(h3, t3, r) # None
        PROVE  IsBelow(p, r) /\ Follow(h3, t3, r) > Len(h1)
    <2>1. CASE Follow(h2, t2, r) = None
      <3>1. Follow(h3, t3, r) \in Nat
        BY FollowIn
      <3> QED BY <1>1, <1>5, <2>1, <3>1 DEF Attached
    <2>2. CASE Follow(h2, t2, r) # None
      BY <1>5, <2>2 DEF Keeps, Attached
    <2> QED BY <2>1, <2>2
  <1> QED BY <1>1, <1>2, <1>3, <1>4, <1>5 DEF Attached

\* A module that is grafted on the heap in which it was is attached.
LEMMA GraftAttached ==
    ASSUME NEW pr, NEW h, NEW t, NEW place, IsTree(pr, h, t, place),
           NEW h2, NEW t2, NEW p \in Paths, NEW last \in 1 .. Len(h),
           Grafts(h, t, place, h2, t2, p, last),
           \A i \in 1 .. Len(h) : i # last => h2[i].funs = h[i].funs,
           h[last].funs \subseteq h2[last].funs, h2[last].funs \subseteq {p} \X Own(pr, p),
           \A i \in 1 .. Len(h) : i # last /\ Follow(h, t, place[i]) # i => h2[i] = h[i]
    PROVE  \E place2 : IsTree(pr, h2, t2, place2) /\ Attached(h, t, place, h2, t2, place2, p, last)
  <1> DEFINE place2 == [i \in 1 .. Len(h2) |-> IF i <= Len(h) THEN place[i] ELSE p]
  <1>1. Len(h) \in Nat /\ Len(h2) = Len(h)
    <2>1. Len(h) \in Nat
      BY DEF IsTree
    <2> QED BY <2>1 DEF Grafts
  <1>2. \A r \in Paths : Follow(h2, t2, r) = IF r = p THEN last ELSE Follow(h, t, r)
    BY GraftFollow
  <1>3. IsTree(pr, h2, t2, place2)
    <2>1. \A i \in 1 .. Len(h) : i # last => h2[i].funs \subseteq h[i].funs
      OBVIOUS
    <2> HIDE DEF place2
    <2> QED BY <2>1, GraftTree DEF place2
  <1>4. \A i \in 1 .. Len(h) : place2[i] = place[i]
    BY <1>1
  <1> HIDE DEF place2
  <1>5. \A i \in 1 .. Len(h) : h[i].funs \subseteq h2[i].funs
    OBVIOUS
  <1>6. Attached(h, t, place, h2, t2, place2, p, last)
    BY <1>1, <1>2, <1>4, <1>5 DEF Attached
  <1> QED BY <1>3, <1>6

\* The last step of CreateSubModules.
Settle(h, at, n, last) ==
    LET old == h[at].subs[n]
        new == IF old = None THEN h ELSE [h EXCEPT ![last] = Merge(@, h[old])]
    IN  [new EXCEPT ![at] = Replace(@, n, last)]

\* The end of the way: the module that was built takes the place of the older one.
LEMMA LastAttached ==
    ASSUME NEW pr \in Program, NamesDiffer(pr),
           NEW h, NEW t, NEW place, IsTree(pr, h, t, place),
           NEW p \in Path, Len(p) > 1,
           NEW last \in 1 .. Len(h), place[last] = p, Follow(h, t, p) # last,
           \A n \in Name : h[last].subs[n] = None,
           NEW at, at = Follow(h, t, Front(p)), at # None, NEW n, n = p[Len(p)],
           NEW h2, h2 = Settle(h, at, n, last)
    PROVE  \E place2 : IsTree(pr, h2, t, place2) /\ Attached(h, t, place, h2, t, place2, p, last)
  <1> DEFINE q   == Front(p)
             old == h[at].subs[n]
             new == IF old = None THEN h ELSE [h EXCEPT ![last] = Merge(@, h[old])]
  <1>0. h2 = [new EXCEPT ![at] = Replace(@, n, last)]
    BY DEF Settle
  <1>1. /\ p \in Paths /\ Len(p) \in Nat /\ q \in Paths /\ Len(q) = Len(p) - 1
        /\ p = Append(q, n) /\ n \in Name
    BY PathsOf, PathParts
  <1>2. h \in Seq(ModuleType) /\ Len(h) \in Nat /\ t \in [Name -> Nat]
    BY DEF IsTree
  <1>3. at \in 1 .. Len(h) /\ place[at] = q
    <2> HIDE DEF q
    <2> QED BY <1>1, FollowIn DEF q
  <1>4. at # last
    BY <1>1, <1>3
  <1>5. old = Follow(h, t, p)
    <2>1. Follow(h, t, Append(q, n)) = IF Follow(h, t, q) = None THEN None ELSE h[Follow(h, t, q)].subs[n]
      <3> HIDE DEF q
      <3> QED BY <1>1, FollowMore
    <2> HIDE DEF q
    <2> QED BY <1>1, <2>1 DEF q
  <1>6. old # None => old \in 1 .. Len(h) /\ place[old] = p /\ old # at
    BY <1>1, <1>3, <1>5, FollowIn
  <1> HIDE DEF q, new
  <1>7. h[last] \in ModuleType /\ h[at] \in ModuleType /\ (old # None => h[old] \in ModuleType)
    BY <1>2, <1>3, <1>6
  <1> DEFINE ml == IF old = None THEN h[last] ELSE Merge(h[last], h[old])
             ma == Replace(h[at], n, last)
  <1>8. /\ ml \in ModuleType
        /\ \A m \in Name : ml.subs[m] = IF old = None THEN None ELSE h[old].subs[m]
        /\ h[last].funs \subseteq ml.funs
        /\ ml.funs \subseteq {p} \X Own(pr, p)
    <2>1. CASE old = None
      BY <1>7, <2>1 DEF IsTree
    <2>2. CASE old # None
      <3> DEFINE mm == Merge(h[last], h[old])
      <3>1. /\ h[last].subs \in [Name -> Nat] /\ h[old].subs \in [Name -> Nat]
            /\ h[last].funs \in SUBSET (Path \X Name) /\ h[old].funs \in SUBSET (Path \X Name)
        BY <1>7, <2>2 DEF ModuleType
      <3>2. /\ mm = [subs |-> mm.subs, funs |-> mm.funs]
            /\ mm.subs = [m \in Name |-> IF h[last].subs[m] # None THEN h[last].subs[m]
                                        ELSE h[old].subs[m]]
            /\ mm.funs = h[last].funs \cup h[old].funs
        BY DEF Merge
      <3> HIDE DEF mm
      <3>3. mm.subs \in [Name -> Nat] /\ \A m \in Name : mm.subs[m] = h[old].subs[m]
        <4> DEFINE s1 == h[last].subs
                   s2 == h[old].subs
                   s3 == mm.subs
        <4>1. s1 \in [Name -> Nat] /\ s2 \in [Name -> Nat] /\ \A m \in Name : s1[m] = None
          BY <3>1
        <4>2. s3 = [m \in Name |-> IF s1[m] # None THEN s1[m] ELSE s2[m]]
          BY <3>2
        <4> HIDE DEF s1, s2, s3
        <4>3. s3 \in [Name -> Nat] /\ \A m \in Name : s3[m] = s2[m]
          BY <4>1, <4>2
        <4> QED BY <4>3 DEF s2, s3
      <3>4. mm.funs \in SUBSET (Path \X Name) /\ h[last].funs \subseteq mm.funs
        <4> DEFINE A == h[last].funs
                   B == h[old].funs
                   C == mm.funs
                   S == Path \X Name
        <4>1. A \in SUBSET S /\ B \in SUBSET S
          BY <3>1
        <4>2. C = A \cup B
          BY <3>2
        <4> HIDE DEF A, B, C, S
        <4>3. C \in SUBSET S /\ A \subseteq C
          BY <4>1, <4>2
        <4> QED BY <4>3 DEF A, C, S
      <3>5. mm \in ModuleType
        BY <3>2, <3>3, <3>4 DEF ModuleType
      <3>6. mm.funs \subseteq {p} \X Own(pr, p)
        <4>1. h[last].funs \subseteq {p} \X Own(pr, p)
          BY DEF IsTree
        <4>2. h[old].funs \subseteq {p} \X Own(pr, p)
          BY <1>6, <2>2 DEF IsTree
        <4> QED BY <3>2, <4>1, <4>2
      <3>7. ml = mm
        BY <2>2 DEF mm
      <3> HIDE DEF ml
      <3> QED BY <2>2, <3>3, <3>4, <3>5, <3>6, <3>7
    <2> QED BY <2>1, <2>2
  <1> HIDE DEF ml
  <1>9. /\ ma \in ModuleType /\ ma.funs = h[at].funs
        /\ \A m \in Name : ma.subs[m] = IF m = n THEN last ELSE h[at].subs[m]
    <2> DEFINE k == Len(p) - 1
    <2>1. k \in 1 .. Len(p) - 1 /\ p[k + 1] = n /\ SubSeq(p, 1, k) = q
      BY <1>1, UptoFront DEF q
    <2>2. last \in Nat
      BY <1>2
    <2>3. ma = [subs |-> [h[at].subs EXCEPT ![n] = last], funs |-> h[at].funs]
      <3> HIDE DEF k
      <3> QED BY <1>3, <2>1, <2>2, NoClash
    <2>4. h[at].subs \in [Name -> Nat] /\ h[at].funs \in SUBSET (Path \X Name)
      BY <1>7 DEF ModuleType
    <2> HIDE DEF ma
    <2> QED BY <1>1, <2>2, <2>3, <2>4 DEF ModuleType
  <1> HIDE DEF ma
  <1>10. /\ new \in Seq(ModuleType) /\ Len(new) = Len(h)
         /\ \A i \in 1 .. Len(h) : new[i] = IF i = last THEN ml ELSE h[i]
    <2>1. CASE old = None
      BY <1>2, <1>7, <2>1 DEF ml, new
    <2>2. CASE old # None
      <3>1. new = [h EXCEPT ![last] = ml]
        BY <2>2 DEF ml, new
      <3> QED BY <1>2, <1>8, <3>1
    <2> QED BY <2>1, <2>2
  <1>11. /\ h2 \in Seq(ModuleType) /\ Len(h2) = Len(h)
         /\ \A i \in 1 .. Len(h) : h2[i] = IF i = last THEN ml ELSE IF i = at THEN ma ELSE h[i]
    <2>1. new[at] = h[at]
      BY <1>3, <1>4, <1>10
    <2>2. h2 = [new EXCEPT ![at] = ma]
      BY <1>0, <2>1 DEF ma
    <2> QED BY <1>3, <1>4, <1>9, <1>10, <2>2
  <1>12. Grafts(h, t, place, h2, t, p, last)
    <2>1. \A m \in Name : p # <<m>>
      BY OneName
    <2>2. last \in 1 .. Len(h2) /\ last <= Len(h) /\ Len(h2) = Len(h)
      BY <1>2, <1>11
    <2>3. ASSUME NEW i \in 1 .. Len(h), NEW m \in Name, i # last
          PROVE  h2[i].subs[m] = IF p = Append(place[i], m) /\ Follow(h, t, place[i]) = i
                                 THEN last ELSE h[i].subs[m]
      <3>1. place[i] \in Paths
        BY DEF IsTree
      <3>2. CASE i = at
        <4>1. p = Append(place[i], m) <=> m = n
          <5>1. ASSUME p = Append(place[i], m) PROVE m = n
            <6>1. Append(place[i], m) = Append(q, n)
              BY <1>1, <5>1
            <6> QED BY <1>1, <3>1, <6>1, SameParts
          <5> QED BY <1>1, <1>3, <3>2, <5>1
        <4>2. Follow(h, t, place[i]) = i
          BY <1>3, <3>2 DEF q
        <4> QED BY <1>4, <1>9, <1>11, <3>2, <4>1, <4>2
      <3>3. CASE i # at
        <4>1. ~ (p = Append(place[i], m) /\ Follow(h, t, place[i]) = i)
          <5> SUFFICES ASSUME p = Append(place[i], m), Follow(h, t, place[i]) = i PROVE FALSE
            OBVIOUS
          <5>1. Append(place[i], m) = Append(q, n)
            BY <1>1
          <5>2. place[i] = q
            <6> HIDE DEF q
            <6> DEFINE u == place[i]
            <6>1. u \in Paths /\ Append(u, m) = Append(q, n)
              BY <3>1, <5>1
            <6> HIDE DEF u
            <6>2. u = q
              BY <1>1, <6>1, SameParts
            <6> QED BY <6>2 DEF u
          <5> QED BY <3>3, <5>2 DEF q
        <4> QED BY <1>11, <2>3, <3>3, <4>1
      <3> QED BY <3>2, <3>3
    <2>4. \A m \in Name :
             h2[last].subs[m] = IF Follow(h, t, p) = None THEN None ELSE h[Follow(h, t, p)].subs[m]
      BY <1>5, <1>8, <1>11
    <2> QED BY <1>2, <1>11, <2>1, <2>2, <2>3, <2>4 DEF Grafts
  <1>13. \A i \in 1 .. Len(h) : i # last => h2[i].funs = h[i].funs
    BY <1>9, <1>11
  <1>14. \A i \in 1 .. Len(h) : i # last /\ Follow(h, t, place[i]) # i => h2[i] = h[i]
    <2>1. Follow(h, t, place[at]) = at
      BY <1>3 DEF q
    <2> QED BY <1>11, <2>1
  <1>15. h[last].funs \subseteq h2[last].funs /\ h2[last].funs \subseteq {p} \X Own(pr, p)
    BY <1>8, <1>11
  <1> QED BY <1>1, <1>12, <1>13, <1>14, <1>15, GraftAttached

\* The modules on the way to a submodule.
IsWay(W, k, h, from, names) ==
    W = [i \in 0 .. k |-> IF i = 0 THEN [heap |-> h, at |-> from]
                          ELSE Descend(W[i - 1], names[i])]

LEMMA WaysAgree ==
    ASSUME NEW h, NEW from, NEW names, NEW k \in Nat,
           NEW V, IsWay(V, k, h, from, names), NEW W, IsWay(W, k, h, from, names)
    PROVE  V[k] = W[k]
  <1> DEFINE T == {i \in Nat : i <= k => V[i] = W[i]}
  <1>1. \A i \in 0 .. k :
           /\ V[i] = IF i = 0 THEN [heap |-> h, at |-> from] ELSE Descend(V[i - 1], names[i])
           /\ W[i] = IF i = 0 THEN [heap |-> h, at |-> from] ELSE Descend(W[i - 1], names[i])
    BY DEF IsWay
  <1>2. 0 \in T
    <2>1. 0 \in 0 .. k
      OBVIOUS
    <2> QED BY <1>1, <2>1
  <1>3. ASSUME NEW n \in Nat, n \in T
        PROVE  n + 1 \in T
    <2> SUFFICES ASSUME n + 1 <= k PROVE V[n + 1] = W[n + 1]
      OBVIOUS
    <2>1. V[n] = W[n] /\ n + 1 \in 0 .. k /\ (n + 1) - 1 = n /\ n + 1 # 0
      BY <1>3
    <2>2. /\ V[n + 1] = Descend(V[(n + 1) - 1], names[n + 1])
          /\ W[n + 1] = Descend(W[(n + 1) - 1], names[n + 1])
      BY <1>1, <2>1
    <2> QED BY <2>1, <2>2
  <1>4. Nat \subseteq T
    <2> HIDE DEF T
    <2> QED BY <1>2, <1>3, Numbers
  <1> QED BY <1>4

LEMMA CreateSubModulesWay ==
    ASSUME NEW h, NEW from, NEW names, NEW last, Len(names) - 1 \in Nat,
           NEW k, k = Len(names) - 1, NEW W, IsWay(W, k, h, from, names)
    PROVE  CreateSubModules(h, from, names, last) = Settle(W[k].heap, W[k].at, Last(names), last)
  <1> DEFINE V == CHOOSE f : IsWay(f, k, h, from, names)
  <1>1. IsWay(V, k, h, from, names)
    OBVIOUS
  <1>2. V[k] = W[k]
    <2> HIDE DEF V
    <2> QED BY <1>1, WaysAgree
  <1>3. CreateSubModules(h, from, names, last) = Settle(V[k].heap, V[k].at, Last(names), last)
    BY DEF CreateSubModules, Settle, IsWay
  <1> HIDE DEF V
  <1> QED BY <1>2, <1>3

LEMMA WayMore ==
    ASSUME NEW h, NEW from, NEW names, NEW k \in Nat, NEW W, IsWay(W, k, h, from, names)
    PROVE  \E V : IsWay(V, k + 1, h, from, names) /\ V[k + 1] = Descend(W[k], names[k + 1])
  <1> DEFINE v == Descend(W[k], names[k + 1])
             V == [i \in 0 .. k + 1 |-> IF i = k + 1 THEN v ELSE W[i]]
  <1>1. \A i \in 0 .. k :
           W[i] = IF i = 0 THEN [heap |-> h, at |-> from] ELSE Descend(W[i - 1], names[i])
    BY DEF IsWay
  <1>2. ASSUME NEW i \in 0 .. k + 1
        PROVE  V[i] = IF i = 0 THEN [heap |-> h, at |-> from] ELSE Descend(V[i - 1], names[i])
    <2>1. CASE i = k + 1
      <3> HIDE DEF v
      <3>1. V[i] = v /\ i # 0 /\ V[i - 1] = W[k]
        BY <2>1
      <3> HIDE DEF V
      <3> QED BY <2>1, <3>1 DEF v
    <2>2. CASE i \in 0 .. k
      <3>1. V[i] = W[i] /\ (i # 0 => V[i - 1] = W[i - 1])
        <4> HIDE DEF v
        <4> QED BY <2>2
      <3> HIDE DEF V
      <3> QED BY <1>1, <2>2, <3>1
    <2> QED BY <2>1, <2>2
  <1>3. V = [i \in 0 .. k + 1 |-> IF i = 0 THEN [heap |-> h, at |-> from]
                                  ELSE Descend(V[i - 1], names[i])]
    <2>1. V = [i \in 0 .. k + 1 |-> V[i]]
      OBVIOUS
    <2> HIDE DEF V
    <2> QED BY <1>2, <2>1
  <1>4. V[k + 1] = v
    <2> HIDE DEF v
    <2> QED OBVIOUS
  <1> HIDE DEF V, v
  <1>5. IsWay(V, k + 1, h, from, names)
    BY <1>3 DEF IsWay
  <1> QED BY <1>4, <1>5 DEF v

\* What the way to p leaves.
WayOk(pr, h, t, place, p, k, v) ==
    /\ v = [heap |-> v.heap, at |-> Follow(v.heap, t, SubSeq(p, 1, k + 1))]
    /\ v.at # None
    /\ \E place2 : IsTree(pr, v.heap, t, place2) /\ Keeps(h, t, place, v.heap, t, place2, p)

LEMMA WayKeeps ==
    ASSUME NEW pr \in Program, NamesDiffer(pr),
           NEW h, NEW t, NEW place, IsTree(pr, h, t, place),
           NEW p \in Path, Len(p) > 1, NEW from, from = Follow(h, t, <<p[1]>>), from # None
    PROVE  \E W : /\ IsWay(W, Len(p) - 2, h, from, Tail(p))
                  /\ WayOk(pr, h, t, place, p, Len(p) - 2, W[Len(p) - 2])
  <1> DEFINE ok(k) == \E W : /\ IsWay(W, k, h, from, Tail(p))
                             /\ WayOk(pr, h, t, place, p, k, W[k])
             T == {k \in Nat : k <= Len(p) - 2 => ok(k)}
  <1>1. /\ p \in Paths /\ Len(p) \in Nat
        /\ \A i \in 1 .. Len(p) - 1 : Tail(p)[i] = p[i + 1]
    <2>1. p \in Paths /\ Len(p) \in Nat
      BY PathsOf, PathParts
    <2> QED BY <2>1 DEF Paths
  <1>2. ok(0)
    <2> DEFINE W == [i \in 0 .. 0 |-> [heap |-> h, at |-> from]]
    <2>1. W[0] = [heap |-> h, at |-> from]
      OBVIOUS
    <2>2. IsWay(W, 0, h, from, Tail(p))
      BY DEF IsWay
    <2>3. WayOk(pr, h, t, place, p, 0, W[0])
      <3>1. SubSeq(p, 1, 0 + 1) = <<p[1]>>
        BY <1>1, UptoOne
      <3>2. Len(h) \in Nat
        BY DEF IsTree
      <3>3. Keeps(h, t, place, h, t, place, p)
        BY <3>2, KeepsSame
      <3> HIDE DEF W
      <3> DEFINE v == W[0]
      <3>4. v.heap = h /\ v.at = from /\ v = [heap |-> h, at |-> from]
        BY <2>1
      <3> HIDE DEF v
      <3>5. WayOk(pr, h, t, place, p, 0, v)
        <4>1. v = [heap |-> v.heap, at |-> Follow(v.heap, t, SubSeq(p, 1, 0 + 1))]
          <5>1. Follow(v.heap, t, SubSeq(p, 1, 0 + 1)) = from
            BY <3>1, <3>4
          <5> QED BY <3>4, <5>1
        <4>2. \E place2 : IsTree(pr, v.heap, t, place2) /\ Keeps(h, t, place, v.heap, t, place2, p)
          BY <3>3, <3>4
        <4> QED BY <3>4, <4>1, <4>2 DEF WayOk
      <3> QED BY <3>5 DEF v
    <2> HIDE DEF W
    <2> QED BY <2>2, <2>3
  <1>3. ASSUME NEW k \in Nat, k + 1 <= Len(p) - 2, ok(k)
        PROVE  ok(k + 1)
    <2>1. PICK W : IsWay(W, k, h, from, Tail(p)) /\ WayOk(pr, h, t, place, p, k, W[k])
      BY <1>3
    <2> DEFINE w == W[k]
               v == Descend(w, Tail(p)[k + 1])
               j == k + 1
    <2>2. PICK V : IsWay(V, k + 1, h, from, Tail(p)) /\ V[k + 1] = v
      <3> DEFINE names == Tail(p)
      <3>1. IsWay(W, k, h, from, names)
        BY <2>1
      <3> HIDE DEF names
      <3>2. \E V : IsWay(V, k + 1, h, from, names) /\ V[k + 1] = Descend(W[k], names[k + 1])
        BY <3>1, WayMore
      <3> QED BY <3>2 DEF names
    <2>3. /\ w = [heap |-> w.heap, at |-> Follow(w.heap, t, SubSeq(p, 1, j))] /\ w.at # None
          /\ \E pl : IsTree(pr, w.heap, t, pl) /\ Keeps(h, t, place, w.heap, t, pl, p)
      BY <2>1 DEF WayOk
    <2>4. PICK pl : IsTree(pr, w.heap, t, pl) /\ Keeps(h, t, place, w.heap, t, pl, p)
      BY <2>3
    <2>5. j \in 1 .. Len(p) - 1 /\ j + 1 < Len(p) /\ Tail(p)[j] = p[j + 1]
      BY <1>1, <1>3
    <2> HIDE DEF w
    <2>6. v = Descend(w, p[j + 1])
      BY <2>5
    <2> HIDE DEF v, j
    <2>7. /\ v = [heap |-> v.heap, at |-> Follow(v.heap, t, SubSeq(p, 1, j + 1))]
          /\ v.at # None
          /\ \E pl2 : IsTree(pr, v.heap, t, pl2) /\ Keeps(w.heap, t, pl, v.heap, t, pl2, p)
      <3> DEFINE g == w.heap
      <3>1. w = [heap |-> g, at |-> Follow(g, t, SubSeq(p, 1, j))] /\ IsTree(pr, g, t, pl)
        BY <2>3, <2>4
      <3> HIDE DEF g
      <3>2. LET u == Descend(w, p[j + 1])
            IN  /\ u = [heap |-> u.heap, at |-> Follow(u.heap, t, SubSeq(p, 1, j + 1))]
                /\ u.at # None
                /\ \E pl2 : /\ IsTree(pr, u.heap, t, pl2)
                            /\ Keeps(g, t, pl, u.heap, t, pl2, p)
        BY <2>3, <2>5, <3>1, DescendKeeps
      <3> QED BY <2>6, <3>2 DEF g
    <2>8. \E pl2 : IsTree(pr, v.heap, t, pl2) /\ Keeps(h, t, place, v.heap, t, pl2, p)
      <3>1. PICK pl2 : IsTree(pr, v.heap, t, pl2) /\ Keeps(w.heap, t, pl, v.heap, t, pl2, p)
        BY <2>7
      <3>2. Keeps(h, t, place, v.heap, t, pl2, p)
        BY <2>4, <3>1, KeepsOn
      <3> QED BY <3>1, <3>2
    <2>9. WayOk(pr, h, t, place, p, k + 1, V[k + 1])
      BY <2>2, <2>7, <2>8 DEF WayOk, j
    <2> QED BY <2>2, <2>9
  <1> HIDE DEF ok
  <1>4. Nat \subseteq T
    <2>1. 0 \in T
      BY <1>2
    <2>2. ASSUME NEW n \in Nat, n \in T PROVE n + 1 \in T
      BY <1>1, <1>3, <2>2
    <2> HIDE DEF T
    <2> QED BY <2>1, <2>2, Numbers
  <1>5. ok(Len(p) - 2)
    <2> DEFINE k == Len(p) - 2
    <2>1. k \in Nat /\ k <= Len(p) - 2
      BY <1>1
    <2> HIDE DEF k
    <2>2. ok(k)
      BY <1>4, <2>1
    <2> QED BY <2>2 DEF k
  <1> QED BY <1>5 DEF ok

LEMMA NotBelowItself == ASSUME NEW p \in Paths PROVE ~ IsBelow(p, p)
    BY PathParts DEF IsBelow

LEMMA TailParts ==
    ASSUME NEW p \in Paths, Len(p) > 1
    PROVE  Len(Tail(p)) = Len(p) - 1 /\ Last(Tail(p)) = p[Len(p)]
  <1>1. p \in Seq(Name) /\ Len(p) \in Nat
    BY DEF Paths
  <1>2. /\ Len(Tail(p)) = Len(p) - 1
        /\ \A i \in 1 .. Len(p) - 1 : Tail(p)[i] = p[i + 1]
    BY <1>1
  <1> DEFINE k == Len(p) - 1
  <1>3. k \in 1 .. Len(p) - 1 /\ k + 1 = Len(p)
    BY <1>1
  <1>4. Tail(p)[k] = p[k + 1]
    BY <1>2, <1>3
  <1> QED BY <1>2, <1>3, <1>4 DEF Last

\* What EndModule does to the tree.
Ends(h, t, p, last, h2, t2) ==
    LET known == t[p[1]] # None
        glob  == IF known THEN t[p[1]] ELSE Len(h) + 1
        heap  == IF known THEN h ELSE Append(h, NewModule)
    IN  \/ Len(p) = 1 /\ t2 = [t EXCEPT ![p[1]] = last] /\ h2 = h
        \/ /\ Len(p) > 1
           /\ h2 = CreateSubModules(heap, glob, Tail(p), last)
           /\ t2 = [t EXCEPT ![p[1]] = glob]

LEMMA EndOne ==
    ASSUME NEW pr \in Program, NEW h, NEW t, NEW place, IsTree(pr, h, t, place),
           NEW p \in Paths, NEW last \in 1 .. Len(h), place[last] = p,
           Len(p) = 1, t[p[1]] \in {None, last},
           Follow(h, t, p) # last => \A n \in Name : h[last].subs[n] = None,
           NEW t2, t2 = [t EXCEPT ![p[1]] = last]
    PROVE  \E place2 : IsTree(pr, h, t2, place2) /\ Attached(h, t, place, h, t2, place2, p, last)
  <1>1. p = <<p[1]>> /\ p[1] \in Name
    BY PathParts
  <1>2. Follow(h, t, p) = t[p[1]]
    BY <1>1, FollowOne
  <1>3. h \in Seq(ModuleType) /\ t \in [Name -> Nat] /\ Len(h) \in Nat /\ last \in Nat
    BY DEF IsTree
  <1>4. Grafts(h, t, place, h, t2, p, last)
    <2>1. t2 \in [Name -> Nat] /\ \A n \in Name : t2[n] = IF n = p[1] THEN last ELSE t[n]
      BY <1>1, <1>3
    <2>2. \A n \in Name : p = <<n>> <=> n = p[1]
      BY <1>1, OneName
    <2>3. ASSUME NEW i \in 1 .. Len(h), NEW n \in Name PROVE p # Append(place[i], n)
      <3>1. place[i] \in Paths
        BY DEF IsTree
      <3>2. Len(Append(place[i], n)) = Len(place[i]) + 1 /\ Len(place[i]) \in Nat \ {0}
        BY <3>1, OneMore, PathParts
      <3> QED BY <3>2
    <2>4. \A n \in Name :
             h[last].subs[n] = IF Follow(h, t, p) = None THEN None ELSE h[Follow(h, t, p)].subs[n]
      <3>1. CASE t[p[1]] = None
        BY <1>2, <3>1 DEF None
      <3>2. CASE t[p[1]] = last
        BY <1>2, <3>2 DEF None
      <3> QED BY <3>1, <3>2
    <2>5. \A n \in Name : t2[n] = IF p = <<n>> THEN last ELSE t[n]
      BY <2>1, <2>2
    <2>6. \A i \in 1 .. Len(h), n \in Name : i # last =>
             h[i].subs[n] = IF p = Append(place[i], n) /\ Follow(h, t, place[i]) = i
                            THEN last ELSE h[i].subs[n]
      BY <2>3
    <2> QED BY <1>3, <2>1, <2>4, <2>5, <2>6 DEF Grafts
  <1>5. h[last].funs \subseteq {p} \X Own(pr, p)
    BY DEF IsTree
  <1> QED BY <1>4, <1>5, GraftAttached

\* The tree once EndModule has the module of the first name.
GlobOf(h, t, p) == IF t[p[1]] # None THEN t[p[1]] ELSE Len(h) + 1
HeapOf(h, t, p) == IF t[p[1]] # None THEN h ELSE Append(h, NewModule)
TopsOf(h, t, p) == [t EXCEPT ![p[1]] = GlobOf(h, t, p)]

\* The module of the first name of a path, which is created when there is none.
LEMMA FirstName ==
    ASSUME NEW pr \in Program, NEW h, NEW t, NEW place, IsTree(pr, h, t, place),
           NEW p \in Paths, Len(p) > 1
    PROVE  /\ Follow(HeapOf(h, t, p), TopsOf(h, t, p), <<p[1]>>) = GlobOf(h, t, p)
           /\ GlobOf(h, t, p) # None
           /\ \E place2 : /\ IsTree(pr, HeapOf(h, t, p), TopsOf(h, t, p), place2)
                          /\ Keeps(h, t, place, HeapOf(h, t, p), TopsOf(h, t, p), place2, p)
  <1> DEFINE q == <<p[1]>>
             glob == GlobOf(h, t, p)
             heap == HeapOf(h, t, p)
             t2   == TopsOf(h, t, p)
  <1>1. p[1] \in Name /\ q \in Paths /\ Len(p) \in Nat /\ Len(q) = 1
    BY PathParts, OneName
  <1>2. h \in Seq(ModuleType) /\ t \in [Name -> Nat] /\ Len(h) \in Nat
    BY DEF IsTree
  <1>3. Follow(h, t, q) = t[p[1]]
    BY <1>1, FollowOne
  <1>4. CASE t[p[1]] # None
    <2>1. t2 = t /\ heap = h /\ glob = t[p[1]]
      BY <1>1, <1>2, <1>4 DEF GlobOf, HeapOf, TopsOf
    <2>2. Keeps(h, t, place, h, t, place, p)
      BY <1>2, KeepsSame
    <2> QED BY <1>3, <1>4, <2>1, <2>2
  <1>5. CASE t[p[1]] = None
    <2>1. /\ heap = Append(h, NewModule) /\ glob = Len(h) + 1 /\ glob # None
          /\ t2 = [t EXCEPT ![p[1]] = glob]
      BY <1>2, <1>5 DEF None, GlobOf, HeapOf, TopsOf
    <2> HIDE DEF heap, glob, t2
    <2>2. /\ heap \in Seq(ModuleType) /\ Len(heap) = Len(h) + 1
          /\ \A i \in 1 .. Len(h) : heap[i] = h[i]
          /\ heap[glob] = NewModule
      BY <1>2, <2>1, NewOk
    <2>3. IsBelow(p, q)
      <3>1. 1 \in 1 .. Len(p) - 1
        BY <1>1
      <3>2. IsBelow(p, SubSeq(p, 1, 1))
        BY <3>1, UptoMore
      <3> QED BY <3>2, UptoOne
    <2>4. Grafts(h, t, place, heap, t2, q, glob)
      <3>1. t2 \in [Name -> Nat] /\ \A n \in Name : t2[n] = IF n = p[1] THEN glob ELSE t[n]
        BY <1>1, <1>2, <2>1
      <3>2. \A n \in Name : q = <<n>> <=> n = p[1]
        BY <1>1, OneName
      <3>3. ASSUME NEW i \in 1 .. Len(h), NEW n \in Name PROVE q # Append(place[i], n)
        <4>1. place[i] \in Paths
          BY DEF IsTree
        <4>2. Len(Append(place[i], n)) = Len(place[i]) + 1 /\ Len(place[i]) \in Nat \ {0}
          BY <4>1, OneMore, PathParts
        <4> QED BY <1>1, <4>2
      <3>4. \A n \in Name : heap[glob].subs[n] = None
        BY <2>2, NewOk
      <3>5. \A i \in 1 .. Len(h), n \in Name : i # glob =>
               heap[i].subs[n] = IF q = Append(place[i], n) /\ Follow(h, t, place[i]) = i
                                 THEN glob ELSE h[i].subs[n]
        BY <2>2, <3>3
      <3>6. glob \in 1 .. Len(heap) /\ ~ (glob <= Len(h))
        BY <1>2, <2>1, <2>2
      <3>7. \A n \in Name : t2[n] = IF q = <<n>> THEN glob ELSE t[n]
        BY <3>1, <3>2
      <3> HIDE DEF q
      <3> QED BY <1>1, <1>3, <1>5, <2>2, <3>1, <3>4, <3>5, <3>6, <3>7 DEF Grafts
    <2>5. heap[glob].funs = {}
      BY <2>2, NewOk
    <2>6. /\ \A i \in 1 .. Len(h) : heap[i].funs = h[i].funs
          /\ \A i \in 1 .. Len(h) : Follow(h, t, place[i]) # i => heap[i] = h[i]
      BY <2>2
    <2>7. q \in Paths /\ Follow(h, t, q) = None
      BY <1>1, <1>3, <1>5
    <2> HIDE DEF q
    <2>8. /\ Follow(heap, t2, q) = glob
          /\ \E place2 : IsTree(pr, heap, t2, place2) /\ Keeps(h, t, place, heap, t2, place2, p)
      <3>1. glob = Len(h) + 1
        BY <2>1
      <3> QED BY <2>3, <2>4, <2>5, <2>6, <2>7, <3>1, NewGraft
    <2> QED BY <2>1, <2>8 DEF q, heap, glob, t2
  <1> QED BY <1>4, <1>5

LEMMA EndMore ==
    ASSUME NEW pr \in Program, NamesDiffer(pr),
           NEW h, NEW t, NEW place, IsTree(pr, h, t, place),
           NEW p \in Path, NEW last \in 1 .. Len(h), place[last] = p,
           Len(p) > 1, Follow(h, t, p) # last, \A n \in Name : h[last].subs[n] = None,
           NEW glob, glob = GlobOf(h, t, p), NEW heap, heap = HeapOf(h, t, p),
           NEW t2, t2 = TopsOf(h, t, p), NEW h2, h2 = CreateSubModules(heap, glob, Tail(p), last)
    PROVE  \E place2 : IsTree(pr, h2, t2, place2) /\ Attached(h, t, place, h2, t2, place2, p, last)
  <1>1. p \in Paths /\ Len(p) \in Nat
    BY PathsOf, PathParts
  <1>2. /\ glob = Follow(heap, t2, <<p[1]>>) /\ glob # None
        /\ \E pl1 : IsTree(pr, heap, t2, pl1) /\ Keeps(h, t, place, heap, t2, pl1, p)
    BY <1>1, FirstName
  <1>3. PICK pl1 : IsTree(pr, heap, t2, pl1) /\ Keeps(h, t, place, heap, t2, pl1, p)
    BY <1>2
  <1> DEFINE k == Len(p) - 2
  <1>4. PICK W : IsWay(W, k, heap, glob, Tail(p)) /\ WayOk(pr, heap, t2, pl1, p, k, W[k])
    BY <1>2, <1>3, WayKeeps
  <1> DEFINE e == W[k].heap
             at == W[k].at
  <1>5. /\ at = Follow(e, t2, Front(p)) /\ at # None
        /\ \E pl2 : IsTree(pr, e, t2, pl2) /\ Keeps(heap, t2, pl1, e, t2, pl2, p)
    <2>1. k + 1 = Len(p) - 1
      BY <1>1
    <2> DEFINE v == W[k]
    <2>2. WayOk(pr, heap, t2, pl1, p, k, v)
      BY <1>4
    <2> HIDE DEF v, k
    <2>3. /\ v = [heap |-> v.heap, at |-> Follow(v.heap, t2, SubSeq(p, 1, k + 1))] /\ v.at # None
          /\ \E pl2 : IsTree(pr, v.heap, t2, pl2) /\ Keeps(heap, t2, pl1, v.heap, t2, pl2, p)
      BY <2>2 DEF WayOk
    <2>4. SubSeq(p, 1, k + 1) = Front(p)
      BY <1>1, <2>1, UptoFront
    <2>5. v.at = Follow(v.heap, t2, Front(p))
      <3> DEFINE x == Follow(v.heap, t2, SubSeq(p, 1, k + 1))
      <3>1. v = [heap |-> v.heap, at |-> x]
        BY <2>3
      <3>2. x = Follow(v.heap, t2, Front(p))
        BY <2>4
      <3> HIDE DEF x
      <3>3. v.at = x
        BY <3>1
      <3> QED BY <3>2, <3>3
    <2> QED BY <2>3, <2>5 DEF v
  <1>6. PICK pl2 : IsTree(pr, e, t2, pl2) /\ Keeps(heap, t2, pl1, e, t2, pl2, p)
    BY <1>5
  <1> HIDE DEF e, at
  <1>7. Keeps(h, t, place, e, t2, pl2, p)
    BY <1>3, <1>6, KeepsOn
  <1>8. /\ last \in 1 .. Len(e) /\ pl2[last] = p /\ e[last] = h[last]
        /\ Follow(e, t2, p) # last
    <2>1. Len(h) \in Nat /\ Len(e) \in Nat /\ last # None
      BY <1>6 DEF IsTree, None
    <2>2. last \in 1 .. Len(e)
      BY <1>7, <2>1 DEF Keeps
    <2>3. pl2[last] = p /\ e[last] = h[last]
      BY <1>7 DEF Keeps
    <2>4. Follow(e, t2, p) # last
      <3>1. CASE Follow(h, t, p) # None
        BY <1>1, <1>7, <3>1 DEF Keeps
      <3>2. CASE Follow(h, t, p) = None
        <4>1. ~ IsBelow(p, p)
          BY <1>1, NotBelowItself
        <4> QED BY <1>1, <1>7, <2>1, <3>2, <4>1 DEF Keeps
      <3> QED BY <3>1, <3>2
    <2> QED BY <2>2, <2>3, <2>4
  <1> DEFINE n == p[Len(p)]
  <1>9. h2 = Settle(e, at, n, last)
    <2> DEFINE names == Tail(p)
    <2>1. Len(names) - 1 = k /\ Last(names) = n /\ Len(names) - 1 \in Nat
      BY <1>1, TailParts
    <2>2. IsWay(W, k, heap, glob, names)
      BY <1>4
    <2> HIDE DEF names, k, n
    <2>3. CreateSubModules(heap, glob, names, last) = Settle(W[k].heap, W[k].at, Last(names), last)
      BY <2>1, <2>2, CreateSubModulesWay
    <2> QED BY <2>1, <2>3 DEF names, e, at
  <1>10. \A m \in Name : e[last].subs[m] = None
    BY <1>8
  <1>11. \E pl3 : IsTree(pr, h2, t2, pl3) /\ Attached(e, t2, pl2, h2, t2, pl3, p, last)
    BY <1>5, <1>6, <1>8, <1>9, <1>10, LastAttached
  <1> QED BY <1>6, <1>7, <1>11, AttachedOn

\* The module at the top of the stack takes its place in the tree, and the tree
\* keeps what it had everywhere else.
LEMMA EndAttached ==
    ASSUME NEW pr \in Program, NamesDiffer(pr),
           NEW h, NEW t, NEW place, IsTree(pr, h, t, place),
           NEW p \in Path, NEW last \in 1 .. Len(h), place[last] = p,
           Len(p) = 1 => t[p[1]] \in {None, last},
           Len(p) > 1 => Follow(h, t, p) # last,
           Follow(h, t, p) # last => \A n \in Name : h[last].subs[n] = None,
           NEW h2, NEW t2, Ends(h, t, p, last, h2, t2)
    PROVE  \E place2 : IsTree(pr, h2, t2, place2) /\ Attached(h, t, place, h2, t2, place2, p, last)
  <1>1. p \in Paths
    BY PathsOf
  <1>2. CASE Len(p) = 1 /\ t2 = [t EXCEPT ![p[1]] = last] /\ h2 = h
    BY <1>1, <1>2, EndOne
  <1>3. CASE /\ Len(p) > 1 /\ t2 = TopsOf(h, t, p)
             /\ h2 = CreateSubModules(HeapOf(h, t, p), GlobOf(h, t, p), Tail(p), last)
    BY <1>3, EndMore
  <1> QED BY <1>2, <1>3 DEF Ends, HeapOf, GlobOf, TopsOf

-----------------------------------------------------------------------------
(* The files that are read.                                                 *)

LEMMA ReachedParts ==
    ASSUME NEW pr \in ProgramType, NEW S
    PROVE  /\ ReachedFrom(pr, S) \subseteq Path
           /\ S \cap Path \subseteq ReachedFrom(pr, S)
           /\ \A q \in ReachedFrom(pr, S) : pr.imports[q] \subseteq ReachedFrom(pr, S)
           /\ \A T \in SUBSET Path :
                 S \subseteq T /\ (\A q \in T : pr.imports[q] \subseteq T)
                 => ReachedFrom(pr, S) \subseteq T
  <1>1. \A q \in Path : pr.imports[q] \subseteq Path
    BY DEF ProgramType
  <1> QED BY <1>1 DEF ReachedFrom

\* The modules that the compiled file needs.
Needed(pr) == ReachedFrom(pr, {Root} \cup Core)

IsMarked(ms, q) == \E d : <<d, q>> \in ms

\* The visit f, at the i-th place of the stack: what it is done with is marked.
VisitOk(pr, ph, ms, i, f) ==
    /\ f.core \subseteq (IF i = 1 /\ ph = "declaring" THEN Core ELSE {})
    /\ f.imports \subseteq pr.imports[f.path]
    /\ IsMarked(ms, f.path)
    /\ \A q \in pr.imports[f.path] \ f.imports : IsMarked(ms, q)
    /\ i = 1 /\ ph = "declaring" => \A q \in Core \ f.core : IsMarked(ms, q)

MarksOk == \A d, p : <<d, p>> \in marked => p \in Path /\ d \in prog.where[p]

VisitsOk == \A i \in DOMAIN stack : VisitOk(prog, phase, marked, i, stack[i])

\* A file is visited because those that are below it in the stack import it.
ChainOk ==
    \A i, j \in DOMAIN stack :
        i < j => stack[j].path \in ReachedFrom(prog, Imported(prog, stack[i].path))

DeclaringOk ==
    phase = "declaring" =>
        /\ stack # <<>> /\ stack[1].path = Root
        /\ \A i \in DOMAIN stack : stack[i].path \in Needed(prog)
        /\ done \subseteq Needed(prog)
        /\ \A q : IsMarked(marked, q) => q \in done \/ \E i \in DOMAIN stack : stack[i].path = q

ValidatingOk ==
    phase = "validating" =>
        /\ Needed(prog) \subseteq done
        /\ \A i \in DOMAIN stack : stack[i].path \in ReachedFrom(prog, prog.local)

FailedOk == phase \in {"declaring", "validating", "failed"} /\ (phase = "failed" => stack = <<>>)

\* The modules that are done are read without an error, and what they import is read.
DoneOk ==
    \A p \in done : /\ p \notin prog.faulty /\ IsMarked(marked, p)
                    /\ \A q \in prog.imports[p] : IsMarked(marked, q)

FilesOk == MarksOk /\ VisitsOk /\ ChainOk /\ DeclaringOk /\ ValidatingOk /\ FailedOk /\ DoneOk

LEMMA InitFiles == Init => FilesOk
  <1> SUFFICES ASSUME Init PROVE FilesOk
    OBVIOUS
  <1> DEFINE v == [path |-> Root, mod |-> 1, core |-> Core,
                   imports |-> prog.imports[Root], funs |-> prog.funs[Root]]
  <1>1. prog \in ProgramType /\ prog.where[Root] = {0} /\ Root \in Path /\ phase = "declaring"
        /\ done = {} /\ marked = {<<0, Root>>}
    BY ProgramAssumption, PathAssumption DEF Init
  <1>2. v.path = Root /\ v.core = Core /\ v.imports = prog.imports[Root]
    OBVIOUS
  <1>3. stack = <<v>>
    BY DEF Init
  <1> HIDE DEF v
  <1>4. DOMAIN stack = {1} /\ stack[1] = v /\ stack # <<>>
    BY <1>3
  <1>5. IsMarked(marked, Root) /\ \A q : IsMarked(marked, q) => q = Root
    BY <1>1 DEF IsMarked
  <1>6. MarksOk
    BY <1>1 DEF MarksOk
  <1>7. VisitsOk
    BY <1>1, <1>2, <1>4, <1>5 DEF VisitsOk, VisitOk
  <1>8. DeclaringOk
    <2>1. Root \in Needed(prog)
      BY <1>1, ReachedParts DEF Needed
    <2> QED BY <1>1, <1>2, <1>4, <1>5, <2>1 DEF DeclaringOk
  <1> QED BY <1>1, <1>4, <1>6, <1>7, <1>8 DEF FilesOk, ChainOk, ValidatingOk, FailedOk, DoneOk

\* The visit at the top, once it is done with one of its parts.
LEMMA AfterParts ==
    ASSUME IsStack(stack), stack # <<>>, NEW x
    PROVE  LET n == Len(stack)
           IN  /\ n \in Nat \ {0} /\ DOMAIN stack = 1 .. n /\ Top = stack[n]
               /\ Top.path \in Path /\ Top.core \subseteq Core
               /\ Top.imports \subseteq Path /\ Top.funs \subseteq Name
               /\ \A t \in {AfterCore(x), AfterImport(x), AfterFunction(x)} :
                     /\ DOMAIN t = 1 .. n /\ Len(t) = n /\ t # <<>>
                     /\ \A i \in 1 .. n - 1 : t[i] = stack[i]
                     /\ t[n].path = Top.path /\ t[n].mod = Top.mod
               /\ AfterCore(x)[n].core = Top.core \ {x}
               /\ AfterCore(x)[n].imports = Top.imports /\ AfterCore(x)[n].funs = Top.funs
               /\ AfterImport(x)[n].core = Top.core
               /\ AfterImport(x)[n].imports = Top.imports \ {x} /\ AfterImport(x)[n].funs = Top.funs
               /\ AfterFunction(x)[n].core = Top.core
               /\ AfterFunction(x)[n].imports = Top.imports
               /\ AfterFunction(x)[n].funs = Top.funs \ {x}
  <1> DEFINE n == Len(stack)
             v == stack[n]
  <1>1. n \in Nat \ {0} /\ DOMAIN stack = 1 .. n /\ Top = v /\ IsVisit(v)
    BY FrontStack, StackLen DEF Top, Last, IsStack
  <1>2. PICK m : v \in [path : Path, mod : {m}, core : SUBSET Core,
                        imports : SUBSET Path, funs : SUBSET Name]
    BY <1>1 DEF IsVisit
  <1>3. stack \in Seq({stack[i] : i \in DOMAIN stack})
    BY DEF IsStack
  <1>4. ASSUME NEW w
        PROVE  LET t == [stack EXCEPT ![n] = w]
               IN  /\ DOMAIN t = 1 .. n /\ Len(t) = n /\ t # <<>>
                   /\ \A i \in 1 .. n - 1 : t[i] = stack[i]
                   /\ t[n] = w
    <2> DEFINE S == {stack[i] : i \in DOMAIN stack} \cup {w}
               t == [stack EXCEPT ![n] = w]
    <2>1. stack \in Seq(S)
      BY <1>1, <1>3
    <2>2. t \in Seq(S) /\ Len(t) = n /\ DOMAIN t = 1 .. n
          /\ t[n] = w /\ \A i \in 1 .. n - 1 : t[i] = stack[i]
      <3> HIDE DEF S
      <3> DEFINE s == stack
                 k == n
      <3>1. s \in Seq(S) /\ k \in 1 .. Len(s) /\ w \in S /\ Len(s) = k /\ DOMAIN s = 1 .. k
        BY <1>1, <2>1 DEF S
      <3> HIDE DEF s, k
      <3>2. LET u == [s EXCEPT ![k] = w]
            IN  u \in Seq(S) /\ Len(u) = k /\ DOMAIN u = 1 .. k
                /\ u[k] = w /\ \A i \in 1 .. k - 1 : u[i] = s[i]
        BY <3>1
      <3> QED BY <3>2 DEF s, k
    <2>3. t # <<>>
      <3> HIDE DEF t
      <3> QED BY <1>1, <2>2
    <2> QED BY <2>2, <2>3
  <1> DEFINE a == [v EXCEPT !.core = @ \ {x}]
             b == [v EXCEPT !.imports = @ \ {x}]
             c == [v EXCEPT !.funs = @ \ {x}]
  <1>5. /\ AfterCore(x) = [stack EXCEPT ![n] = a]
        /\ AfterImport(x) = [stack EXCEPT ![n] = b]
        /\ AfterFunction(x) = [stack EXCEPT ![n] = c]
    BY DEF AfterCore, AfterImport, AfterFunction
  <1>6. /\ a.path = v.path /\ a.mod = v.mod /\ a.core = v.core \ {x}
        /\ a.imports = v.imports /\ a.funs = v.funs
        /\ b.path = v.path /\ b.mod = v.mod /\ b.core = v.core
        /\ b.imports = v.imports \ {x} /\ b.funs = v.funs
        /\ c.path = v.path /\ c.mod = v.mod /\ c.core = v.core
        /\ c.imports = v.imports /\ c.funs = v.funs \ {x}
        /\ v.path \in Path /\ v.core \subseteq Core /\ v.imports \subseteq Path
        /\ v.funs \subseteq Name
    BY <1>2
  <1> HIDE DEF a, b, c
  <1> QED BY <1>1, <1>4, <1>5, <1>6

LEMMA SameDomain ==
    ASSUME NEW s, IsStack(s), NEW t, IsStack(t), SamePaths(s, t)
    PROVE  /\ Len(s) \in Nat /\ DOMAIN s = 1 .. Len(s) /\ DOMAIN t = DOMAIN s
           /\ \A i \in DOMAIN s : t[i].path = s[i].path
           /\ s = <<>> <=> t = <<>>
  <1>1. Len(s) \in Nat /\ DOMAIN s = 1 .. Len(s) /\ DOMAIN t = 1 .. Len(s)
    BY StackLen DEF SamePaths
  <1>2. \A u : IsStack(u) => (u = <<>> <=> Len(u) = 0)
    <2>1. TAKE u
    <2>2. ASSUME IsStack(u) PROVE u = <<>> <=> Len(u) = 0
      <3> DEFINE S == {u[i] : i \in DOMAIN u}
      <3>1. u \in Seq(S)
        BY <2>2 DEF IsStack
      <3> HIDE DEF S
      <3> QED BY <3>1
    <2> QED BY <2>2
  <1> QED BY <1>1, <1>2 DEF SamePaths

\* Once more files are marked, the visits are no less right; the one at the top
\* may be done with what is marked.
LEMMA AfterOk ==
    ASSUME IInv, FilesOk, stack # <<>>, NEW x, NEW ms, marked \subseteq ms
    PROVE  /\ IsMarked(ms, x) => \A i \in DOMAIN stack :
                 /\ VisitOk(prog, phase, ms, i, AfterCore(x)[i])
                 /\ VisitOk(prog, phase, ms, i, AfterImport(x)[i])
           /\ \A i \in DOMAIN stack : VisitOk(prog, phase, ms, i, AfterFunction(x)[i])
  <1> DEFINE n == Len(stack)
  <1>1. /\ IsStack(stack) /\ n \in Nat \ {0} /\ DOMAIN stack = 1 .. n /\ Top = stack[n]
        /\ \A i \in 1 .. n - 1 : /\ AfterCore(x)[i] = stack[i]
                                 /\ AfterImport(x)[i] = stack[i]
                                 /\ AfterFunction(x)[i] = stack[i]
    BY AfterParts DEF IInv
  <1>2. \A q : IsMarked(marked, q) => IsMarked(ms, q)
    BY DEF IsMarked
  <1>3. ASSUME NEW i \in DOMAIN stack PROVE VisitOk(prog, phase, ms, i, stack[i])
    <2>1. VisitOk(prog, phase, marked, i, stack[i])
      BY DEF FilesOk, VisitsOk
    <2> QED BY <1>2, <2>1 DEF VisitOk
  <1>4. ASSUME NEW f, NEW g, VisitOk(prog, phase, ms, n, f), g.path = f.path,
               \/ g.core = f.core /\ g.imports = f.imports
               \/ IsMarked(ms, x) /\ g.core = f.core \ {x} /\ g.imports = f.imports
               \/ IsMarked(ms, x) /\ g.core = f.core /\ g.imports = f.imports \ {x}
        PROVE  VisitOk(prog, phase, ms, n, g)
    BY <1>4 DEF VisitOk
  <1>5. VisitOk(prog, phase, ms, n, stack[n])
    BY <1>1, <1>3
  <1>6. /\ AfterCore(x)[n].path = stack[n].path
        /\ AfterCore(x)[n].core = stack[n].core \ {x} /\ AfterCore(x)[n].imports = stack[n].imports
        /\ AfterImport(x)[n].path = stack[n].path
        /\ AfterImport(x)[n].core = stack[n].core
        /\ AfterImport(x)[n].imports = stack[n].imports \ {x}
        /\ AfterFunction(x)[n].path = stack[n].path
        /\ AfterFunction(x)[n].core = stack[n].core
        /\ AfterFunction(x)[n].imports = stack[n].imports
    BY <1>1, AfterParts
  <1>7. VisitOk(prog, phase, ms, n, AfterFunction(x)[n])
    BY <1>4, <1>5, <1>6
  <1>8. IsMarked(ms, x) => /\ VisitOk(prog, phase, ms, n, AfterCore(x)[n])
                           /\ VisitOk(prog, phase, ms, n, AfterImport(x)[n])
    BY <1>4, <1>5, <1>6
  <1>9. \A i \in DOMAIN stack : i = n \/ i \in 1 .. n - 1
    BY <1>1
  <1> QED BY <1>1, <1>3, <1>7, <1>8, <1>9

LEMMA FilesGoOn ==
    ASSUME IInv, FilesOk, IsStack(stack'), SamePaths(stack, stack'),
           UNCHANGED <<prog, phase, marked, done>>,
           \A i \in DOMAIN stack : VisitOk(prog, phase, marked, i, stack'[i])
    PROVE  FilesOk'
  <1>1. /\ DOMAIN stack' = DOMAIN stack /\ \A i \in DOMAIN stack : stack'[i].path = stack[i].path
        /\ stack = <<>> <=> stack' = <<>>
        /\ stack # <<>> => 1 \in DOMAIN stack
    <2>1. IsStack(stack)
      BY DEF IInv
    <2>2. stack # <<>> => Len(stack) # 0
      BY <2>1, FrontStack
    <2> QED BY <2>1, <2>2, SameDomain
  <1>2. MarksOk' /\ FailedOk' /\ DoneOk'
    BY <1>1 DEF FilesOk, MarksOk, FailedOk, DoneOk, IsMarked
  <1>3. VisitsOk'
    <2>1. VisitsOk' = \A i \in DOMAIN stack' : VisitOk(prog', phase', marked', i, stack'[i])
      BY DEF VisitsOk
    <2> QED BY <1>1, <2>1
  <1>4. ChainOk'
    <2>1. ChainOk
      BY DEF FilesOk
    <2>2. ASSUME NEW i \in DOMAIN stack', NEW j \in DOMAIN stack', i < j
          PROVE  stack'[j].path \in ReachedFrom(prog', Imported(prog', stack'[i].path))
      <3>1. stack[j].path \in ReachedFrom(prog, Imported(prog, stack[i].path))
        BY <1>1, <2>1, <2>2 DEF ChainOk
      <3>2. stack'[j].path = stack[j].path /\ stack'[i].path = stack[i].path /\ prog' = prog
        BY <1>1
      <3> QED BY <3>1, <3>2
    <2> QED BY <2>2 DEF ChainOk
  <1>5. DeclaringOk'
    <2>1. DeclaringOk
      BY DEF FilesOk
    <2>2. Needed(prog)' = Needed(prog)
      BY DEF Needed
    <2> QED BY <1>1, <2>1, <2>2 DEF DeclaringOk, IsMarked
  <1>6. ValidatingOk'
    <2>1. ValidatingOk
      BY DEF FilesOk
    <2>2. Needed(prog)' = Needed(prog) /\ ReachedFrom(prog, prog.local)' = ReachedFrom(prog, prog.local)
      BY DEF Needed
    <2> QED BY <1>1, <2>1, <2>2 DEF ValidatingOk
  <1> QED BY <1>2, <1>3, <1>4, <1>5, <1>6 DEF FilesOk

LEMMA FilesEntered ==
    ASSUME IInv, FilesOk, NEW p \in Path, NEW d \in prog.where[p],
           NEW below, IsStack(below), Enter(d, p, below),
           below = <<>> \/ SamePaths(stack, below),
           \A i \in DOMAIN below : VisitOk(prog, phase, marked \cup {<<d, p>>}, i, below[i]),
           \A i \in DOMAIN below : p \in ReachedFrom(prog, Imported(prog, below[i].path)),
           phase = "declaring" => SamePaths(stack, below) /\ p \in Needed(prog),
           phase = "validating" => p \in ReachedFrom(prog, prog.local),
           phase # "failed"
    PROVE  FilesOk'
  <1> DEFINE s == stack'
             n == Len(below)
             m == (IF (IF Len(p) = 1 THEN roots[p[1]] ELSE None) = None THEN Len(mods) + 1
                   ELSE IF Len(p) = 1 THEN roots[p[1]] ELSE None)
             v == [path |-> p, mod |-> m, core |-> {},
                   imports |-> prog.imports[p], funs |-> prog.funs[p]]
  <1>1. s = Append(below, v) /\ marked' = marked \cup {<<d, p>>}
        /\ prog' = prog /\ done' = done /\ phase' = phase
    BY DEF Enter
  <1>2. prog \in Program /\ prog \in ProgramType /\ IsStack(stack)
    BY ProgramAssumption DEF IInv
  <1>3. IsVisit(v) /\ v.path = p /\ v.core = {} /\ v.imports = prog.imports[p]
    <2> HIDE DEF m
    <2>1. v \in [path : Path, mod : {m}, core : SUBSET Core,
                 imports : SUBSET Path, funs : SUBSET Name]
      BY <1>2 DEF ProgramType
    <2> QED BY <2>1 DEF IsVisit
  <1> HIDE DEF v, m
  <1>4. /\ n \in Nat /\ DOMAIN below = 1 .. n /\ DOMAIN s = 1 .. n + 1
        /\ \A i \in 1 .. n : s[i] = below[i]
        /\ s[n + 1] = v /\ s # <<>>
        /\ \A i \in DOMAIN s : i = n + 1 \/ (i \in 1 .. n /\ i \in DOMAIN below)
    <2>1. n \in Nat /\ DOMAIN below = 1 .. n
      BY StackLen
    <2>2. /\ IsStack(s) /\ Len(s) = n + 1 /\ s[n + 1] = v
          /\ \A i \in 1 .. n : s[i] = below[i]
      BY <1>1, <1>3, AppendStack
    <2>3. DOMAIN s = 1 .. n + 1
      BY <2>2, StackLen
    <2>4. s # <<>>
      BY <2>1, <2>3
    <2>5. \A i \in 1 .. n + 1 : i = n + 1 \/ i \in 1 .. n
      BY <2>1
    <2> HIDE DEF s, n
    <2> QED BY <2>1, <2>2, <2>3, <2>4, <2>5
  <1>5. \A q : IsMarked(marked', q) <=> IsMarked(marked, q) \/ q = p
    BY <1>1 DEF IsMarked
  <1>6. MarksOk'
    BY <1>1 DEF FilesOk, MarksOk
  <1>7. VisitsOk'
    <2>1. ASSUME NEW i \in DOMAIN s PROVE VisitOk(prog, phase, marked', i, s[i])
      <3>1. CASE i = n + 1
        <4>1. VisitOk(prog, phase, marked', i, v)
          <5>1. i = 1 /\ phase = "declaring" => FALSE
            <6>1. ASSUME i = 1, phase = "declaring" PROVE FALSE
              <7>1. stack # <<>> /\ SamePaths(stack, below)
                BY <6>1 DEF FilesOk, DeclaringOk
              <7>2. below # <<>>
                BY <1>2, <7>1, SameDomain
              <7>3. n # 0
                BY <7>2, FrontStack
              <7> QED BY <1>4, <3>1, <6>1, <7>3
            <6> QED BY <6>1
          <5> QED BY <1>3, <1>5, <5>1 DEF VisitOk
        <4> QED BY <1>4, <3>1, <4>1
      <3>2. CASE i \in 1 .. n
        BY <1>1, <1>4, <3>2
      <3> QED BY <1>4, <3>1, <3>2
    <2> QED BY <1>1, <2>1 DEF VisitsOk
  <1>8. below # <<>> => /\ SamePaths(stack, below) /\ DOMAIN stack = DOMAIN below
                        /\ \A i \in DOMAIN below : below[i].path = stack[i].path
    BY <1>2, SameDomain
  <1>9. ChainOk'
    <2>1. ASSUME NEW i \in DOMAIN s, NEW j \in DOMAIN s, i < j
          PROVE  s[j].path \in ReachedFrom(prog, Imported(prog, s[i].path))
      <3>1. i \in 1 .. n /\ i \in DOMAIN below /\ s[i] = below[i]
        BY <1>4, <2>1
      <3>2. CASE j = n + 1
        BY <1>3, <1>4, <3>1, <3>2
      <3>3. CASE j \in 1 .. n
        <4>1. below # <<>>
          BY <3>1
        <4>2. s[j] = below[j] /\ i \in DOMAIN stack /\ j \in DOMAIN stack
              /\ below[i].path = stack[i].path /\ below[j].path = stack[j].path
          BY <1>4, <1>8, <3>1, <3>3, <4>1
        <4>3. stack[j].path \in ReachedFrom(prog, Imported(prog, stack[i].path))
          BY <2>1, <4>2 DEF FilesOk, ChainOk
        <4> QED BY <3>1, <4>2, <4>3
      <3> QED BY <1>4, <3>2, <3>3
    <2>2. ChainOk' = \A i, j \in DOMAIN s :
              i < j => s[j].path \in ReachedFrom(prog', Imported(prog', s[i].path))
      BY DEF ChainOk
    <2> QED BY <1>1, <2>1, <2>2
  <1>10. \A i \in DOMAIN s : s[i].path = p \/ (i \in DOMAIN stack /\ s[i].path = stack[i].path)
    <2>1. TAKE i \in DOMAIN s
    <2>2. CASE i = n + 1
      BY <1>3, <1>4, <2>2
    <2>3. CASE i \in 1 .. n
      <3>1. i \in DOMAIN below /\ below # <<>>
        BY <1>4, <2>3
      <3> QED BY <1>4, <1>8, <2>3, <3>1
    <2> QED BY <1>4, <2>2, <2>3
  <1>11. DeclaringOk'
    <2> SUFFICES ASSUME phase = "declaring" PROVE DeclaringOk'
      BY <1>1 DEF DeclaringOk
    <2>1. /\ stack # <<>> /\ stack[1].path = Root
          /\ \A i \in DOMAIN stack : stack[i].path \in Needed(prog)
          /\ done \subseteq Needed(prog)
          /\ \A q : IsMarked(marked, q) => q \in done \/ \E i \in DOMAIN stack : stack[i].path = q
      BY DEF FilesOk, DeclaringOk
    <2>2. below # <<>> /\ n # 0
      <3>1. below # <<>>
        BY <1>2, <2>1, SameDomain
      <3> QED BY <3>1, FrontStack
    <2>3. s[1].path = Root
      BY <1>4, <1>8, <2>1, <2>2
    <2>4. \A i \in DOMAIN s : s[i].path \in Needed(prog)
      BY <1>10, <2>1
    <2>5. \A q : IsMarked(marked', q) => q \in done \/ \E i \in DOMAIN s : s[i].path = q
      <3>1. TAKE q
      <3>2. ASSUME IsMarked(marked, q) PROVE q \in done \/ \E i \in DOMAIN s : s[i].path = q
        <4>1. CASE \E i \in DOMAIN stack : stack[i].path = q
          <5>1. PICK i \in DOMAIN stack : stack[i].path = q
            BY <4>1
          <5>2. i \in DOMAIN below /\ i \in DOMAIN s /\ s[i].path = q
            BY <1>4, <1>8, <2>2, <5>1
          <5> QED BY <5>2
        <4> QED BY <2>1, <3>2, <4>1
      <3>3. n + 1 \in DOMAIN s /\ s[n + 1].path = p
        BY <1>3, <1>4
      <3> QED BY <1>5, <3>2, <3>3
    <2>6. Needed(prog)' = Needed(prog)
      BY <1>1 DEF Needed
    <2> QED BY <1>1, <1>4, <2>1, <2>3, <2>4, <2>5, <2>6 DEF DeclaringOk
  <1>12. ValidatingOk'
    <2> SUFFICES ASSUME phase = "validating" PROVE ValidatingOk'
      BY <1>1 DEF ValidatingOk
    <2>1. Needed(prog) \subseteq done
          /\ \A i \in DOMAIN stack : stack[i].path \in ReachedFrom(prog, prog.local)
      BY DEF FilesOk, ValidatingOk
    <2>2. \A i \in DOMAIN s : s[i].path \in ReachedFrom(prog, prog.local)
      BY <1>10, <2>1
    <2>3. Needed(prog)' = Needed(prog) /\ ReachedFrom(prog, prog.local)' = ReachedFrom(prog, prog.local)
      BY <1>1 DEF Needed
    <2> QED BY <1>1, <2>1, <2>2, <2>3 DEF ValidatingOk
  <1>13. FailedOk'
    BY <1>1 DEF FilesOk, FailedOk
  <1>14. DoneOk'
    BY <1>1, <1>5 DEF FilesOk, DoneOk
  <1> QED BY <1>6, <1>7, <1>9, <1>11, <1>12, <1>13, <1>14 DEF FilesOk

LEMMA FilesThrow == ASSUME IInv, FilesOk, Throw PROVE FilesOk'
  <1>1. /\ stack' = <<>> /\ DOMAIN stack' = {}
        /\ phase' = IF phase = "declaring" THEN "failed" ELSE phase
        /\ prog' = prog /\ marked' = marked /\ done' = done
    BY DEF Throw
  <1>2. MarksOk' /\ DoneOk'
    BY <1>1 DEF FilesOk, MarksOk, DoneOk, IsMarked
  <1>3. VisitsOk' /\ ChainOk'
    BY <1>1 DEF VisitsOk, ChainOk
  <1>4. FailedOk' /\ DeclaringOk'
    BY <1>1 DEF FilesOk, FailedOk, DeclaringOk
  <1>5. ValidatingOk'
    <2>1. Needed(prog)' = Needed(prog)
      BY <1>1 DEF Needed
    <2> QED BY <1>1, <2>1 DEF FilesOk, ValidatingOk
  <1> QED BY <1>2, <1>3, <1>4, <1>5 DEF FilesOk

LEMMA FilesEnd == ASSUME IInv, FilesOk, EndModule PROVE FilesOk'
  <1> DEFINE n == Len(stack)
             p == stack[n].path
  <1>1. /\ stack # <<>> /\ stack' = Front(stack) /\ done' = done \cup {p}
        /\ Top.core = {} /\ Top.imports = {} /\ p \notin prog.faulty
        /\ phase' = IF n = 1 THEN "validating" ELSE phase
        /\ prog' = prog /\ marked' = marked /\ Top = stack[n]
    BY DEF EndModule, Visiting, Active, Top, Last
  <1>2. /\ IsStack(stack) /\ n \in Nat \ {0} /\ n \in DOMAIN stack
        /\ DOMAIN stack = 1 .. n /\ DOMAIN stack' = 1 .. n - 1
        /\ \A i \in 1 .. n - 1 : stack'[i] = stack[i] /\ i \in DOMAIN stack
        /\ n # 1 => stack' # <<>> /\ 1 \in 1 .. n - 1
        /\ prog \in ProgramType
    <2>1. IsStack(stack) /\ prog \in ProgramType
      BY ProgramAssumption DEF IInv
    <2>2. /\ IsStack(stack') /\ n \in Nat \ {0} /\ Len(stack') = n - 1
          /\ DOMAIN stack = 1 .. n
          /\ \A i \in 1 .. n - 1 : stack'[i] = stack[i]
      BY <1>1, <2>1, FrontStack, StackLen
    <2>3. DOMAIN stack' = 1 .. n - 1
      BY <2>2, StackLen
    <2>4. n # 1 => stack' # <<>> /\ 1 \in 1 .. n - 1
      BY <2>2, <2>3
    <2> QED BY <2>1, <2>2, <2>3, <2>4
  <1>3. VisitOk(prog, phase, marked, n, stack[n])
    BY <1>2 DEF FilesOk, VisitsOk
  <1>4. MarksOk'
    BY <1>1 DEF FilesOk, MarksOk
  <1>5. VisitsOk'
    <2>1. ASSUME NEW i \in DOMAIN stack' PROVE VisitOk(prog, phase', marked, i, stack'[i])
      <3>1. n # 1
        BY <1>2
      <3>2. VisitOk(prog, phase, marked, i, stack[i])
        BY <1>2 DEF FilesOk, VisitsOk
      <3> QED BY <1>1, <1>2, <3>1, <3>2
    <2> QED BY <1>1, <2>1 DEF VisitsOk
  <1>6. ChainOk'
    <2>1. ASSUME NEW i \in DOMAIN stack', NEW j \in DOMAIN stack', i < j
          PROVE  stack'[j].path \in ReachedFrom(prog, Imported(prog, stack'[i].path))
      BY <1>2, <2>1 DEF FilesOk, ChainOk
    <2>2. ChainOk' = \A i, j \in DOMAIN stack' :
              i < j => stack'[j].path \in ReachedFrom(prog', Imported(prog', stack'[i].path))
      BY DEF ChainOk
    <2> QED BY <1>1, <2>1, <2>2
  <1>7. DoneOk'
    <2>1. /\ IsMarked(marked, p)
          /\ \A q \in prog.imports[p] : IsMarked(marked, q)
      BY <1>1, <1>3 DEF VisitOk
    <2> QED BY <1>1, <2>1 DEF FilesOk, DoneOk
  <1>8. Needed(prog)' = Needed(prog) /\ ReachedFrom(prog, prog.local)' = ReachedFrom(prog, prog.local)
    BY <1>1 DEF Needed
  <1>9. CASE n # 1
    <2>1. phase' = phase
      BY <1>1, <1>9
    <2>2. FailedOk'
      BY <1>1, <2>1 DEF FilesOk, FailedOk
    <2>3. ValidatingOk'
      BY <1>1, <1>2, <1>8, <2>1 DEF FilesOk, ValidatingOk
    <2>4. DeclaringOk'
      <3> SUFFICES ASSUME phase = "declaring" PROVE DeclaringOk'
        BY <2>1 DEF DeclaringOk
      <3>1. DeclaringOk
        BY DEF FilesOk
      <3>2. stack'[1].path = Root /\ \A i \in DOMAIN stack' : stack'[i].path \in Needed(prog)
        BY <1>2, <1>9, <3>1 DEF DeclaringOk
      <3>3. done' \subseteq Needed(prog)
        BY <1>1, <1>2, <3>1 DEF DeclaringOk
      <3>4. \A q : IsMarked(marked, q) => q \in done' \/ \E i \in DOMAIN stack' : stack'[i].path = q
        <4>1. TAKE q
        <4>2. CASE \E i \in DOMAIN stack : stack[i].path = q
          <5>1. PICK i \in DOMAIN stack : stack[i].path = q
            BY <4>2
          <5>2. CASE i = n
            BY <1>1, <5>1, <5>2
          <5>3. CASE i # n
            <6>1. i \in DOMAIN stack' /\ stack'[i] = stack[i]
              BY <1>2, <5>1, <5>3
            <6> QED BY <5>1, <6>1
          <5> QED BY <5>2, <5>3
        <4> QED BY <1>1, <3>1, <4>2 DEF DeclaringOk
      <3> QED BY <1>1, <1>2, <1>8, <1>9, <3>2, <3>3, <3>4 DEF DeclaringOk
    <2> QED BY <1>4, <1>5, <1>6, <1>7, <2>2, <2>3, <2>4 DEF FilesOk
  <1>10. CASE n = 1
    <2>1. phase' = "validating" /\ DOMAIN stack' = {}
      BY <1>1, <1>2, <1>10
    <2>2. FailedOk' /\ DeclaringOk'
      BY <2>1 DEF FailedOk, DeclaringOk
    <2>3. Needed(prog) \subseteq done'
      <3>1. phase \in {"declaring", "validating"}
        BY <1>1 DEF FilesOk, FailedOk
      <3>2. CASE phase = "validating"
        BY <1>1, <3>2 DEF FilesOk, ValidatingOk
      <3>3. CASE phase = "declaring"
        <4>1. /\ p = Root
              /\ \A q : IsMarked(marked, q) => q \in done'
              /\ done' \subseteq Path
          <5>1. /\ \A i \in DOMAIN stack : i = 1
                /\ stack[1].path = Root /\ done \subseteq Needed(prog)
                /\ \A q : IsMarked(marked, q) => q \in done \/ \E i \in DOMAIN stack : stack[i].path = q
            BY <1>2, <1>10, <3>3 DEF FilesOk, DeclaringOk
          <5>2. Root \in Path /\ done \subseteq Path
            BY PathAssumption DEF IInv
          <5> QED BY <1>1, <1>10, <5>1, <5>2
        <4>2. \A q \in Core : IsMarked(marked, q)
          BY <1>1, <1>3, <1>10, <3>3 DEF VisitOk
        <4>3. \A q \in done' : prog.imports[q] \subseteq done'
          BY <1>1, <4>1, <1>7 DEF DoneOk, IsMarked
        <4>4. {Root} \cup Core \subseteq done'
          BY <1>1, <4>1, <4>2
        <4> QED BY <1>2, <4>1, <4>3, <4>4, ReachedParts DEF Needed
      <3> QED BY <3>1, <3>2, <3>3
    <2>4. ValidatingOk'
      BY <1>8, <2>1, <2>3 DEF ValidatingOk
    <2> QED BY <1>4, <1>5, <1>6, <1>7, <2>2, <2>4 DEF FilesOk
  <1> QED BY <1>9, <1>10

\* What is imported by the visit at the top of the stack.
LEMMA TopImports ==
    ASSUME IInv, FilesOk, stack # <<>>, NEW p, p \in Top.core \cup Top.imports
    PROVE  /\ p \in Path
           /\ \A i \in DOMAIN stack : p \in ReachedFrom(prog, Imported(prog, stack[i].path))
           /\ phase = "declaring" => p \in Needed(prog)
           /\ phase = "validating" => p \in ReachedFrom(prog, prog.local)
           /\ phase # "failed"
  <1> DEFINE n == Len(stack)
  <1>1. /\ n \in Nat \ {0} /\ DOMAIN stack = 1 .. n /\ Top = stack[n] /\ n \in DOMAIN stack
        /\ prog \in ProgramType /\ Core \subseteq Path
        /\ \A i \in DOMAIN stack : i = n \/ i < n
    <2>1. IsStack(stack) /\ prog \in ProgramType /\ Core \subseteq Path
      BY ProgramAssumption, IncludeAssumption DEF IInv
    <2> QED BY <2>1, AfterParts
  <1>2. VisitOk(prog, phase, marked, n, Top)
    BY <1>1 DEF FilesOk, VisitsOk
  <1>3. /\ p \in prog.imports[Top.path] \/ (p \in Core /\ n = 1 /\ phase = "declaring")
        /\ Top.path \in Path
    BY <1>1, <1>2, AfterParts DEF VisitOk, IInv
  <1>4. p \in Path
    BY <1>1, <1>3 DEF ProgramType
  <1>5. p \in Imported(prog, Top.path)
    <2>1. CASE p \in Core /\ n = 1 /\ phase = "declaring"
      BY <1>1, <2>1 DEF FilesOk, DeclaringOk, Imported
    <2> QED BY <1>3, <2>1 DEF Imported
  <1>6. ASSUME NEW i \in DOMAIN stack
        PROVE  p \in ReachedFrom(prog, Imported(prog, stack[i].path))
    <2>1. CASE i = n
      BY <1>1, <1>4, <1>5, <2>1, ReachedParts
    <2>2. CASE i < n
      <3>1. Top.path \in ReachedFrom(prog, Imported(prog, stack[i].path))
        BY <1>1, <2>2 DEF FilesOk, ChainOk
      <3>2. p \in prog.imports[Top.path]
        BY <1>1, <1>3, <2>2
      <3> QED BY <1>1, <3>1, <3>2, ReachedParts
    <2> QED BY <1>1, <2>1, <2>2
  <1>7. phase = "declaring" => p \in Needed(prog)
    <2> SUFFICES ASSUME phase = "declaring" PROVE p \in Needed(prog)
      OBVIOUS
    <2>1. Top.path \in Needed(prog)
      BY <1>1 DEF FilesOk, DeclaringOk
    <2> QED BY <1>1, <1>3, <1>4, <2>1, ReachedParts DEF Needed
  <1>8. phase = "validating" => p \in ReachedFrom(prog, prog.local)
    <2> SUFFICES ASSUME phase = "validating" PROVE p \in ReachedFrom(prog, prog.local)
      OBVIOUS
    <2>1. Top.path \in ReachedFrom(prog, prog.local)
      BY <1>1 DEF FilesOk, ValidatingOk
    <2> QED BY <1>1, <1>3, <2>1, ReachedParts
  <1> QED BY <1>4, <1>6, <1>7, <1>8 DEF FilesOk, FailedOk

LEMMA NextFiles == ASSUME OneFile, IInv, FilesOk, [Next]_vars PROVE FilesOk'
  <1>0. IInv' /\ IsStack(stack')
    BY NextIInv DEF IInv
  <1>1. ASSUME NEW p \in Path, ImportCore(p) PROVE FilesOk'
    <2>1. /\ stack # <<>> /\ p \in Top.core
          /\ IsStack(AfterCore(p)) /\ SamePaths(stack, AfterCore(p))
      BY <1>1, AfterStack DEF ImportCore, Active, IInv
    <2>2. CASE <<CoreDir, p>> \in marked
      <3>1. stack' = AfterCore(p) /\ UNCHANGED <<prog, phase, marked, done>>
        BY <1>1, <2>2 DEF ImportCore
      <3>2. IsMarked(marked, p)
        BY <2>2 DEF IsMarked
      <3> QED BY <2>1, <3>1, <3>2, AfterOk, FilesGoOn
    <2>3. CASE <<CoreDir, p>> \notin marked
      <3> DEFINE ms == marked \cup {<<CoreDir, p>>}
      <3>1. Enter(CoreDir, p, AfterCore(p))
        BY <1>1, <2>3 DEF ImportCore
      <3>2. CoreDir \in prog.where[p]
        <4>1. p \in Core
          BY <2>1, AfterParts DEF IInv
        <4> QED BY <4>1, ProgramAssumption DEF IInv
      <3>3. marked \subseteq ms /\ IsMarked(ms, p)
        BY DEF IsMarked
      <3>4. /\ DOMAIN AfterCore(p) = DOMAIN stack
            /\ \A i \in DOMAIN stack : AfterCore(p)[i].path = stack[i].path
        BY <2>1, SameDomain DEF IInv
      <3>5. \A i \in DOMAIN AfterCore(p) : VisitOk(prog, phase, ms, i, AfterCore(p)[i])
        <4> HIDE DEF ms
        <4> QED BY <2>1, <3>3, <3>4, AfterOk
      <3>6. /\ \A i \in DOMAIN AfterCore(p) :
                  p \in ReachedFrom(prog, Imported(prog, AfterCore(p)[i].path))
            /\ phase = "declaring" => p \in Needed(prog)
            /\ phase = "validating" => p \in ReachedFrom(prog, prog.local)
            /\ phase # "failed"
        BY <2>1, <3>4, TopImports
      <3> QED BY <2>1, <3>1, <3>2, <3>5, <3>6, FilesEntered
    <2> QED BY <2>2, <2>3
  <1>2. ASSUME NEW p \in Path, ImportKnown(p) PROVE FilesOk'
    <2>1. /\ stack # <<>> /\ stack' = AfterImport(p) /\ UNCHANGED <<prog, phase, marked, done>>
          /\ IsMarked(marked, p)
      BY <1>2 DEF ImportKnown, Visiting, Active, Known, IsMarked
    <2>2. IsStack(AfterImport(p)) /\ SamePaths(stack, AfterImport(p))
      BY <2>1, AfterStack DEF IInv
    <2> QED BY <2>1, <2>2, AfterOk, FilesGoOn
  <1>3. ASSUME NEW p \in Path, ImportFile(p) PROVE FilesOk'
    <2>1. PICK d \in FileOf(p) : Enter(d, p, AfterImport(p))
      BY <1>3 DEF ImportFile
    <2>2. /\ stack # <<>> /\ p \in Top.imports
          /\ IsStack(AfterImport(p)) /\ SamePaths(stack, AfterImport(p))
      BY <1>3, AfterStack DEF ImportFile, Visiting, Active, IInv
    <2> DEFINE ms == marked \cup {<<d, p>>}
    <2>3. d \in prog.where[p] /\ marked \subseteq ms /\ IsMarked(ms, p)
      BY FileUnmarked DEF IsMarked
    <2>4. /\ DOMAIN AfterImport(p) = DOMAIN stack
          /\ \A i \in DOMAIN stack : AfterImport(p)[i].path = stack[i].path
      BY <2>2, SameDomain DEF IInv
    <2>5. \A i \in DOMAIN AfterImport(p) : VisitOk(prog, phase, ms, i, AfterImport(p)[i])
      <3> HIDE DEF ms
      <3> QED BY <2>2, <2>3, <2>4, AfterOk
    <2>6. /\ \A i \in DOMAIN AfterImport(p) :
                p \in ReachedFrom(prog, Imported(prog, AfterImport(p)[i].path))
          /\ phase = "declaring" => p \in Needed(prog)
          /\ phase = "validating" => p \in ReachedFrom(prog, prog.local)
          /\ phase # "failed"
      BY <2>2, <2>4, TopImports
    <2> QED BY <2>1, <2>2, <2>3, <2>5, <2>6, FilesEntered
  <1>4. ASSUME NEW n \in Name, DeclareFunction(n) PROVE FilesOk'
    <2>1. stack # <<>> /\ stack' = AfterFunction(n) /\ UNCHANGED <<prog, phase, marked, done>>
      BY <1>4 DEF DeclareFunction, Visiting, Active
    <2>2. IsStack(AfterFunction(n)) /\ SamePaths(stack, AfterFunction(n))
      BY <2>1, AfterStack DEF IInv
    <2> QED BY <2>1, <2>2, AfterOk, FilesGoOn
  <1>5. ASSUME NEW p \in Path, LocalImport(p) PROVE FilesOk'
    <2>1. PICK d \in FileOf(p) : Enter(d, p, <<>>)
      BY <1>5 DEF LocalImport
    <2>2. phase = "validating" /\ p \in prog.local /\ IsStack(<<>>)
      BY <1>5 DEF LocalImport, IsStack
    <2>3. p \in ReachedFrom(prog, prog.local)
      BY <2>2, ReachedParts, ProgramAssumption DEF IInv
    <2>4. DOMAIN <<>> = {} /\ d \in prog.where[p]
      <3>1. DOMAIN <<>> = {}
        OBVIOUS
      <3>2. d \in prog.where[p]
        BY <2>1, FileUnmarked
      <3> QED BY <3>1, <3>2
    <2>5. /\ \A i \in DOMAIN <<>> : VisitOk(prog, phase, marked \cup {<<d, p>>}, i, <<>>[i])
          /\ \A i \in DOMAIN <<>> : p \in ReachedFrom(prog, Imported(prog, <<>>[i].path))
      BY <2>4
    <2> QED BY <2>1, <2>2, <2>3, <2>4, <2>5, FilesEntered
  <1>6. ASSUME UNCHANGED <<prog, phase, stack, marked, done>> PROVE FilesOk'
    <2>1. Needed(prog)' = Needed(prog)
      BY <1>6 DEF Needed
    <2> QED BY <1>6, <2>1
            DEF FilesOk, MarksOk, VisitsOk, ChainOk, DeclaringOk, ValidatingOk, FailedOk, DoneOk,
                IsMarked
  <1> QED BY <1>1, <1>2, <1>3, <1>4, <1>5, <1>6, FilesThrow, FilesEnd
          DEF Next, Import, ImportMissing, Fault, Lookup, vars

-----------------------------------------------------------------------------
(* The modules that are found.                                              *)

\* The tables lead as before when they are as before.
LEMMA FollowSame ==
    ASSUME NEW pr, NEW h, NEW t, NEW place, IsTree(pr, h, t, place), NEW h2,
           \A i \in 1 .. Len(h), n \in Name : h2[i].subs[n] = h[i].subs[n]
    PROVE  \A r \in Paths : Follow(h2, t, r) = Follow(h, t, r)
  <1> DEFINE T == {r \in Paths : Follow(h2, t, r) = Follow(h, t, r)}
  <1>1. ASSUME NEW n \in Name PROVE <<n>> \in T
    BY FollowOne, OneName
  <1>2. ASSUME NEW q \in Paths, NEW n \in Name, q \in T PROVE Append(q, n) \in T
    <2>1. /\ Follow(h, t, Append(q, n)) =
                IF Follow(h, t, q) = None THEN None ELSE h[Follow(h, t, q)].subs[n]
          /\ Follow(h2, t, Append(q, n)) =
                IF Follow(h2, t, q) = None THEN None ELSE h2[Follow(h2, t, q)].subs[n]
      BY FollowMore
    <2>2. Follow(h, t, q) # None => Follow(h, t, q) \in 1 .. Len(h)
      BY FollowIn
    <2>3. Append(q, n) \in Paths
      BY OneMore
    <2> QED BY <1>2, <2>1, <2>2, <2>3
  <1>3. Paths \subseteq T
    <2> HIDE DEF T
    <2> QED BY <1>1, <1>2, AllPaths
  <1> QED BY <1>3

\* The heap h2 has one module more than h, at the place p, to which no table leads.
OneModuleMore(pr, h, t, place, h2, p) ==
    /\ Len(h) \in Nat /\ Len(h2) = Len(h) + 1
    /\ \A i \in 1 .. Len(h) : h2[i] = h[i]
    /\ h2[Len(h) + 1] = NewModule
    /\ \E place2 : /\ IsTree(pr, h2, t, place2)
                   /\ place2[Len(h) + 1] = p
                   /\ \A i \in 1 .. Len(h) : place2[i] = place[i]

LEMMA AppendTree ==
    ASSUME NEW pr, NEW h, NEW t, NEW place, IsTree(pr, h, t, place), NEW p \in Paths,
           NEW h2, h2 = Append(h, NewModule)
    PROVE  OneModuleMore(pr, h, t, place, h2, p)
  <1> DEFINE place2 == [i \in 1 .. Len(h2) |-> IF i <= Len(h) THEN place[i] ELSE p]
  <1>1. /\ h \in Seq(ModuleType) /\ t \in [Name -> Nat] /\ Len(h) \in Nat
        /\ place \in [1 .. Len(h) -> Paths]
    BY DEF IsTree
  <1>2. /\ h2 \in Seq(ModuleType) /\ Len(h2) = Len(h) + 1
        /\ \A i \in 1 .. Len(h) : h2[i] = h[i]
        /\ h2[Len(h) + 1] = NewModule
    BY <1>1, NewOk
  <1>3. /\ place2[Len(h) + 1] = p /\ \A i \in 1 .. Len(h) : place2[i] = place[i]
        /\ place2 \in [1 .. Len(h2) -> Paths]
    <2>1. ASSUME NEW i \in 1 .. Len(h2)
          PROVE  (IF i <= Len(h) THEN place[i] ELSE p) \in Paths
      BY <1>1, <1>2
    <2> QED BY <1>1, <1>2, <2>1
  <1> HIDE DEF place2
  <1>4. \A i \in 1 .. Len(h2) : i \in 1 .. Len(h) \/ i = Len(h) + 1
    BY <1>1, <1>2
  <1>5. ASSUME NEW n \in Name, t[n] # None
        PROVE  t[n] \in 1 .. Len(h2) /\ place2[t[n]] = <<n>>
    <2>1. t[n] \in 1 .. Len(h) /\ place[t[n]] = <<n>>
      BY <1>5 DEF IsTree
    <2> QED BY <1>1, <1>2, <1>3, <2>1
  <1>6. ASSUME NEW i \in 1 .. Len(h2), NEW n \in Name, h2[i].subs[n] # None
        PROVE  h2[i].subs[n] \in 1 .. Len(h2) /\ place2[h2[i].subs[n]] = Append(place2[i], n)
    <2>1. i \in 1 .. Len(h)
      BY <1>2, <1>4, <1>6, NewOk
    <2> DEFINE c == h[i].subs[n]
    <2>2. c \in 1 .. Len(h) /\ place[c] = Append(place[i], n) /\ h2[i].subs[n] = c
      BY <1>2, <1>6, <2>1 DEF IsTree
    <2> HIDE DEF c
    <2> QED BY <1>1, <1>2, <1>3, <2>1, <2>2
  <1>7. ASSUME NEW i \in 1 .. Len(h2) PROVE h2[i].funs \subseteq {place2[i]} \X Own(pr, place2[i])
    <2>1. CASE i \in 1 .. Len(h)
      <3>1. h2[i] = h[i] /\ place2[i] = place[i]
        BY <1>2, <1>3, <2>1
      <3>2. h[i].funs \subseteq {place[i]} \X Own(pr, place[i])
        BY <2>1 DEF IsTree
      <3> QED BY <3>1, <3>2
    <2>2. CASE i = Len(h) + 1
      BY <1>2, <2>2, NewOk
    <2> QED BY <1>4, <2>1, <2>2
  <1>8. IsTree(pr, h2, t, place2)
    BY <1>1, <1>2, <1>3, <1>5, <1>6, <1>7 DEF IsTree
  <1> QED BY <1>1, <1>2, <1>3, <1>8 DEF OneModuleMore

\* The module that the visit f builds: the tables lead to it or to none of its
\* place, it has no submodule before they do, and it has what was declared.
VisitBuilt(pr, h, t, f) ==
    /\ f.funs \subseteq pr.funs[f.path]
    /\ Len(f.path) = 1 => Follow(h, t, f.path) \in {None, f.mod}
    /\ Len(f.path) > 1 => Follow(h, t, f.path) # f.mod
    /\ Follow(h, t, f.path) # f.mod => \A n \in Name : h[f.mod].subs[n] = None
    /\ {f.path} \X (pr.funs[f.path] \ f.funs) \subseteq h[f.mod].funs

PlacedOk(h, s, place) == \A i \in DOMAIN s : s[i].mod \in 1 .. Len(h) /\ place[s[i].mod] = s[i].path

TreeOk ==
    \E place : IsTree(prog, mods, roots, place) /\ PlacedOk(mods, stack, place)

BuiltOk == \A i \in DOMAIN stack : VisitBuilt(prog, mods, roots, stack[i])

DoneFound ==
    \A p \in done : Walk(p) # None /\ {p} \X prog.funs[p] \subseteq mods[Walk(p)].funs

\* The modules that are found are done, or are above one that is.
FoundDone == \A r \in Paths : Walk(r) # None => \E q \in done : q = r \/ IsBelow(q, r)

\* The cache holds what the tables lead to, but for the modules that will not be
\* visited.
CachedOk(p) ==
    cache[p] # None =>
        /\ Len(p) = 1 => cache[p] = Walk(p)
        /\ p \in done => cache[p] = Walk(p)
        /\ Len(p) > 1 /\ p \notin done =>
              /\ phase = "validating"
              /\ \A i \in DOMAIN stack : stack[i].path # p
              /\ IsMarked(marked, p) \/ p \notin ReachedFrom(prog, prog.local)

CacheOk == cache \in [Path -> Nat] /\ \A p \in Path : CachedOk(p)

FoundOk == TreeOk /\ BuiltOk /\ DoneFound /\ FoundDone /\ CacheOk

LEMMA WalkOne == ASSUME NEW p \in Paths, Len(p) = 1 PROVE Walk(p) = roots[p[1]]
    BY PathParts, FollowOne DEF Walk

LEMMA InitFound == Init => FoundOk
  <1> SUFFICES ASSUME Init PROVE FoundOk
    OBVIOUS
  <1> DEFINE v == [path |-> Root, mod |-> 1, core |-> Core,
                   imports |-> prog.imports[Root], funs |-> prog.funs[Root]]
             place == [i \in 1 .. 1 |-> Root]
  <1>1. /\ prog \in ProgramType /\ Root \in Path /\ Root \in Paths
        /\ done = {} /\ mods = <<NewModule>>
        /\ roots = [n \in Name |-> None] /\ cache = [p \in Path |-> None]
    BY ProgramAssumption, PathAssumption, PathsOf DEF Init
  <1>2. v.path = Root /\ v.mod = 1 /\ v.funs = prog.funs[Root]
    OBVIOUS
  <1>3. stack = <<v>>
    BY DEF Init
  <1> HIDE DEF v
  <1>4. DOMAIN stack = {1} /\ stack[1] = v
    BY <1>3
  <1>5. /\ mods \in Seq(ModuleType) /\ Len(mods) = 1 /\ mods[1] = NewModule
        /\ roots \in [Name -> Nat] /\ \A n \in Name : roots[n] = None
    <2>1. NewModule \in ModuleType
      BY NewOk
    <2>2. mods \in Seq(ModuleType) /\ Len(mods) = 1 /\ mods[1] = NewModule
      BY <1>1, <2>1
    <2> QED BY <1>1, <2>2 DEF None
  <1>6. IsTree(prog, mods, roots, place)
    <2>1. place \in [1 .. Len(mods) -> Paths]
      BY <1>1, <1>5
    <2>2. \A i \in 1 .. Len(mods) : i = 1
      BY <1>5
    <2> HIDE DEF place
    <2> QED BY <1>5, <2>1, <2>2, NewOk DEF IsTree
  <1>7. TreeOk
    <2>1. place[1] = Root
      OBVIOUS
    <2> HIDE DEF place
    <2> QED BY <1>2, <1>4, <1>5, <1>6, <2>1 DEF TreeOk, PlacedOk
  <1>8. \A r \in Paths : Walk(r) = None
    <2> DEFINE T == {r \in Paths : Walk(r) = None}
    <2>1. ASSUME NEW n \in Name PROVE <<n>> \in T
      <3>1. Follow(mods, roots, <<n>>) = None
        BY <1>5, FollowOne
      <3> QED BY <3>1, OneName DEF Walk
    <2>2. \A q \in Paths, n \in Name : q \in T => Append(q, n) \in T
      BY FollowMore, OneMore DEF Walk
    <2>3. Paths \subseteq T
      <3> HIDE DEF T
      <3> QED BY <2>1, <2>2, AllPaths
    <2> QED BY <2>3
  <1>9. BuiltOk
    <2>1. Follow(mods, roots, Root) = None
      BY <1>1, <1>8 DEF Walk
    <2>2. VisitBuilt(prog, mods, roots, v)
      BY <1>2, <1>5, <2>1, NewOk DEF VisitBuilt, None
    <2> QED BY <1>4, <2>2 DEF BuiltOk
  <1>10. DoneFound /\ FoundDone
    BY <1>1, <1>8 DEF DoneFound, FoundDone
  <1>11. CacheOk
    BY <1>1 DEF CacheOk, CachedOk, None
  <1> QED BY <1>7, <1>9, <1>10, <1>11 DEF FoundOk

-----------------------------------------------------------------------------
(* The steps keep the modules found.                                        *)

\* The tree stays, and the visits go on or end.
LEMMA FoundKept ==
    ASSUME FoundOk, UNCHANGED <<prog, marked, mods, roots, cache, done>>,
           phase = "validating" => phase' = "validating",
           \A i \in DOMAIN stack' : /\ i \in DOMAIN stack /\ stack'[i].path = stack[i].path
                                    /\ stack'[i].mod = stack[i].mod
                                    /\ stack'[i].funs = stack[i].funs
    PROVE  FoundOk'
  <1>1. \A r : Walk(r)' = Walk(r)
    BY DEF Walk
  <1>2. TreeOk'
    <2>1. PICK place : IsTree(prog, mods, roots, place) /\ PlacedOk(mods, stack, place)
      BY DEF FoundOk, TreeOk
    <2>2. PlacedOk(mods, stack', place)
      BY <2>1 DEF PlacedOk
    <2> QED BY <2>1, <2>2 DEF TreeOk
  <1>3. BuiltOk'
    <2>1. ASSUME NEW i \in DOMAIN stack' PROVE VisitBuilt(prog, mods, roots, stack'[i])
      <3>1. VisitBuilt(prog, mods, roots, stack[i])
        BY DEF FoundOk, BuiltOk
      <3> QED BY <3>1 DEF VisitBuilt
    <2> QED BY <2>1 DEF BuiltOk
  <1>4. DoneFound' /\ FoundDone'
    BY <1>1 DEF FoundOk, DoneFound, FoundDone
  <1>5. CacheOk'
    <2>1. ASSUME NEW p \in Path PROVE CachedOk(p)'
      <3>1. CachedOk(p)
        BY DEF FoundOk, CacheOk
      <3>2. ReachedFrom(prog, prog.local)' = ReachedFrom(prog, prog.local)
        OBVIOUS
      <3> QED BY <1>1, <3>1, <3>2 DEF CachedOk, IsMarked
    <2> QED BY <2>1 DEF FoundOk, CacheOk
  <1> QED BY <1>2, <1>3, <1>4, <1>5 DEF FoundOk

\* The visits stay, the modules have more functions and the tables are the same.
LEMMA FoundGrows ==
    ASSUME NEW place, NEW place2,
           IInv, FoundOk, IsTree(prog, mods, roots, place),
           IsTree(prog, mods', roots, place2),
           UNCHANGED <<prog, phase, roots, done>>,
           Len(mods) <= Len(mods'),
           \A i \in 1 .. Len(mods) : mods'[i].subs = mods[i].subs /\ mods[i].funs \subseteq mods'[i].funs
    PROVE  (\A r \in Paths : Walk(r)' = Walk(r)) /\ DoneFound' /\ FoundDone'
  <1>1. Len(mods) \in Nat
    BY DEF IsTree
  <1>2. \A r \in Paths : Follow(mods', roots, r) = Follow(mods, roots, r)
    <2>1. \A i \in 1 .. Len(mods), n \in Name : mods'[i].subs[n] = mods[i].subs[n]
      OBVIOUS
    <2> QED BY <2>1, FollowSame
  <1>3. \A r \in Paths : Walk(r)' = Walk(r)
    BY <1>2 DEF Walk
  <1>4. DoneFound'
    <2>1. ASSUME NEW p \in done, p \in Path
          PROVE  Walk(p)' # None /\ {p} \X prog.funs[p] \subseteq mods'[Walk(p)'].funs
      <3>1. p \in Paths /\ Walk(p) # None /\ {p} \X prog.funs[p] \subseteq mods[Walk(p)].funs
        BY <2>1, PathsOf DEF FoundOk, DoneFound
      <3>2. Walk(p) \in 1 .. Len(mods)
        BY <3>1, FollowIn DEF Walk
      <3> QED BY <1>3, <3>1, <3>2
    <2> QED BY <2>1 DEF DoneFound, IInv
  <1>5. FoundDone'
    BY <1>3 DEF FoundOk, FoundDone
  <1> QED BY <1>3, <1>4, <1>5

\* What a module has, once it is found, is looked up.
LEMMA FoundLookup ==
    ASSUME NEW p \in Path, IInv, FilesOk, FoundOk, IsSettled(prog), Lookup(p)
    PROVE  FoundOk'
  <1>1. /\ phase = "validating" /\ stack = <<>> /\ cache[p] = None /\ Walk(p) # None
        /\ cache' = [cache EXCEPT ![p] = Walk(p)]
        /\ UNCHANGED <<prog, phase, stack, marked, mods, roots, done>>
    BY DEF Lookup, Active
  <1>2. \A r : Walk(r)' = Walk(r)
    BY <1>1 DEF Walk
  <1>3. TreeOk' /\ BuiltOk' /\ DoneFound' /\ FoundDone'
    <2>1. TreeOk' /\ BuiltOk'
      BY <1>1 DEF FoundOk, TreeOk, BuiltOk
    <2>2. DoneFound' /\ FoundDone'
      BY <1>1, <1>2 DEF FoundOk, DoneFound, FoundDone
    <2> QED BY <2>1, <2>2
  <1>4. p \in Paths /\ Len(p) \in Nat \ {0} /\ Walk(p) \in Nat /\ cache \in [Path -> Nat]
    <2>1. p \in Paths /\ Len(p) \in Nat \ {0} /\ cache \in [Path -> Nat]
      BY PathsOf, PathParts DEF FoundOk, CacheOk
    <2>2. PICK place : IsTree(prog, mods, roots, place)
      BY DEF FoundOk, TreeOk
    <2> QED BY <2>1, <2>2, FollowIn DEF Walk
  <1>5. cache' \in [Path -> Nat] /\ \A q \in Path : cache'[q] = IF q = p THEN Walk(p) ELSE cache[q]
    BY <1>1, <1>4
  <1>6. ASSUME Len(p) > 1, p \notin done, p \in ReachedFrom(prog, prog.local)
        PROVE  IsMarked(marked, p)
    <2>1. p \notin Needed(prog)
      BY <1>1, <1>6 DEF FilesOk, ValidatingOk
    <2>2. PICK q \in done : IsBelow(q, p)
      BY <1>1, <1>4, <1>6 DEF FoundOk, FoundDone
    <2>3. q \in Path
      BY DEF IInv
    <2>4. p \in prog.imports[q]
      BY <1>6, <2>1, <2>2, <2>3 DEF IsSettled, BlocksImportLast, Needed
    <2> QED BY <2>4 DEF FilesOk, DoneOk
  <1>7. ASSUME NEW q \in Path PROVE CachedOk(q)'
    <2>1. CachedOk(q)
      BY DEF FoundOk, CacheOk
    <2>2. ReachedFrom(prog, prog.local)' = ReachedFrom(prog, prog.local)
      BY <1>1
    <2>3. CASE q = p
      <3>1. DOMAIN stack' = {}
        BY <1>1
      <3> QED BY <1>1, <1>2, <1>5, <1>6, <2>2, <2>3, <3>1 DEF CachedOk, IsMarked
    <2>4. CASE q # p
      BY <1>1, <1>2, <1>5, <2>1, <2>2, <2>4 DEF CachedOk, IsMarked
    <2> QED BY <2>3, <2>4
  <1>8. CacheOk'
    BY <1>5, <1>7 DEF CacheOk
  <1> QED BY <1>3, <1>8 DEF FoundOk

LEMMA FoundDeclare ==
    ASSUME NEW n \in Name, IInv, FoundOk, DeclareFunction(n)
    PROVE  FoundOk'
  <1> DEFINE k == Len(stack)
             m == stack[k].mod
             p == stack[k].path
  <1>1. /\ stack # <<>> /\ n \in Top.funs /\ stack' = AfterFunction(n)
        /\ mods' = [mods EXCEPT ![Top.mod].funs = @ \cup {<<Top.path, n>>}]
        /\ UNCHANGED <<prog, phase, marked, roots, cache, done>>
    BY DEF DeclareFunction, Visiting, Active
  <1>2. /\ k \in DOMAIN stack /\ DOMAIN stack = 1 .. k /\ DOMAIN stack' = 1 .. k
        /\ Top.mod = m /\ Top.path = p /\ p \in Path /\ k \in Nat \ {0}
        /\ n \in stack[k].funs
        /\ \A i \in 1 .. k - 1 : stack'[i] = stack[i]
        /\ stack'[k].path = p /\ stack'[k].mod = m /\ stack'[k].funs = stack[k].funs \ {n}
    BY <1>1, AfterParts DEF IInv
  <1>3. PICK place : IsTree(prog, mods, roots, place) /\ PlacedOk(mods, stack, place)
    BY DEF FoundOk, TreeOk
  <1>4. /\ m \in 1 .. Len(mods) /\ place[m] = p
        /\ VisitBuilt(prog, mods, roots, stack[k]) /\ n \in prog.funs[p]
    <2>1. VisitBuilt(prog, mods, roots, stack[k])
      BY <1>2 DEF FoundOk, BuiltOk
    <2>2. n \in prog.funs[p]
      BY <1>2, <2>1 DEF VisitBuilt
    <2> QED BY <1>2, <1>3, <2>1, <2>2 DEF PlacedOk
  <1> HIDE DEF m, p, k
  <1>5. /\ mods \in Seq(ModuleType) /\ Len(mods) \in Nat
        /\ mods' \in Seq(ModuleType) /\ Len(mods') = Len(mods)
        /\ \A i \in 1 .. Len(mods) : i # m => mods'[i] = mods[i]
        /\ mods'[m].subs = mods[m].subs /\ mods'[m].funs = mods[m].funs \cup {<<p, n>>}
    <2>1. mods \in Seq(ModuleType) /\ Len(mods) \in Nat
      BY <1>3 DEF IsTree
    <2> DEFINE w == [mods[m] EXCEPT !.funs = @ \cup {<<p, n>>}]
    <2>2. w \in ModuleType /\ w.subs = mods[m].subs /\ w.funs = mods[m].funs \cup {<<p, n>>}
      <3>1. mods[m] \in ModuleType
        BY <1>4, <2>1
      <3>2. <<p, n>> \in Path \X Name
        BY <1>2
      <3> QED BY <3>1, <3>2 DEF ModuleType
    <2>3. mods' = [mods EXCEPT ![m] = w]
      BY <1>1, <1>2
    <2> HIDE DEF w
    <2> QED BY <1>4, <2>1, <2>2, <2>3
  <1>6. IsTree(prog, mods', roots, place)
    <2>1. ASSUME NEW i \in 1 .. Len(mods)
          PROVE  mods'[i].funs \subseteq {place[i]} \X Own(prog, place[i])
      <3>1. mods[i].funs \subseteq {place[i]} \X Own(prog, place[i])
        BY <1>3 DEF IsTree
      <3>2. <<p, n>> \in {place[m]} \X Own(prog, place[m])
        BY <1>2, <1>4 DEF Own
      <3> QED BY <1>5, <3>1, <3>2
    <2>2. \A i \in 1 .. Len(mods), x \in Name : mods'[i].subs[x] = mods[i].subs[x]
      BY <1>5
    <2>3. /\ roots \in [Name -> Nat] /\ place \in [1 .. Len(mods) -> Paths]
          /\ \A x \in Name : roots[x] # None => roots[x] \in 1 .. Len(mods) /\ place[roots[x]] = <<x>>
          /\ \A i \in 1 .. Len(mods), x \in Name :
                mods[i].subs[x] # None => /\ mods[i].subs[x] \in 1 .. Len(mods)
                                          /\ place[mods[i].subs[x]] = Append(place[i], x)
      BY <1>3 DEF IsTree
    <2> QED BY <1>5, <2>1, <2>2, <2>3 DEF IsTree
  <1>7. \A i \in 1 .. Len(mods) :
           mods'[i].subs = mods[i].subs /\ mods[i].funs \subseteq mods'[i].funs
    BY <1>5
  <1>8. (\A r \in Paths : Walk(r)' = Walk(r)) /\ DoneFound' /\ FoundDone'
    <2>1. Len(mods) <= Len(mods')
      BY <1>5
    <2> QED BY <1>1, <1>3, <1>6, <1>7, <2>1, FoundGrows
  <1>9. \A i \in DOMAIN stack : i \in DOMAIN stack' /\ (i = k \/ i \in 1 .. k - 1)
    BY <1>2 DEF k
  <1>10. \A i \in DOMAIN stack :
            stack'[i].path = stack[i].path /\ stack'[i].mod = stack[i].mod
    BY <1>2, <1>9 DEF p, m
  <1>11. TreeOk'
    <2>1. PlacedOk(mods', stack', place)
      BY <1>2, <1>3, <1>5, <1>10 DEF PlacedOk
    <2> QED BY <1>1, <1>6, <2>1 DEF TreeOk
  <1>12. BuiltOk'
    <2>1. ASSUME NEW i \in DOMAIN stack' PROVE VisitBuilt(prog, mods', roots, stack'[i])
      <3> DEFINE f == stack[i]
                 g == stack'[i]
      <3>1. /\ VisitBuilt(prog, mods, roots, f) /\ g.path = f.path /\ g.mod = f.mod
            /\ f.mod \in 1 .. Len(mods) /\ f.path \in Paths
        <4>1. i \in DOMAIN stack
          BY <1>2, <2>1
        <4>2. f.path \in Paths
          <5>1. f.path \in Path
            BY <4>1 DEF IInv, IsStack, IsVisit
          <5> QED BY <5>1, PathsOf
        <4> QED BY <1>3, <1>10, <4>1, <4>2 DEF FoundOk, BuiltOk, PlacedOk
      <3>2. g.funs = f.funs \/ (i = k /\ g.funs = f.funs \ {n} /\ f.path = p /\ f.mod = m)
        BY <1>2, <1>9, <2>1 DEF p, m
      <3> HIDE DEF f, g
      <3>3. Follow(mods', roots, f.path) = Follow(mods, roots, f.path)
        <4>1. \A r \in Paths : Follow(mods', roots, r) = Follow(mods, roots, r)
          BY <1>1, <1>8 DEF Walk
        <4> QED BY <3>1, <4>1
      <3>4. g.funs \subseteq prog.funs[g.path]
        BY <3>1, <3>2 DEF VisitBuilt
      <3>5. {f.path} \X (prog.funs[f.path] \ g.funs) \subseteq mods'[f.mod].funs
        BY <1>5, <1>7, <3>1, <3>2 DEF VisitBuilt
      <3>6. \A x \in Name : mods'[f.mod].subs[x] = mods[f.mod].subs[x]
        BY <1>7, <3>1
      <3>7. VisitBuilt(prog, mods', roots, g)
        BY <3>1, <3>3, <3>4, <3>5, <3>6 DEF VisitBuilt
      <3> QED BY <3>7 DEF g
    <2> QED BY <1>1, <2>1 DEF BuiltOk
  <1>13. CacheOk'
    <2>1. ASSUME NEW q \in Path PROVE CachedOk(q)'
      <3>1. CachedOk(q) /\ q \in Paths
        BY PathsOf DEF FoundOk, CacheOk
      <3>2. ReachedFrom(prog, prog.local)' = ReachedFrom(prog, prog.local)
        BY <1>1
      <3>3. (\A i \in DOMAIN stack : stack[i].path # q) => \A i \in DOMAIN stack' : stack'[i].path # q
        BY <1>2, <1>10
      <3>4. Walk(q)' = Walk(q)
        BY <1>8, <3>1
      <3> QED BY <1>1, <3>1, <3>2, <3>3, <3>4 DEF CachedOk, IsMarked
    <2> QED BY <1>1, <2>1 DEF FoundOk, CacheOk
  <1> QED BY <1>8, <1>11, <1>12, <1>13 DEF FoundOk

\* A file is entered: the module that its visit builds is new, or the one of its
\* name.
LEMMA FoundEntered ==
    ASSUME OneFile, IInv, FilesOk, FoundOk,
           NEW p \in Path, NEW d \in prog.where[p], <<d, p>> \notin marked,
           NEW below, IsStack(below), Enter(d, p, below),
           \A i \in DOMAIN below : /\ i \in DOMAIN stack /\ below[i].path = stack[i].path
                                   /\ below[i].mod = stack[i].mod
                                   /\ below[i].funs = stack[i].funs,
           phase = "validating" => p \in ReachedFrom(prog, prog.local)
    PROVE  FoundOk'
  <1> DEFINE known == IF Len(p) = 1 THEN roots[p[1]] ELSE None
             k == Len(mods)
             id == IF known = None THEN k + 1 ELSE known
             n == Len(below)
             s == stack'
             v == [path |-> p, mod |-> id, core |-> {},
                   imports |-> prog.imports[p], funs |-> prog.funs[p]]
  <1>1. /\ s = Append(below, v) /\ marked' = marked \cup {<<d, p>>}
        /\ mods' = IF known = None THEN Append(mods, NewModule) ELSE mods
        /\ cache' = IF known # None /\ cache[p] = None
                    THEN [cache EXCEPT ![p] = known] ELSE cache
        /\ UNCHANGED <<prog, phase, roots, done>>
    BY DEF Enter
  <1>2. /\ prog \in Program /\ prog \in ProgramType
        /\ p \in Paths /\ Len(p) \in Nat \ {0} /\ p[1] \in Name
        /\ Len(p) = 1 => Walk(p) = roots[p[1]]
    BY ProgramAssumption, PathsOf, PathParts, WalkOne DEF IInv
  <1>3. PICK place : IsTree(prog, mods, roots, place) /\ PlacedOk(mods, stack, place)
    BY DEF FoundOk, TreeOk
  <1>4. /\ k \in Nat /\ Walk(p) \in Nat
        /\ Walk(p) # None => Walk(p) \in 1 .. k /\ place[Walk(p)] = p
    BY <1>2, <1>3, FollowIn DEF Walk
  <1>5. v.path = p /\ v.mod = id /\ v.funs = prog.funs[p] /\ IsVisit(v)
    <2> HIDE DEF id
    <2>1. v \in [path : Path, mod : {id}, core : SUBSET Core,
                 imports : SUBSET Path, funs : SUBSET Name]
      BY <1>2 DEF ProgramType
    <2> QED BY <2>1 DEF IsVisit
  <1>6. known # None => Len(p) = 1 /\ known = Walk(p)
    BY <1>2
  <1> HIDE DEF v
  <1>7. /\ n \in Nat /\ DOMAIN s = 1 .. n + 1 /\ s[n + 1] = v
        /\ \A i \in DOMAIN s : \/ i = n + 1
                               \/ i \in DOMAIN below /\ s[i] = below[i]
    <2>1. n \in Nat /\ DOMAIN below = 1 .. n
      BY StackLen
    <2>2. /\ IsStack(s) /\ Len(s) = n + 1 /\ s[n + 1] = v
          /\ \A i \in 1 .. n : s[i] = below[i]
      BY <1>1, <1>5, AppendStack
    <2>3. DOMAIN s = 1 .. n + 1
      BY <2>2, StackLen
    <2>4. \A i \in 1 .. n + 1 : i = n + 1 \/ i \in 1 .. n
      BY <2>1
    <2> HIDE DEF s, n
    <2> QED BY <2>1, <2>2, <2>3, <2>4
  <1> HIDE DEF n, s
  <1>8. PICK place2 :
           /\ IsTree(prog, mods', roots, place2)
           /\ k <= Len(mods') /\ id \in 1 .. Len(mods') /\ place2[id] = p
           /\ \A i \in 1 .. k : mods'[i] = mods[i] /\ place2[i] = place[i]
           /\ known = None => mods'[id] = NewModule
    <2>1. CASE known = None
      <3>1. id = k + 1 /\ mods' = Append(mods, NewModule)
        BY <1>1, <2>1
      <3>2. OneModuleMore(prog, mods, roots, place, mods', p)
        BY <1>2, <1>3, <3>1, AppendTree
      <3>3. /\ k \in Nat /\ Len(mods') = k + 1
            /\ \A i \in 1 .. k : mods'[i] = mods[i]
            /\ mods'[k + 1] = NewModule
            /\ \E pl : /\ IsTree(prog, mods', roots, pl)
                       /\ pl[k + 1] = p
                       /\ \A i \in 1 .. k : pl[i] = place[i]
        BY <3>2 DEF OneModuleMore
      <3>4. k <= Len(mods') /\ id \in 1 .. Len(mods') /\ mods'[id] = NewModule
        BY <3>1, <3>3
      <3> HIDE DEF id
      <3> QED BY <3>1, <3>3, <3>4
    <2>2. CASE known # None
      <3>1. id = Walk(p) /\ mods' = mods /\ id # None
        BY <1>1, <1>6, <2>2
      <3> QED BY <1>3, <1>4, <2>2, <3>1
    <2> QED BY <2>1, <2>2
  <1>9. (\A r \in Paths : Walk(r)' = Walk(r)) /\ DoneFound' /\ FoundDone'
    <2>1. \A i \in 1 .. k : mods'[i].subs = mods[i].subs /\ mods[i].funs \subseteq mods'[i].funs
      BY <1>8
    <2> QED BY <1>1, <1>3, <1>8, <2>1, FoundGrows
  <1>10. \A r \in Paths : Follow(mods', roots, r) = Follow(mods, roots, r)
    BY <1>1, <1>9 DEF Walk
  <1>11. TreeOk'
    <2>1. ASSUME NEW i \in DOMAIN s PROVE s[i].mod \in 1 .. Len(mods') /\ place2[s[i].mod] = s[i].path
      <3>1. CASE i = n + 1
        BY <1>5, <1>7, <1>8, <3>1
      <3>2. CASE i \in DOMAIN below /\ s[i] = below[i]
        <4> DEFINE m == stack[i].mod
        <4>1. m \in 1 .. k /\ place[m] = s[i].path /\ s[i].mod = m
          BY <1>3, <3>2 DEF PlacedOk
        <4> HIDE DEF m
        <4>2. place2[m] = s[i].path /\ m \in 1 .. Len(mods')
          <5>1. Len(mods') \in Nat
            BY <1>8 DEF IsTree
          <5> QED BY <1>4, <1>8, <4>1, <5>1
        <4> QED BY <4>1, <4>2
      <3> QED BY <1>7, <3>1, <3>2
    <2>2. PlacedOk(mods', stack', place2)
      BY <2>1 DEF PlacedOk, s
    <2> QED BY <1>1, <1>8, <2>2 DEF TreeOk
  <1>12. BuiltOk'
    <2>1. VisitBuilt(prog, mods', roots, v)
      <3>1. Follow(mods', roots, p) = Walk(p)
        BY <1>2, <1>10 DEF Walk
      <3>2. CASE known = None
        <4>1. Len(p) = 1 => Walk(p) = None
          BY <1>2, <3>2
        <4>2. id # Walk(p)
          BY <1>4, <3>2 DEF None
        <4>3. \A x \in Name : mods'[id].subs[x] = None
          BY <1>8, <3>2, NewOk
        <4> QED BY <1>5, <3>1, <4>1, <4>2, <4>3 DEF VisitBuilt
      <3>3. CASE known # None
        <4>1. id = Walk(p) /\ Len(p) = 1
          BY <1>6, <3>3
        <4> QED BY <1>5, <3>1, <4>1 DEF VisitBuilt
      <3> QED BY <3>2, <3>3
    <2>2. ASSUME NEW i \in DOMAIN below PROVE VisitBuilt(prog, mods', roots, below[i])
      <3> DEFINE f == stack[i]
                 g == below[i]
      <3>1. /\ VisitBuilt(prog, mods, roots, f) /\ g.path = f.path /\ g.mod = f.mod /\ g.funs = f.funs
            /\ f.mod \in 1 .. k /\ f.path \in Paths
        <4>1. f.path \in Path
          BY DEF IInv, IsStack, IsVisit
        <4> QED BY <1>3, <4>1, PathsOf DEF FoundOk, BuiltOk, PlacedOk
      <3> HIDE DEF f, g
      <3>2. mods'[f.mod] = mods[f.mod] /\ Follow(mods', roots, f.path) = Follow(mods, roots, f.path)
        BY <1>8, <1>10, <3>1
      <3>3. VisitBuilt(prog, mods', roots, g)
        BY <3>1, <3>2 DEF VisitBuilt
      <3> QED BY <3>3 DEF g
    <2>3. ASSUME NEW i \in DOMAIN s PROVE VisitBuilt(prog, mods', roots, s[i])
      BY <1>7, <2>1, <2>2
    <2> QED BY <1>1, <2>3 DEF BuiltOk, s
  <1>13. CacheOk'
    <2>1. /\ cache \in [Path -> Nat] /\ cache' \in [Path -> Nat]
          /\ \A q \in Path : cache'[q] = IF q = p /\ known # None /\ cache[p] = None
                                         THEN Walk(p) ELSE cache[q]
      <3>1. cache \in [Path -> Nat]
        BY DEF FoundOk, CacheOk
      <3>2. CASE known # None /\ cache[p] = None
        <4>1. cache' = [cache EXCEPT ![p] = Walk(p)]
          BY <1>1, <1>6, <3>2
        <4> QED BY <1>4, <3>1, <3>2, <4>1
      <3>3. CASE ~ (known # None /\ cache[p] = None)
        BY <1>1, <3>1, <3>3
      <3> QED BY <3>2, <3>3
    <2>2. ASSUME NEW q \in Path PROVE CachedOk(q)'
      <3>1. /\ CachedOk(q) /\ q \in Paths /\ Walk(q)' = Walk(q)
            /\ ReachedFrom(prog, prog.local)' = ReachedFrom(prog, prog.local)
        BY <1>1, <1>9, PathsOf DEF FoundOk, CacheOk
      <3>2. IsMarked(marked, q) => IsMarked(marked', q)
        BY <1>1 DEF IsMarked
      <3>3. CASE q = p /\ known # None /\ cache[p] = None
        <4>1. Len(q) = 1 /\ cache'[q] = Walk(q)
          BY <1>6, <2>1, <3>3
        <4> QED BY <3>1, <4>1 DEF CachedOk
      <3>4. CASE ~ (q = p /\ known # None /\ cache[p] = None)
        <4>1. cache'[q] = cache[q]
          BY <2>1, <3>4
        <4>2. ASSUME cache[q] # None, Len(q) > 1, q \notin done
              PROVE  q # p /\ \A i \in DOMAIN s : s[i].path # q
          <5>1. /\ phase = "validating" /\ \A i \in DOMAIN stack : stack[i].path # q
                /\ IsMarked(marked, q) \/ q \notin ReachedFrom(prog, prog.local)
            BY <3>1, <4>2 DEF CachedOk
          <5>2. q # p
            <6> SUFFICES ASSUME q = p PROVE FALSE
              OBVIOUS
            <6>1. IsMarked(marked, p)
              BY <5>1
            <6>2. PICK e : <<e, p>> \in marked
              BY <6>1 DEF IsMarked
            <6>3. e \in prog.where[p]
              BY <6>2 DEF FilesOk, MarksOk
            <6>4. e = d
              BY <1>2, <6>3 DEF OneFile
            <6> QED BY <6>2, <6>4
          <5>3. ASSUME NEW i \in DOMAIN s PROVE s[i].path # q
            BY <1>5, <1>7, <5>1, <5>2
          <5> QED BY <5>2, <5>3
        <4> QED BY <1>1, <3>1, <3>2, <4>1, <4>2 DEF CachedOk, s
      <3> QED BY <3>3, <3>4
    <2> QED BY <2>1, <2>2 DEF CacheOk
  <1> QED BY <1>9, <1>11, <1>12, <1>13 DEF FoundOk

\* The module at the top takes its place.
LEMMA FoundEnd ==
    ASSUME OneFile, IInv, FilesOk, FoundOk, IsSettled(prog), EndModule
    PROVE  FoundOk'
  <1> DEFINE n == Len(stack)
             p == stack[n].path
             m == stack[n].mod
  <1>1. /\ stack # <<>> /\ stack' = Front(stack) /\ done' = done \cup {p}
        /\ Top.funs = {} /\ Top = stack[n]
        /\ Ends(mods, roots, p, m, mods', roots')
        /\ phase' = IF n = 1 THEN "validating" ELSE phase
        /\ UNCHANGED <<prog, marked, cache>>
    BY DEF EndModule, Visiting, Active, Top, Last, Ends
  <1>2. /\ IsStack(stack) /\ n \in Nat \ {0} /\ n \in DOMAIN stack
        /\ DOMAIN stack = 1 .. n /\ DOMAIN stack' = 1 .. n - 1
        /\ \A i \in 1 .. n - 1 : stack'[i] = stack[i] /\ i \in DOMAIN stack /\ i < n
    <2>1. IsStack(stack)
      BY DEF IInv
    <2>2. /\ IsStack(stack') /\ n \in Nat \ {0} /\ Len(stack') = n - 1
          /\ DOMAIN stack = 1 .. n
          /\ \A i \in 1 .. n - 1 : stack'[i] = stack[i]
      BY <1>1, <2>1, FrontStack, StackLen
    <2>3. DOMAIN stack' = 1 .. n - 1
      BY <2>2, StackLen
    <2> QED BY <2>1, <2>2, <2>3
  <1>3. /\ p \in Path /\ p \in Paths /\ p[1] \in Name
        /\ Len(p) \in Nat \ {0} /\ p \notin done /\ prog \in Program
        /\ \A i \in DOMAIN stack : stack[i].path \in Path /\ stack[i].path \in Paths
        /\ \A i \in 1 .. n - 1 : stack[i].path # p
    <2>1. \A i \in DOMAIN stack : stack[i].path \in Path /\ stack[i].path \in Paths
      BY <1>2, PathsOf DEF IsStack, IsVisit
    <2>2. \A i \in DOMAIN stack : stack[i].path = p => i = n
      BY <1>2 DEF IInv, VisitedOnce
    <2> QED BY <1>2, <2>1, <2>2, PathParts DEF IInv, VisitedOnce
  <1>4. PICK place : IsTree(prog, mods, roots, place) /\ PlacedOk(mods, stack, place)
    BY DEF FoundOk, TreeOk
  <1>5. /\ m \in 1 .. Len(mods) /\ place[m] = p /\ m # None /\ Len(mods) \in Nat
        /\ Len(p) = 1 => Follow(mods, roots, p) \in {None, m}
        /\ Len(p) = 1 => roots[p[1]] \in {None, m}
        /\ Len(p) > 1 => Follow(mods, roots, p) # m
        /\ Follow(mods, roots, p) # m => \A x \in Name : mods[m].subs[x] = None
        /\ {p} \X prog.funs[p] \subseteq mods[m].funs
    <2>1. VisitBuilt(prog, mods, roots, stack[n])
      BY <1>2 DEF FoundOk, BuiltOk
    <2>2. m \in 1 .. Len(mods) /\ place[m] = p
      BY <1>2, <1>4 DEF PlacedOk
    <2>3. Len(p) = 1 => Follow(mods, roots, p) = roots[p[1]]
      BY <1>3, WalkOne DEF Walk
    <2>4. m # None /\ Len(mods) \in Nat
      BY <1>4, <2>2 DEF None, IsTree
    <2>5. stack[n].funs = {}
      BY <1>1
    <2> QED BY <2>1, <2>2, <2>3, <2>4, <2>5 DEF VisitBuilt
  <1>6. NamesDiffer(prog) /\ ImportsNoneBelow(prog)
    BY DEF IsSettled
  <1> HIDE DEF p, m, n
  <1>7. PICK place2 : /\ IsTree(prog, mods', roots', place2)
                      /\ Attached(mods, roots, place, mods', roots', place2, p, m)
    <2>1. \A h2, t2 : Ends(mods, roots, p, m, h2, t2) =>
             \E pl : /\ IsTree(prog, h2, t2, pl)
                     /\ Attached(mods, roots, place, h2, t2, pl, p, m)
      BY <1>3, <1>4, <1>5, <1>6, EndAttached
    <2> QED BY <1>1, <2>1
  <1>8. /\ Len(mods) <= Len(mods') /\ Len(mods') \in Nat
        /\ \A i \in 1 .. Len(mods) : place2[i] = place[i] /\ mods[i].funs \subseteq mods'[i].funs
        /\ \A i \in 1 .. Len(mods) :
              i # m /\ Follow(mods, roots, place[i]) # i => mods'[i] = mods[i]
        /\ Follow(mods', roots', p) = m
        /\ \A r \in Paths : r # p /\ Follow(mods, roots, r) # None =>
              Follow(mods', roots', r) = Follow(mods, roots, r)
        /\ \A r \in Paths : r # p /\ Follow(mods, roots, r) = None /\ Follow(mods', roots', r) # None =>
              IsBelow(p, r) /\ Follow(mods', roots', r) > Len(mods)
    BY <1>7 DEF Attached, IsTree
  <1>9. /\ \A r : Walk(r)' = Follow(mods', roots', r)
        /\ \A r : Walk(r) = Follow(mods, roots, r)
    BY DEF Walk
  <1>10. TreeOk'
    <2>1. ASSUME NEW i \in DOMAIN stack'
          PROVE  stack'[i].mod \in 1 .. Len(mods') /\ place2[stack'[i].mod] = stack'[i].path
      <3> DEFINE f == stack[i]
      <3>1. stack'[i] = f /\ f.mod \in 1 .. Len(mods) /\ place[f.mod] = f.path
        BY <1>2, <1>4 DEF PlacedOk
      <3> HIDE DEF f
      <3>2. place2[f.mod] = f.path /\ f.mod \in 1 .. Len(mods')
        BY <1>5, <1>8, <3>1
      <3> QED BY <3>1, <3>2
    <2>2. PlacedOk(mods', stack', place2)
      BY <2>1 DEF PlacedOk
    <2> QED BY <1>1, <1>7, <2>2 DEF TreeOk
  <1>11. BuiltOk'
    <2>1. ASSUME NEW i \in 1 .. n - 1, NEW f, f = stack[i]
          PROVE  VisitBuilt(prog, mods', roots', f)
      <3>1. /\ VisitBuilt(prog, mods, roots, f) /\ f.path # p /\ f.path \in Path /\ f.path \in Paths
            /\ f.mod \in 1 .. Len(mods) /\ place[f.mod] = f.path
        BY <1>2, <1>3, <1>4, <2>1 DEF FoundOk, BuiltOk, PlacedOk
      <3>2. f.mod # m /\ f.mod # None /\ f.mod <= Len(mods)
        BY <1>5, <3>1 DEF None
      <3>3. Len(f.path) = 1 => Follow(mods', roots', f.path) \in {None, f.mod}
        <4> SUFFICES ASSUME Len(f.path) = 1, Follow(mods', roots', f.path) # None
                     PROVE  Follow(mods', roots', f.path) = f.mod
          OBVIOUS
        <4>1. CASE Follow(mods, roots, f.path) # None
          BY <1>8, <3>1, <4>1 DEF VisitBuilt
        <4>2. CASE Follow(mods, roots, f.path) = None
          <5>1. IsBelow(p, f.path)
            BY <1>8, <3>1, <4>2
          <5>2. p \in ReachedFrom(prog, Imported(prog, f.path))
            BY <1>2, <2>1 DEF FilesOk, ChainOk, p
          <5> QED BY <1>3, <1>6, <3>1, <5>1, <5>2 DEF ImportsNoneBelow
        <4> QED BY <4>1, <4>2
      <3>4. Len(f.path) > 1 => Follow(mods', roots', f.path) # f.mod
        <4> SUFFICES ASSUME Len(f.path) > 1 PROVE Follow(mods', roots', f.path) # f.mod
          OBVIOUS
        <4>1. CASE Follow(mods, roots, f.path) # None
          BY <1>8, <3>1, <4>1 DEF VisitBuilt
        <4>2. CASE Follow(mods, roots, f.path) = None
          <5>1. Follow(mods', roots', f.path) = None \/ Follow(mods', roots', f.path) > Len(mods)
            BY <1>8, <3>1, <4>2
          <5>2. ~ (f.mod > Len(mods))
            BY <1>5, <3>1
          <5> QED BY <3>2, <5>1, <5>2
        <4> QED BY <4>1, <4>2
      <3>5. Follow(mods', roots', f.path) # f.mod => \A x \in Name : mods'[f.mod].subs[x] = None
        <4> SUFFICES ASSUME Follow(mods', roots', f.path) # f.mod
                     PROVE  \A x \in Name : mods'[f.mod].subs[x] = None
          OBVIOUS
        <4>1. Follow(mods, roots, f.path) # f.mod
          BY <1>8, <3>1, <3>2
        <4>2. mods'[f.mod] = mods[f.mod]
          BY <1>8, <3>1, <3>2, <4>1
        <4> QED BY <3>1, <4>1, <4>2 DEF VisitBuilt
      <3>6. {f.path} \X (prog.funs[f.path] \ f.funs) \subseteq mods'[f.mod].funs
        BY <1>8, <3>1 DEF VisitBuilt
      <3> QED BY <3>1, <3>3, <3>4, <3>5, <3>6 DEF VisitBuilt
    <2>2. ASSUME NEW i \in DOMAIN stack' PROVE VisitBuilt(prog, mods', roots', stack'[i])
      BY <1>2, <2>1
    <2> QED BY <1>1, <2>2 DEF BuiltOk
  <1>12. DoneFound'
    <2>1. ASSUME NEW q \in done'
          PROVE  /\ Follow(mods', roots', q) # None
                 /\ {q} \X prog.funs[q] \subseteq mods'[Follow(mods', roots', q)].funs
      <3>1. CASE q = p
        BY <1>5, <1>8, <3>1
      <3>2. CASE q # p
        <4> DEFINE a == Follow(mods, roots, q)
        <4>1. q \in done /\ q \in Paths
          BY <1>1, <3>2, PathsOf DEF IInv
        <4>2. a # None /\ {q} \X prog.funs[q] \subseteq mods[a].funs
          BY <1>9, <4>1 DEF FoundOk, DoneFound
        <4>3. a \in 1 .. Len(mods) /\ Follow(mods', roots', q) = a
          BY <1>4, <1>8, <3>2, <4>1, <4>2, FollowIn
        <4> HIDE DEF a
        <4> QED BY <1>8, <4>2, <4>3
      <3> QED BY <3>1, <3>2
    <2> QED BY <1>1, <1>9, <2>1 DEF DoneFound
  <1>13. FoundDone'
    <2>1. ASSUME NEW r \in Paths, Follow(mods', roots', r) # None
          PROVE  \E q \in done' : q = r \/ IsBelow(q, r)
      <3>1. CASE r = p
        BY <1>1, <3>1
      <3>2. CASE r # p /\ Follow(mods, roots, r) = None
        BY <1>1, <1>8, <2>1, <3>2
      <3>3. CASE Follow(mods, roots, r) # None
        <4>1. \E q \in done : q = r \/ IsBelow(q, r)
          BY <1>9, <3>3 DEF FoundOk, FoundDone
        <4> QED BY <1>1, <4>1
      <3> QED BY <3>1, <3>2, <3>3
    <2> QED BY <1>9, <2>1 DEF FoundDone
  <1>14. CacheOk'
    <2>1. ASSUME NEW q \in Path PROVE CachedOk(q)'
      <3>1. CachedOk(q) /\ q \in Paths
        BY PathsOf DEF FoundOk, CacheOk
      <3>2. ReachedFrom(prog, prog.local)' = ReachedFrom(prog, prog.local)
        BY <1>1
      <3>3. CASE q = p
        <4>1. cache[q] # None => Len(q) = 1 /\ cache[q] = m
          <5> SUFFICES ASSUME cache[q] # None PROVE Len(q) = 1 /\ cache[q] = m
            OBVIOUS
          <5>1. ~ \A i \in DOMAIN stack : stack[i].path # q
            BY <1>2, <3>3 DEF p
          <5>2. Len(q) = 1
            <6> DEFINE l == Len(q)
            <6>1. l \in Nat \ {0} /\ q \notin done
              BY <1>3, <3>3
            <6>2. ~ (l > 1)
              BY <3>1, <5>1, <6>1 DEF CachedOk
            <6> HIDE DEF l
            <6>3. l = 1
              BY <6>1, <6>2
            <6> QED BY <6>3 DEF l
          <5>3. cache[q] = Follow(mods, roots, q)
            BY <1>9, <3>1, <5>2 DEF CachedOk
          <5> QED BY <1>5, <3>3, <5>2, <5>3
        <4>2. Walk(q)' = m
          BY <1>8, <1>9, <3>3
        <4>3. cache'[q] = cache[q]
          BY <1>1
        <4>4. cache[q] # None => ~ (Len(q) > 1)
          <5>1. ASSUME NEW l, l = 1 PROVE ~ (l > 1)
            BY <5>1
          <5> QED BY <4>1, <5>1
        <4> QED BY <4>1, <4>2, <4>3, <4>4 DEF CachedOk
      <3>4. CASE q # p
        <4>1. cache[q] # None /\ cache[q] = Walk(q) => Walk(q)' = Walk(q)
          BY <1>8, <1>9, <3>1, <3>4
        <4>2. q \in done' <=> q \in done
          BY <1>1, <3>4
        <4>3. phase = "validating" => phase' = "validating"
          BY <1>1
        <4>4. (\A i \in DOMAIN stack : stack[i].path # q) => \A i \in DOMAIN stack' : stack'[i].path # q
          BY <1>2
        <4>5. cache'[q] = cache[q] /\ (IsMarked(marked, q) => IsMarked(marked', q))
          BY <1>1
        <4> QED BY <1>1, <3>1, <3>2, <4>1, <4>2, <4>3, <4>4, <4>5 DEF CachedOk
      <3> QED BY <3>3, <3>4
    <2>2. cache' \in [Path -> Nat]
      BY <1>1 DEF FoundOk, CacheOk
    <2> QED BY <2>1, <2>2 DEF CacheOk
  <1> QED BY <1>10, <1>11, <1>12, <1>13, <1>14 DEF FoundOk

\* The visits keep their modules, and what is left of their functions.
LEMMA AfterBuilds ==
    ASSUME IsStack(stack), stack # <<>>, NEW x,
           NEW s, s \in {AfterCore(x), AfterImport(x)}
    PROVE  \A i \in DOMAIN s : /\ i \in DOMAIN stack /\ s[i].path = stack[i].path
                               /\ s[i].mod = stack[i].mod /\ s[i].funs = stack[i].funs
  <1> DEFINE n == Len(stack)
  <1>1. /\ n \in Nat \ {0} /\ DOMAIN stack = 1 .. n /\ Top = stack[n] /\ DOMAIN s = 1 .. n
        /\ \A i \in 1 .. n - 1 : s[i] = stack[i]
        /\ s[n].path = Top.path /\ s[n].mod = Top.mod /\ s[n].funs = Top.funs
    <2>1. CASE s = AfterCore(x)
      BY <2>1, AfterParts
    <2>2. CASE s = AfterImport(x)
      BY <2>2, AfterParts
    <2> QED BY <2>1, <2>2
  <1>2. \A i \in DOMAIN s : i = n \/ i \in 1 .. n - 1
    BY <1>1
  <1> QED BY <1>1, <1>2

LEMMA NextFound ==
    ASSUME OneFile, \A pr \in Program : IsSettled(pr), IInv, FilesOk, FoundOk, [Next]_vars
    PROVE  FoundOk'
  <1>0. IsSettled(prog) /\ IsStack(stack)
    BY DEF IInv
  <1>1. ASSUME NEW p \in Path, ImportCore(p) PROVE FoundOk'
    <2>1. stack # <<>> /\ p \in Top.core /\ IsStack(AfterCore(p))
      BY <1>0, <1>1, AfterStack DEF ImportCore, Active
    <2>2. \A i \in DOMAIN AfterCore(p) :
             /\ i \in DOMAIN stack /\ AfterCore(p)[i].path = stack[i].path
             /\ AfterCore(p)[i].mod = stack[i].mod /\ AfterCore(p)[i].funs = stack[i].funs
      BY <1>0, <2>1, AfterBuilds
    <2>3. CASE <<CoreDir, p>> \in marked
      BY <1>1, <2>2, <2>3, FoundKept DEF ImportCore, tree
    <2>4. CASE <<CoreDir, p>> \notin marked
      <3>1. Enter(CoreDir, p, AfterCore(p))
        BY <1>1, <2>4 DEF ImportCore
      <3>2. CoreDir \in prog.where[p]
        <4>1. p \in Core
          BY <1>0, <2>1, AfterParts
        <4> QED BY <4>1, ProgramAssumption DEF IInv
      <3>3. phase = "validating" => p \in ReachedFrom(prog, prog.local)
        BY <2>1, TopImports
      <3> QED BY <2>1, <2>2, <2>4, <3>1, <3>2, <3>3, FoundEntered
    <2> QED BY <2>3, <2>4
  <1>2. ASSUME NEW p \in Path, ImportKnown(p) PROVE FoundOk'
    <2>1. stack # <<>> /\ stack' = AfterImport(p) /\ UNCHANGED <<prog, phase, marked, tree, done>>
      BY <1>2 DEF ImportKnown, Visiting, Active
    <2>2. \A i \in DOMAIN stack' :
             /\ i \in DOMAIN stack /\ stack'[i].path = stack[i].path
             /\ stack'[i].mod = stack[i].mod /\ stack'[i].funs = stack[i].funs
      BY <1>0, <2>1, AfterBuilds
    <2> QED BY <2>1, <2>2, FoundKept DEF tree
  <1>3. ASSUME NEW p \in Path, ImportFile(p) PROVE FoundOk'
    <2>1. PICK d \in FileOf(p) : Enter(d, p, AfterImport(p))
      BY <1>3 DEF ImportFile
    <2>2. stack # <<>> /\ p \in Top.imports /\ IsStack(AfterImport(p))
      BY <1>0, <1>3, AfterStack DEF ImportFile, Visiting, Active
    <2>3. \A i \in DOMAIN AfterImport(p) :
             /\ i \in DOMAIN stack /\ AfterImport(p)[i].path = stack[i].path
             /\ AfterImport(p)[i].mod = stack[i].mod /\ AfterImport(p)[i].funs = stack[i].funs
      BY <1>0, <2>2, AfterBuilds
    <2>4. d \in prog.where[p] /\ <<d, p>> \notin marked
      BY FileUnmarked
    <2>5. phase = "validating" => p \in ReachedFrom(prog, prog.local)
      BY <2>2, TopImports
    <2> QED BY <2>1, <2>2, <2>3, <2>4, <2>5, FoundEntered
  <1>4. ASSUME NEW p \in Path, LocalImport(p) PROVE FoundOk'
    <2>1. PICK d \in FileOf(p) : Enter(d, p, <<>>)
      BY <1>4 DEF LocalImport
    <2>2. IsStack(<<>>) /\ DOMAIN <<>> = {}
      BY DEF IsStack
    <2>3. d \in prog.where[p] /\ <<d, p>> \notin marked
      BY FileUnmarked
    <2>4. p \in ReachedFrom(prog, prog.local)
      BY <1>4, ReachedParts, ProgramAssumption DEF IInv, LocalImport
    <2>5. \A i \in DOMAIN <<>> : /\ i \in DOMAIN stack /\ <<>>[i].path = stack[i].path
                                 /\ <<>>[i].mod = stack[i].mod
                                 /\ <<>>[i].funs = stack[i].funs
      BY <2>2
    <2> QED BY <2>1, <2>2, <2>3, <2>4, <2>5, FoundEntered
  <1>5. ASSUME Throw PROVE FoundOk'
    <2>1. DOMAIN stack' = {} /\ UNCHANGED <<prog, marked, tree, done>>
          /\ (phase = "validating" => phase' = "validating")
      BY <1>5 DEF Throw
    <2> QED BY <2>1, FoundKept DEF tree
  <1>6. ASSUME UNCHANGED vars PROVE FoundOk'
    BY <1>6, FoundKept DEF vars, tree
  <1>7. ASSUME NEW p \in Path, Lookup(p) PROVE FoundOk'
    BY <1>0, <1>7, FoundLookup
  <1> QED BY <1>0, <1>1, <1>2, <1>3, <1>4, <1>5, <1>6, <1>7, FoundDeclare, FoundEnd
          DEF Next, Import, ImportMissing, Fault

\* The lookup of a module that is done finds it, in the cache or in the tree.
LEMMA FoundAnswers == ASSUME IInv, FoundOk PROVE LookupAnswers
  <1>1. ASSUME NEW p \in done PROVE Answers(p)
    <2>1. Walk(p) # None /\ {p} \X prog.funs[p] \subseteq mods[Walk(p)].funs
      BY DEF FoundOk, DoneFound
    <2>2. p \in Path
      BY DEF IInv
    <2>3. cache[p] # None => cache[p] = Walk(p)
      BY <2>2 DEF FoundOk, CacheOk, CachedOk
    <2> QED BY <2>1, <2>3 DEF Answers, GetModuleByPath
  <1> QED BY <1>1 DEF LookupAnswers

\* The inductive invariant: the visits, the files and the tree with its cache.
AllOk == IInv /\ FilesOk /\ FoundOk

\* getModuleByPath finds every module whose file was visited, with all the
\* functions that visitFunction gave it, in the cache as in the tree: while other
\* files are visited, after any import inside of a block and any earlier lookup.
THEOREM LookupsAnswer ==
    ASSUME OneFile, \A pr \in Program : IsSettled(pr)
    PROVE  Spec => []LookupAnswers
  <1>1. Init => AllOk
    BY InitIInv, InitFiles, InitFound DEF AllOk
  <1>2. AllOk /\ [Next]_vars => AllOk'
    BY NextIInv, NextFiles, NextFound DEF AllOk
  <1>3. AllOk => LookupAnswers
    BY FoundAnswers DEF AllOk
  <1> QED BY <1>1, <1>2, <1>3, PTL DEF Spec

-----------------------------------------------------------------------------
(* The registry of modules.                                                 *)

LEMMA NeededSame == Registry!Needed = Needed(prog)
    BY DEF Registry!Needed, Needed, ReachedFrom

\* A module whose file is missing has none.
LEMMA MissingNone ==
    ASSUME OneFile, prog \in Program, NEW p \in Path, Missing(p)
    PROVE  prog.where[p] = {}
  <1>1. prog.where[p] \subseteq Dir /\ Dir \subseteq Nat /\ 0 \in Dir
    BY ProgramAssumption, IncludeAssumption DEF ProgramType, Dir
  <1>2. FileOf(p) = {} /\ \A d \in Dir : <<d, p>> \notin marked
    BY DEF Missing
  <1>3. 0 \notin prog.where[p]
    BY <1>1, <1>2 DEF FileOf
  <1>4. Unread(p) = prog.where[p]
    BY <1>1, <1>2, <1>3 DEF Unread
  <1>5. {d \in prog.where[p] : \A e \in prog.where[p] : d <= e} = {}
    BY <1>1, <1>2, <1>3, <1>4 DEF FileOf
  <1>6. ASSUME NEW d \in prog.where[p], NEW e \in prog.where[p] PROVE d <= e
    <2>1. d = e
      BY DEF OneFile
    <2>2. d \in Nat
      BY <1>1
    <2>3. d <= d
      BY <2>2
    <2> QED BY <2>1, <2>3
  <1> QED BY <1>5, <1>6

LEMMA RegistryStep ==
    ASSUME OneFile, AllOk, AllOk', LookupAnswers, LookupAnswers', [Next]_vars
    PROVE  [Registry!Next]_(Registry!vars)
  <1> DEFINE F == {p \in done : Answers(p)}
  <1>1. F = done /\ F' = done'
    BY DEF LookupAnswers
  <1>2. IInv /\ FilesOk /\ FilesOk' /\ prog \in Program /\ IsStack(stack)
    BY DEF AllOk, IInv
  <1>3. ASSUME UNCHANGED <<prog, phase, done>> PROVE [Registry!Next]_(Registry!vars)
    <2>1. F' = F
      BY <1>1, <1>3
    <2> QED BY <1>3, <2>1 DEF Registry!vars
  <1>4. ASSUME Throw, phase = "declaring", NEW p \in Needed(prog),
               prog.where[p] = {} \/ p \in prog.faulty
        PROVE  Registry!Next
    <2>1. /\ phase' = "failed" /\ prog' = prog /\ F' = F
      BY <1>1, <1>4 DEF Throw
    <2>2. p \in Path
      BY <1>4 DEF Needed, ReachedFrom
    <2>3. Registry!Needed \cap Registry!Broken # {}
      BY <1>4, <2>2, NeededSame DEF Registry!Broken
    <2>4. Registry!Refuse
      BY <1>4, <2>1, <2>3 DEF Registry!Refuse
    <2> QED BY <2>4 DEF Registry!Next
  <1>5. ASSUME Throw, phase # "declaring" PROVE [Registry!Next]_(Registry!vars)
    BY <1>3, <1>5 DEF Throw
  <1>6. ASSUME NEW p \in Path, ImportMissing(p) PROVE [Registry!Next]_(Registry!vars)
    <2>1. Throw /\ stack # <<>> /\ p \in Top.imports /\ Missing(p)
      BY <1>6 DEF ImportMissing, Visiting, Active
    <2>2. CASE phase = "declaring"
      <3>1. p \in Needed(prog)
        BY <1>2, <2>1, <2>2, TopImports
      <3>2. prog.where[p] = {}
        BY <1>2, <2>1, MissingNone
      <3> QED BY <1>4, <2>1, <2>2, <3>1, <3>2
    <2> QED BY <1>5, <2>1, <2>2
  <1>7. ASSUME Fault PROVE [Registry!Next]_(Registry!vars)
    <2>1. Throw /\ stack # <<>> /\ Top.path \in prog.faulty
      BY <1>7 DEF Fault, Visiting, Active
    <2>2. CASE phase = "declaring"
      <3>1. Len(stack) \in DOMAIN stack /\ Top = stack[Len(stack)]
        BY <1>2, <2>1, AfterParts
      <3>2. Top.path \in Needed(prog)
        BY <1>2, <2>2, <3>1 DEF FilesOk, DeclaringOk
      <3> QED BY <1>4, <2>1, <2>2, <3>2
    <2> QED BY <1>5, <2>1, <2>2
  <1>8. ASSUME EndModule PROVE Registry!Next
    <2> DEFINE n == Len(stack)
               q == Top.path
    <2>1. /\ stack # <<>> /\ done' = done \cup {q} /\ prog' = prog
          /\ phase' = IF n = 1 THEN "validating" ELSE phase
      BY <1>8 DEF EndModule, Visiting, Active
    <2>2. n \in DOMAIN stack /\ Top = stack[n] /\ q \in Path
      BY <1>2, <2>1, AfterParts
    <2>3. phase = "declaring" => q \in Needed(prog) /\ done \subseteq Needed(prog)
      BY <1>2, <2>2 DEF FilesOk, DeclaringOk
    <2>4. phase \in {"declaring", "validating"}
      BY <1>2, <2>1 DEF FilesOk, FailedOk
    <2>5. CASE phase = "declaring" /\ n = 1
      <3>1. phase' = "validating" /\ Needed(prog)' = Needed(prog)
        BY <2>1, <2>5 DEF Needed
      <3>2. done' = Needed(prog)
        <4>1. Needed(prog)' \subseteq done'
          BY <1>2, <3>1 DEF FilesOk, ValidatingOk
        <4> QED BY <2>1, <2>3, <2>5, <3>1, <4>1
      <3>3. Registry!Needed \cap Registry!Broken = {}
        <4>1. ASSUME NEW r \in done' PROVE prog.where[r] # {} /\ r \notin prog.faulty
          <5>1. DoneOk' /\ MarksOk'
            BY <1>2 DEF FilesOk
          <5>2. r \notin prog'.faulty /\ \E d : <<d, r>> \in marked'
            BY <5>1 DEF DoneOk, IsMarked
          <5>3. \E d : d \in prog'.where[r]
            BY <5>1, <5>2 DEF MarksOk
          <5> QED BY <2>1, <5>2, <5>3
        <4> QED BY <3>2, <4>1, NeededSame DEF Registry!Broken
      <3>4. Registry!Accept
        BY <1>1, <2>1, <2>5, <3>1, <3>2, <3>3, NeededSame DEF Registry!Accept
      <3> QED BY <3>4 DEF Registry!Next
    <2>6. CASE ~ (phase = "declaring" /\ n = 1)
      <3>1. phase' = phase
        BY <2>1, <2>4, <2>6
      <3>2. F' = F \cup {q}
        BY <1>1, <2>1
      <3>3. Registry!Declare(q)
        BY <2>1, <2>3, <3>1, <3>2, NeededSame DEF Registry!Declare
      <3> QED BY <2>2, <3>3 DEF Registry!Next
    <2> QED BY <2>5, <2>6
  <1>9. ASSUME \E p \in Path : \/ ImportCore(p) \/ ImportKnown(p) \/ ImportFile(p)
                               \/ Lookup(p) \/ LocalImport(p)
        PROVE  UNCHANGED <<prog, phase, done>>
    BY <1>9 DEF ImportCore, ImportKnown, ImportFile, Lookup, LocalImport, Enter
  <1>10. ASSUME \E n \in Name : DeclareFunction(n) PROVE UNCHANGED <<prog, phase, done>>
    BY <1>10 DEF DeclareFunction
  <1>11. ASSUME UNCHANGED vars PROVE UNCHANGED <<prog, phase, done>>
    BY <1>11 DEF vars
  <1> QED BY <1>3, <1>6, <1>7, <1>8, <1>9, <1>10, <1>11 DEF Next, Import

\* visitImport, visitModule and the lookups implement the registry of modules: each
\* step declares a module, accepts the program with exactly the modules that it
\* needs, refuses it for a module that is missing or erroneous, or changes nothing
\* that a lookup tells.
THEOREM RegistryImplemented ==
    ASSUME OneFile, \A pr \in Program : IsSettled(pr)
    PROVE  Spec => RegistrySpec
  <1>1. Init => AllOk
    BY InitIInv, InitFiles, InitFound DEF AllOk
  <1>2. AllOk /\ [Next]_vars => AllOk'
    BY NextIInv, NextFiles, NextFound DEF AllOk
  <1>3. AllOk => LookupAnswers
    BY FoundAnswers DEF AllOk
  <1>4. Init => Registry!Init
    BY DEF Init, Registry!Init
  <1>5. AllOk /\ AllOk' /\ LookupAnswers /\ LookupAnswers' /\ [Next]_vars
        => [Registry!Next]_(Registry!vars)
    BY RegistryStep
  <1> QED BY <1>1, <1>2, <1>3, <1>4, <1>5, PTL DEF Spec, RegistrySpec, Registry!Spec
=============================================================================
