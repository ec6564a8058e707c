------------------------ MODULE ClassEmission_proofs ------------------------
(***************************************************************************)
(* What TLAPS proves about the classes ClassValidation hands over to the   *)
(* generation phase, for every set of classes and every program: which     *)
(* ones they are, each one once, and, when no caller has dropped an error, *)
(* that each of them is complete and valid, with the methods and fields of *)
(* its lineage.                                                            *)
(***************************************************************************)
EXTENDS ClassValidation_proofs

-----------------------------------------------------------------------------
(* The queue of the generation phase.  A class goes from toValidate to      *)
(* queue to list: their concatenation is only changed by the insertion of a *)
(* class whose content has just been validated.                             *)

Line == list \o queue \o toValidate

LEMMA LineType == TypeOK => Line \in Seq(Class)
BY ConcatProperties DEF TypeOK, Line

LEMMA LineEmptied ==
    ASSUME NEW l \in Seq(Class), NEW q \in Seq(Class)
    PROVE  (l \o <<>>) \o q = (l \o q) \o <<>>
<1>1. <<>> \in Seq(Class) /\ l \o q \in Seq(Class)
  BY ConcatProperties
<1> QED
  BY <1>1, ConcatEmptySeq

LEMMA LineMoved ==
    ASSUME NEW l \in Seq(Class), NEW q \in Seq(Class), q # <<>>
    PROVE  Append(l, Head(q)) \o Tail(q) = l \o q
<1> DEFINE h == Head(q)
           t == Tail(q)
<1>1. h \in Class /\ t \in Seq(Class)
  BY HeadTailProperties
<1>2. Append(l, h) = l \o <<h>> /\ <<h>> \in Seq(Class)
  BY <1>1, AppendIsConcat
<1>3. (l \o <<h>>) \o t = l \o (<<h>> \o t)
  BY <1>1, <1>2, ConcatAssociative
<1>4. <<h>> \o t = q
  BY HeadTailProperties
<1> QED
  BY <1>2, <1>3, <1>4

LEMMA LineAppended ==
    ASSUME NEW l \in Seq(Class), NEW q \in Seq(Class), NEW v \in Seq(Class), NEW c \in Class
    PROVE  l \o q \o Append(v, c) = Append(l \o q \o v, c)
<1>1. l \o q \in Seq(Class) /\ <<c>> \in Seq(Class) /\ l \o q \o v \in Seq(Class)
  BY ConcatProperties
<1>2. Append(v, c) = v \o <<c>> /\ Append(l \o q \o v, c) = (l \o q \o v) \o <<c>>
  BY <1>1, AppendIsConcat
<1>3. ((l \o q) \o v) \o <<c>> = (l \o q) \o (v \o <<c>>)
  BY <1>1, ConcatAssociative
<1> QED
  BY <1>2, <1>3

LEMMA LineDriven ==
    ASSUME TypeOK, compile = "module" => queue = <<>>, Drive, compile' # "halted"
    PROVE  Line' = Line
<1>1. CASE EndModule
  <2>1. CASE errors
    BY <1>1, <2>1 DEF EndModule, Line
  <2>2. CASE ~errors
    <3>1. queue = <<>> /\ list' = list /\ queue' = toValidate /\ toValidate' = <<>>
      BY <1>1, <2>2 DEF EndModule
    <3>2. list \in Seq(Class) /\ toValidate \in Seq(Class)
      BY DEF TypeOK
    <3> QED
      BY <3>1, <3>2, LineEmptied DEF Line
  <2> QED
    BY <2>1, <2>2
<1>2. CASE EndClasses
  <2>1. CASE UNCHANGED <<list, queue, toValidate>>
    BY <2>1 DEF Line
  <2>2. CASE ~UNCHANGED <<list, queue, toValidate>>
    <3>1. queue = <<>> /\ list' = list /\ queue' = toValidate /\ toValidate' = <<>>
      BY <1>2, <2>2 DEF EndClasses
    <3>2. list \in Seq(Class) /\ toValidate \in Seq(Class)
      BY DEF TypeOK
    <3> QED
      BY <3>1, <3>2, LineEmptied DEF Line
  <2> QED
    BY <2>1, <2>2
<1>3. CASE ValidateClassFull
  <2>1. queue # <<>> /\ list' = Append(list, Head(queue)) /\ queue' = Tail(queue)
        /\ toValidate' = toValidate
    BY <1>3 DEF ValidateClassFull, visitor
  <2>2. list \in Seq(Class) /\ queue \in Seq(Class)
    BY DEF TypeOK
  <2>3. list' \o queue' = list \o queue
    BY <2>1, <2>2, LineMoved
  <2> QED
    BY <2>1, <2>3 DEF Line
<1>4. CASE ValidateModuleClass \/ UseClass \/ RootReturned
  BY <1>4 DEF ValidateModuleClass, UseClass, RootReturned, Line
<1> QED
  BY <1>1, <1>2, <1>3, <1>4 DEF Drive

-----------------------------------------------------------------------------
(* The calls that validate a content for the queue: one that has to insert   *)
(* its class there if nothing fails, with its place in the stack.            *)

Building(f) == f.inModule /\ ~f.isPost /\ Rebuilding(f)
Built(s)    == {<<i, s[i].cls>> : i \in {k \in DOMAIN s : Building(s[k])}}

LEMMA BuiltReplaced ==
    ASSUME NEW s \in Seq(Frame), s # <<>>, NEW f \in Frame, f.cls = s[Len(s)].cls,
           Building(f) => Building(s[Len(s)])
    PROVE  Built([s EXCEPT ![Len(s)] = f]) =
               IF Building(f) THEN Built(s) ELSE Built(s) \ {<<Len(s), f.cls>>}
<1> DEFINE t == [s EXCEPT ![Len(s)] = f]
           n == Len(s)
<1>1. t \in Seq(Frame) /\ Len(t) = n /\ t[n] = f /\ \A i \in 1 .. n - 1 : t[i] = s[i]
  BY ReplaceTop
<1>2. n \in Nat \ {0} /\ DOMAIN s = 1 .. n
  BY SeqLen
<1>3. f.cls = s[n].cls /\ (Building(f) => Building(s[n]))
  OBVIOUS
<1> HIDE DEF t, n
<1>4. DOMAIN t = 1 .. n
  BY <1>1, SeqLen
<1>5. \A i \in 1 .. n : i = n \/ (i \in 1 .. n - 1 /\ i # n)
  BY <1>2
<1>6. \A i \in 1 .. n : t[i].cls = s[i].cls
  BY <1>1, <1>3, <1>5
<1>7. \A i \in 1 .. n : Building(t[i]) <=> Building(s[i]) /\ (i = n => Building(f))
  BY <1>1, <1>3, <1>5
<1>8. n \in 1 .. n
  BY <1>2
<1>9. Built(t) = {<<i, s[i].cls>> : i \in {k \in 1 .. n : Building(s[k]) /\ (k = n => Building(f))}}
  BY <1>4, <1>6, <1>7 DEF Built
<1>10. Built(s) = {<<i, s[i].cls>> : i \in {k \in 1 .. n : Building(s[k])}}
  BY <1>2 DEF Built
<1>11. Built(t) = IF Building(f) THEN Built(s) ELSE Built(s) \ {<<n, f.cls>>}
  BY <1>3, <1>9, <1>10
<1> QED
  BY <1>11 DEF t, n

LEMMA BuiltKept ==
    ASSUME NEW s \in Seq(Frame), s # <<>>, NEW f \in Frame, f.cls = s[Len(s)].cls,
           Building(f) <=> Building(s[Len(s)])
    PROVE  Built([s EXCEPT ![Len(s)] = f]) = Built(s)
<1> DEFINE b == <<Len(s), f.cls>>
<1>1. CASE Building(f)
  BY <1>1, BuiltReplaced
<1>2. CASE ~Building(f)
  <2>1. Built([s EXCEPT ![Len(s)] = f]) = Built(s) \ {b}
    BY <1>2, BuiltReplaced
  <2>2. b \notin Built(s)
    BY <1>2 DEF Built
  <2> HIDE DEF b
  <2> QED
    BY <2>1, <2>2
<1> QED
  BY <1>1, <1>2

LEMMA BuiltPushed ==
    ASSUME NEW s \in Seq(Frame), NEW f \in Frame
    PROVE  Built(Append(s, f)) =
               IF Building(f) THEN Built(s) \cup {<<Len(s) + 1, f.cls>>} ELSE Built(s)
<1> DEFINE t == Append(s, f)
           n == Len(s)
<1>1. t \in Seq(Frame) /\ Len(t) = n + 1 /\ t[n + 1] = f /\ \A i \in 1 .. n : t[i] = s[i]
  BY PushFrame
<1>2. n \in Nat /\ DOMAIN s = 1 .. n
  BY SeqLen
<1> HIDE DEF t, n
<1>3. DOMAIN t = 1 .. n + 1
  BY <1>1, SeqLen
<1>4. {k \in 1 .. n + 1 : Building(t[k])} =
        {k \in 1 .. n : Building(s[k])} \cup {k \in {n + 1} : Building(f)}
  BY <1>1, <1>2
<1>5. Built(t) = {<<i, t[i].cls>> : i \in {k \in 1 .. n : Building(s[k])} \cup {k \in {n + 1} : Building(f)}}
  BY <1>3, <1>4 DEF Built
<1>6. Built(s) = {<<i, t[i].cls>> : i \in {k \in 1 .. n : Building(s[k])}}
  BY <1>1, <1>2 DEF Built
<1>7. Built(t) = IF Building(f) THEN Built(s) \cup {<<n + 1, f.cls>>} ELSE Built(s)
  BY <1>1, <1>5, <1>6
<1> QED
  BY <1>7 DEF t, n

LEMMA BuiltDropped ==
    ASSUME NEW s \in Seq(Frame), s # <<>>
    PROVE  Built(SubSeq(s, 1, Len(s) - 1)) = Built(s) \ {<<Len(s), s[Len(s)].cls>>}
<1> DEFINE t == SubSeq(s, 1, Len(s) - 1)
           n == Len(s)
<1>1. t \in Seq(Frame) /\ Len(t) = n - 1 /\ \A i \in 1 .. n - 1 : t[i] = s[i]
  BY DropTop
<1>2. n \in Nat \ {0} /\ DOMAIN s = 1 .. n
  BY SeqLen
<1> HIDE DEF t, n
<1>3. DOMAIN t = 1 .. n - 1
  BY <1>1, SeqLen
<1>4. {k \in 1 .. n - 1 : Building(t[k])} = {k \in 1 .. n : Building(s[k])} \ {n}
  BY <1>1, <1>2
<1>5. Built(t) = {<<i, s[i].cls>> : i \in {k \in 1 .. n : Building(s[k])} \ {n}}
  <2>1. Built(t) = {<<i, t[i].cls>> : i \in {k \in 1 .. n - 1 : Building(t[k])}}
    BY <1>3 DEF Built
  <2>2. \A i \in {k \in 1 .. n - 1 : Building(t[k])} : t[i].cls = s[i].cls
    BY <1>1
  <2> QED
    BY <1>4, <2>1, <2>2
<1>6. Built(s) = {<<i, s[i].cls>> : i \in {k \in 1 .. n : Building(s[k])}}
  BY <1>2 DEF Built
<1>7. Built(t) = Built(s) \ {<<n, s[n].cls>>}
  BY <1>5, <1>6
<1> QED
  BY <1>7 DEF t, n

\* What a step of the visitor does to these calls and to toValidate: the
\* topmost call goes on; its content ends, valid, and its class is inserted; it
\* makes a call, which has to insert its class when that is a new solution; or
\* it returns, with an error if it has not inserted its class.
Keeps ==
    /\ UNCHANGED <<toValidate, solution>>
    /\ \E f \in Frame : SetTop(f) /\ f.cls = Top.cls /\ (Building(f) <=> Building(Top))

Inserts ==
    /\ UNCHANGED solution
    /\ toValidate' = WithToValidate(Top.cls)
    /\ \E f \in Frame :
          SetTop(f) /\ f.cls = Top.cls /\ ~Building(f) /\ (Building(Top) <=> Top.inModule)

Calls ==
    /\ UNCHANGED toValidate
    /\ \E f \in Frame, callee \in Frame :
          /\ Invoke(f, callee) /\ f.cls = Top.cls /\ (Building(f) <=> Building(Top))
          /\ IF Building(callee)
             THEN callee.cls \in New /\ solution' = Registered(callee.cls)
             ELSE UNCHANGED solution

Leaves ==
    /\ UNCHANGED toValidate
    /\ \E r : Return(r) /\ (Building(Top) => r = "throw")

LEMMA ReferCalls ==
    ASSUME UNCHANGED toValidate, NEW f \in Frame, NEW c \in Class, Refer(f, c),
           f.cls = Top.cls, Building(f) <=> Building(Top)
    PROVE  Keeps \/ Calls
<1>1. CASE solution[c] = "failed"
  BY <1>1 DEF Refer, SetTop, Keeps
<1>2. CASE solution[c] # "failed"
  <2> DEFINE callee == ValidateCall(c, c \in New)
  <2>1. (c \in New) \in BOOLEAN
    OBVIOUS
  <2>2. callee \in Frame
    BY <2>1, ValidateCallType
  <2>3. callee.cls = c /\ ~callee.isPost /\ callee.inModule = (c \in New)
        /\ callee.pc = IF gen[c].kind = "empty" \/ c \in New THEN "ancestor" ELSE "finish"
    BY DEF ValidateCall, NewFrame
  <2>4. Invoke(f, callee) /\ solution' = Registered(c)
    BY <1>2 DEF Refer
  <2> HIDE DEF callee
  <2>5. Building(callee) <=> c \in New
    BY <2>3 DEF Building, Rebuilding
  <2>6. c \notin New => UNCHANGED solution
    BY <2>4 DEF Registered
  <2> QED
    BY <2>2, <2>3, <2>4, <2>5, <2>6 DEF Calls
<1> QED
  BY <1>1, <1>2

LEMMA VisitFrames ==
    ASSUME TypeOK, Visit
    PROVE  Keeps \/ Inserts \/ Calls \/ Leaves
<1>0. stack # <<>>
  BY VisitActive
<1>1. Top \in Frame /\ Top.cls \in Class
  BY <1>0, TopType DEF TypeOK, Frame
<1>2. CASE ResolveAncestor
  <2>0. Top.pc = "ancestor" /\ UNCHANGED toValidate
    BY <1>2 DEF ResolveAncestor, At
  <2>1. CASE Ancestor(Top.cls) = NoClass
    <3> DEFINE f == [Top EXCEPT !.pc = "begin"]
    <3>1. f \in Frame /\ f.cls = Top.cls /\ f.pc = "begin" /\ f.isPost = Top.isPost
          /\ f.inModule = Top.inModule
      BY <1>1 DEF Frame, Pcs
    <3>2. SetTop(f)
      BY <1>2, <2>1 DEF ResolveAncestor
    <3> HIDE DEF f
    <3> QED
      BY <2>0, <3>1, <3>2 DEF Keeps, SetTop, Building, Rebuilding
  <2>2. CASE Ancestor(Top.cls) # NoClass
    <3> DEFINE f == [Top EXCEPT !.pc = "inherit"]
    <3>1. f \in Frame /\ f.cls = Top.cls /\ f.pc = "inherit" /\ f.isPost = Top.isPost
          /\ f.inModule = Top.inModule
      BY <1>1 DEF Frame, Pcs
    <3>2. Refer(f, Ancestor(Top.cls))
      BY <1>2, <2>2 DEF ResolveAncestor
    <3>3. Ancestor(Top.cls) \in Class
      BY <1>1, <2>2 DEF Ancestor, TypeOK, ProgramType, Declarations
    <3> HIDE DEF f
    <3> QED
      BY <2>0, <3>1, <3>2, <3>3, ReferCalls DEF Building, Rebuilding
  <2> QED
    BY <2>1, <2>2
<1>3. CASE AncestorResolved
  <2>0. Top.pc = "inherit" /\ UNCHANGED toValidate
    BY <1>3 DEF AncestorResolved, At
  <2>1. CASE AncestorAccepted
    <3> DEFINE f == [Top EXCEPT !.pc = "begin"]
    <3>1. f \in Frame /\ f.cls = Top.cls /\ f.pc = "begin" /\ f.isPost = Top.isPost
          /\ f.inModule = Top.inModule
      BY <1>1 DEF Frame, Pcs
    <3>2. SetTop(f)
      BY <1>3, <2>1 DEF AncestorResolved
    <3> HIDE DEF f
    <3> QED
      BY <2>0, <3>1, <3>2 DEF Keeps, SetTop, Building, Rebuilding
  <2>2. CASE ~AncestorAccepted /\ Top.isPost
    <3> DEFINE f == [Top EXCEPT !.pc = "end", !.errs = TRUE]
    <3>1. f \in Frame /\ f.cls = Top.cls /\ f.isPost = Top.isPost
      BY <1>1 DEF Frame, Pcs
    <3>2. SetTop(f)
      BY <1>3, <2>2 DEF AncestorResolved
    <3> HIDE DEF f
    <3> QED
      BY <2>0, <2>2, <3>1, <3>2 DEF Keeps, SetTop, Building
  <2>3. CASE ~AncestorAccepted /\ ~Top.isPost
    BY <1>3, <2>0, <2>3 DEF AncestorResolved, Leaves
  <2> QED
    BY <2>1, <2>2, <2>3
<1>4. CASE BeginContent \/ BeginPost
  <2>0. Top.pc = "begin" /\ UNCHANGED toValidate /\ validation' = Append(validation, Top.cls)
    BY <1>4 DEF BeginContent, BeginPost, At
  <2>1. CASE SetTop([Top EXCEPT !.pc = "vtable", !.todo = MethodMentions(Top.cls),
                                !.base = VtableOf(Top.cls), !.level = Len(validation')])
    <3> DEFINE f == [Top EXCEPT !.pc = "vtable", !.todo = MethodMentions(Top.cls),
                                !.base = VtableOf(Top.cls), !.level = Len(validation')]
    <3>1. Len(validation') \in Nat
      <4>1. validation' \in Seq(Class)
        BY <1>1, <2>0, PushFrame DEF TypeOK
      <4> QED
        BY <4>1, SeqLen
    <3>2. f \in Frame /\ f.cls = Top.cls /\ f.pc = "vtable" /\ f.isPost = Top.isPost
          /\ f.inModule = Top.inModule
      BY <1>0, <1>1, <3>1, TodoType, VtableOfType DEF Frame, Pcs
    <3>3. SetTop(f)
      BY <2>1 DEF f
    <3> HIDE DEF f
    <3> QED
      BY <2>0, <3>2, <3>3 DEF Keeps, SetTop, Building, Rebuilding
  <2>2. CASE Top.isPost /\ SetTop([Top EXCEPT !.pc = "end", !.errs = TRUE])
    <3> DEFINE f == [Top EXCEPT !.pc = "end", !.errs = TRUE]
    <3>1. f \in Frame /\ f.cls = Top.cls /\ f.isPost = Top.isPost
      BY <1>1 DEF Frame, Pcs
    <3>2. SetTop(f)
      BY <2>2
    <3> HIDE DEF f
    <3> QED
      BY <2>0, <2>2, <3>1, <3>2 DEF Keeps, SetTop, Building
  <2>3. CASE Return("throw")
    BY <2>0, <2>3 DEF Leaves
  <2> QED
    BY <1>4, <2>1, <2>2, <2>3 DEF BeginContent, BeginPost
<1>5. CASE ReferClass
  <2>1. PICK d \in Top.todo : Refer([Top EXCEPT !.todo = @ \ {d}], d)
    BY <1>5 DEF ReferClass
  <2> DEFINE f == [Top EXCEPT !.todo = @ \ {d}]
  <2>2. d \in Class /\ f \in Frame /\ f.cls = Top.cls /\ f.pc = Top.pc
        /\ f.isPost = Top.isPost /\ f.inModule = Top.inModule
    BY <1>1 DEF Frame
  <2>3. UNCHANGED toValidate /\ Refer(f, d)
    BY <1>5, <2>1 DEF ReferClass
  <2> HIDE DEF f
  <2> QED
    BY <2>2, <2>3, ReferCalls DEF Building, Rebuilding
<1>6. CASE ReferenceResolved
  <2>1. PICK f \in {[Top EXCEPT !.vtErr = @ \/ (ret = "throw")],
                    [Top EXCEPT !.errs = @ \/ (ret = "throw")]} : SetTop(f)
    BY <1>6 DEF ReferenceResolved
  <2>2. f \in Frame /\ f.cls = Top.cls /\ f.pc = Top.pc
        /\ f.isPost = Top.isPost /\ f.inModule = Top.inModule
    BY <1>1, <2>1 DEF Frame
  <2>3. UNCHANGED toValidate
    BY <1>6 DEF ReferenceResolved
  <2> QED
    BY <2>1, <2>2, <2>3 DEF Keeps, SetTop, Building, Rebuilding
<1>7. CASE EndVtable
  <2> DEFINE f == [Top EXCEPT !.pc = "fields", !.errs = @ \/ VtableFailed(Top),
                              !.todo = prog.fieldTypes[Top.cls]]
  <2>0. Top.pc = "vtable" /\ SetTop(f) /\ UNCHANGED toValidate
    BY <1>7 DEF EndVtable, At
  <2>1. VtableFailed(Top) \in BOOLEAN
    BY <1>1 DEF VtableFailed, Frame
  <2>2. f \in Frame /\ f.cls = Top.cls /\ f.pc = "fields"
        /\ f.isPost = Top.isPost /\ f.inModule = Top.inModule
    BY <1>1, <2>1, TodoType DEF Frame, Pcs
  <2> HIDE DEF f
  <2> QED
    BY <2>0, <2>2 DEF Keeps, SetTop, Building, Rebuilding
<1>8. CASE EndContent
  <2> DEFINE f == [Top EXCEPT !.pc = "finish"]
  <2>1. f \in Frame /\ f.cls = Top.cls /\ f.pc = "finish"
    BY <1>1 DEF Frame, Pcs
  <2>2. CASE Top.errs \/ FieldsCollide(Top.cls)
    BY <1>8, <2>2 DEF EndContent, ThrowErrors, Leaves
  <2>3. CASE ~(Top.errs \/ FieldsCollide(Top.cls))
    <3>1. /\ SetTop(f) /\ toValidate' = WithToValidate(Top.cls)
          /\ Top.pc = "fields" /\ ~Top.isPost
      BY <1>8, <2>3 DEF EndContent, At
    <3> HIDE DEF f
    <3>2. ~Building(f)
      BY <2>1 DEF Building, Rebuilding
    <3>3. Building(Top) <=> Top.inModule
      BY <3>1 DEF Building, Rebuilding
    <3> QED
      BY <2>1, <3>1, <3>2, <3>3 DEF Inserts, SetTop
  <2> QED
    BY <2>2, <2>3
<1>9. CASE FinishClass \/ PostDone
  <2> DEFINE f == [Top EXCEPT !.pc = "postAll", !.aux = post]
  <2>0. Top.pc \in {"finish", "postAll"} /\ UNCHANGED toValidate
    BY <1>9 DEF FinishClass, PostDone, At
  <2>1. f \in Frame /\ f.cls = Top.cls /\ f.pc = "postAll"
    BY <1>1 DEF Frame, Pcs, TypeOK
  <2>2. SetTop(f) \/ Return("ok")
    BY <1>9 DEF FinishClass, PostDone, TakePost
  <2> HIDE DEF f
  <2>3. ~Building(f) /\ ~Building(Top)
    BY <2>0, <2>1 DEF Building, Rebuilding
  <2> QED
    BY <2>0, <2>1, <2>2, <2>3 DEF Keeps, Leaves, SetTop
<1>10. CASE FinishInvalid \/ PostAbandoned \/ EndPost
  <2>1. Top.pc \in {"finish", "postAll", "end"} /\ UNCHANGED toValidate
    BY <1>10 DEF FinishInvalid, PostAbandoned, EndPost, At
  <2>2. \E r : Return(r)
    BY <1>10 DEF FinishInvalid, PostAbandoned, EndPost, ThrowErrors
  <2>3. ~Building(Top)
    BY <2>1 DEF Building, Rebuilding
  <2> QED
    BY <2>1, <2>2, <2>3 DEF Leaves
<1>11. CASE PostNext
  <2> DEFINE f == [Top EXCEPT !.aux = Tail(@)]
             callee == NewFrame(Head(Top.aux), FALSE, TRUE, "ancestor")
  <2>0. Top.aux # <<>> /\ UNCHANGED <<toValidate, solution>> /\ Invoke(f, callee)
    BY <1>11 DEF PostNext
  <2>1. Top.aux \in Seq(Class)
    BY <1>1 DEF Frame
  <2>2. Head(Top.aux) \in Class /\ Tail(Top.aux) \in Seq(Class)
    BY <2>0, <2>1
  <2>3. f \in Frame /\ f.cls = Top.cls /\ f.pc = Top.pc
        /\ f.isPost = Top.isPost /\ f.inModule = Top.inModule
    BY <1>1, <2>2 DEF Frame
  <2>4. callee \in Frame /\ callee.isPost
    BY <2>2, NewFrameType DEF NewFrame, Pcs
  <2> HIDE DEF f, callee
  <2> QED
    BY <2>0, <2>3, <2>4 DEF Calls, Building, Rebuilding
<1>12. CASE EndPostVtable
  <2> DEFINE f == [Top EXCEPT !.pc = "end", !.errs = VtableFailed(Top)]
  <2>0. Top.isPost /\ SetTop(f) /\ UNCHANGED toValidate
    BY <1>12 DEF EndPostVtable
  <2>1. VtableFailed(Top) \in BOOLEAN
    BY <1>1 DEF VtableFailed, Frame
  <2>2. f \in Frame /\ f.cls = Top.cls /\ f.isPost = Top.isPost
    BY <1>1, <2>1 DEF Frame, Pcs
  <2> HIDE DEF f
  <2> QED
    BY <2>0, <2>2 DEF Keeps, SetTop, Building
<1> QED
  BY <1>2, <1>3, <1>4, <1>5, <1>6, <1>7, <1>8, <1>9, <1>10, <1>11, <1>12 DEF Visit

-----------------------------------------------------------------------------
(* Each class once.  The classes taken in charge, those the module has given *)
(* to the visitor and the solutions a use needed, are in the queue of the    *)
(* generation phase or being built by one call.  What is due in it can also  *)
(* have failed just now, in a call whose error is going to be recorded.      *)

Taken == (prog.module \ work) \cup {c \in Class : solution[c] # "none"}
Due   == (prog.module \ work) \cup RegisteredClasses

Injective(s) == \A i, j \in DOMAIN s : s[i] = s[j] => i = j

OnlySolutions == \A c \in Class : solution[c] # "none" => c \in prog.instances

InLine == Injective(Line) /\ Elements(Line) \subseteq Taken

\* A class of the module is only built by the root call, which is not
\* speculative.
InCalls ==
    \A b \in Built(stack) :
        /\ b[2] \in Taken \ Elements(Line)
        /\ \A a \in Built(stack) : a[2] = b[2] => a = b
        /\ b[2] \in prog.module => b[1] = 1 /\ mode = "strict"

NoneLost ==
    ~errors => \A c \in Due :
        \/ c \in Elements(Line)
        \/ \E b \in Built(stack) : b[2] = c
        \/ stack = <<>> /\ ret = "throw" /\ mode = "strict" /\ c \in prog.module

Phases ==
    /\ compile = "module" => queue = <<>>
    /\ compile \in {"classes", "done"} => work = {}
    /\ compile = "done" => Idle /\ ~errors /\ queue = <<>> /\ toValidate = <<>>

OnceInv == OnlySolutions /\ InLine /\ InCalls /\ NoneLost /\ Phases

LEMMA ElementsOfAppend ==
    ASSUME NEW S, NEW s \in Seq(S), NEW c \in S
    PROVE  Elements(Append(s, c)) = Elements(s) \cup {c}
<1> DEFINE t == Append(s, c)
           n == Len(s)
<1>1. Len(t) = n + 1 /\ t[n + 1] = c /\ t \in Seq(S) /\ \A i \in 1 .. n : t[i] = s[i]
  BY PushFrame
<1>2. n \in Nat /\ DOMAIN s = 1 .. n
  BY SeqLen
<1> HIDE DEF t, n
<1>3. DOMAIN t = 1 .. n + 1
  BY <1>1, SeqLen
<1>4. \A i \in 1 .. n + 1 : (i = n + 1) \/ (i \in 1 .. n)
  BY <1>2
<1>5. n + 1 \in 1 .. n + 1 /\ 1 .. n \subseteq 1 .. n + 1
  BY <1>2
<1>6. Elements(t) = Elements(s) \cup {c}
  BY <1>1, <1>2, <1>3, <1>4, <1>5 DEF Elements
<1> QED
  BY <1>6 DEF t

LEMMA InjectiveAppend ==
    ASSUME NEW S, NEW s \in Seq(S), NEW c \in S, Injective(s), c \notin Elements(s)
    PROVE  Injective(Append(s, c))
<1> DEFINE t == Append(s, c)
           n == Len(s)
<1>1. Len(t) = n + 1 /\ t[n + 1] = c /\ t \in Seq(S) /\ \A i \in 1 .. n : t[i] = s[i]
  BY PushFrame
<1>2. n \in Nat /\ DOMAIN s = 1 .. n
  BY SeqLen
<1> HIDE DEF t, n
<1>3. DOMAIN t = 1 .. n + 1
  BY <1>1, SeqLen
<1>4. \A i \in 1 .. n + 1 : (i = n + 1) \/ (i \in 1 .. n)
  BY <1>2
<1>5. \A i \in 1 .. n : t[i] # c
  BY <1>1, <1>2 DEF Elements
<1>6. Injective(t)
  BY <1>1, <1>2, <1>3, <1>4, <1>5 DEF Injective
<1> QED
  BY <1>6 DEF t

LEMMA BuiltOfNone == Built(<<>>) = {}
BY DEF Built

\* What every step of the visitor leaves alone.
Beside == UNCHANGED <<prog, list, work, queue, mode, uses, errors, dropped>>

LEMMA VisitBeside ==
    ASSUME Visit
    PROVE  Beside /\ Running /\ compile' \in {compile, "halted"}
BY DEF Visit, ResolveAncestor, AncestorResolved, BeginContent, ReferClass,
       ReferenceResolved, EndVtable, EndContent, FinishClass, FinishInvalid,
       PostNext, PostDone, PostAbandoned, BeginPost, EndPostVtable, EndPost,
       At, Active, driver, Beside

LEMMA PhasesKept ==
    ASSUME Beside, Running, UNCHANGED compile, Phases
    PROVE  Phases'
BY DEF Beside, Running, Phases

LEMMA LineKept ==
    ASSUME Beside, UNCHANGED toValidate
    PROVE  Line' = Line
BY DEF Beside, Line

LEMMA KeepsOnce ==
    ASSUME TypeOK, OnceInv, Beside, Running, UNCHANGED compile, stack # <<>>, Keeps
    PROVE  OnceInv'
<1>1. PICK f \in Frame : SetTop(f) /\ f.cls = Top.cls /\ (Building(f) <=> Building(Top))
  BY DEF Keeps
<1>2. stack' = [stack EXCEPT ![Len(stack)] = f] /\ Top = stack[Len(stack)]
  BY <1>1 DEF SetTop, Depth, Top
<1>3. Built(stack') = Built(stack)
  BY <1>1, <1>2, BuiltKept DEF TypeOK
<1>4. Line' = Line /\ Phases' /\ UNCHANGED <<prog, work, mode, errors, solution>>
  BY LineKept, PhasesKept DEF Keeps, OnceInv, Beside
<1> QED
  BY <1>3, <1>4 DEF OnceInv, OnlySolutions, InLine, InCalls, NoneLost, Taken, Due,
                    RegisteredClasses

LEMMA InsertsOnce ==
    ASSUME TypeOK, OnceInv, Beside, Running, UNCHANGED compile, stack # <<>>, Inserts
    PROVE  OnceInv'
<1> DEFINE b == <<Len(stack), Top.cls>>
<1>1. PICK f \in Frame : SetTop(f) /\ f.cls = Top.cls /\ ~Building(f)
  BY DEF Inserts
<1>2. stack' = [stack EXCEPT ![Len(stack)] = f] /\ Top = stack[Len(stack)] /\ Top \in Frame
  BY <1>1, TopType DEF SetTop, Depth, Top, TypeOK
<1>3. Built(stack') = Built(stack) \ {b}
  BY <1>1, <1>2, BuiltReplaced DEF TypeOK
<1>4. Phases' /\ UNCHANGED <<prog, list, queue, work, mode, errors, solution>>
  BY PhasesKept DEF Inserts, OnceInv, Beside
<1>5. CASE Building(Top)
  <2>1. Top.inModule /\ Top.cls \in Class /\ b \in Built(stack)
    <3>1. Len(stack) \in DOMAIN stack
      BY SeqLen DEF TypeOK
    <3> QED
      BY <1>2, <1>5, <3>1 DEF Building, Frame, Built
  <2>2. Line' = Append(Line, Top.cls)
    BY <1>4, <2>1, LineAppended DEF Inserts, WithToValidate, Line, TypeOK
  <2>3. b[2] \in Taken \ Elements(Line)
    BY <2>1 DEF OnceInv, InCalls
  <2>4. Injective(Line') /\ Elements(Line') = Elements(Line) \cup {Top.cls}
    BY <2>1, <2>2, <2>3, LineType, ElementsOfAppend, InjectiveAppend DEF OnceInv, InLine
  <2>5. \A a \in Built(stack) : a[2] = Top.cls => a = b
    BY <2>1 DEF OnceInv, InCalls
  <2> HIDE DEF b
  <2>6. Taken' = Taken /\ Due' = Due
    BY <1>4 DEF Taken, Due, RegisteredClasses
  <2>7. InLine'
    BY <2>3, <2>4, <2>6 DEF OnceInv, InLine, b
  <2>8. InCalls'
    BY <1>3, <1>4, <2>4, <2>5, <2>6 DEF OnceInv, InCalls
  <2>9. NoneLost'
    BY <1>3, <1>4, <2>4, <2>6 DEF OnceInv, NoneLost, b
  <2> QED
    BY <1>4, <2>7, <2>8, <2>9 DEF OnceInv, OnlySolutions
<1>6. CASE ~Building(Top)
  <2>1. ~Top.inModule
    BY <1>6 DEF Inserts
  <2>2. Line' = Line
    BY <1>4, <2>1 DEF Inserts, WithToValidate, Line
  <2>3. b \notin Built(stack)
    BY <1>2, <1>6 DEF Built
  <2>4. Built(stack') = Built(stack)
    BY <1>3, <2>3
  <2> HIDE DEF b
  <2> QED
    BY <1>4, <2>2, <2>4 DEF OnceInv, OnlySolutions, InLine, InCalls, NoneLost, Taken, Due,
                            RegisteredClasses
<1> QED
  BY <1>5, <1>6

\* A solution that no use has needed yet is nowhere.
LEMMA NewIsNowhere ==
    ASSUME TypeOK, OnceInv, NEW c \in New
    PROVE  /\ c \in Class /\ c \notin prog.module /\ c \notin Elements(Line)
           /\ \A b \in Built(stack) : b[2] # c
<1>1. c \in Class /\ c \in prog.instances /\ solution[c] = "none" /\ c \notin prog.module
  BY DEF New, TypeOK, ProgramType, Declarations
<1>2. c \notin Taken
  BY <1>1 DEF Taken
<1> QED
  BY <1>1, <1>2 DEF OnceInv, InLine, InCalls

\* It is registered, and built by a call on top of the others.
LEMMA RegistersOnce ==
    ASSUME TypeOK, OnceInv, NEW c \in New, solution' = Registered(c),
           Line' = Line, NEW n, Built(stack') = Built(stack) \cup {<<n, c>>},
           UNCHANGED <<prog, work, errors>>, UNCHANGED mode \/ Built(stack) = {},
           stack # <<>> \/ ret # "throw", Phases'
    PROVE  OnceInv'
<1>1. c \in Class /\ c \notin prog.module /\ c \notin Elements(Line)
      /\ (\A b \in Built(stack) : b[2] # c) /\ c \in prog.instances
  BY NewIsNowhere DEF New
<1>2. solution' = [solution EXCEPT ![c] = "registered"]
  BY DEF Registered
<1>3. \A d \in Class : solution'[d] = IF d = c THEN "registered" ELSE solution[d]
  BY <1>2 DEF TypeOK
<1>4. Taken' = Taken \cup {c} /\ Due' = Due \cup {c}
  BY <1>1, <1>3, NewIsNowhere DEF Taken, Due, RegisteredClasses, New
<1>5. OnlySolutions'
  BY <1>1, <1>3 DEF OnceInv, OnlySolutions
<1>6. InLine'
  BY <1>4 DEF OnceInv, InLine
<1>7. InCalls'
  BY <1>1, <1>4 DEF OnceInv, InCalls
<1>8. NoneLost'
  <2>1. <<n, c>> \in Built(stack') /\ <<n, c>>[2] = c
    OBVIOUS
  <2>2. ASSUME NEW b \in Built(stack) PROVE b \in Built(stack')
    OBVIOUS
  <2>3. SUFFICES ASSUME ~errors, NEW d \in Due, d # c
                 PROVE  d \in Elements(Line) \/ \E b \in Built(stack') : b[2] = d
    BY <1>4, <2>1 DEF NoneLost
  <2>4. d \in Elements(Line) \/ \E b \in Built(stack) : b[2] = d
    BY <2>3 DEF OnceInv, NoneLost
  <2> QED
    BY <2>2, <2>4
<1> QED
  BY <1>5, <1>6, <1>7, <1>8 DEF OnceInv

LEMMA CallsOnce ==
    ASSUME TypeOK, OnceInv, Beside, Running, UNCHANGED compile, stack # <<>>, Calls
    PROVE  OnceInv'
<1>1. PICK f \in Frame, callee \in Frame :
          /\ Invoke(f, callee) /\ f.cls = Top.cls /\ (Building(f) <=> Building(Top))
          /\ IF Building(callee)
             THEN callee.cls \in New /\ solution' = Registered(callee.cls)
             ELSE UNCHANGED solution
  BY DEF Calls
<1> DEFINE t == [stack EXCEPT ![Len(stack)] = f]
<1>2. t \in Seq(Frame) /\ stack' = Append(t, callee) /\ Top = stack[Len(stack)]
  BY <1>1, ReplaceTop DEF TypeOK, Invoke, Depth, Top
<1>3. Built(t) = Built(stack)
  BY <1>1, <1>2, BuiltKept DEF TypeOK
<1> HIDE DEF t
<1>4. Line' = Line /\ Phases' /\ UNCHANGED <<prog, work, mode, errors>>
  BY LineKept, PhasesKept DEF Calls, OnceInv, Beside
<1>5. CASE Building(callee)
  <2>1. Built(stack') = Built(stack) \cup {<<Len(t) + 1, callee.cls>>}
    BY <1>2, <1>3, <1>5, BuiltPushed
  <2> QED
    BY <1>1, <1>4, <1>5, <2>1, RegistersOnce
<1>6. CASE ~Building(callee)
  <2>1. Built(stack') = Built(stack)
    BY <1>2, <1>3, <1>6, BuiltPushed
  <2> QED
    BY <1>1, <1>4, <1>6, <2>1 DEF OnceInv, OnlySolutions, InLine, InCalls, NoneLost, Taken,
                                  Due, RegisteredClasses
<1> QED
  BY <1>5, <1>6

LEMMA LeavesOnce ==
    ASSUME TypeOK, OnceInv, Beside, Running, UNCHANGED compile, stack # <<>>, Leaves
    PROVE  OnceInv'
<1> DEFINE b == <<Len(stack), Top.cls>>
<1>1. PICK r : Return(r) /\ (Building(Top) => r = "throw")
  BY DEF Leaves
<1>2. stack' = SubSeq(stack, 1, Len(stack) - 1) /\ Top = stack[Len(stack)]
      /\ ret' = r /\ solution' = Filed(r)
  BY <1>1 DEF Return, Callers, Depth, Top
<1>3. Built(stack') = Built(stack) \ {b}
  BY <1>2, BuiltDropped DEF TypeOK
<1>4. Line' = Line /\ Phases' /\ UNCHANGED <<prog, work, mode, errors>>
  BY LineKept, PhasesKept DEF Leaves, OnceInv, Beside
<1>5. Top.cls \in Class /\ stack \in Seq(Frame)
  BY TopType DEF TypeOK, Frame
<1>6. \A d \in Class :
        \/ solution'[d] = solution[d]
        \/ d = Top.cls /\ d \in prog.instances /\ solution'[d] = "failed"
  BY <1>2, <1>5 DEF Filed, TypeOK
<1>7. Taken \subseteq Taken' /\ Due' \subseteq Due /\ OnlySolutions'
  BY <1>4, <1>6 DEF Taken, Due, RegisteredClasses, OnceInv, OnlySolutions
<1>8. InLine' /\ InCalls'
  BY <1>3, <1>4, <1>7 DEF OnceInv, InLine, InCalls
<1>9. ASSUME b \in Built(stack), Top.cls \in Due'
      PROVE  stack' = <<>> /\ ret' = "throw" /\ mode = "strict" /\ Top.cls \in prog.module
  <2>1. Building(Top)
    BY <1>2, <1>9 DEF Built
  <2>2. r = "throw" /\ Top.inModule
    BY <1>1, <2>1 DEF Building
  <2>3. Top.cls \notin prog.instances
    <3>1. SUFFICES ASSUME Top.cls \in prog.instances PROVE FALSE
      OBVIOUS
    <3>2. solution'[Top.cls] = "failed"
      BY <1>2, <1>5, <2>2, <3>1 DEF Filed, TypeOK
    <3> QED
      BY <1>4, <1>9, <3>1, <3>2 DEF Due, RegisteredClasses, TypeOK, ProgramType
  <2>4. Top.cls \in prog.module
    BY <1>7, <1>9, <2>3 DEF Due, RegisteredClasses, OnceInv, OnlySolutions
  <2>5. b[1] = 1 /\ mode = "strict"
    BY <1>9, <2>4 DEF OnceInv, InCalls
  <2>6. stack' = <<>>
    <3>1. Len(stack) = 1
      BY <2>5
    <3>2. stack' \in Seq(Frame) /\ Len(stack') = Len(stack) - 1
      BY <1>2, <1>5, DropTop
    <3> QED
      BY <3>1, <3>2
  <2> QED
    BY <1>2, <2>2, <2>4, <2>5, <2>6
<1>10. b[2] = Top.cls
  OBVIOUS
<1> HIDE DEF b
<1>11. NoneLost'
  <2>1. SUFFICES ASSUME ~errors, NEW c \in Due'
                 PROVE  \/ c \in Elements(Line)
                        \/ \E a \in Built(stack') : a[2] = c
                        \/ stack' = <<>> /\ ret' = "throw" /\ mode = "strict" /\ c \in prog.module
    BY <1>4 DEF NoneLost
  <2>2. c \in Elements(Line) \/ \E a \in Built(stack) : a[2] = c
    BY <1>7, <2>1 DEF OnceInv, NoneLost
  <2>3. CASE c \in Elements(Line)
    BY <2>3
  <2>4. ASSUME NEW a \in Built(stack), a[2] = c, a # b
        PROVE  \E d \in Built(stack') : d[2] = c
    BY <1>3, <2>4
  <2>5. CASE b \in Built(stack) /\ b[2] = c
    BY <1>9, <1>10, <2>5
  <2> QED
    BY <2>2, <2>3, <2>4, <2>5
<1> QED
  BY <1>4, <1>7, <1>8, <1>11 DEF OnceInv

LEMMA VisitOnce ==
    ASSUME TypeOK, OnceInv, Visit, compile' # "halted"
    PROVE  OnceInv'
<1>1. Beside /\ Running /\ UNCHANGED compile /\ stack # <<>>
  BY VisitBeside, VisitActive
<1> QED
  BY <1>1, VisitFrames, KeepsOnce, InsertsOnce, CallsOnce, LeavesOnce

LEMMA DriveOnce ==
    ASSUME TypeOK, OnceInv, Drive, compile' # "halted"
    PROVE  OnceInv'
<1>0. UNCHANGED prog /\ stack = <<>> /\ Built(stack) = {} /\ Line' = Line
  BY BuiltOfNone, LineDriven DEF Drive, ValidateModuleClass, UseClass, RootReturned, EndModule,
         ValidateClassFull, EndClasses, visitor, Idle, OnceInv, Phases
<1>1. CASE ValidateModuleClass
  <2>1. PICK c \in work : work' = work \ {c} /\ stack' = <<ValidateCall(c, TRUE)>>
    BY <1>1 DEF ValidateModuleClass
  <2> DEFINE callee == ValidateCall(c, TRUE)
  <2>2. /\ UNCHANGED <<queue, errors, solution, compile>> /\ mode' = "strict"
        /\ ret = "none" /\ compile = "module"
    BY <1>1 DEF ValidateModuleClass, Idle
  <2>3. c \in Class /\ c \in prog.module /\ c \notin prog.instances
    BY DEF TypeOK, ProgramType, Declarations
  <2>4. callee \in Frame /\ callee.cls = c /\ Building(callee)
    BY <2>3, ValidateCallType DEF ValidateCall, NewFrame, Building, Rebuilding
  <2> HIDE DEF callee
  <2>5. Built(stack') = {<<1, c>>}
    <3>1. stack' = Append(<<>>, callee) /\ <<>> \in Seq(Frame) /\ Len(<<>>) = 0
      BY <2>1 DEF callee
    <3>2. Built(stack') = Built(<<>>) \cup {<<Len(<<>>) + 1, callee.cls>>}
      BY <2>4, <3>1, BuiltPushed
    <3> QED
      BY <2>4, <3>1, <3>2, BuiltOfNone
  <2>6. solution[c] = "none"
    BY <2>3 DEF OnceInv, OnlySolutions, TypeOK
  <2>7. c \notin Taken /\ Taken' = Taken \cup {c} /\ Due' = Due \cup {c}
    BY <1>0, <2>1, <2>2, <2>3, <2>6 DEF Taken, Due, RegisteredClasses
  <2>8. OnlySolutions' /\ Phases'
    BY <1>0, <2>2 DEF OnceInv, OnlySolutions, Phases
  <2>9. InLine' /\ InCalls'
    BY <1>0, <2>2, <2>5, <2>7 DEF OnceInv, InLine, InCalls
  <2>10. NoneLost'
    BY <1>0, <2>2, <2>5, <2>7 DEF OnceInv, NoneLost
  <2> QED
    BY <2>8, <2>9, <2>10 DEF OnceInv
<1>2. CASE UseClass
  <2>0. UNCHANGED <<work, queue, errors, compile>> /\ ret = "none"
        /\ compile \in {"module", "classes"}
    BY <1>2 DEF UseClass, Idle, Running
  <2>1. Phases'
    BY <2>0 DEF OnceInv, Phases
  <2>2. PICK c \in Class :
            IF solution[c] = "failed"
            THEN ret' = "throw" /\ UNCHANGED <<stack, solution>>
            ELSE stack' = <<ValidateCall(c, c \in New)>> /\ solution' = Registered(c)
    BY <1>2 DEF UseClass
  <2>3. CASE UNCHANGED solution /\ Built(stack') = {}
    BY <1>0, <2>0, <2>1, <2>3 DEF OnceInv, OnlySolutions, InLine, InCalls, NoneLost, Taken, Due,
                            RegisteredClasses
  <2>4. CASE solution[c] # "failed"
    <3> DEFINE callee == ValidateCall(c, c \in New)
    <3>1. (c \in New) \in BOOLEAN
      OBVIOUS
    <3>2. callee \in Frame /\ callee.cls = c /\ (Building(callee) <=> c \in New)
      BY <3>1, ValidateCallType DEF ValidateCall, NewFrame, Building, Rebuilding
    <3>3. stack' = Append(<<>>, callee) /\ <<>> \in Seq(Frame) /\ solution' = Registered(c)
      BY <2>2, <2>4
    <3> HIDE DEF callee
    <3>4. CASE c \in New
      <4>1. Built(stack') = Built(stack) \cup {<<Len(<<>>) + 1, c>>}
        BY <1>0, <3>2, <3>3, <3>4, BuiltPushed, BuiltOfNone
      <4> QED
        BY <1>0, <2>0, <2>1, <3>3, <3>4, <4>1, RegistersOnce
    <3>5. CASE c \notin New
      <4>1. Built(stack') = {}
        BY <3>2, <3>3, <3>5, BuiltPushed, BuiltOfNone
      <4>2. UNCHANGED solution
        BY <3>3, <3>5 DEF Registered
      <4> QED
        BY <2>3, <4>1, <4>2
    <3> QED
      BY <3>4, <3>5
  <2>5. CASE solution[c] = "failed"
    BY <1>0, <2>2, <2>3, <2>5
  <2> QED
    BY <2>4, <2>5
<1>3. CASE RootReturned
  <2>1. UNCHANGED <<work, queue, mode, compile, solution, stack>> /\ compile # "done"
        /\ errors' = (errors \/ (ret = "throw" /\ mode = "strict"))
    BY <1>3 DEF RootReturned, Running
  <2>2. Phases'
    BY <2>1 DEF OnceInv, Phases
  <2>3. NoneLost'
    BY <1>0, <2>1 DEF OnceInv, NoneLost, Due, RegisteredClasses
  <2> QED
    BY <1>0, <2>1, <2>2, <2>3 DEF OnceInv, OnlySolutions, InLine, InCalls, Taken
<1>4. CASE EndModule \/ ValidateClassFull \/ EndClasses
  <2>1. UNCHANGED <<work, mode, solution, stack, ret, errors>>
    BY <1>4 DEF EndModule, ValidateClassFull, EndClasses, visitor
  <2>2. Phases'
    BY <1>4 DEF EndModule, ValidateClassFull, EndClasses, visitor, OnceInv, Phases, Idle
  <2> QED
    BY <1>0, <2>1, <2>2 DEF OnceInv, OnlySolutions, InLine, InCalls, NoneLost, Taken, Due,
                            RegisteredClasses
<1> QED
  BY <1>1, <1>2, <1>3, <1>4 DEF Drive

\* The invariant holds until an internal error ends the compilation.
StillOnce == compile # "halted" => OnceInv

LEMMA HaltedStays == compile = "halted" /\ [Next]_vars => compile' = "halted"
BY DEF Next, Visit, ResolveAncestor, AncestorResolved, BeginContent, ReferClass,
       ReferenceResolved, EndVtable, EndContent, FinishClass, FinishInvalid,
       PostNext, PostDone, PostAbandoned, BeginPost, EndPostVtable, EndPost, At, Active,
       Drive, ValidateModuleClass, UseClass, RootReturned, EndModule,
       ValidateClassFull, EndClasses, Running, vars

LEMMA OnceStep == TypeOK /\ StillOnce /\ [Next]_vars => StillOnce'
<1> SUFFICES ASSUME TypeOK, StillOnce, [Next]_vars, compile' # "halted"
             PROVE  OnceInv'
  BY DEF StillOnce
<1>1. compile # "halted" /\ OnceInv
  BY HaltedStays DEF StillOnce
<1>2. CASE UNCHANGED vars
  BY <1>1, <1>2 DEF vars, visitor, driver, OnceInv, OnlySolutions, InLine, InCalls, NoneLost,
                    Phases, Taken, Due, RegisteredClasses, Line, Idle
<1> QED
  BY <1>1, <1>2, VisitOnce, DriveOnce DEF Next

LEMMA OnceInit == Init => OnceInv
<1> SUFFICES ASSUME Init PROVE OnceInv
  OBVIOUS
<1>1. Line = <<>> /\ Built(stack) = {}
  BY BuiltOfNone DEF Init, Line
<1>2. RegisteredClasses = {} /\ prog.module \ work = {}
  BY DEF Init, RegisteredClasses
<1> QED
  BY <1>1, <1>2 DEF Init, OnceInv, OnlySolutions, InLine, InCalls, NoneLost, Phases, Injective,
                    Elements, Due

LEMMA OnceSuffices == TypeOK /\ OnceInv => EmittedOnce
<1> SUFFICES ASSUME TypeOK, OnceInv, compile = "done"
             PROVE  /\ prog.module \cup RegisteredClasses \subseteq Elements(list)
                    /\ Elements(list) \subseteq prog.module \cup {c \in Class : solution[c] # "none"}
                    /\ \A i, j \in DOMAIN list : list[i] = list[j] => i = j
  BY DEF EmittedOnce
<1>1. /\ work = {} /\ stack = <<>> /\ ret = "none" /\ ~errors
      /\ queue = <<>> /\ toValidate = <<>>
  BY DEF OnceInv, Phases, Idle
<1>2. Line = list
  <2>1. list \in Seq(Class)
    BY DEF TypeOK
  <2> QED
    BY <1>1, <2>1, ConcatEmptySeq DEF Line
<1>3. Built(stack) = {}
  BY <1>1, BuiltOfNone
<1> QED
  BY <1>1, <1>2, <1>3 DEF OnceInv, InLine, NoneLost, Injective, Taken, Due

\* The generation phase receives every class of the module and every solution
\* that a use needed, and each one once, whatever was thrown, retried or
\* dropped on the way, for any set of classes and any program.
THEOREM GeneratedOnce == Spec => []EmittedOnce
<1>1. StillOnce /\ TypeOK => EmittedOnce
  BY OnceSuffices DEF StillOnce, EmittedOnce
<1>2. Init => StillOnce
  BY OnceInit DEF StillOnce
<1> QED
  BY <1>1, <1>2, OnceStep, TypeCorrect, PTL DEF Spec

-----------------------------------------------------------------------------
(* Each class complete.  As long as no error is recorded, thrown or dropped, *)
(* a class with a Class generator is complete, or it awaits what it lacks:   *)
(* the end of its content, or its post validation, queued in __post_validation__, *)
(* in the local list of a postValidateAll, or begun.  The content that is    *)
(* not queued there is the outermost one: it is complete by itself.          *)

Complete(G, c) == G.asserted /\ c \in G.values

Covers(g, f, c) ==
    \/ f.pc = "postAll" /\ c \in Elements(f.aux)
    \/ /\ f.cls = c
       /\ \/ ~f.isPost /\ Pushed(f)
          \/ f.isPost /\ f.pc \in {"ancestor", "inherit", "begin"}
          \/ f.isPost /\ f.pc = "vtable" /\ g[c].asserted

Awaits(g, F, p, c) == c \in Elements(p) \/ \E f \in F : Covers(g, f, c)

Outermost(f) == ~f.isPost /\ Pushed(f) /\ f.level = 1

\* Of generators g, the frames F of a stack and the classes p still queued.
Whole(g, F, p) ==
    /\ \A c \in Class : g[c].kind = "class" => Complete(g[c], c) \/ Awaits(g, F, p, c)
    /\ \A f \in F : Outermost(f) =>
          g[f.cls].asserted /\ (f.pc = "fields" => f.cls \in g[f.cls].values)

Trouble ==
    errors \/ dropped \/ ret = "throw" \/ \E f \in Elements(stack) : Doomed(f)

WholeInv ==
    /\ \A c \in Class : gen[c].kind \in {"empty", "class"} /\ solution[c] # "failed"
    /\ \A c \in Elements(Line) : gen[c].kind = "class"
    /\ Whole(gen, Elements(stack), post)
    /\ stack = <<>> => post = <<>>
    /\ stack # <<>> => ~stack[1].isPost

\* The frames of the stack, before and after a step.
LEMMA FramesOf ==
    ASSUME TypeOK, stack # <<>>
    PROVE  /\ Elements(stack) = Elements(Callers) \cup {Top}
           /\ \A f \in Elements(stack) : f \in Frame /\ f.cls \in Class
<1> DEFINE n == Len(stack)
           t == SubSeq(stack, 1, n - 1)
<1>1. stack \in Seq(Frame) /\ n \in Nat \ {0} /\ DOMAIN stack = 1 .. n
  BY SeqLen DEF TypeOK
<1>2. t \in Seq(Frame) /\ Len(t) = n - 1 /\ \A i \in 1 .. n - 1 : t[i] = stack[i]
  BY <1>1, DropTop
<1>3. Callers = t /\ Top = stack[n]
  BY DEF Callers, Top, Depth
<1>4. \A i \in 1 .. n : stack[i] \in Frame
  BY <1>1, SeqElement
<1> HIDE DEF t, n
<1>5. DOMAIN t = 1 .. n - 1
  BY <1>2, SeqLen
<1>6. \A i \in 1 .. n : i = n \/ i \in 1 .. n - 1
  BY <1>1
<1>7. n \in 1 .. n /\ 1 .. n - 1 \subseteq 1 .. n
  BY <1>1
<1>8. Elements(stack) = Elements(t) \cup {stack[n]}
  BY <1>1, <1>2, <1>5, <1>6, <1>7 DEF Elements
<1>9. \A f \in Elements(stack) : f \in Frame /\ f.cls \in Class
  BY <1>1, <1>4 DEF Elements, Frame
<1> QED
  BY <1>3, <1>8, <1>9

LEMMA FramesReplaced ==
    ASSUME NEW s \in Seq(Frame), s # <<>>, NEW f \in Frame
    PROVE  LET t == [s EXCEPT ![Len(s)] = f]
           IN  /\ Elements(t) = Elements(SubSeq(s, 1, Len(s) - 1)) \cup {f}
               /\ t # <<>> /\ t \in Seq(Frame)
               /\ f.isPost = s[Len(s)].isPost => t[1].isPost = s[1].isPost
<1> DEFINE n == Len(s)
           t == [s EXCEPT ![n] = f]
           u == SubSeq(s, 1, n - 1)
<1>1. n \in Nat \ {0} /\ DOMAIN s = 1 .. n
  BY SeqLen
<1>2. u \in Seq(Frame) /\ Len(u) = n - 1 /\ \A i \in 1 .. n - 1 : u[i] = s[i]
  BY DropTop
<1>3. t \in Seq(Frame) /\ Len(t) = n /\ t[n] = f /\ \A i \in 1 .. n - 1 : t[i] = s[i]
  BY ReplaceTop
<1> HIDE DEF t, u, n
<1>4. DOMAIN u = 1 .. n - 1 /\ DOMAIN t = 1 .. n /\ t # <<>>
  BY <1>1, <1>2, <1>3, SeqLen
<1>5. \A i \in 1 .. n : i = n \/ i \in 1 .. n - 1
  BY <1>1
<1>6. n \in 1 .. n /\ 1 .. n - 1 \subseteq 1 .. n
  BY <1>1
<1>7. Elements(t) = Elements(u) \cup {f}
  BY <1>2, <1>3, <1>4, <1>5, <1>6 DEF Elements
<1>8. 1 = n \/ 1 \in 1 .. n - 1
  BY <1>1
<1>9. f.isPost = s[n].isPost => t[1].isPost = s[1].isPost
  BY <1>3, <1>8
<1> QED
  BY <1>3, <1>4, <1>7, <1>9 DEF t, u, n

LEMMA FramesSet ==
    ASSUME TypeOK, stack # <<>>, NEW f \in Frame, SetTop(f), f.isPost = Top.isPost
    PROVE  /\ Elements(stack') = Elements(Callers) \cup {f}
           /\ stack' # <<>> /\ stack'[1].isPost = stack[1].isPost
BY FramesReplaced DEF SetTop, Callers, Top, Depth, TypeOK

LEMMA FramesCall ==
    ASSUME TypeOK, stack # <<>>, NEW f \in Frame, NEW callee \in Frame, Invoke(f, callee),
           f.isPost = Top.isPost
    PROVE  /\ Elements(stack') = Elements(Callers) \cup {f, callee}
           /\ stack' # <<>> /\ stack'[1].isPost = stack[1].isPost
<1> DEFINE t == [stack EXCEPT ![Len(stack)] = f]
<1>1. /\ stack' = Append(t, callee) /\ t # <<>> /\ t \in Seq(Frame)
      /\ Elements(t) = Elements(Callers) \cup {f} /\ t[1].isPost = stack[1].isPost
  BY FramesReplaced DEF Invoke, Callers, Top, Depth, TypeOK
<1> HIDE DEF t
<1>2. Elements(stack') = Elements(t) \cup {callee}
  BY <1>1, ElementsOfAppend
<1>3. Len(t) > 0 /\ Len(t) \in Nat
  BY <1>1, SeqLen
<1>4. 1 \in 1 .. Len(t)
  BY <1>3
<1>5. /\ stack' \in Seq(Frame) /\ Len(stack') = Len(t) + 1
      /\ \A i \in 1 .. Len(t) : stack'[i] = t[i]
  BY <1>1, PushFrame
<1>6. stack' # <<>>
  BY <1>3, <1>5, SeqLen
<1> QED
  BY <1>1, <1>2, <1>4, <1>5, <1>6

LEMMA FramesReturn ==
    ASSUME TypeOK, stack # <<>>, NEW r, Return(r)
    PROVE  /\ Elements(stack') = Elements(Callers)
           /\ stack' # <<>> => stack'[1] = stack[1]
           /\ stack' = <<>> => Top = stack[1] /\ Len(stack) = 1
<1> DEFINE n == Len(stack)
<1>1. /\ stack' = Callers /\ stack' \in Seq(Frame) /\ Len(stack') = n - 1
      /\ \A i \in 1 .. n - 1 : stack'[i] = stack[i]
  BY DropTop DEF Return, Callers, Depth, TypeOK
<1>2. n \in Nat \ {0} /\ Top = stack[n]
  BY SeqLen DEF TypeOK, Top, Depth
<1>3. stack' # <<>> <=> Len(stack') > 0
  BY <1>1, SeqLen
<1> HIDE DEF n
<1>4. CASE n = 1
  BY <1>1, <1>2, <1>3, <1>4 DEF n
<1>5. CASE n # 1
  <2>1. 1 \in 1 .. n - 1 /\ n - 1 > 0
    BY <1>2, <1>5
  <2> QED
    BY <1>1, <1>3, <2>1
<1> QED
  BY <1>4, <1>5

\* An error that was seen is not forgotten.
LEMMA VisitTrouble ==
    ASSUME TypeOK, Visit, Trouble
    PROVE  Trouble'
<1>0. stack # <<>> /\ UNCHANGED <<errors, dropped>>
  BY VisitActive, VisitBeside DEF Beside
<1>1. stack \in Seq(Frame) /\ Elements(stack) = Elements(Callers) \cup {Top}
  BY <1>0, FramesOf DEF TypeOK
<1>2. CASE ret' = "throw"
  BY <1>2 DEF Trouble
<1>3. ASSUME NEW f \in Frame, GoesOn(f)
      PROVE  Trouble'
  <2>1. Elements(stack') = Elements(Callers) \cup {f}
    BY <1>0, <1>1, <1>3, FramesReplaced DEF GoesOn, SetTop, Callers, Depth
  <2> QED
    BY <1>0, <1>1, <1>3, <2>1 DEF Trouble, GoesOn
<1>4. ASSUME NEW f \in Frame, NEW callee \in Frame, CallsFrom(f, callee)
      PROVE  Trouble'
  <2> DEFINE t == [stack EXCEPT ![Len(stack)] = f]
  <2>1. stack' = Append(t, callee) /\ t \in Seq(Frame)
        /\ Elements(t) = Elements(Callers) \cup {f}
    BY <1>0, <1>1, <1>4, FramesReplaced DEF CallsFrom, Invoke, Callers, Depth
  <2> HIDE DEF t
  <2>2. Elements(stack') = Elements(Callers) \cup {f, callee}
    BY <2>1, ElementsOfAppend
  <2> QED
    BY <1>0, <1>1, <1>4, <2>2 DEF Trouble, CallsFrom
<1>5. ASSUME ret # "throw", ~Doomed(Top), NEW r, Return(r)
      PROVE  Trouble'
  BY <1>0, <1>1, <1>5 DEF Trouble, Return
<1> QED
  BY <1>2, <1>3, <1>4, <1>5, VisitErrors DEF ErrorStep

LEMMA DriveTrouble ==
    ASSUME TypeOK, Drive, Trouble
    PROVE  Trouble'
<1>1. stack = <<>>
  BY DEF Drive, ValidateModuleClass, UseClass, RootReturned, EndModule,
         ValidateClassFull, EndClasses, Idle
<1>2. errors \/ dropped \/ ret = "throw"
  BY <1>1 DEF Trouble, Elements
<1> QED
  BY <1>2 DEF Drive, ValidateModuleClass, UseClass, RootReturned, EndModule, TypeOK,
         ValidateClassFull, EndClasses, Idle, visitor, Trouble

\* What the invariants of the calls say of the topmost one.
LEMMA TopFacts ==
    ASSUME TypeOK, stack # <<>>, StackInv, MatchInv
    PROVE  /\ Rebuilding(Top) =>
                 \A l \in Elements(Callers) : Outermost(l) => l.cls # Top.cls
           /\ Pushed(Top) /\ ~Top.isPost => gen[Top.cls].kind = "class"
           /\ Pushed(Top) /\ (IsPostFrame(Top) \/ Top.level = 1) => Len(validation) = 1
           /\ Pushed(Top) /\ Len(validation) = 1 => Top.level = 1
           /\ ~Pushed(Top) /\ Len(stack) = 1 => validation = <<>>
<1> DEFINE n == Len(stack)
           below == Cardinality(ContentsTo(stack, n - 1))
<1>1. stack \in Seq(Frame) /\ n \in Nat \ {0} /\ DOMAIN stack = 1 .. n /\ Top = stack[n]
      /\ n \in 1 .. n
  BY SeqLen DEF TypeOK, Top, Depth
<1>2. \A l \in Elements(Callers) : \E i \in 1 .. n - 1 : l = stack[i]
  <2>1. Len(Callers) = n - 1 /\ Callers \in Seq(Frame)
        /\ \A i \in 1 .. n - 1 : Callers[i] = stack[i]
    BY <1>1, DropTop DEF Callers, Depth
  <2>2. DOMAIN Callers = 1 .. n - 1
    BY <2>1, SeqLen
  <2> QED
    BY <2>1, <2>2 DEF Elements
<1>3. below \in Nat /\ Len(validation) = IF Pushed(Top) THEN below + 1 ELSE below
  <2>1. below \in Nat /\ Cardinality(ContentsTo(stack, n)) = IF Pushed(stack[n]) THEN below + 1
                                                                               ELSE below
    BY <1>1, CountAtTop
  <2> QED
    BY <1>1, <2>1 DEF MatchInv, Matches
<1>4. (\A i \in 1 .. n - 1 : ~Pushed(stack[i])) => below = 0
  <2>1. (\A i \in 1 .. n - 1 : ~Pushed(stack[i])) => ContentsTo(stack, n - 1) = {}
    BY DEF ContentsTo
  <2> QED
    BY <2>1, FS_EmptySet
<1>5. validation \in Seq(Class) /\ (validation = <<>> <=> Len(validation) = 0)
  BY SeqLen DEF TypeOK
<1>12. \A i \in 1 .. n : stack[i] \in Frame
  BY <1>1, SeqElement
<1> HIDE DEF below, n
<1>6. \A i \in 1 .. n - 1 : i \in 1 .. n /\ i < n
  BY <1>1
<1>7. ASSUME Rebuilding(Top), NEW l \in Elements(Callers), Outermost(l)
      PROVE  l.cls # Top.cls
  <2>1. PICK i \in 1 .. n - 1 : l = stack[i]
    BY <1>2
  <2> QED
    BY <1>1, <1>6, <1>7, <2>1 DEF StackInv, ActiveContent, Outermost
<1>8. Pushed(Top) /\ ~Top.isPost => gen[Top.cls].kind = "class"
  BY <1>1 DEF StackInv, ActiveContent
<1>9. ASSUME Pushed(Top), IsPostFrame(Top) \/ Top.level = 1
      PROVE  Len(validation) = 1
  <2>1. ASSUME NEW i \in 1 .. n - 1, Pushed(stack[i])
        PROVE  FALSE
    <3>1. 1 <= stack[i].level /\ stack[i].level < Top.level
      BY <1>1, <1>6, <1>9, <2>1 DEF StackInv, LevelsGrow
    <3>2. ~IsPostFrame(Top)
      BY <1>1, <1>6, <2>1 DEF StackInv, PostIsOutermost
    <3>3. stack[i].level \in Nat
      BY <1>6, <1>12 DEF Frame
    <3> QED
      BY <1>9, <3>1, <3>2, <3>3
  <2> QED
    BY <1>3, <1>4, <1>9, <2>1
<1>10. ASSUME Pushed(Top), Len(validation) = 1
       PROVE  Top.level = 1
  <2>1. 1 <= Top.level /\ Top.level <= 1
    BY <1>1, <1>10 DEF StackInv, LevelsGrow
  <2>2. Top.level \in Nat
    BY <1>1, <1>12 DEF Frame
  <2> QED
    BY <2>1, <2>2
<1>11. ASSUME ~Pushed(Top), n = 1
       PROVE  validation = <<>>
  <2>1. below = 0
    BY <1>4, <1>11
  <2> QED
    BY <1>3, <1>5, <1>11, <2>1
<1> QED
  BY <1>7, <1>8, <1>9, <1>10, <1>11 DEF n

\* The topmost frame t is replaced by the frames F, and the queued classes p by
\* q: what awaited there still awaits.
LEMMA WholeSame ==
    ASSUME NEW g, NEW L, NEW t, NEW p, Whole(g, L \cup {t}, p), NEW F, NEW q,
           \A c \in Class : c \in Elements(p) \/ Covers(g, t, c) =>
               c \in Elements(q) \/ \E f \in F : Covers(g, f, c),
           \A f \in F : Outermost(f) => Outermost(t) /\ f.cls = t.cls /\ f.pc = t.pc
    PROVE  Whole(g, L \cup F, q)
<1>1. ASSUME NEW c \in Class, g[c].kind = "class", ~Complete(g[c], c)
      PROVE  Awaits(g, L \cup F, q, c)
  <2>1. Awaits(g, L \cup {t}, p, c)
    BY <1>1 DEF Whole
  <2>2. CASE c \in Elements(p) \/ Covers(g, t, c)
    BY <2>2 DEF Awaits
  <2>3. CASE \E l \in L : Covers(g, l, c)
    BY <2>3 DEF Awaits
  <2> QED
    BY <2>1, <2>2, <2>3 DEF Awaits
<1>2. ASSUME NEW f \in L \cup F, Outermost(f)
      PROVE  g[f.cls].asserted /\ (f.pc = "fields" => f.cls \in g[f.cls].values)
  BY <1>2 DEF Whole
<1> QED
  BY <1>1, <1>2 DEF Whole

\* The shapes of the steps that change no generator.
Quiet == UNCHANGED <<gen, toValidate, list, queue>> /\ \A c \in Class : solution'[c] # "failed"

LEMMA QuietWhole ==
    ASSUME WholeInv, Quiet, Whole(gen, Elements(stack'), post'),
           stack' = <<>> => post' = <<>>, stack' # <<>> => ~stack'[1].isPost
    PROVE  WholeInv'
<1>1. Line' = Line /\ UNCHANGED gen
  BY DEF Quiet, Line
<1> QED
  BY <1>1 DEF WholeInv, Quiet

LEMMA SetWhole ==
    ASSUME TypeOK, WholeInv, stack # <<>>, UNCHANGED <<gen, toValidate, list, queue>>,
           NEW f \in Frame, SetTop(f), f.isPost = Top.isPost,
           \A c \in Class : c \in Elements(post) \/ Covers(gen, Top, c) =>
               c \in Elements(post') \/ Covers(gen, f, c),
           Outermost(f) => Outermost(Top) /\ f.cls = Top.cls /\ f.pc = Top.pc
    PROVE  WholeInv'
<1>1. /\ Elements(stack) = Elements(Callers) \cup {Top}
      /\ Elements(stack') = Elements(Callers) \cup {f}
      /\ stack' # <<>> /\ ~stack'[1].isPost
  BY FramesOf, FramesSet DEF WholeInv
<1> DEFINE L == Elements(Callers)
           F == {f}
<1>a. /\ \A c \in Class : c \in Elements(post) \/ Covers(gen, Top, c) =>
            c \in Elements(post') \/ \E k \in F : Covers(gen, k, c)
      /\ \A k \in F : Outermost(k) => Outermost(Top) /\ k.cls = Top.cls /\ k.pc = Top.pc
  OBVIOUS
<1>b. Elements(stack) = L \cup {Top} /\ Elements(stack') = L \cup F
  BY <1>1
<1> HIDE DEF L, F
<1>c. Whole(gen, L \cup {Top}, post)
  BY <1>b DEF WholeInv
<1>d. Whole(gen, L \cup F, post')
  BY <1>a, <1>c, WholeSame
<1>2. Whole(gen, Elements(stack'), post')
  BY <1>b, <1>d
<1>3. Quiet
  BY DEF Quiet, SetTop, WholeInv
<1> QED
  BY <1>1, <1>2, <1>3, QuietWhole

LEMMA CallWhole ==
    ASSUME TypeOK, WholeInv, stack # <<>>, Quiet,
           NEW f \in Frame, NEW callee \in Frame, Invoke(f, callee), f.isPost = Top.isPost,
           \A c \in Class : c \in Elements(post) \/ Covers(gen, Top, c) =>
               c \in Elements(post') \/ Covers(gen, f, c) \/ Covers(gen, callee, c),
           Outermost(f) => Outermost(Top) /\ f.cls = Top.cls /\ f.pc = Top.pc,
           ~Pushed(callee)
    PROVE  WholeInv'
<1>1. /\ Elements(stack) = Elements(Callers) \cup {Top}
      /\ Elements(stack') = Elements(Callers) \cup {f, callee}
      /\ stack' # <<>> /\ ~stack'[1].isPost
  BY FramesOf, FramesCall DEF WholeInv
<1> DEFINE L == Elements(Callers)
           F == {f, callee}
<1>2. \A k \in F : Outermost(k) => Outermost(Top) /\ k.cls = Top.cls /\ k.pc = Top.pc
  BY DEF Outermost
<1>3. \A c \in Class : c \in Elements(post) \/ Covers(gen, Top, c) =>
         c \in Elements(post') \/ \E k \in F : Covers(gen, k, c)
  OBVIOUS
<1>4. Elements(stack) = L \cup {Top} /\ Elements(stack') = L \cup F
  BY <1>1
<1> HIDE DEF L, F
<1>5. Whole(gen, L \cup {Top}, post)
  BY <1>4 DEF WholeInv
<1>6. Whole(gen, L \cup F, post')
  BY <1>2, <1>3, <1>5, WholeSame
<1> QED
  BY <1>1, <1>4, <1>6, QuietWhole

LEMMA ReferWhole ==
    ASSUME TypeOK, WholeInv, stack # <<>>, UNCHANGED <<gen, toValidate, list, queue, post>>,
           NEW f \in Frame, NEW c \in Class, Refer(f, c), f.isPost = Top.isPost,
           \A d \in Class : Covers(gen, Top, d) => Covers(gen, f, d),
           Outermost(f) => Outermost(Top) /\ f.cls = Top.cls /\ f.pc = Top.pc
    PROVE  WholeInv'
<1> DEFINE callee == ValidateCall(c, c \in New)
<1>1. (c \in New) \in BOOLEAN
  OBVIOUS
<1>2. callee \in Frame /\ ~Pushed(callee)
  BY <1>1, ValidateCallType DEF ValidateCall, NewFrame, Pushed
<1>3. solution[c] # "failed"
  BY DEF WholeInv
<1>4. Invoke(f, callee) /\ solution' = Registered(c)
  BY <1>3 DEF Refer
<1>5. \A d \in Class : solution'[d] # "failed"
  BY <1>4 DEF Registered, WholeInv, TypeOK
<1> HIDE DEF callee
<1> QED
  BY <1>2, <1>4, <1>5, CallWhole DEF Quiet

\* A call that answers covers nothing any more; the root one leaves nothing in
\* the queue.
LEMMA AnswerWhole ==
    ASSUME TypeOK, WholeInv, stack # <<>>, UNCHANGED <<gen, toValidate, list, queue, post>>,
           Return("ok"), \A c \in Class : ~Covers(gen, Top, c),
           Len(stack) = 1 /\ ~Top.isPost => post = <<>>
    PROVE  WholeInv'
<1>1. /\ Elements(stack) = Elements(Callers) \cup {Top} /\ Elements(stack') = Elements(Callers)
      /\ stack' # <<>> => stack'[1] = stack[1]
      /\ stack' = <<>> => Top = stack[1] /\ Len(stack) = 1
  BY FramesOf, FramesReturn
<1> DEFINE L == Elements(Callers)
           F == {}
<1>a. Whole(gen, L \cup {Top}, post)
  BY <1>1 DEF WholeInv
<1>b. /\ \A c \in Class : c \in Elements(post) \/ Covers(gen, Top, c) => c \in Elements(post)
      /\ F = {}
  OBVIOUS
<1> HIDE DEF L, F
<1>c. Whole(gen, L \cup F, post)
  BY <1>a, <1>b, WholeSame
<1>2. Whole(gen, Elements(Callers) \cup {}, post)
  BY <1>c DEF L, F
<1>3. Whole(gen, Elements(stack'), post')
  BY <1>1, <1>2
<1>4. Quiet
  BY DEF Quiet, Return, Filed, WholeInv
<1> QED
  BY <1>1, <1>3, <1>4, QuietWhole DEF WholeInv

\* The generator of the class of the topmost call changes.
LEMMA ChangeWhole ==
    ASSUME TypeOK, WholeInv, StackInv, MatchInv, stack # <<>>, Rebuilding(Top),
           UNCHANGED <<list, queue>>,
           NEW f \in Frame, SetTop(f), f.cls = Top.cls, f.isPost = Top.isPost,
           NEW h, gen' = [gen EXCEPT ![Top.cls] = h],
           h.kind = "class" \/ h.kind = gen[Top.cls].kind,
           toValidate' = toValidate \/
               (toValidate' = Append(toValidate, Top.cls) /\ h.kind = "class"),
           Elements(post) \subseteq Elements(post'),
           Outermost(f) => h.asserted /\ (f.pc = "fields" => Top.cls \in h.values),
           h.kind = "class" =>
               \/ Complete(h, Top.cls)
               \/ Awaits(gen', Elements(Callers) \cup {f}, post', Top.cls)
    PROVE  WholeInv'
<1>1. /\ Elements(stack) = Elements(Callers) \cup {Top} /\ Top.cls \in Class
      /\ \A l \in Elements(Callers) : l.cls \in Class
  BY FramesOf
<1>2. /\ Elements(stack') = Elements(Callers) \cup {f}
      /\ stack' # <<>> /\ ~stack'[1].isPost
  BY FramesSet DEF WholeInv
<1>3. gen'[Top.cls] = h /\ \A c \in Class \ {Top.cls} : gen'[c] = gen[c]
  BY <1>1 DEF TypeOK
<1>4. Top.pc # "postAll" /\ \A l \in Elements(Callers) : Outermost(l) => l.cls # Top.cls
  BY TopFacts DEF Rebuilding
<1>5. Whole(gen', Elements(stack'), post')
  <2> DEFINE L == Elements(Callers)
             t == Top
             F == L \cup {f}
  <2>1. /\ Whole(gen, L \cup {t}, post) /\ Elements(stack') = F
        /\ \A l \in L : l.cls \in Class /\ (Outermost(l) => l.cls # t.cls)
        /\ t.cls \in Class /\ t.pc # "postAll" /\ f.cls = t.cls /\ gen'[t.cls] = h
        /\ \A c \in Class \ {t.cls} : gen'[c] = gen[c]
        /\ Outermost(f) => h.asserted /\ (f.pc = "fields" => t.cls \in h.values)
        /\ h.kind = "class" => Complete(h, t.cls) \/ Awaits(gen', F, post', t.cls)
    BY <1>1, <1>2, <1>3, <1>4 DEF WholeInv
  <2> HIDE DEF L, t
  <2>2. ASSUME NEW c \in Class \ {t.cls}, gen'[c].kind = "class", ~Complete(gen'[c], c)
        PROVE  Awaits(gen', F, post', c)
    <3>1. gen'[c] = gen[c]
      BY <2>1
    <3>2. Awaits(gen, L \cup {t}, post, c)
      BY <2>1, <2>2, <3>1 DEF Whole
    <3>3. ~Covers(gen, t, c)
      BY <2>1 DEF Covers
    <3>4. c \in Elements(post) \/ \E l \in L : Covers(gen, l, c)
      BY <3>2, <3>3 DEF Awaits
    <3>5. \A l \in L : Covers(gen, l, c) => Covers(gen', l, c)
      BY <3>1 DEF Covers
    <3> QED
      BY <3>4, <3>5 DEF Awaits
  <2>3. ASSUME NEW c \in Class, gen'[c].kind = "class"
        PROVE  Complete(gen'[c], c) \/ Awaits(gen', F, post', c)
    BY <2>1, <2>2, <2>3
  <2>4. ASSUME NEW l \in F, Outermost(l)
        PROVE  gen'[l.cls].asserted /\ (l.pc = "fields" => l.cls \in gen'[l.cls].values)
    <3>1. CASE l \in L
      <4>1. gen'[l.cls] = gen[l.cls]
        BY <2>1, <2>4, <3>1
      <4> QED
        BY <2>1, <2>4, <3>1, <4>1 DEF Whole
    <3>2. CASE l = f
      BY <2>1, <2>4, <3>2
    <3> QED
      BY <3>1, <3>2
  <2> HIDE DEF F
  <2> QED
    BY <2>1, <2>3, <2>4 DEF Whole
<1>6. \A c \in Class : gen'[c].kind \in {"empty", "class"}
                        /\ (gen[c].kind = "class" => gen'[c].kind = "class")
  BY <1>1, <1>3 DEF WholeInv
<1>7. Elements(Line) \subseteq Class
  BY LineType DEF Elements
<1>8. \A c \in Elements(Line') : gen'[c].kind = "class"
  <2>1. CASE toValidate' = toValidate
    <3>1. Line' = Line
      BY <2>1 DEF Line
    <3> QED
      BY <1>6, <1>7, <3>1 DEF WholeInv
  <2>2. CASE toValidate' = Append(toValidate, Top.cls) /\ h.kind = "class"
    <3>0. list \in Seq(Class) /\ queue \in Seq(Class) /\ toValidate \in Seq(Class)
      BY DEF TypeOK
    <3>1. Line' = Append(Line, Top.cls)
      BY <1>1, <2>2, <3>0, LineAppended DEF Line
    <3>2. Elements(Line') = Elements(Line) \cup {Top.cls}
      BY <1>1, <3>1, LineType, ElementsOfAppend
    <3> QED
      BY <1>3, <1>6, <1>7, <2>2, <3>2 DEF WholeInv
  <2> QED
    BY <2>1, <2>2
<1> QED
  BY <1>2, <1>5, <1>6, <1>8 DEF WholeInv, SetTop

LEMMA SetNotDoomed ==
    ASSUME TypeOK, stack # <<>>, NEW f \in Frame, SetTop(f), f.isPost = Top.isPost, ~Trouble'
    PROVE  ~Doomed(f)
BY FramesSet DEF Trouble

LEMMA ElementsOfRest ==
    ASSUME NEW S, NEW s \in Seq(S), s # <<>>
    PROVE  Elements(s) \subseteq Elements(Tail(s)) \cup {Head(s)}
<1> DEFINE t == Tail(s)
           n == Len(s)
<1>1. n \in Nat \ {0} /\ DOMAIN s = 1 .. n /\ Head(s) = s[1]
  BY SeqLen
<1>2. t \in Seq(S) /\ Len(t) = n - 1 /\ \A i \in 1 .. n - 1 : t[i] = s[i + 1]
  BY HeadTailProperties
<1> HIDE DEF t, n
<1>3. DOMAIN t = 1 .. n - 1
  BY <1>2, SeqLen
<1>4. ASSUME NEW i \in 1 .. n, i # 1
      PROVE  i - 1 \in 1 .. n - 1 /\ s[i] = t[i - 1]
  <2>1. i - 1 \in 1 .. n - 1 /\ (i - 1) + 1 = i
    BY <1>1, <1>4
  <2> QED
    BY <1>2, <2>1
<1>5. Elements(s) \subseteq Elements(t) \cup {s[1]}
  BY <1>1, <1>3, <1>4 DEF Elements
<1> QED
  BY <1>1, <1>5 DEF t

LEMMA NoMoreThanOne ==
    ASSUME NEW n \in Nat, n > 0, ~(n > 1)
    PROVE  n = 1
OBVIOUS

LEMMA VisitWhole ==
    ASSUME TypeOK, StackInv, MatchInv, prog.badAssert = {}, WholeInv, ~Trouble,
           Visit, ~Trouble', compile' # "halted"
    PROVE  WholeInv'
<1>0. stack # <<>> /\ UNCHANGED <<list, queue>> /\ ret # "throw" /\ ret' # "throw"
  BY VisitActive, VisitBeside DEF Beside, Trouble
<1>1. Top \in Frame /\ Top.cls \in Class /\ gen[Top.cls] \in Generator
      /\ validation \in Seq(Class) /\ post \in Seq(Class)
  BY <1>0, TopType DEF TypeOK, Frame
<1>2. CASE ResolveAncestor
  <2>0. Top.pc = "ancestor" /\ UNCHANGED <<gen, toValidate, post>>
    BY <1>2 DEF ResolveAncestor, At
  <2>1. CASE Ancestor(Top.cls) = NoClass
    <3> DEFINE f == [Top EXCEPT !.pc = "begin"]
    <3>1. f \in Frame /\ f.cls = Top.cls /\ f.isPost = Top.isPost /\ f.pc = "begin"
      BY <1>1 DEF Frame, Pcs
    <3>2. SetTop(f)
      BY <1>2, <2>1 DEF ResolveAncestor
    <3> HIDE DEF f
    <3> QED
      BY <1>0, <2>0, <3>1, <3>2, SetWhole DEF Covers, Outermost, Pushed
  <2>2. CASE Ancestor(Top.cls) # NoClass
    <3> DEFINE f == [Top EXCEPT !.pc = "inherit"]
    <3>1. f \in Frame /\ f.cls = Top.cls /\ f.isPost = Top.isPost /\ f.pc = "inherit"
      BY <1>1 DEF Frame, Pcs
    <3>2. Refer(f, Ancestor(Top.cls))
      BY <1>2, <2>2 DEF ResolveAncestor
    <3>3. Ancestor(Top.cls) \in Class
      BY <1>1, <2>2 DEF Ancestor, TypeOK, ProgramType, Declarations
    <3> HIDE DEF f
    <3> QED
      BY <1>0, <2>0, <3>1, <3>2, <3>3, ReferWhole DEF Covers, Outermost, Pushed
  <2> QED
    BY <2>1, <2>2
<1>3. CASE AncestorResolved
  <2>0. Top.pc = "inherit" /\ UNCHANGED <<gen, toValidate, post>>
    BY <1>3 DEF AncestorResolved, At
  <2>1. CASE AncestorAccepted
    <3> DEFINE f == [Top EXCEPT !.pc = "begin"]
    <3>1. f \in Frame /\ f.cls = Top.cls /\ f.isPost = Top.isPost /\ f.pc = "begin"
      BY <1>1 DEF Frame, Pcs
    <3>2. SetTop(f)
      BY <1>3, <2>1 DEF AncestorResolved
    <3> HIDE DEF f
    <3> QED
      BY <1>0, <2>0, <3>1, <3>2, SetWhole DEF Covers, Outermost, Pushed
  <2>2. CASE ~AncestorAccepted
    <3> DEFINE f == [Top EXCEPT !.pc = "end", !.errs = TRUE]
    <3>1. f \in Frame /\ f.isPost = Top.isPost /\ Doomed(f)
      BY <1>1 DEF Frame, Pcs, Doomed
    <3>2. SetTop(f)
      BY <1>0, <1>3, <2>2 DEF AncestorResolved, Return
    <3> HIDE DEF f
    <3> QED
      BY <1>0, <3>1, <3>2, SetNotDoomed
  <2> QED
    BY <2>1, <2>2
<1>4. CASE BeginContent
  <2> DEFINE c == Top.cls
             h == BeginGenerator(c)
             f == [Top EXCEPT !.pc = "vtable", !.todo = MethodMentions(c),
                              !.base = VtableOf(c), !.level = Len(validation')]
  <2>0. /\ Top.pc = "begin" /\ ~Top.isPost /\ UNCHANGED <<toValidate, post>>
        /\ gen' = [gen EXCEPT ![c] = h] /\ validation' = Append(validation, c)
    BY <1>4 DEF BeginContent, At
  <2>1. validation' \in Seq(Class) /\ Len(validation') = Len(validation) + 1
        /\ Len(validation) \in Nat /\ (validation = <<>> <=> Len(validation) = 0)
    BY <1>1, <2>0, PushFrame, SeqLen
  <2>a. Len(validation') \in Nat
    BY <2>1
  <2>2. /\ f \in Frame /\ f.cls = Top.cls /\ f.pc = "vtable" /\ f.isPost = Top.isPost
        /\ f.level = Len(validation')
    BY <1>0, <1>1, <2>a, TodoType, VtableOfType DEF Frame, Pcs
  <2>3. SetTop(f)
    BY <1>0, <1>4 DEF BeginContent, Return
  <2>4. h.kind = "class" /\ (validation = <<>> => h.asserted)
    BY DEF BeginGenerator, OfKind
  <2> HIDE DEF f, h
  <2>5. Rebuilding(Top)
    BY <2>0 DEF Rebuilding
  <2>6. Outermost(f) => h.asserted /\ (f.pc = "fields" => Top.cls \in h.values)
    <3>1. Outermost(f) => Len(validation) + 1 = 1 /\ f.pc # "fields"
      BY <2>1, <2>2 DEF Outermost
    <3>2. Len(validation) + 1 = 1 => validation = <<>>
      BY <2>1
    <3> QED
      BY <2>4, <3>1, <3>2
  <2>7. Awaits(gen', Elements(Callers) \cup {f}, post', Top.cls)
    BY <2>0, <2>2 DEF Awaits, Covers, Pushed
  <2> QED
    BY <1>0, <2>0, <2>2, <2>3, <2>4, <2>5, <2>6, <2>7, ChangeWhole
<1>5. CASE ReferClass
  <2>1. PICK d \in Top.todo : Refer([Top EXCEPT !.todo = @ \ {d}], d)
    BY <1>5 DEF ReferClass
  <2> DEFINE f == [Top EXCEPT !.todo = @ \ {d}]
  <2>2. d \in Class /\ f \in Frame /\ f.cls = Top.cls /\ f.isPost = Top.isPost
        /\ f.pc = Top.pc /\ f.level = Top.level /\ f.aux = Top.aux
    BY <1>1 DEF Frame
  <2>3. UNCHANGED <<gen, toValidate, post>> /\ Refer(f, d)
    BY <1>5, <2>1 DEF ReferClass
  <2> HIDE DEF f
  <2> QED
    BY <1>0, <2>2, <2>3, ReferWhole DEF Covers, Outermost, Pushed
<1>6. CASE ReferenceResolved
  <2>1. PICK f \in {[Top EXCEPT !.vtErr = @ \/ (ret = "throw")],
                    [Top EXCEPT !.errs = @ \/ (ret = "throw")]} : SetTop(f)
    BY <1>6 DEF ReferenceResolved
  <2>2. f \in Frame /\ f.cls = Top.cls /\ f.isPost = Top.isPost
        /\ f.pc = Top.pc /\ f.level = Top.level /\ f.aux = Top.aux
    BY <1>1, <2>1 DEF Frame
  <2>3. UNCHANGED <<gen, toValidate, post>>
    BY <1>6 DEF ReferenceResolved
  <2> QED
    BY <1>0, <2>1, <2>2, <2>3, SetWhole DEF Covers, Outermost, Pushed
<1>7. CASE EndVtable
  <2> DEFINE f == [Top EXCEPT !.pc = "fields", !.errs = @ \/ VtableFailed(Top),
                              !.todo = prog.fieldTypes[Top.cls]]
             h == WithVtable(Top)
  <2>0. Top.pc = "vtable" /\ ~Top.isPost /\ SetTop(f) /\ UNCHANGED <<toValidate, post>>
    BY <1>7 DEF EndVtable, At
  <2>1. VtableFailed(Top) \in BOOLEAN
    BY <1>1 DEF VtableFailed, Frame
  <2>2. f \in Frame /\ f.cls = Top.cls /\ f.pc = "fields" /\ f.isPost = Top.isPost
        /\ f.level = Top.level /\ (VtableFailed(Top) => f.errs)
    BY <1>0, <1>1, <2>1, TodoType DEF Frame, Pcs
  <2>3. h.kind = gen[Top.cls].kind /\ h.asserted = gen[Top.cls].asserted
        /\ (Len(validation) = 1 => Top.cls \in h.values)
    BY <1>1 DEF WithVtable, Generator
  <2> HIDE DEF f, h
  <2>4. ~VtableFailed(Top)
    BY <1>0, <2>0, <2>2, SetNotDoomed DEF Doomed
  <2>5. gen' = [gen EXCEPT ![Top.cls] = h]
    BY <1>7, <2>4 DEF EndVtable, h
  <2>6. Rebuilding(Top) /\ Pushed(Top)
    BY <2>0 DEF Rebuilding, Pushed
  <2>7. ASSUME Outermost(f) PROVE h.asserted /\ Top.cls \in h.values
    <3>1. Outermost(Top) /\ Top.level = 1
      BY <2>0, <2>2, <2>6, <2>7 DEF Outermost
    <3>2. gen[Top.cls].asserted
      BY <1>0, <3>1, FramesOf DEF WholeInv, Whole
    <3>3. Len(validation) = 1
      BY <1>0, <2>6, <3>1, TopFacts
    <3> QED
      BY <2>3, <3>2, <3>3
  <2>8. Awaits(gen', Elements(Callers) \cup {f}, post', Top.cls)
    BY <2>0, <2>2 DEF Awaits, Covers, Pushed
  <2> QED
    BY <1>0, <2>0, <2>2, <2>3, <2>5, <2>6, <2>7, <2>8, ChangeWhole
<1>8. CASE EndContent
  <2> DEFINE c == Top.cls
             f == [Top EXCEPT !.pc = "finish"]
             h == [gen[c] EXCEPT !.fields = VtableOf(c).fields \cup {c}]
  <2>0. Top.pc = "fields" /\ ~Top.isPost /\ ~(Top.errs \/ FieldsCollide(c))
    BY <1>0, <1>8 DEF EndContent, At, ThrowErrors, Return
  <2>1. /\ gen' = [gen EXCEPT ![c].fields = VtableOf(c).fields \cup {c}]
        /\ toValidate' = WithToValidate(c) /\ post' = WithPost(c) /\ SetTop(f)
    BY <1>8, <2>0 DEF EndContent
  <2>2. f \in Frame /\ f.cls = Top.cls /\ f.pc = "finish" /\ f.isPost = Top.isPost
    BY <1>1 DEF Frame, Pcs
  <2>3. h.kind = gen[c].kind /\ h.asserted = gen[c].asserted /\ h.values = gen[c].values
        /\ gen' = [gen EXCEPT ![c] = h]
    BY <1>1, <2>1 DEF Generator
  <2> HIDE DEF f, h
  <2>4. Rebuilding(Top) /\ Pushed(Top) /\ ~Pushed(f)
    BY <2>0, <2>2 DEF Rebuilding, Pushed
  <2>5. h.kind = "class"
    BY <1>0, <2>0, <2>3, <2>4, TopFacts
  <2>6. Elements(Append(post, c)) = Elements(post) \cup {c}
    BY <1>1, ElementsOfAppend
  <2>7. CASE Len(validation) > 1
    <3>1. post' = Append(post, c)
      BY <2>1, <2>7 DEF WithPost
    <3>2. Elements(post) \subseteq Elements(post')
          /\ Awaits(gen', Elements(Callers) \cup {f}, post', c)
      BY <2>6, <3>1 DEF Awaits
    <3> QED
      BY <1>0, <2>1, <2>2, <2>3, <2>4, <2>5, <3>2, ChangeWhole DEF WithToValidate, Outermost
  <2>8. CASE ~(Len(validation) > 1)
    <3>1. UNCHANGED post
      BY <2>1, <2>8 DEF WithPost
    <3>2. Len(validation) = 1
      <4>1. validation # <<>> /\ Len(validation) \in Nat /\ Len(validation) > 0
        BY <1>0, <1>1, <2>4, MatchFacts, SeqLen
      <4> QED
        BY <2>8, <4>1, NoMoreThanOne
    <3>3. Outermost(Top)
      BY <1>0, <2>0, <2>4, <3>2, TopFacts DEF Outermost
    <3>4. Complete(gen[c], c)
      BY <1>0, <2>0, <3>3, FramesOf DEF WholeInv, Whole, Complete
    <3>5. Complete(h, c)
      BY <2>3, <3>4 DEF Complete
    <3> QED
      BY <1>0, <2>1, <2>2, <2>3, <2>4, <2>5, <3>1, <3>5, ChangeWhole DEF WithToValidate, Outermost
  <2> QED
    BY <2>7, <2>8
<1>9. CASE FinishClass \/ PostDone
  <2> DEFINE f == [Top EXCEPT !.pc = "postAll", !.aux = post]
  <2>0. Top.pc \in {"finish", "postAll"} /\ UNCHANGED <<gen, toValidate>>
    BY <1>9 DEF FinishClass, PostDone, At
  <2>1. f \in Frame /\ f.cls = Top.cls /\ f.pc = "postAll" /\ f.isPost = Top.isPost
        /\ f.aux = post
    BY <1>1 DEF Frame, Pcs
  <2>2. \A c \in Class : ~Covers(gen, Top, c)
    <3>1. Top.pc = "postAll" => Top.aux = <<>>
      BY <1>9 DEF FinishClass, PostDone, At
    <3> QED
      BY <2>0, <3>1 DEF Covers, Elements, Pushed
  <2> HIDE DEF f
  <2>3. CASE SetTop(f) /\ post' = <<>>
    BY <1>0, <2>0, <2>1, <2>2, <2>3, SetWhole DEF Covers, Outermost, Pushed
  <2>4. CASE Return("ok") /\ UNCHANGED post
    <3>1. ~Pushed(Top)
      BY <2>0 DEF Pushed
    <3>2. Len(stack) = 1 => post = <<>>
      BY <1>0, <1>9, <2>1, <2>4, <3>1, TopFacts DEF FinishClass, PostDone, TakePost, f
    <3> QED
      BY <1>0, <2>0, <2>2, <2>4, <3>2, AnswerWhole
  <2> QED
    BY <1>9, <2>3, <2>4 DEF FinishClass, PostDone, TakePost, f
<1>10. CASE FinishInvalid \/ PostAbandoned
  BY <1>0, <1>10 DEF FinishInvalid, PostAbandoned, Return
<1>11. CASE PostNext
  <2> DEFINE f == [Top EXCEPT !.aux = Tail(@)]
             callee == NewFrame(Head(Top.aux), FALSE, TRUE, "ancestor")
  <2>0. /\ Top.pc = "postAll" /\ Top.aux # <<>> /\ Invoke(f, callee)
        /\ UNCHANGED <<gen, toValidate, solution, post>>
    BY <1>11 DEF PostNext, At
  <2>1. Top.aux \in Seq(Class)
    BY <1>1 DEF Frame
  <2>2. Head(Top.aux) \in Class /\ Tail(Top.aux) \in Seq(Class)
    BY <2>0, <2>1
  <2>3. f \in Frame /\ f.cls = Top.cls /\ f.pc = Top.pc /\ f.isPost = Top.isPost
        /\ f.aux = Tail(Top.aux)
    BY <1>1, <2>2 DEF Frame
  <2>4. /\ callee \in Frame /\ callee.isPost /\ callee.pc = "ancestor"
        /\ callee.cls = Head(Top.aux)
    BY <2>2, NewFrameType DEF NewFrame, Pcs
  <2> HIDE DEF f, callee
  <2>5. \A c \in Class : Covers(gen, Top, c) => Covers(gen, f, c) \/ Covers(gen, callee, c)
    <3>1. Elements(Top.aux) \subseteq Elements(Tail(Top.aux)) \cup {Head(Top.aux)}
      BY <2>0, <2>1, ElementsOfRest
    <3> QED
      BY <2>0, <2>3, <2>4, <3>1 DEF Covers, Pushed
  <2>6. Quiet
    BY <1>0, <2>0 DEF Quiet, WholeInv
  <2>7. ~Pushed(callee) /\ ~Outermost(f)
    BY <2>0, <2>3, <2>4 DEF Pushed, Outermost
  <2> QED
    BY <1>0, <2>0, <2>3, <2>4, <2>5, <2>6, <2>7, CallWhole
<1>12. CASE BeginPost
  <2> DEFINE c == Top.cls
             h == [gen[c] EXCEPT !.asserted = gen[c].kind = "class"]
             f == [Top EXCEPT !.pc = "vtable", !.todo = MethodMentions(c),
                              !.base = VtableOf(c), !.level = Len(validation')]
  <2>0. /\ Top.pc = "begin" /\ Top.isPost /\ UNCHANGED <<toValidate, post>>
        /\ validation' = Append(validation, c)
    BY <1>12 DEF BeginPost, At
  <2>1. SetTop(f) /\ gen' = [gen EXCEPT ![c].asserted = gen[c].kind = "class"]
    BY <1>12 DEF BeginPost
  <2>2. Len(validation') \in Nat
    <3>1. validation' \in Seq(Class)
      BY <1>1, <2>0, PushFrame
    <3> QED
      BY <3>1, SeqLen
  <2>3. f \in Frame /\ f.cls = Top.cls /\ f.pc = "vtable" /\ f.isPost = Top.isPost
    BY <1>0, <1>1, <2>2, TodoType, VtableOfType DEF Frame, Pcs
  <2>4. h.kind = gen[c].kind /\ h.asserted = (gen[c].kind = "class")
        /\ gen' = [gen EXCEPT ![c] = h]
    BY <1>1, <2>1 DEF Generator
  <2> HIDE DEF f, h
  <2>5. Rebuilding(Top) /\ ~Outermost(f)
    BY <2>0, <2>3 DEF Rebuilding, Outermost
  <2>6. gen'[c] = h
    BY <1>1, <2>4 DEF TypeOK
  <2>7. h.kind = "class" => Awaits(gen', Elements(Callers) \cup {f}, post', c)
    BY <2>0, <2>3, <2>4, <2>6 DEF Awaits, Covers
  <2> QED
    BY <1>0, <2>0, <2>1, <2>3, <2>4, <2>5, <2>7, ChangeWhole
<1>13. CASE EndPostVtable
  <2> DEFINE c == Top.cls
             h == WithVtable(Top)
             f == [Top EXCEPT !.pc = "end", !.errs = VtableFailed(Top)]
  <2>0. Top.pc = "vtable" /\ Top.isPost /\ SetTop(f) /\ UNCHANGED <<toValidate, post>>
    BY <1>13 DEF EndPostVtable, At
  <2>1. VtableFailed(Top) \in BOOLEAN
    BY <1>1 DEF VtableFailed, Frame
  <2>2. f \in Frame /\ f.cls = Top.cls /\ f.pc = "end" /\ f.isPost = Top.isPost
        /\ f.errs = VtableFailed(Top)
    BY <1>1, <2>1 DEF Frame, Pcs
  <2>3. h.kind = gen[c].kind /\ h.asserted = gen[c].asserted
        /\ (Len(validation) = 1 => c \in h.values)
    BY <1>1 DEF WithVtable, Generator
  <2> HIDE DEF f, h
  <2>4. ~VtableFailed(Top)
    BY <1>0, <2>0, <2>2, SetNotDoomed DEF Doomed
  <2>5. gen[c].kind = "class" /\ gen' = [gen EXCEPT ![c] = h]
    <3>1. gen[c].kind = "class"
      BY <1>13, <2>4 DEF EndPostVtable
    <3> QED
      BY <1>13, <2>4, <3>1 DEF EndPostVtable, h
  <2>6. Rebuilding(Top) /\ Pushed(Top) /\ IsPostFrame(Top) /\ ~Outermost(f)
    BY <2>0, <2>2 DEF Rebuilding, Pushed, IsPostFrame, Outermost
  <2>7. c \in h.values
    BY <1>0, <2>3, <2>6, TopFacts
  <2>8. gen'[c] = h
    BY <1>1, <2>5 DEF TypeOK
  <2>9. Complete(h, c) \/ Awaits(gen', Elements(Callers) \cup {f}, post', c)
    <3>1. CASE gen[c].asserted
      BY <2>3, <2>7, <3>1 DEF Complete
    <3>2. CASE ~gen[c].asserted
      <4>1. Awaits(gen, Elements(Callers) \cup {Top}, post, c)
        BY <1>0, <1>1, <2>5, <3>2, FramesOf DEF WholeInv, Whole, Complete
      <4>2. ~Covers(gen, Top, c)
        BY <2>0, <3>2 DEF Covers
      <4>3. \A l \in Elements(Callers) : Covers(gen, l, c) => Covers(gen', l, c)
        BY <2>3, <2>8, <3>2 DEF Covers
      <4> QED
        BY <2>0, <4>1, <4>2, <4>3 DEF Awaits
    <3> QED
      BY <3>1, <3>2
  <2> QED
    BY <1>0, <2>0, <2>2, <2>3, <2>5, <2>6, <2>9, ChangeWhole
<1>14. CASE EndPost
  <2>1. Top.pc = "end" /\ Top.isPost /\ UNCHANGED <<toValidate, post>>
    BY <1>14 DEF EndPost, At
  <2>2. Return("ok") /\ UNCHANGED gen
    BY <1>0, <1>14 DEF EndPost, ThrowErrors, Return
  <2>3. \A c \in Class : ~Covers(gen, Top, c)
    BY <2>1 DEF Covers, Pushed
  <2> QED
    BY <1>0, <2>1, <2>2, <2>3, AnswerWhole
<1> QED
  BY <1>2, <1>3, <1>4, <1>5, <1>6, <1>7, <1>8, <1>9, <1>10, <1>11, <1>12, <1>13, <1>14 DEF Visit

LEMMA DriveWhole ==
    ASSUME TypeOK, WholeInv, ~Trouble, Drive, ~Trouble', compile' # "halted",
           compile = "module" => queue = <<>>
    PROVE  WholeInv'
<1>1. stack = <<>> /\ UNCHANGED <<gen, post>> /\ Line' = Line /\ ret # "throw" /\ ret' # "throw"
  BY LineDriven DEF Drive, ValidateModuleClass, UseClass, RootReturned, EndModule,
         ValidateClassFull, EndClasses, visitor, Idle, Trouble
<1>2. CASE UNCHANGED <<stack, solution>>
  BY <1>1, <1>2 DEF WholeInv
<1>3. CASE ~UNCHANGED <<stack, solution>>
  <2>1. \E c \in Class, m \in BOOLEAN : stack' = <<ValidateCall(c, m)>>
    <3>1. CASE ValidateModuleClass
      BY <3>1 DEF ValidateModuleClass, TypeOK, ProgramType, Declarations
    <3>2. CASE UseClass
      <4>1. \A c \in Class : (c \in New) \in BOOLEAN
        OBVIOUS
      <4> QED
        BY <1>3, <3>2, <4>1 DEF UseClass
    <3>3. CASE RootReturned \/ EndModule \/ ValidateClassFull \/ EndClasses
      BY <1>3, <3>3 DEF RootReturned, EndModule, ValidateClassFull, EndClasses, visitor
    <3> QED
      BY <3>1, <3>2, <3>3 DEF Drive
  <2>2. \A c \in Class : solution'[c] # "failed"
    BY <1>1, <1>3 DEF Drive, ValidateModuleClass, UseClass, RootReturned, EndModule,
         ValidateClassFull, EndClasses, visitor, Registered, WholeInv, TypeOK
  <2>3. PICK c \in Class, m \in BOOLEAN : stack' = <<ValidateCall(c, m)>>
    BY <2>1
  <2> DEFINE callee == ValidateCall(c, m)
  <2>4. ~callee.isPost /\ ~Pushed(callee)
    BY DEF ValidateCall, NewFrame, Pushed
  <2>5. Elements(stack') = {callee} /\ stack' # <<>> /\ stack'[1] = callee
    BY <2>3 DEF Elements
  <2> HIDE DEF callee
  <2>6. Whole(gen, {callee}, post)
    <3>1. \A d \in Class : gen[d].kind = "class" => Complete(gen[d], d) \/ d \in Elements(post)
      BY <1>1 DEF WholeInv, Whole, Awaits, Elements
    <3> QED
      BY <2>4, <3>1 DEF Whole, Awaits, Outermost
  <2> QED
    BY <1>1, <2>2, <2>4, <2>5, <2>6 DEF WholeInv
<1> QED
  BY <1>2, <1>3

\* The invariant is the one of the compilations in which nothing goes wrong: an
\* error is never forgotten (VisitTrouble), so what was generated with one does
\* not count.
StillWhole == prog.badAssert = {} /\ compile # "halted" /\ ~Trouble => WholeInv

LEMMA WholeStep ==
    TypeOK /\ StackInv /\ ValidationMatchesCalls /\ StillOnce /\ StillWhole /\ [Next]_vars
        => StillWhole'
<1> SUFFICES ASSUME TypeOK, StackInv, ValidationMatchesCalls, StillOnce, StillWhole, [Next]_vars,
                    prog'.badAssert = {}, compile' # "halted", ~Trouble'
             PROVE  WholeInv'
  BY DEF StillWhole
<1>1. CASE UNCHANGED vars
  <2>1. Trouble' = Trouble /\ Line' = Line
    BY <1>1 DEF vars, visitor, driver, Trouble, Line
  <2> QED
    BY <1>1, <2>1 DEF vars, visitor, driver, StillWhole, WholeInv
<1>2. CASE Next
  <2>1. UNCHANGED prog
    BY <1>2 DEF Next, Visit, ResolveAncestor, AncestorResolved, BeginContent, ReferClass,
         ReferenceResolved, EndVtable, EndContent, FinishClass, FinishInvalid,
         PostNext, PostDone, PostAbandoned, BeginPost, EndPostVtable, EndPost,
         Drive, ValidateModuleClass, UseClass, RootReturned, EndModule,
         ValidateClassFull, EndClasses
  <2>2. ~Trouble
    BY <1>2, VisitTrouble, DriveTrouble DEF Next
  <2>3. compile # "halted"
    BY HaltedStays
  <2>4. WholeInv /\ MatchInv /\ (compile = "module" => queue = <<>>)
    BY <2>1, <2>2, <2>3 DEF StillWhole, ValidationMatchesCalls, MatchInv, StillOnce, OnceInv, Phases
  <2> QED
    BY <1>2, <2>1, <2>2, <2>4, VisitWhole, DriveWhole DEF Next
<1> QED
  BY <1>1, <1>2

LEMMA WholeInit == Init => WholeInv
<1> SUFFICES ASSUME Init PROVE WholeInv
  OBVIOUS
<1>1. Line = <<>> /\ Elements(Line) = {} /\ Elements(stack) = {}
  BY DEF Init, Line, Elements
<1> QED
  BY <1>1 DEF Init, WholeInv, Whole, OfKind

LEMMA WholeSuffices ==
    TypeOK /\ StillOnce /\ StillWhole => (prog.badAssert = {} => EmittedComplete)
<1> SUFFICES ASSUME TypeOK, StillOnce, StillWhole, prog.badAssert = {},
                    compile = "done", ~dropped, NEW c \in Elements(list)
             PROVE  IsClass(c) /\ gen[c].asserted /\ c \in gen[c].values
  BY DEF EmittedComplete
<1>1. /\ stack = <<>> /\ ret = "none" /\ ~errors
      /\ queue = <<>> /\ toValidate = <<>>
  BY DEF StillOnce, OnceInv, Phases, Idle
<1>2. Elements(stack) = {}
  BY <1>1 DEF Elements
<1>3. WholeInv
  BY <1>1, <1>2 DEF StillWhole, Trouble
<1>4. Line = list
  <2>1. list \in Seq(Class)
    BY DEF TypeOK
  <2> QED
    BY <1>1, <2>1, ConcatEmptySeq DEF Line
<1>5. c \in Class
  BY SeqElement DEF TypeOK, Elements
<1>6. IsClass(c) /\ (Complete(gen[c], c) \/ Awaits(gen, {}, <<>>, c))
  BY <1>1, <1>2, <1>3, <1>4, <1>5 DEF WholeInv, Whole, IsClass
<1> QED
  BY <1>6 DEF Complete, Awaits, Elements

\* When no assertion fails and no caller drops an error, every class the
\* generation phase receives is complete: it has a Class generator, its
\* assertions were verified and the default values of its methods validated, be
\* it reached first by the module, by the body of a function or in the middle of
\* the validation of another class, for any set of classes and any program.
THEOREM GeneratedComplete == Spec => [](prog.badAssert = {} => EmittedComplete)
<1>1. Init => StackInv /\ StillOnce /\ StillWhole
  <2>1. Init => StackInv
    BY DEF Init, StackInv, ActiveContent, LevelsGrow, PostIsOutermost, NoNewCall
  <2> QED
    BY <2>1, OnceInit, WholeInit DEF StillOnce, StillWhole
<1> QED
  BY <1>1, StackStep, OnceStep, WholeStep, WholeSuffices, TypeCorrect, ListFollowsCalls, PTL
     DEF Spec

\* What a run checks of the two: the generation phase receives every class the
\* program needs once, and complete unless an assertion has failed or an error
\* has been dropped.
THEOREM ClassesAreGenerated == Spec => []Generated
  BY GeneratedOnce, GeneratedComplete, PTL DEF Generated

-----------------------------------------------------------------------------
(* The lineage of a class and what its declaration mentions.                *)

LEMMA LineageLeast ==
    ASSUME NEW c, NEW S \in SUBSET Class, c \in S,
           \A y \in S : Ancestor(y) \in S \cup {NoClass}
    PROVE  Lineage(c) \subseteq S
BY DEF Lineage

LEMMA LineageHolds ==
    ASSUME NEW c \in Class
    PROVE  c \in Lineage(c) /\ Lineage(c) \subseteq Class
BY DEF Lineage

LEMMA LineageClosed ==
    ASSUME TypeOK, NEW c \in Class, NEW y \in Lineage(c)
    PROVE  Ancestor(y) \in Lineage(c) \cup {NoClass}
<1>1. y \in Class
  BY LineageHolds
<1>2. Ancestor(y) \in Class \cup {NoClass}
  BY <1>1 DEF TypeOK, ProgramType, Declarations, Ancestor
<1> QED
  BY <1>1, <1>2 DEF Lineage

\* The lineage of the ancestor of a class.
Inherited(c) == IF Ancestor(c) = NoClass THEN {} ELSE Lineage(Ancestor(c))

LEMMA LineageStep ==
    ASSUME TypeOK, NEW c \in Class
    PROVE  Lineage(c) = Inherited(c) \cup {c}
<1>1. Ancestor(c) \in Class \cup {NoClass} /\ NoClass \notin Class
  BY NoClassAssumption DEF TypeOK, ProgramType, Declarations, Ancestor
<1> DEFINE S == Inherited(c) \cup {c}
<1>2. S \subseteq Class /\ c \in S
  BY <1>1, LineageHolds DEF Inherited
<1>3. \A y \in S : Ancestor(y) \in S \cup {NoClass}
  <2>1. Ancestor(c) \in S \cup {NoClass}
    BY <1>1, LineageHolds DEF Inherited
  <2>2. ASSUME NEW y \in Inherited(c)
        PROVE  Ancestor(y) \in S \cup {NoClass}
    BY <1>1, LineageClosed DEF Inherited
  <2> QED
    BY <2>1, <2>2
<1>4. Lineage(c) \subseteq S
  BY <1>2, <1>3, LineageLeast
<1>5. c \in Lineage(c) /\ Lineage(c) \subseteq Class
  BY LineageHolds
<1>6. \A y \in Lineage(c) : Ancestor(y) \in Lineage(c) \cup {NoClass}
  BY LineageClosed
<1>7. CASE Ancestor(c) # NoClass
  <2>1. Lineage(Ancestor(c)) \subseteq Lineage(c)
    BY <1>5, <1>6, <1>7, LineageLeast
  <2> QED
    BY <1>4, <1>5, <1>7, <2>1 DEF Inherited
<1>8. CASE Ancestor(c) = NoClass
  BY <1>4, <1>5, <1>8 DEF Inherited
<1> QED
  BY <1>7, <1>8

LEMMA DirectMentionsType ==
    ASSUME TypeOK, NEW c \in Class
    PROVE  DirectMentions(c) \subseteq Class
BY DEF TypeOK, ProgramType, Declarations, DirectMentions, Ancestor

LEMMA MentionsDirect ==
    ASSUME TypeOK, NEW c \in Class
    PROVE  DirectMentions(c) \subseteq Mentions(c)
BY DirectMentionsType DEF Mentions

LEMMA MentionsClosed ==
    ASSUME TypeOK, NEW c \in Class, NEW d \in Mentions(c)
    PROVE  DirectMentions(d) \subseteq Mentions(c)
<1>1. d \in Class
  BY DEF Mentions
<1>2. DirectMentions(d) \subseteq Class
  BY <1>1, DirectMentionsType
<1> QED
  BY <1>2 DEF Mentions

\* In a layered program no class is mentioned by its ancestor.
LEMMA AncestorIsBefore ==
    ASSUME TypeOK, Layered, NEW c \in Class, Ancestor(c) # NoClass, Ancestor(c) # c
    PROVE  c \notin Mentions(Ancestor(c))
<1>1. Ancestor(c) \in Class /\ Ancestor(c) \in Lineage(c)
  BY LineageHolds, LineageStep DEF TypeOK, ProgramType, Declarations, Ancestor, Inherited
<1> QED
  BY <1>1 DEF Layered

-----------------------------------------------------------------------------
(* Each class sound. *)

Content(f) == ~f.isPost /\ Pushed(f)

Underway(F, c) == \E f \in F : Content(f) /\ f.cls = c

Accepted(g, c) ==
    \/ Ancestor(c) = NoClass
    \/ /\ Ancestor(c) # c /\ Ancestor(c) \notin prog.final
       /\ g[Ancestor(c)].kind = "class"

SoundClass(G, c) ==
    /\ c \notin prog.badVtable
    /\ Layered => /\ G.vtable = Lineage(c) /\ G.fields = Lineage(c)
                  /\ c \in prog.clash => Ancestor(c) = NoClass

SoundGens(g, F) ==
    \A c \in Class : g[c].kind = "class" =>
        Accepted(g, c) /\ (Underway(F, c) \/ SoundClass(g[c], c))

SoundFrame(g, f) ==
    /\ f.pc = "begin" \/ Pushed(f) => Accepted(g, f.cls)
    /\ f.pc = "postAll" => g[f.cls].kind = "class"
    /\ Pushed(f) =>
          /\ f.todo \subseteq DirectMentions(f.cls)
          /\ Layered => f.base.vtable = Inherited(f.cls)
    /\ Content(f) /\ f.pc = "fields" =>
          f.cls \notin prog.badVtable /\ (Layered => g[f.cls].vtable = Lineage(f.cls))

\* Two calls of a stack, the second above the first.
Nested(f, k) == Content(f) => k.cls \in Mentions(f.cls)

\* A call and the one it made.
Made(f, k) ==
    /\ f.pc = "inherit" => k.cls = Ancestor(f.cls) /\ ~k.isPost
    /\ k.isPost => f.pc = "postAll"

Linked(s) ==
    /\ \A i, j \in DOMAIN s : i < j => Nested(s[i], s[j])
    /\ \A i \in 1 .. Len(s) - 1 : Made(s[i], s[i + 1])

SoundInv ==
    /\ \A c \in Elements(Line) : gen[c].kind = "class"
    /\ SoundGens(gen, Elements(stack))
    /\ \A f \in Elements(stack) : SoundFrame(gen, f)
    /\ Linked(stack)
    /\ ret = "ok" /\ stack # <<>> /\ Top.pc = "inherit" => IsClass(Ancestor(Top.cls))

\* The definitions that only depend on the program.
LEMMA ProgramKept ==
    ASSUME UNCHANGED prog
    PROVE  /\ Layered' = Layered
           /\ \A c : /\ Ancestor(c)' = Ancestor(c) /\ Lineage(c)' = Lineage(c)
                     /\ Inherited(c)' = Inherited(c) /\ DirectMentions(c)' = DirectMentions(c)
                     /\ Mentions(c)' = Mentions(c)
<1>1. \A c : Ancestor(c)' = Ancestor(c)
  BY DEF Ancestor
<1>2. \A c : Lineage(c)' = Lineage(c)
  BY <1>1 DEF Lineage
<1>3. \A c : Inherited(c)' = Inherited(c)
  BY <1>1, <1>2 DEF Inherited
<1>4. \A c : DirectMentions(c)' = DirectMentions(c)
  BY <1>1 DEF DirectMentions
<1>5. \A c : Mentions(c)' = Mentions(c)
  BY <1>4 DEF Mentions
<1>6. Layered' = Layered
  BY <1>2, <1>5 DEF Layered
<1> QED
  BY <1>1, <1>2, <1>3, <1>4, <1>5, <1>6

\* A stack that loses its topmost frame, has it replaced, or gets a new one.
LEMMA LinkedDropped ==
    ASSUME NEW s \in Seq(Frame), s # <<>>, Linked(s)
    PROVE  Linked(SubSeq(s, 1, Len(s) - 1))
<1> DEFINE t == SubSeq(s, 1, Len(s) - 1)
           n == Len(s)
<1>1. t \in Seq(Frame) /\ Len(t) = n - 1 /\ \A i \in 1 .. n - 1 : t[i] = s[i]
  BY DropTop
<1>2. n \in Nat \ {0} /\ DOMAIN s = 1 .. n
  BY SeqLen
<1> HIDE DEF t, n
<1>3. DOMAIN t = 1 .. n - 1
  BY <1>1, SeqLen
<1>4. \A i \in 1 .. n - 1 : i \in 1 .. n
  BY <1>2
<1>5. \A i \in 1 .. n - 1 - 1 : i \in 1 .. n - 1 /\ i + 1 \in 1 .. n - 1
  BY <1>2
<1>6. \A i, j \in 1 .. n - 1 : i < j => Nested(t[i], t[j])
  BY <1>1, <1>2, <1>4 DEF Linked
<1>7. \A i \in 1 .. n - 1 - 1 : Made(t[i], t[i + 1])
  BY <1>1, <1>5 DEF Linked, n
<1>8. Linked(t)
  BY <1>1, <1>3, <1>6, <1>7 DEF Linked
<1> QED
  BY <1>8 DEF t

LEMMA LinkedReplaced ==
    ASSUME NEW s \in Seq(Frame), s # <<>>, Linked(s), NEW f \in Frame,
           f.cls = s[Len(s)].cls, f.isPost = s[Len(s)].isPost
    PROVE  Linked([s EXCEPT ![Len(s)] = f])
<1> DEFINE t == [s EXCEPT ![Len(s)] = f]
           n == Len(s)
<1>1. t \in Seq(Frame) /\ Len(t) = n /\ t[n] = f /\ \A i \in 1 .. n - 1 : t[i] = s[i]
  BY ReplaceTop
<1>2. n \in Nat \ {0} /\ DOMAIN s = 1 .. n
  BY SeqLen
<1>3. f.cls = s[n].cls /\ f.isPost = s[n].isPost
  OBVIOUS
<1> HIDE DEF t, n
<1>4. DOMAIN t = 1 .. n
  BY <1>1, SeqLen
<1>5. \A j \in 1 .. n : t[j].cls = s[j].cls /\ t[j].isPost = s[j].isPost
  <2>1. \A j \in 1 .. n : j = n \/ j \in 1 .. n - 1
    BY <1>2
  <2> QED
    BY <1>1, <1>3, <2>1
<1>6. \A i, j \in 1 .. n : i < j => i \in 1 .. n - 1
  BY <1>2
<1>7. ASSUME NEW i \in 1 .. n, NEW j \in 1 .. n, i < j
      PROVE  Nested(t[i], t[j])
  <2>1. t[i] = s[i] /\ Nested(s[i], s[j])
    BY <1>1, <1>2, <1>6, <1>7 DEF Linked
  <2> QED
    BY <1>5, <2>1 DEF Nested
<1>8. ASSUME NEW i \in 1 .. n - 1
      PROVE  Made(t[i], t[i + 1])
  <2>1. t[i] = s[i] /\ Made(s[i], s[i + 1]) /\ i + 1 \in 1 .. n
    BY <1>1, <1>2, <1>8 DEF Linked, n
  <2> QED
    BY <1>5, <2>1 DEF Made
<1>9. Linked(t)
  BY <1>1, <1>4, <1>7, <1>8 DEF Linked
<1> QED
  BY <1>9 DEF t

LEMMA LinkedCalled ==
    ASSUME NEW s \in Seq(Frame), s # <<>>, Linked(s), NEW k \in Frame,
           \A i \in DOMAIN s : Nested(s[i], k), Made(s[Len(s)], k)
    PROVE  Linked(Append(s, k))
<1> DEFINE t == Append(s, k)
           n == Len(s)
<1>1. t \in Seq(Frame) /\ Len(t) = n + 1 /\ t[n + 1] = k /\ \A i \in 1 .. n : t[i] = s[i]
  BY PushFrame
<1>2. n \in Nat \ {0} /\ DOMAIN s = 1 .. n
  BY SeqLen
<1>3. Made(s[n], k)
  OBVIOUS
<1> HIDE DEF t, n
<1>4. DOMAIN t = 1 .. n + 1
  BY <1>1, SeqLen
<1>5. \A i \in 1 .. n + 1 : i = n + 1 \/ i \in 1 .. n
  BY <1>2
<1>6. ASSUME NEW i \in 1 .. n + 1, NEW j \in 1 .. n + 1, i < j
      PROVE  Nested(t[i], t[j])
  <2>1. i \in 1 .. n /\ t[i] = s[i]
    BY <1>1, <1>2, <1>6
  <2>2. CASE j = n + 1
    BY <1>1, <1>2, <2>1, <2>2
  <2>3. CASE j \in 1 .. n
    BY <1>1, <1>2, <1>6, <2>1, <2>3 DEF Linked
  <2> QED
    BY <1>5, <2>2, <2>3
<1>7. ASSUME NEW i \in 1 .. n
      PROVE  Made(t[i], t[i + 1])
  <2>1. CASE i = n
    BY <1>1, <1>2, <1>3, <2>1
  <2>2. CASE i # n
    <3>1. i \in 1 .. n - 1 /\ i + 1 \in 1 .. n
      BY <1>2, <2>2
    <3>2. Made(s[i], s[i + 1])
      BY <3>1 DEF Linked, n
    <3> QED
      BY <1>1, <3>1, <3>2
  <2> QED
    BY <2>1, <2>2
<1>8. Len(t) - 1 = n
  BY <1>1, <1>2
<1>9. Linked(t)
  BY <1>4, <1>6, <1>7, <1>8 DEF Linked
<1> QED
  BY <1>9 DEF t

-----------------------------------------------------------------------------
(* The shapes of a step that leave every class sound. *)

\* The invariant of the next state, with the program left as it is.
LEMMA SoundNext ==
    ASSUME UNCHANGED prog,
           \A c \in Elements(Line') : gen'[c].kind = "class",
           SoundGens(gen', Elements(stack')),
           \A f \in Elements(stack') : SoundFrame(gen', f),
           Linked(stack'),
           ret' = "ok" /\ stack' # <<>> /\ Top'.pc = "inherit" =>
               gen'[Ancestor(Top'.cls)].kind = "class"
    PROVE  SoundInv'
<1>1. /\ Layered' = Layered
      /\ \A c : /\ Ancestor(c)' = Ancestor(c) /\ Lineage(c)' = Lineage(c)
                /\ Inherited(c)' = Inherited(c) /\ DirectMentions(c)' = DirectMentions(c)
                /\ Mentions(c)' = Mentions(c)
  BY ProgramKept
<1>2. SoundGens(gen, Elements(stack))'
  BY <1>1 DEF SoundGens, Accepted, SoundClass
<1>3. \A f \in Elements(stack') : SoundFrame(gen, f)'
  BY <1>1 DEF SoundFrame, Accepted
<1>4. Linked(stack)'
  BY <1>1 DEF Linked, Nested, Made
<1>5. (ret = "ok" /\ stack # <<>> /\ Top.pc = "inherit" => IsClass(Ancestor(Top.cls)))'
  BY <1>1 DEF IsClass
<1> QED
  BY <1>2, <1>3, <1>4, <1>5 DEF SoundInv

\* The calls below the topmost one.
LEMMA CallersOf ==
    ASSUME TypeOK, stack # <<>>
    PROVE  /\ Len(stack) \in Nat \ {0} /\ DOMAIN stack = 1 .. Len(stack)
           /\ Top = stack[Len(stack)]
           /\ \A i \in 1 .. Len(stack) - 1 : i \in DOMAIN stack /\ i < Len(stack)
           /\ \A i \in DOMAIN stack : i = Len(stack) \/ i \in 1 .. Len(stack) - 1
           /\ \A i \in DOMAIN stack : stack[i] \in Elements(stack)
           /\ Callers \in Seq(Frame) /\ DOMAIN Callers = 1 .. Len(stack) - 1
           /\ \A i \in 1 .. Len(stack) - 1 : Callers[i] = stack[i]
<1> DEFINE n == Len(stack)
<1>1. stack \in Seq(Frame) /\ n \in Nat \ {0} /\ DOMAIN stack = 1 .. n /\ Top = stack[n]
  BY SeqLen DEF TypeOK, Top, Depth
<1>2. Callers \in Seq(Frame) /\ Len(Callers) = n - 1 /\ \A i \in 1 .. n - 1 : Callers[i] = stack[i]
  BY <1>1, DropTop DEF Callers, Depth
<1> HIDE DEF n
<1>3. DOMAIN Callers = 1 .. n - 1
  BY <1>2, SeqLen
<1>4. /\ \A i \in 1 .. n - 1 : i \in 1 .. n /\ i < n
      /\ \A i \in 1 .. n : i = n \/ i \in 1 .. n - 1
  BY <1>1
<1>5. \A i \in DOMAIN stack : stack[i] \in Elements(stack)
  BY DEF Elements
<1> QED
  BY <1>1, <1>2, <1>3, <1>4, <1>5 DEF n

\* A content that is active below the topmost call.
LEMMA ContentBelow ==
    ASSUME TypeOK, StackInv, stack # <<>>, NEW l \in Elements(Callers), Content(l)
    PROVE  ~IsPostFrame(Top) /\ (Rebuilding(Top) => l.cls # Top.cls)
<1>1. PICK i \in 1 .. Len(stack) - 1 : l = stack[i]
  BY CallersOf DEF Elements
<1>2. i \in DOMAIN stack /\ Len(stack) \in DOMAIN stack /\ i < Len(stack) /\ Top = stack[Len(stack)]
  BY CallersOf
<1> QED
  BY <1>1, <1>2 DEF StackInv, ActiveContent, PostIsOutermost, Content

LEMMA NestedBelow ==
    ASSUME TypeOK, Linked(stack), stack # <<>>, NEW l \in Elements(Callers)
    PROVE  Nested(l, Top)
<1>1. PICK i \in 1 .. Len(stack) - 1 : l = stack[i]
  BY CallersOf DEF Elements
<1>2. i \in DOMAIN stack /\ Len(stack) \in DOMAIN stack /\ i < Len(stack) /\ Top = stack[Len(stack)]
  BY CallersOf
<1> QED
  BY <1>1, <1>2 DEF Linked

\* The topmost call goes on, and may change the generator of its class.
LEMMA SetSound ==
    ASSUME TypeOK, StackInv, SoundInv, stack # <<>>, UNCHANGED prog,
           NEW f \in Frame, SetTop(f), f.cls = Top.cls, f.isPost = Top.isPost,
           f.pc # "inherit", gen' = gen \/ Rebuilding(Top),
           \A c \in Class \ {f.cls} : gen'[c] = gen[c],
           gen[f.cls].kind = "class" => gen'[f.cls].kind = "class",
           SoundFrame(gen', f),
           gen'[f.cls].kind = "class" =>
               /\ Accepted(gen', f.cls)
               /\ Underway(Elements(Callers) \cup {f}, f.cls) \/ SoundClass(gen'[f.cls], f.cls),
           \A c \in Elements(Line') : gen'[c].kind = "class"
    PROVE  SoundInv'
<1> DEFINE L == Elements(Callers)
<1>1. /\ Elements(stack) = L \cup {Top} /\ Elements(stack') = L \cup {f}
      /\ stack' # <<>> /\ \A l \in L : l \in Frame /\ l.cls \in Class
  BY FramesOf, FramesSet
<1>2. Top' = f
  <2>1. stack' = [stack EXCEPT ![Len(stack)] = f]
    BY DEF SetTop, Depth
  <2> QED
    BY <2>1, ReplaceTop DEF Top, Depth, TypeOK
<1>3. f.cls \in Class
  BY DEF Frame
<1>4. \A c \in Class : gen[c].kind = "class" => gen'[c].kind = "class"
  OBVIOUS
<1>5. \A c \in Class : Ancestor(c) \in Class \cup {NoClass}
  BY DEF TypeOK, ProgramType, Declarations, Ancestor
<1>6. \A c \in Class : Accepted(gen, c) => Accepted(gen', c)
  BY <1>4, <1>5 DEF Accepted
<1>7. SoundGens(gen', Elements(stack'))
  <2> SUFFICES ASSUME NEW c \in Class, gen'[c].kind = "class", c # f.cls
               PROVE  Accepted(gen', c) /\ (Underway(L \cup {f}, c) \/ SoundClass(gen'[c], c))
    BY <1>1 DEF SoundGens
  <2>1. gen'[c] = gen[c]
    OBVIOUS
  <2>2. Accepted(gen, c) /\ (Underway(L \cup {Top}, c) \/ SoundClass(gen[c], c))
    BY <1>1, <2>1 DEF SoundInv, SoundGens
  <2>3. Underway(L \cup {Top}, c) => Underway(L \cup {f}, c)
    BY DEF Underway
  <2> QED
    BY <1>6, <2>1, <2>2, <2>3
<1>8. ASSUME NEW l \in L
      PROVE  SoundFrame(gen', l)
  <2>1. SoundFrame(gen, l) /\ l.cls \in Class
    BY <1>1 DEF SoundInv
  <2>2. Content(l) => gen'[l.cls] = gen[l.cls]
    BY <2>1, ContentBelow
  <2> QED
    BY <1>4, <1>6, <2>1, <2>2 DEF SoundFrame
<1>9. Linked(stack')
  BY CallersOf, LinkedReplaced DEF SetTop, Depth, TypeOK, SoundInv
<1> QED
  BY <1>1, <1>2, <1>7, <1>8, <1>9, SoundNext

\* The topmost call goes on and changes no generator.
LEMMA QuietSound ==
    ASSUME TypeOK, StackInv, SoundInv, stack # <<>>, UNCHANGED <<prog, gen>>, Line' = Line,
           NEW f \in Frame, SetTop(f), f.cls = Top.cls, f.isPost = Top.isPost,
           f.pc # "inherit", Pushed(f) <=> Pushed(Top),
           SoundFrame(gen, f)
    PROVE  SoundInv'
<1> DEFINE L == Elements(Callers)
<1>1. Elements(stack) = L \cup {Top} /\ f.cls \in Class
  BY FramesOf DEF Frame
<1>2. ASSUME gen[f.cls].kind = "class"
      PROVE  /\ Accepted(gen, f.cls)
             /\ Underway(L \cup {f}, f.cls) \/ SoundClass(gen[f.cls], f.cls)
  <2>1. Accepted(gen, f.cls) /\ (Underway(L \cup {Top}, f.cls) \/ SoundClass(gen[f.cls], f.cls))
    BY <1>1, <1>2 DEF SoundInv, SoundGens
  <2>2. Underway(L \cup {Top}, f.cls) => Underway(L \cup {f}, f.cls)
    BY DEF Underway, Content
  <2> QED
    BY <1>2, <2>1, <2>2 DEF SoundInv
<1>3. \A c \in Elements(Line') : gen[c].kind = "class"
  BY DEF SoundInv
<1> QED
  BY <1>2, <1>3, SetSound

\* It makes a call.
LEMMA CallSound ==
    ASSUME TypeOK, StackInv, SoundInv, stack # <<>>, UNCHANGED <<prog, gen>>, Line' = Line,
           NEW f \in Frame, NEW k \in Frame, Invoke(f, k), f.cls = Top.cls, f.isPost = Top.isPost,
           Pushed(f) <=> Pushed(Top), SoundFrame(gen, f), k.pc \in {"ancestor", "finish"},
           k.cls \in DirectMentions(f.cls) \/ IsPostFrame(Top), Made(f, k)
    PROVE  SoundInv'
<1> DEFINE L == Elements(Callers)
           t == [stack EXCEPT ![Len(stack)] = f]
<1>1. /\ Elements(stack) = L \cup {Top} /\ Elements(stack') = L \cup {f, k}
      /\ stack' # <<>> /\ \A l \in L : l \in Frame /\ l.cls \in Class
  BY FramesOf, FramesCall
<1>2. /\ t \in Seq(Frame) /\ Len(t) = Len(stack) /\ t[Len(stack)] = f
      /\ \A i \in 1 .. Len(stack) - 1 : t[i] = stack[i]
  BY ReplaceTop DEF TypeOK
<1>3. stack' = Append(t, k)
  BY DEF Invoke, Depth
<1>4. Linked(t)
  BY CallersOf, LinkedReplaced DEF TypeOK, SoundInv
<1> HIDE DEF t
<1>5. t # <<>> /\ DOMAIN t = DOMAIN stack
  <2>1. DOMAIN t = 1 .. Len(t) /\ Len(stack) \in Nat \ {0} /\ DOMAIN stack = 1 .. Len(stack)
    BY <1>2, SeqLen, CallersOf
  <2>2. Len(t) # 0
    BY <1>2, <2>1
  <2> QED
    BY <1>2, <2>1, <2>2, SeqLen
<1>6. Top' = k
  <2>1. Len(stack') = Len(t) + 1 /\ stack'[Len(t) + 1] = k
    BY <1>2, <1>3, PushFrame
  <2> QED
    BY <2>1 DEF Top, Depth
<1>7. f.cls \in Class /\ k.cls \in Class
  BY DEF Frame
<1>8. \A c \in Class : Underway(Elements(stack), c) => Underway(Elements(stack'), c)
  BY <1>1 DEF Underway, Content
<1>9. SoundGens(gen, Elements(stack'))
  BY <1>8 DEF SoundInv, SoundGens
<1>10. ~Pushed(k) /\ SoundFrame(gen, k)
  BY DEF SoundFrame, Pushed, Content
<1>11. \A l \in Elements(stack') : SoundFrame(gen, l)
  BY <1>1, <1>10 DEF SoundInv
<1>12. ASSUME NEW i \in DOMAIN t
       PROVE  Nested(t[i], k)
  <2> SUFFICES ASSUME Content(t[i])
               PROVE  k.cls \in Mentions(t[i].cls)
    BY DEF Nested
  <2>1. ~IsPostFrame(Top)
    <3>1. CASE i = Len(stack)
      BY <1>2, <3>1 DEF Content, Pushed, IsPostFrame
    <3>2. CASE i \in 1 .. Len(stack) - 1
      <4>1. t[i] \in L
        BY <1>2, <3>2, CallersOf DEF Elements
      <4> QED
        BY <4>1, ContentBelow
    <3> QED
      BY <1>5, <3>1, <3>2, CallersOf
  <2>2. CASE i = Len(stack)
    BY <1>2, <1>7, <2>1, <2>2, MentionsDirect
  <2>3. CASE i \in 1 .. Len(stack) - 1
    <3>1. t[i] \in L
      BY <1>2, <2>3, CallersOf DEF Elements
    <3>2. Nested(t[i], Top) /\ t[i].cls \in Class
      BY <1>1, <3>1, NestedBelow DEF SoundInv
    <3>3. f.cls \in Mentions(t[i].cls)
      BY <3>2 DEF Nested
    <3> QED
      BY <2>1, <3>2, <3>3, MentionsClosed
  <2> QED
    BY <1>5, <2>2, <2>3, CallersOf
<1>13. Linked(stack')
  BY <1>2, <1>3, <1>4, <1>5, <1>12, LinkedCalled
<1>14. \A c \in Elements(Line') : gen'[c].kind = "class"
  BY DEF SoundInv
<1> QED
  BY <1>6, <1>9, <1>11, <1>13, <1>14, SoundNext

\* The declaration of a class names another one.
LEMMA ReferSound ==
    ASSUME TypeOK, StackInv, SoundInv, stack # <<>>, UNCHANGED <<prog, gen>>, Line' = Line,
           NEW f \in Frame, NEW c \in Class, Refer(f, c), ret' # "throw",
           f.cls = Top.cls, f.isPost = Top.isPost, Pushed(f) <=> Pushed(Top),
           SoundFrame(gen, f), c \in DirectMentions(f.cls),
           f.pc = "inherit" => c = Ancestor(f.cls)
    PROVE  SoundInv'
<1> DEFINE k == ValidateCall(c, c \in New)
<1>1. (c \in New) \in BOOLEAN
  OBVIOUS
<1>2. /\ k \in Frame /\ k.cls = c /\ ~k.isPost
      /\ k.pc = IF gen[c].kind = "empty" \/ c \in New THEN "ancestor" ELSE "finish"
  BY <1>1, ValidateCallType DEF ValidateCall, NewFrame
<1>3. Invoke(f, k)
  BY DEF Refer
<1> HIDE DEF k
<1>4. Made(f, k) /\ k.pc \in {"ancestor", "finish"}
  BY <1>2 DEF Made
<1> QED
  BY <1>2, <1>3, <1>4, CallSound

\* It answers that its class is valid.
LEMMA AnswerSound ==
    ASSUME TypeOK, SoundInv, stack # <<>>, UNCHANGED <<prog, gen>>, Line' = Line,
           Return("ok"), ~Pushed(Top), IsClass(Top.cls) \/ Top.isPost
    PROVE  SoundInv'
<1>1. Elements(stack) = Elements(Callers) \cup {Top} /\ Elements(stack') = Elements(Callers)
  BY FramesOf, FramesReturn
<1>2. \A c \in Class : Underway(Elements(stack), c) => Underway(Elements(stack'), c)
  BY <1>1 DEF Underway, Content
<1>3. SoundGens(gen, Elements(stack'))
  BY <1>2 DEF SoundInv, SoundGens
<1>4. \A f \in Elements(stack') : SoundFrame(gen, f)
  BY <1>1 DEF SoundInv
<1>5. Linked(stack')
  BY LinkedDropped DEF Return, Callers, Depth, TypeOK, SoundInv
<1>6. ASSUME stack' # <<>>, Top'.pc = "inherit"
      PROVE  gen'[Ancestor(Top'.cls)].kind = "class"
  <2> DEFINE n == Len(stack)
  <2>1. /\ n \in Nat \ {0} /\ stack' = Callers /\ Len(Callers) = n - 1 /\ Top = stack[n]
        /\ \A i \in 1 .. n - 1 : Callers[i] = stack[i]
    BY CallersOf, DropTop DEF Return, Callers, Depth, TypeOK
  <2>2. Callers \in Seq(Frame) /\ Len(Callers) # 0
    BY <1>6, <2>1, CallersOf, SeqLen
  <2>3. Top' = Callers[n - 1]
    BY <2>1 DEF Top, Depth
  <2>4. \A i \in 1 .. n - 1 : Made(stack[i], stack[i + 1])
    BY DEF SoundInv, Linked
  <2> HIDE DEF n
  <2>5. n - 1 \in 1 .. n - 1 /\ (n - 1) + 1 = n
    BY <2>1, <2>2
  <2>6. Made(Top', Top)
    BY <2>1, <2>3, <2>4, <2>5
  <2> QED
    BY <1>6, <2>6 DEF Made, IsClass
<1>7. \A c \in Elements(Line') : gen'[c].kind = "class"
  BY DEF SoundInv
<1> QED
  BY <1>3, <1>4, <1>5, <1>6, <1>7, SoundNext

\* The generator of its class changes, and the class may be inserted in the
\* queue of the generation phase.
LEMMA ChangeSound ==
    ASSUME TypeOK, StackInv, SoundInv, stack # <<>>, Rebuilding(Top),
           UNCHANGED <<prog, list, queue>>,
           NEW f \in Frame, SetTop(f), f.cls = Top.cls, f.isPost = Top.isPost, f.pc # "inherit",
           NEW h, gen' = [gen EXCEPT ![Top.cls] = h],
           gen[Top.cls].kind = "class" => h.kind = "class",
           toValidate' = toValidate \/
               (toValidate' = Append(toValidate, Top.cls) /\ h.kind = "class"),
           SoundFrame(gen', f),
           h.kind = "class" =>
               Accepted(gen', Top.cls) /\ (Content(f) \/ SoundClass(h, Top.cls))
    PROVE  SoundInv'
<1>1. Top.cls \in Class
  BY FramesOf
<1>2. gen'[Top.cls] = h /\ \A c \in Class \ {Top.cls} : gen'[c] = gen[c]
  BY <1>1 DEF TypeOK
<1>3. \A c \in Class : gen[c].kind = "class" => gen'[c].kind = "class"
  BY <1>2
<1>4. \A c \in Elements(Line') : gen'[c].kind = "class"
  <2>0. Elements(Line) \subseteq Class
    BY LineType DEF Elements
  <2>1. CASE toValidate' = toValidate
    <3>1. Line' = Line
      BY <2>1 DEF Line
    <3> QED
      BY <1>3, <2>0, <3>1 DEF SoundInv
  <2>2. CASE toValidate' = Append(toValidate, Top.cls) /\ h.kind = "class"
    <3>0. list \in Seq(Class) /\ queue \in Seq(Class) /\ toValidate \in Seq(Class)
      BY DEF TypeOK
    <3>1. Line' = Append(Line, Top.cls)
      BY <1>1, <2>2, <3>0, LineAppended DEF Line
    <3>2. Elements(Line') = Elements(Line) \cup {Top.cls}
      BY <1>1, <3>1, LineType, ElementsOfAppend
    <3> QED
      BY <1>2, <1>3, <2>0, <2>2, <3>2 DEF SoundInv
  <2> QED
    BY <2>1, <2>2
<1>5. Content(f) => Underway(Elements(Callers) \cup {f}, f.cls)
  BY DEF Underway
<1> QED
  BY <1>2, <1>4, <1>5, SetSound

\* What the heir of a class copies of it: in a layered program the ancestor is
\* never being built when a content or the post validation of its heir is.
LEMMA AncestorSound ==
    ASSUME TypeOK, StackInv, SoundInv, stack # <<>>, Rebuilding(Top), Layered,
           Accepted(gen, Top.cls)
    PROVE  /\ VtableOf(Top.cls).vtable = Inherited(Top.cls)
           /\ VtableOf(Top.cls).fields = Inherited(Top.cls)
<1> DEFINE c == Top.cls
           a == Ancestor(c)
<1>1. c \in Class /\ Elements(stack) = Elements(Callers) \cup {Top}
  BY FramesOf
<1>2. CASE a = NoClass
  BY <1>2 DEF VtableOf, Inherited, OfKind
<1>3. CASE a # NoClass
  <2>1. a \in Class /\ a # c /\ gen[a].kind = "class"
    BY <1>1, <1>3 DEF Accepted, TypeOK, ProgramType, Declarations, Ancestor
  <2>2. ASSUME NEW l \in Elements(stack), Content(l), l.cls = a
        PROVE  FALSE
    <3>1. l \in Elements(Callers)
      BY <1>1, <2>1, <2>2
    <3>2. c \in Mentions(a)
      BY <2>2, <3>1, NestedBelow DEF Nested, SoundInv
    <3> QED
      BY <1>1, <1>3, <2>1, <3>2, AncestorIsBefore
  <2>3. SoundClass(gen[a], a)
    BY <2>1, <2>2 DEF SoundInv, SoundGens, Underway
  <2> QED
    BY <1>3, <2>3 DEF VtableOf, Inherited, SoundClass
<1> QED
  BY <1>2, <1>3

\* No content is active below a post validation.
LEMMA PostSound ==
    ASSUME TypeOK, StackInv, SoundInv, stack # <<>>, IsPostFrame(Top), ~Content(Top),
           gen[Top.cls].kind = "class"
    PROVE  SoundClass(gen[Top.cls], Top.cls)
<1>1. Top.cls \in Class /\ Elements(stack) = Elements(Callers) \cup {Top}
  BY FramesOf
<1>2. ~Underway(Elements(stack), Top.cls)
  BY <1>1, ContentBelow DEF Underway
<1> QED
  BY <1>1, <1>2 DEF SoundInv, SoundGens

-----------------------------------------------------------------------------
(* The steps *)

LEMMA VisitSound ==
    ASSUME TypeOK, StackInv, SoundInv, Visit, ~Trouble', compile' # "halted"
    PROVE  SoundInv'
<1>0. stack # <<>> /\ UNCHANGED <<prog, list, queue>> /\ ret' # "throw"
  BY VisitActive, VisitBeside DEF Beside, Trouble
<1>1. /\ Top \in Frame /\ Top.cls \in Class /\ gen[Top.cls] \in Generator
      /\ validation \in Seq(Class) /\ SoundFrame(gen, Top)
  BY <1>0, TopType, FramesOf DEF TypeOK, Frame, SoundInv
<1>2. UNCHANGED toValidate => Line' = Line
  BY <1>0 DEF Line
<1>3. /\ Ancestor(Top.cls) \in Class \cup {NoClass}
      /\ prog.sigs[Top.cls] \cup prog.defaults[Top.cls] \cup prog.fieldTypes[Top.cls]
            \subseteq DirectMentions(Top.cls)
      /\ Ancestor(Top.cls) # NoClass => Ancestor(Top.cls) \in DirectMentions(Top.cls)
  BY <1>1 DEF TypeOK, ProgramType, Declarations, Ancestor, DirectMentions
<1>4. MethodMentions(Top.cls) \subseteq DirectMentions(Top.cls)
  BY <1>3 DEF MethodMentions
<1>5. CASE ResolveAncestor
  <2>0. Top.pc = "ancestor" /\ UNCHANGED <<gen, toValidate>>
    BY <1>5 DEF ResolveAncestor, At
  <2>1. CASE Ancestor(Top.cls) = NoClass
    <3> DEFINE f == [Top EXCEPT !.pc = "begin"]
    <3>1. f \in Frame /\ f.cls = Top.cls /\ f.isPost = Top.isPost /\ f.pc = "begin"
      BY <1>1 DEF Frame, Pcs
    <3>2. SetTop(f)
      BY <1>5, <2>1 DEF ResolveAncestor
    <3> HIDE DEF f
    <3>3. SoundFrame(gen, f)
      BY <2>1, <3>1 DEF SoundFrame, Accepted, Pushed, Content
    <3> QED
      BY <1>0, <1>2, <2>0, <3>1, <3>2, <3>3, QuietSound DEF Pushed
  <2>2. CASE Ancestor(Top.cls) # NoClass
    <3> DEFINE f == [Top EXCEPT !.pc = "inherit"]
    <3>1. f \in Frame /\ f.cls = Top.cls /\ f.isPost = Top.isPost /\ f.pc = "inherit"
      BY <1>1 DEF Frame, Pcs
    <3>2. Refer(f, Ancestor(Top.cls))
      BY <1>5, <2>2 DEF ResolveAncestor
    <3> HIDE DEF f
    <3>3. SoundFrame(gen, f) /\ (Pushed(f) <=> Pushed(Top))
      BY <2>0, <3>1 DEF SoundFrame, Pushed, Content
    <3> QED
      BY <1>0, <1>2, <1>3, <2>0, <2>2, <3>1, <3>2, <3>3, ReferSound
  <2> QED
    BY <2>1, <2>2
<1>6. CASE AncestorResolved
  <2>0. Top.pc = "inherit" /\ UNCHANGED <<gen, toValidate>>
    BY <1>6 DEF AncestorResolved, At
  <2>1. CASE AncestorAccepted
    <3> DEFINE f == [Top EXCEPT !.pc = "begin"]
    <3>1. f \in Frame /\ f.cls = Top.cls /\ f.isPost = Top.isPost /\ f.pc = "begin"
      BY <1>1 DEF Frame, Pcs
    <3>2. SetTop(f)
      BY <1>6, <2>1 DEF AncestorResolved
    <3>3. Ancestor(Top.cls) \notin prog.final /\ IsClass(Ancestor(Top.cls))
      BY <1>0, <2>0, <2>1 DEF AncestorAccepted, SoundInv
    <3>4. Accepted(gen, Top.cls)
      BY <1>1, <3>3 DEF SoundInv, SoundGens, Accepted, IsClass
    <3> HIDE DEF f
    <3>5. SoundFrame(gen, f)
      BY <3>1, <3>4 DEF SoundFrame, Pushed, Content
    <3> QED
      BY <1>0, <1>2, <2>0, <3>1, <3>2, <3>5, QuietSound DEF Pushed
  <2>2. CASE ~AncestorAccepted
    <3> DEFINE f == [Top EXCEPT !.pc = "end", !.errs = TRUE]
    <3>1. f \in Frame /\ f.isPost = Top.isPost /\ Doomed(f)
      BY <1>1 DEF Frame, Pcs, Doomed
    <3>2. SetTop(f)
      BY <1>0, <1>6, <2>2 DEF AncestorResolved, Return
    <3> HIDE DEF f
    <3> QED
      BY <1>0, <3>1, <3>2, SetNotDoomed
  <2> QED
    BY <2>1, <2>2
<1>7. CASE BeginContent
  <2> DEFINE c == Top.cls
             h == BeginGenerator(c)
             f == [Top EXCEPT !.pc = "vtable", !.todo = MethodMentions(c),
                              !.base = VtableOf(c), !.level = Len(validation')]
  <2>0. /\ Top.pc = "begin" /\ ~Top.isPost /\ UNCHANGED toValidate
        /\ gen' = [gen EXCEPT ![c] = h] /\ validation' = Append(validation, c)
    BY <1>7 DEF BeginContent, At
  <2>1. Len(validation') \in Nat
    <3>1. validation' \in Seq(Class)
      BY <1>1, <2>0, PushFrame
    <3> QED
      BY <3>1, SeqLen
  <2>2. /\ f \in Frame /\ f.cls = c /\ f.pc = "vtable" /\ f.isPost = Top.isPost
        /\ f.todo = MethodMentions(c) /\ f.base = VtableOf(c)
    BY <1>0, <1>1, <2>1, TodoType, VtableOfType DEF Frame, Pcs
  <2>3. SetTop(f)
    BY <1>0, <1>7 DEF BeginContent, Return
  <2>4. h.kind = "class"
    BY DEF BeginGenerator, OfKind
  <2> HIDE DEF f, h
  <2>5. Rebuilding(Top) /\ Content(f) /\ Accepted(gen, c)
    BY <1>1, <2>0, <2>2 DEF Rebuilding, Content, Pushed, SoundFrame
  <2>6. Accepted(gen', c)
    BY <1>1, <1>3, <2>0, <2>4, <2>5 DEF Accepted, TypeOK
  <2>7. Layered => f.base.vtable = Inherited(c)
    BY <1>0, <2>2, <2>5, AncestorSound
  <2>8. SoundFrame(gen', f)
    BY <1>4, <2>2, <2>6, <2>7 DEF SoundFrame
  <2> QED
    BY <1>0, <2>0, <2>2, <2>3, <2>4, <2>5, <2>6, <2>8, ChangeSound
<1>8. CASE ReferClass
  <2>1. PICK d \in Top.todo : Refer([Top EXCEPT !.todo = @ \ {d}], d)
    BY <1>8 DEF ReferClass
  <2> DEFINE f == [Top EXCEPT !.todo = @ \ {d}]
  <2>2. /\ d \in Class /\ f \in Frame /\ f.cls = Top.cls /\ f.isPost = Top.isPost
        /\ f.pc = Top.pc /\ f.base = Top.base /\ f.todo \subseteq Top.todo
    BY <1>1 DEF Frame
  <2>3. UNCHANGED <<gen, toValidate>> /\ Refer(f, d) /\ Pushed(Top)
    BY <1>8, <2>1 DEF ReferClass
  <2> HIDE DEF f
  <2>4. d \in DirectMentions(Top.cls)
    BY <1>1, <2>3 DEF SoundFrame
  <2>5. /\ SoundFrame(gen, f) /\ (Pushed(f) <=> Pushed(Top)) /\ f.pc # "inherit"
    BY <1>1, <2>2, <2>3 DEF SoundFrame, Pushed, Content
  <2> QED
    BY <1>0, <1>2, <2>2, <2>3, <2>4, <2>5, ReferSound
<1>9. CASE ReferenceResolved
  <2>1. PICK f \in {[Top EXCEPT !.vtErr = @ \/ (ret = "throw")],
                    [Top EXCEPT !.errs = @ \/ (ret = "throw")]} : SetTop(f)
    BY <1>9 DEF ReferenceResolved
  <2>2. /\ f \in Frame /\ f.cls = Top.cls /\ f.isPost = Top.isPost
        /\ f.pc = Top.pc /\ f.base = Top.base /\ f.todo = Top.todo
    BY <1>1, <2>1 DEF Frame
  <2>3. UNCHANGED <<gen, toValidate>> /\ Pushed(Top)
    BY <1>9 DEF ReferenceResolved
  <2>4. SoundFrame(gen, f) /\ (Pushed(f) <=> Pushed(Top)) /\ f.pc # "inherit"
    BY <1>1, <2>2, <2>3 DEF SoundFrame, Pushed, Content
  <2> QED
    BY <1>0, <1>2, <2>1, <2>2, <2>3, <2>4, QuietSound
<1>10. CASE EndVtable
  <2> DEFINE c == Top.cls
             f == [Top EXCEPT !.pc = "fields", !.errs = @ \/ VtableFailed(Top),
                              !.todo = prog.fieldTypes[c]]
             h == WithVtable(Top)
  <2>0. Top.pc = "vtable" /\ ~Top.isPost /\ SetTop(f) /\ UNCHANGED toValidate
    BY <1>10 DEF EndVtable, At
  <2>1. VtableFailed(Top) \in BOOLEAN
    BY <1>1 DEF VtableFailed, Frame
  <2>2. /\ f \in Frame /\ f.cls = c /\ f.pc = "fields" /\ f.isPost = Top.isPost
        /\ f.base = Top.base /\ f.todo = prog.fieldTypes[c] /\ (VtableFailed(Top) => f.errs)
    BY <1>0, <1>1, <2>1, TodoType DEF Frame, Pcs
  <2>3. h.kind = gen[c].kind /\ h.vtable = Top.base.vtable \cup {c}
    BY <1>1 DEF WithVtable, Generator
  <2> HIDE DEF f, h
  <2>4. ~VtableFailed(Top)
    BY <1>0, <2>0, <2>2, SetNotDoomed DEF Doomed
  <2>5. gen' = [gen EXCEPT ![c] = h]
    BY <1>10, <2>4 DEF EndVtable, h
  <2>6. Rebuilding(Top) /\ Pushed(Top) /\ Content(f) /\ Accepted(gen, c)
    BY <1>1, <2>0, <2>2 DEF Rebuilding, Pushed, Content, SoundFrame
  <2>7. Accepted(gen', c)
    BY <1>1, <1>3, <2>3, <2>5, <2>6 DEF Accepted, TypeOK
  <2>8. c \notin prog.badVtable
    BY <2>4 DEF VtableFailed
  <2>9. Layered => gen'[c].vtable = Lineage(c) /\ f.base.vtable = Inherited(c)
    <3>1. Layered => Top.base.vtable = Inherited(c)
      BY <1>1, <2>6 DEF SoundFrame
    <3>2. gen'[c] = h
      BY <1>1, <2>5 DEF TypeOK
    <3> QED
      BY <1>1, <2>2, <2>3, <3>1, <3>2, LineageStep
  <2>10. SoundFrame(gen', f)
    BY <1>3, <2>2, <2>7, <2>8, <2>9 DEF SoundFrame
  <2> QED
    BY <1>0, <2>0, <2>2, <2>3, <2>5, <2>6, <2>7, <2>10, ChangeSound
<1>11. CASE EndContent
  <2> DEFINE c == Top.cls
             f == [Top EXCEPT !.pc = "finish"]
             h == [gen[c] EXCEPT !.fields = VtableOf(c).fields \cup {c}]
  <2>0. Top.pc = "fields" /\ ~Top.isPost /\ ~FieldsCollide(c)
    BY <1>0, <1>11 DEF EndContent, At, ThrowErrors, Return
  <2>1. /\ gen' = [gen EXCEPT ![c].fields = VtableOf(c).fields \cup {c}]
        /\ toValidate' = WithToValidate(c) /\ SetTop(f)
    BY <1>0, <1>11 DEF EndContent, ThrowErrors, Return
  <2>2. f \in Frame /\ f.cls = c /\ f.pc = "finish" /\ f.isPost = Top.isPost
    BY <1>1 DEF Frame, Pcs
  <2>3. /\ h.kind = gen[c].kind /\ h.vtable = gen[c].vtable
        /\ h.fields = VtableOf(c).fields \cup {c} /\ gen' = [gen EXCEPT ![c] = h]
    BY <1>1, <2>1 DEF Generator
  <2> HIDE DEF f, h
  <2>4. Rebuilding(Top) /\ Pushed(Top) /\ Content(Top) /\ Accepted(gen, c)
    BY <1>1, <2>0 DEF Rebuilding, Pushed, Content, SoundFrame
  <2>5. h.kind = "class"
    <3>1. Len(stack) \in DOMAIN stack /\ Top = stack[Len(stack)]
      BY <1>0, CallersOf
    <3> QED
      BY <2>0, <2>3, <2>4, <3>1 DEF StackInv, ActiveContent
  <2>6. Accepted(gen', c)
    BY <1>1, <1>3, <2>3, <2>4, <2>5 DEF Accepted, TypeOK
  <2>7. SoundClass(h, c)
    <3>1. c \notin prog.badVtable /\ (Layered => gen[c].vtable = Lineage(c))
      BY <1>1, <2>0, <2>4 DEF SoundFrame
    <3>2. Layered => h.fields = Lineage(c) /\ VtableOf(c).fields = Inherited(c)
      BY <1>0, <1>1, <2>3, <2>4, AncestorSound, LineageStep
    <3>3. Ancestor(c) # NoClass => Ancestor(c) \in Inherited(c)
      BY <1>3, LineageHolds DEF Inherited
    <3> QED
      BY <2>0, <2>3, <3>1, <3>2, <3>3 DEF SoundClass, FieldsCollide
  <2>8. SoundFrame(gen', f)
    BY <2>2 DEF SoundFrame, Pushed, Content
  <2>9. toValidate' = toValidate \/ toValidate' = Append(toValidate, c)
    BY <2>1 DEF WithToValidate
  <2> QED
    BY <1>0, <2>1, <2>2, <2>3, <2>4, <2>5, <2>6, <2>7, <2>8, <2>9, ChangeSound
<1>12. CASE FinishClass \/ PostDone
  <2> DEFINE f == [Top EXCEPT !.pc = "postAll", !.aux = post]
  <2>0. Top.pc \in {"finish", "postAll"} /\ UNCHANGED <<gen, toValidate>> /\ IsClass(Top.cls)
    BY <1>1, <1>12 DEF FinishClass, PostDone, At, IsClass, SoundFrame
  <2>1. f \in Frame /\ f.cls = Top.cls /\ f.pc = "postAll" /\ f.isPost = Top.isPost
    BY <1>1 DEF Frame, Pcs, TypeOK
  <2>2. ~Pushed(Top)
    BY <2>0 DEF Pushed
  <2> HIDE DEF f
  <2>3. CASE SetTop(f)
    <3>1. SoundFrame(gen, f) /\ ~Pushed(f)
      BY <2>0, <2>1 DEF SoundFrame, IsClass, Pushed, Content
    <3> QED
      BY <1>0, <1>2, <2>0, <2>1, <2>2, <2>3, <3>1, QuietSound
  <2>4. CASE Return("ok")
    BY <1>0, <1>2, <2>0, <2>2, <2>4, AnswerSound
  <2> QED
    BY <1>12, <2>3, <2>4 DEF FinishClass, PostDone, TakePost, f
<1>13. CASE FinishInvalid \/ PostAbandoned
  BY <1>0, <1>13 DEF FinishInvalid, PostAbandoned, Return
<1>14. CASE PostNext
  <2> DEFINE f == [Top EXCEPT !.aux = Tail(@)]
             k == NewFrame(Head(Top.aux), FALSE, TRUE, "ancestor")
  <2>0. /\ Top.pc = "postAll" /\ Top.aux # <<>> /\ Invoke(f, k) /\ UNCHANGED <<gen, toValidate>>
    BY <1>14 DEF PostNext, At
  <2>1. Top.aux \in Seq(Class)
    BY <1>1 DEF Frame
  <2>2. Head(Top.aux) \in Class /\ Tail(Top.aux) \in Seq(Class)
    BY <2>0, <2>1
  <2>3. f \in Frame /\ f.cls = Top.cls /\ f.pc = "postAll" /\ f.isPost = Top.isPost
    BY <1>1, <2>0, <2>2 DEF Frame
  <2>4. k \in Frame /\ k.isPost /\ k.pc = "ancestor"
    BY <2>2, NewFrameType DEF NewFrame, Pcs
  <2> HIDE DEF f, k
  <2>5. Made(f, k) /\ SoundFrame(gen, f) /\ (Pushed(f) <=> Pushed(Top)) /\ IsPostFrame(Top)
    BY <1>1, <2>0, <2>3 DEF Made, SoundFrame, Pushed, Content, IsPostFrame
  <2> QED
    BY <1>0, <1>2, <2>0, <2>3, <2>4, <2>5, CallSound
<1>15. CASE BeginPost
  <2> DEFINE c == Top.cls
             h == [gen[c] EXCEPT !.asserted = gen[c].kind = "class"]
             f == [Top EXCEPT !.pc = "vtable", !.todo = MethodMentions(c),
                              !.base = VtableOf(c), !.level = Len(validation')]
             e == [Top EXCEPT !.pc = "end", !.errs = TRUE]
  <2>0. /\ Top.pc = "begin" /\ Top.isPost /\ UNCHANGED toValidate
        /\ validation' = Append(validation, c)
    BY <1>15 DEF BeginPost, At
  <2>1. c \notin prog.badAssert
    <3>1. e \in Frame /\ e.isPost = Top.isPost /\ Doomed(e)
      BY <1>1 DEF Frame, Pcs, Doomed
    <3>2. c \in prog.badAssert => SetTop(e)
      BY <1>15 DEF BeginPost
    <3> HIDE DEF e
    <3> QED
      BY <1>0, <3>1, <3>2, SetNotDoomed
  <2>2. SetTop(f) /\ gen' = [gen EXCEPT ![c].asserted = gen[c].kind = "class"]
    BY <1>15, <2>1 DEF BeginPost
  <2>3. Len(validation') \in Nat
    <3>1. validation' \in Seq(Class)
      BY <1>1, <2>0, PushFrame
    <3> QED
      BY <3>1, SeqLen
  <2>4. /\ f \in Frame /\ f.cls = c /\ f.pc = "vtable" /\ f.isPost = Top.isPost
        /\ f.todo = MethodMentions(c) /\ f.base = VtableOf(c)
    BY <1>0, <1>1, <2>3, TodoType, VtableOfType DEF Frame, Pcs
  <2>5. /\ h.kind = gen[c].kind /\ h.vtable = gen[c].vtable /\ h.fields = gen[c].fields
        /\ gen' = [gen EXCEPT ![c] = h]
    BY <1>1, <2>2 DEF Generator
  <2> HIDE DEF f, h, e
  <2>6. Rebuilding(Top) /\ IsPostFrame(Top) /\ ~Content(Top) /\ Accepted(gen, c)
    BY <1>1, <2>0 DEF Rebuilding, IsPostFrame, Content, SoundFrame
  <2>7. Accepted(gen', c)
    BY <1>1, <1>3, <2>5, <2>6 DEF Accepted, TypeOK
  <2>8. Layered => f.base.vtable = Inherited(c)
    BY <1>0, <2>4, <2>6, AncestorSound
  <2>9. SoundFrame(gen', f)
    BY <1>4, <2>0, <2>4, <2>7, <2>8 DEF SoundFrame, Content
  <2>10. h.kind = "class" => SoundClass(h, c)
    BY <1>0, <1>1, <2>5, <2>6, PostSound DEF SoundClass
  <2>11. SetTop(f) /\ f.pc # "inherit"
    BY <2>2, <2>4
  <2> HIDE DEF c
  <2> QED
    BY <1>0, <2>0, <2>4, <2>5, <2>6, <2>7, <2>9, <2>10, <2>11, ChangeSound DEF c
<1>16. CASE EndPostVtable
  <2> DEFINE c == Top.cls
             h == WithVtable(Top)
             f == [Top EXCEPT !.pc = "end", !.errs = VtableFailed(Top)]
  <2>0. Top.pc = "vtable" /\ Top.isPost /\ SetTop(f) /\ UNCHANGED toValidate
    BY <1>16 DEF EndPostVtable, At
  <2>1. VtableFailed(Top) \in BOOLEAN
    BY <1>1 DEF VtableFailed, Frame
  <2>2. f \in Frame /\ f.cls = c /\ f.pc = "end" /\ f.isPost = Top.isPost
        /\ f.errs = VtableFailed(Top)
    BY <1>1, <2>1 DEF Frame, Pcs
  <2>3. /\ h.kind = gen[c].kind /\ h.vtable = Top.base.vtable \cup {c}
        /\ h.fields = gen[c].fields
    BY <1>1 DEF WithVtable, Generator
  <2> HIDE DEF f, h
  <2>4. ~VtableFailed(Top)
    BY <1>0, <2>0, <2>2, SetNotDoomed DEF Doomed
  <2>5. gen[c].kind = "class" /\ gen' = [gen EXCEPT ![c] = h]
    <3>1. gen[c].kind = "class"
      BY <1>16, <2>4 DEF EndPostVtable
    <3> QED
      BY <1>16, <2>4, <3>1 DEF EndPostVtable, h
  <2>6. /\ Rebuilding(Top) /\ Pushed(Top) /\ IsPostFrame(Top) /\ ~Content(Top)
        /\ Accepted(gen, c)
    BY <1>1, <2>0 DEF Rebuilding, Pushed, IsPostFrame, Content, SoundFrame
  <2>7. Accepted(gen', c)
    BY <1>1, <1>3, <2>3, <2>5, <2>6 DEF Accepted, TypeOK
  <2>8. SoundClass(h, c)
    <3>1. Layered => h.vtable = Lineage(c)
      BY <1>1, <2>3, <2>6, LineageStep DEF SoundFrame
    <3>2. SoundClass(gen[c], c)
      BY <1>0, <1>1, <2>5, <2>6, PostSound
    <3> QED
      BY <2>3, <3>1, <3>2 DEF SoundClass
  <2>9. SoundFrame(gen', f)
    BY <2>2 DEF SoundFrame, Pushed, Content
  <2> QED
    BY <1>0, <2>0, <2>2, <2>3, <2>5, <2>6, <2>7, <2>8, <2>9, ChangeSound
<1>17. CASE EndPost
  <2>1. Top.pc = "end" /\ Top.isPost /\ UNCHANGED toValidate /\ ~Pushed(Top)
    BY <1>17 DEF EndPost, At, Pushed
  <2>2. Return("ok") /\ UNCHANGED gen
    BY <1>0, <1>17 DEF EndPost, ThrowErrors, Return
  <2> QED
    BY <1>0, <1>2, <2>1, <2>2, AnswerSound
<1> QED
  BY <1>5, <1>6, <1>7, <1>8, <1>9, <1>10, <1>11, <1>12, <1>13, <1>14, <1>15, <1>16, <1>17 DEF Visit

LEMMA DriveSound ==
    ASSUME TypeOK, SoundInv, Drive, ~Trouble', compile' # "halted",
           compile = "module" => queue = <<>>
    PROVE  SoundInv'
<1>1. stack = <<>> /\ UNCHANGED <<prog, gen>> /\ Line' = Line
  BY LineDriven DEF Drive, ValidateModuleClass, UseClass, RootReturned, EndModule,
         ValidateClassFull, EndClasses, visitor, Idle
<1>2. stack' = <<>> \/ \E c \in Class, m \in BOOLEAN : stack' = <<ValidateCall(c, m)>>
  <2>1. CASE ValidateModuleClass
    BY <2>1 DEF ValidateModuleClass, TypeOK, ProgramType, Declarations
  <2>2. CASE UseClass
    <3>1. \A c \in Class : (c \in New) \in BOOLEAN
      OBVIOUS
    <3> QED
      BY <1>1, <2>2, <3>1 DEF UseClass
  <2>3. CASE RootReturned \/ EndModule \/ ValidateClassFull \/ EndClasses
    BY <1>1, <2>3 DEF RootReturned, EndModule, ValidateClassFull, EndClasses, visitor
  <2> QED
    BY <2>1, <2>2, <2>3 DEF Drive
<1>3. \A f \in Elements(stack') : f.pc \in {"ancestor", "finish"}
  BY <1>2 DEF Elements, ValidateCall, NewFrame
<1>4. SoundGens(gen', Elements(stack'))
  BY <1>1 DEF SoundInv, SoundGens, Underway, Elements
<1>5. \A f \in Elements(stack') : SoundFrame(gen', f)
  BY <1>3 DEF SoundFrame, Pushed, Content
<1>6. Linked(stack')
  BY <1>2 DEF Linked
<1>7. stack' # <<>> => Top' \in Elements(stack')
  BY <1>2 DEF Top, Depth, Elements
<1>8. \A c \in Elements(Line') : gen'[c].kind = "class"
  BY <1>1 DEF SoundInv
<1> QED
  BY <1>1, <1>3, <1>4, <1>5, <1>6, <1>7, <1>8, SoundNext

\* As long as no error was seen.  A failed assertion is one.
StillSound == compile # "halted" /\ ~Trouble => SoundInv

LEMMA SoundStep ==
    TypeOK /\ StackInv /\ StillOnce /\ StillSound /\ [Next]_vars => StillSound'
<1> SUFFICES ASSUME TypeOK, StackInv, StillOnce, StillSound, [Next]_vars,
                    compile' # "halted", ~Trouble'
             PROVE  SoundInv'
  BY DEF StillSound
<1>1. CASE UNCHANGED vars
  <2>1. Trouble' = Trouble /\ Line' = Line /\ Top' = Top
    BY <1>1 DEF vars, visitor, driver, Trouble, Line, Top, Depth
  <2>2. SoundInv /\ UNCHANGED <<prog, gen, stack, ret>>
    BY <1>1, <2>1 DEF vars, visitor, driver, StillSound
  <2> QED
    BY <2>1, <2>2, SoundNext DEF SoundInv, IsClass
<1>2. CASE Next
  <2>1. ~Trouble
    BY <1>2, VisitTrouble, DriveTrouble DEF Next
  <2>2. compile # "halted"
    BY HaltedStays
  <2>3. SoundInv /\ (compile = "module" => queue = <<>>)
    BY <2>1, <2>2 DEF StillSound, StillOnce, OnceInv, Phases
  <2> QED
    BY <1>2, <2>3, VisitSound, DriveSound DEF Next
<1> QED
  BY <1>1, <1>2

LEMMA SoundInit == Init => SoundInv
<1> SUFFICES ASSUME Init PROVE SoundInv
  OBVIOUS
<1>1. Line = <<>> /\ Elements(Line) = {} /\ Elements(stack) = {}
  BY DEF Init, Line, Elements
<1> QED
  BY <1>1 DEF Init, SoundInv, SoundGens, Linked, OfKind

LEMMA SoundSuffices == TypeOK /\ StillOnce /\ StillSound => WellFormed
<1> SUFFICES ASSUME TypeOK, StillOnce, StillSound, compile = "done", ~dropped,
                    NEW c \in Elements(list)
             PROVE  /\ ~Erroneous(c)
                    /\ Layered => /\ ~Collides(c)
                                  /\ gen[c].vtable = Lineage(c) /\ gen[c].fields = Lineage(c)
  BY DEF WellFormed, ErrorsReported, EmittedLayout
<1>1. /\ stack = <<>> /\ ret = "none" /\ ~errors
      /\ queue = <<>> /\ toValidate = <<>>
  BY DEF StillOnce, OnceInv, Phases, Idle
<1>2. Elements(stack) = {}
  BY <1>1 DEF Elements
<1>3. SoundInv
  BY <1>1, <1>2 DEF StillSound, Trouble
<1>4. Line = list
  <2>1. list \in Seq(Class)
    BY DEF TypeOK
  <2> QED
    BY <1>1, <2>1, ConcatEmptySeq DEF Line
<1>5. c \in Class
  BY SeqElement DEF TypeOK, Elements
<1>6. c \in {x \in Class : gen[x].kind = "class"}
  BY <1>3, <1>4, <1>5 DEF SoundInv
<1> DEFINE S == {x \in Class : gen[x].kind = "class"}
<1>7. \A x \in S : Accepted(gen, x) /\ SoundClass(gen[x], x)
  BY <1>2, <1>3 DEF SoundInv, SoundGens, Underway
<1>8. Lineage(c) \subseteq S
  <2>1. \A x \in S : Ancestor(x) \in S \cup {NoClass}
    BY <1>7 DEF Accepted, TypeOK, ProgramType, Declarations, Ancestor
  <2> QED
    BY <1>6, <2>1, LineageLeast
<1>9. \A x \in Lineage(c) : Ancestor(x) \notin prog.final
  <2>1. NoClass \notin prog.final
    BY NoClassAssumption DEF TypeOK, ProgramType, Declarations
  <2> QED
    BY <1>7, <1>8, <2>1 DEF Accepted
<1> QED
  BY <1>6, <1>7, <1>8, <1>9 DEF Erroneous, Collides, SoundClass

\* When no caller drops an error, every class the generation phase receives is
\* valid, and so are its ancestors: none has an erroneous method or inherits from
\* a final class.  If no class mentions one of its heirs, no field is declared
\* twice in its lineage and its methods and fields are exactly those of its
\* lineage.  For any set of classes and any program, also when assertions fail.
THEOREM ClassesAreWellFormed == Spec => []WellFormed
<1>1. Init => StackInv /\ StillOnce /\ StillSound
  <2>1. Init => StackInv
    BY DEF Init, StackInv, ActiveContent, LevelsGrow, PostIsOutermost, NoNewCall
  <2> QED
    BY <2>1, OnceInit, SoundInit DEF StillOnce, StillSound
<1> QED
  BY <1>1, StackStep, OnceStep, SoundStep, SoundSuffices, TypeCorrect, PTL DEF Spec

=============================================================================
