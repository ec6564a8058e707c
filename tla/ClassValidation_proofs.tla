----------------------- MODULE ClassValidation_proofs -----------------------
(***************************************************************************)
(* What TLAPS proves about ClassValidation for every set of classes and    *)
(* every program: the type invariant, and that a class whose content is    *)
(* being validated keeps its Class generator and is never entered again.   *)
(***************************************************************************)
EXTENDS ClassValidation, SequenceTheorems, FiniteSetTheorems, TLAPS

-----------------------------------------------------------------------------
(* Sequences used as a call stack *)

LEMMA PositiveNat ==
    ASSUME NEW n \in Nat, n > 0
    PROVE  n = 1 \/ 1 <= n - 1
OBVIOUS

LEMMA SeqElement ==
    ASSUME NEW S, NEW s \in Seq(S), NEW i \in DOMAIN s
    PROVE  s[i] \in S
OBVIOUS

LEMMA SeqLen ==
    ASSUME NEW S, NEW s \in Seq(S)
    PROVE  Len(s) \in Nat /\ DOMAIN s = 1 .. Len(s) /\ (s # <<>> <=> Len(s) > 0)
OBVIOUS

\* The topmost frame is replaced.
LEMMA ReplaceTop ==
    ASSUME NEW S, NEW s \in Seq(S), s # <<>>, NEW f \in S
    PROVE  LET t == [s EXCEPT ![Len(s)] = f]
           IN  /\ t \in Seq(S)
               /\ Len(t) = Len(s)
               /\ t[Len(s)] = f
               /\ \A i \in 1 .. Len(s) - 1 : t[i] = s[i]
OBVIOUS

\* A call returns.
LEMMA DropTop ==
    ASSUME NEW S, NEW s \in Seq(S), s # <<>>
    PROVE  LET t == SubSeq(s, 1, Len(s) - 1)
           IN  /\ t \in Seq(S)
               /\ Len(t) = Len(s) - 1
               /\ \A i \in 1 .. Len(s) - 1 : t[i] = s[i]
<1>1. Len(s) \in Nat /\ Len(s) > 0 /\ \A i \in 1 .. Len(s) - 1 : s[i] \in S
  OBVIOUS
<1>2. SubSeq(s, 1, Len(s) - 1) \in Seq(S)
  BY <1>1, SubSeqProperties
<1>3. Len(SubSeq(s, 1, Len(s) - 1)) =
        IF 1 <= Len(s) - 1 THEN (Len(s) - 1) - 1 + 1 ELSE 0
  BY <1>1, SubSeqProperties
<1>4. \A i \in 1 .. (Len(s) - 1) - 1 + 1 : SubSeq(s, 1, Len(s) - 1)[i] = s[1 + i - 1]
  BY <1>1, SubSeqProperties
<1>5. ASSUME NEW i \in 1 .. Len(s) - 1
      PROVE  SubSeq(s, 1, Len(s) - 1)[i] = s[i]
  <2>1. i \in 1 .. (Len(s) - 1) - 1 + 1 /\ 1 + i - 1 = i
    BY <1>1
  <2> QED
    BY <1>4, <2>1
<1>6. Len(SubSeq(s, 1, Len(s) - 1)) = Len(s) - 1
  <2>0. Len(s) \in Nat /\ (Len(s) = 1 \/ 1 <= Len(s) - 1)
    BY <1>1, PositiveNat
  <2>1. CASE 1 <= Len(s) - 1
    BY <1>1, <1>3, <2>1
  <2>2. CASE Len(s) = 1
    BY <1>3, <2>2
  <2> QED
    BY <2>0, <2>1, <2>2
<1> QED
  BY <1>2, <1>5, <1>6

\* A call is made.
LEMMA PushFrame ==
    ASSUME NEW S, NEW s \in Seq(S), NEW f \in S
    PROVE  LET t == Append(s, f)
           IN  /\ t \in Seq(S)
               /\ Len(t) = Len(s) + 1
               /\ t[Len(s) + 1] = f
               /\ \A i \in 1 .. Len(s) : t[i] = s[i]
OBVIOUS

LEMMA EmptyIsSeq == ASSUME NEW S PROVE <<>> \in Seq(S)
OBVIOUS

LEMMA SingletonSeq == ASSUME NEW S, NEW f \in S PROVE <<f>> \in Seq(S)
OBVIOUS

-----------------------------------------------------------------------------
(* Types of the pieces *)

LEMMA TopType ==
    ASSUME stack \in Seq(Frame), stack # <<>>
    PROVE  Top \in Frame /\ Depth \in Nat \ {0}
BY SeqLen, SeqElement DEF Top, Depth

LEMMA OfKindType ==
    ASSUME NEW k \in Kinds
    PROVE  OfKind(k) \in Generator
BY DEF OfKind, Generator

LEMMA NewFrameType ==
    ASSUME NEW c \in Class, NEW m \in BOOLEAN, NEW p \in BOOLEAN, NEW pc \in Pcs
    PROVE  NewFrame(c, m, p, pc) \in Frame
<1>1. OfKind("empty") \in Generator
  BY OfKindType DEF Kinds
<1>2. <<>> \in Seq(Class)
  OBVIOUS
<1> QED
  BY <1>1, <1>2 DEF NewFrame, Frame

LEMMA ValidateCallType ==
    ASSUME NEW c \in Class, NEW m \in BOOLEAN
    PROVE  ValidateCall(c, m) \in Frame
BY NewFrameType DEF ValidateCall, Pcs

LEMMA VtableOfType ==
    ASSUME NEW c \in Class, TypeOK
    PROVE  VtableOf(c) \in Generator
<1>1. OfKind("empty") \in Generator
  BY OfKindType DEF Kinds
<1>2. Ancestor(c) \in Class \cup {NoClass}
  BY DEF TypeOK, ProgramType, Declarations, Ancestor
<1> QED
  BY <1>1, <1>2 DEF VtableOf, TypeOK

LEMMA TodoType ==
    ASSUME NEW c \in Class, TypeOK
    PROVE  MethodMentions(c) \in SUBSET Class /\ prog.fieldTypes[c] \in SUBSET Class
<1>1. /\ prog.sigs[c] \in SUBSET Class /\ prog.defaults[c] \in SUBSET Class
      /\ prog.fieldTypes[c] \in SUBSET Class
  BY DEF TypeOK, ProgramType, Declarations
<1> QED
  BY <1>1 DEF MethodMentions

Solutions == [Class -> {"none", "registered", "failed"}]

LEMMA FiledType ==
    ASSUME TypeOK, stack # <<>>, NEW r
    PROVE  Filed(r) \in Solutions
<1>1. Top \in Frame
  BY TopType DEF TypeOK
<1> QED
  BY <1>1 DEF Filed, Solutions, TypeOK

LEMMA RegisteredType ==
    ASSUME TypeOK, NEW c \in Class
    PROVE  Registered(c) \in Solutions
BY DEF Registered, Solutions, TypeOK

\* A solution that was needed once is never new again.
LEMMA NewShrinks ==
    ASSUME TypeOK, UNCHANGED prog,
           \/ UNCHANGED solution
           \/ \E r : solution' = Filed(r)
           \/ \E c \in Class : solution' = Registered(c)
    PROVE  New' \subseteq New
<1>1. CASE UNCHANGED solution
  BY <1>1 DEF New
<1>2. ASSUME NEW r, solution' = Filed(r)
      PROVE  New' \subseteq New
  BY <1>2 DEF New, Filed, TypeOK
<1>3. ASSUME NEW c \in Class, solution' = Registered(c)
      PROVE  New' \subseteq New
  BY <1>3 DEF New, Registered, TypeOK
<1> QED
  BY <1>1, <1>2, <1>3

-----------------------------------------------------------------------------
(* The type invariant *)

LEMMA InitType == Init => TypeOK
<1> SUFFICES ASSUME Init PROVE TypeOK
  OBVIOUS
<1>1. OfKind("empty") \in Generator
  BY OfKindType DEF Kinds
<1>2. <<>> \in Seq(Class) /\ <<>> \in Seq(Frame)
  OBVIOUS
<1>3. prog \in ProgramType
  BY ProgramAssumption DEF Init
<1>4. prog.module \subseteq Class
  BY <1>3 DEF ProgramType, Declarations
<1>5. gen \in [Class -> Generator] /\ solution \in [Class -> {"none", "registered", "failed"}]
  BY <1>1 DEF Init
<1>6. uses \in 0 .. MaxUse
  BY MaxUseAssumption DEF Init
<1> QED
  BY <1>2, <1>3, <1>4, <1>5, <1>6 DEF Init, TypeOK

\* Replacing the topmost frame, and possibly calling from it.
LEMMA SetTopType ==
    ASSUME stack \in Seq(Frame), stack # <<>>, NEW f \in Frame, SetTop(f)
    PROVE  stack' \in Seq(Frame) /\ solution' = solution
BY ReplaceTop DEF SetTop, Depth

LEMMA InvokeType ==
    ASSUME stack \in Seq(Frame), stack # <<>>, NEW f \in Frame, NEW g \in Frame,
           Invoke(f, g)
    PROVE  stack' \in Seq(Frame)
<1>1. [stack EXCEPT ![Len(stack)] = f] \in Seq(Frame)
  BY ReplaceTop
<1> QED
  BY <1>1 DEF Invoke, Depth

LEMMA ReturnType ==
    ASSUME TypeOK, stack # <<>>, NEW r, Return(r)
    PROVE  stack' \in Seq(Frame) /\ ret' = r /\ solution' \in Solutions
BY DropTop, FiledType DEF Return, Callers, Depth, TypeOK

LEMMA ReferType ==
    ASSUME TypeOK, stack # <<>>, NEW f \in Frame, NEW c \in Class, Refer(f, c)
    PROVE  /\ stack' \in Seq(Frame) /\ ret' \in {"none", "ok", "throw"}
           /\ solution' \in Solutions
<1>1. (c \in New) \in BOOLEAN
  OBVIOUS
<1>2. ValidateCall(c, c \in New) \in Frame
  BY <1>1, ValidateCallType
<1>3. stack \in Seq(Frame) /\ ret \in {"none", "ok", "throw"} /\ solution \in Solutions
  BY DEF TypeOK, Solutions
<1>4. CASE solution[c] = "failed"
  BY <1>3, <1>4, SetTopType DEF Refer
<1>5. CASE solution[c] # "failed"
  BY <1>2, <1>3, <1>5, InvokeType, RegisteredType DEF Refer
<1> QED
  BY <1>4, <1>5

LEMMA ThrowErrorsType ==
    ASSUME TypeOK, stack # <<>>, NEW c \in Class, ThrowErrors(c)
    PROVE  gen' \in [Class -> Generator] /\ stack' \in Seq(Frame) /\ ret' = "throw"
           /\ solution' \in Solutions
<1>1. OfKind(IF mode = "pragma" THEN "error" ELSE "none") \in Generator
  BY OfKindType DEF Kinds
<1> QED
  BY <1>1, ReturnType DEF ThrowErrors, TypeOK

LEMMA VisitType ==
    ASSUME TypeOK, Visit
    PROVE  TypeOK'
<1> USE DEF TypeOK, Solutions
<1>0. stack # <<>>
  BY DEF Visit, ResolveAncestor, AncestorResolved, BeginContent, ReferClass,
         ReferenceResolved, EndVtable, EndContent, FinishClass, FinishInvalid,
         PostNext, PostDone, PostAbandoned, BeginPost, EndPostVtable, EndPost, At, Active
<1>a. Top \in Frame /\ Depth \in Nat \ {0}
  BY <1>0, TopType
<1>b. Top.cls \in Class
  BY <1>a DEF Frame
<1>c. PopValidation \in Seq(Class) \/ validation = <<>>
  BY DropTop DEF PopValidation
<1>d. VtableOf(Top.cls) \in Generator
  BY <1>b, VtableOfType
<1>e. MethodMentions(Top.cls) \in SUBSET Class /\ prog.fieldTypes[Top.cls] \in SUBSET Class
  BY <1>b, TodoType
<1>1. CASE ResolveAncestor
  <2>1. CASE Ancestor(Top.cls) = NoClass
    <3>1. [Top EXCEPT !.pc = "begin"] \in Frame
      BY <1>a DEF Frame, Pcs
    <3> QED
      BY <1>0, <1>1, <2>1, <3>1, SetTopType DEF ResolveAncestor, driver
  <2>2. CASE Ancestor(Top.cls) # NoClass
    <3>1. [Top EXCEPT !.pc = "inherit"] \in Frame
      BY <1>a DEF Frame, Pcs
    <3>2. Ancestor(Top.cls) \in Class
      BY <1>b, <2>2 DEF Ancestor, ProgramType, Declarations
    <3>3. Refer([Top EXCEPT !.pc = "inherit"], Ancestor(Top.cls))
      BY <1>1, <2>2 DEF ResolveAncestor
    <3>4. stack' \in Seq(Frame) /\ ret' \in {"none", "ok", "throw"} /\ solution' \in Solutions
      BY <1>0, <3>1, <3>2, <3>3, ReferType
    <3> QED
      BY <1>1, <3>4 DEF ResolveAncestor, driver
  <2> QED
    BY <2>1, <2>2
<1>2. CASE AncestorResolved
  <2>1. [Top EXCEPT !.pc = "begin"] \in Frame
    BY <1>a DEF Frame, Pcs
  <2>2. [Top EXCEPT !.pc = "end", !.errs = TRUE] \in Frame
    BY <1>a DEF Frame, Pcs
  <2> QED
    BY <1>0, <1>2, <2>1, <2>2, SetTopType, ReturnType DEF AncestorResolved, driver
<1>3. CASE BeginContent
  <2>1. validation' \in Seq(Class)
    BY <1>b, <1>3 DEF BeginContent
  <2>2. Len(validation') \in Nat
    BY <2>1, SeqLen
  <2>3. [Top EXCEPT !.pc = "vtable", !.todo = MethodMentions(Top.cls),
                    !.base = VtableOf(Top.cls), !.level = Len(validation')] \in Frame
    BY <1>a, <1>d, <1>e, <2>2 DEF Frame, Pcs
  <2>4. BeginGenerator(Top.cls) \in Generator
    BY DEF BeginGenerator, OfKind, Generator, Kinds
  <2>5. gen' \in [Class -> Generator]
    BY <1>3, <2>4 DEF BeginContent
  <2>6. stack' \in Seq(Frame) /\ ret' \in {"none", "ok", "throw"} /\ solution' \in Solutions
    BY <1>0, <1>3, <2>3, SetTopType, ReturnType DEF BeginContent
  <2> QED
    BY <1>3, <2>1, <2>5, <2>6 DEF BeginContent, driver
<1>4. CASE ReferClass
  <2>1. PICK d \in Top.todo : Refer([Top EXCEPT !.todo = @ \ {d}], d)
    BY <1>4 DEF ReferClass
  <2>2. d \in Class /\ [Top EXCEPT !.todo = @ \ {d}] \in Frame
    BY <1>a DEF Frame
  <2>3. stack' \in Seq(Frame) /\ ret' \in {"none", "ok", "throw"} /\ solution' \in Solutions
    BY <1>0, <2>1, <2>2, ReferType
  <2> QED
    BY <1>4, <2>3 DEF ReferClass, driver
<1>5. CASE ReferenceResolved
  <2>1. [Top EXCEPT !.vtErr = @ \/ (ret = "throw")] \in Frame
    BY <1>a DEF Frame
  <2>2. [Top EXCEPT !.errs = @ \/ (ret = "throw")] \in Frame
    BY <1>a DEF Frame
  <2> QED
    BY <1>0, <1>5, <2>1, <2>2, SetTopType DEF ReferenceResolved, driver
<1>6. CASE EndVtable
  <2>1. WithVtable(Top) \in Generator
    BY <1>a, <1>b DEF WithVtable, Frame, Generator
  <2>2. VtableFailed(Top) \in BOOLEAN
    BY <1>a DEF VtableFailed, Frame
  <2>3. [Top EXCEPT !.pc = "fields", !.errs = @ \/ VtableFailed(Top),
                    !.todo = prog.fieldTypes[Top.cls]] \in Frame
    BY <1>a, <1>e, <2>2 DEF Frame, Pcs
  <2> QED
    BY <1>0, <1>6, <2>1, <2>3, SetTopType DEF EndVtable, driver
<1>7. CASE EndContent
  <2>0. validation' = PopValidation /\ validation' \in Seq(Class)
    BY <1>7, <1>c DEF EndContent, PopValidation
  <2>1. CASE Top.errs \/ FieldsCollide(Top.cls)
    BY <1>0, <1>b, <1>7, <2>0, <2>1, ThrowErrorsType DEF EndContent, driver
  <2>2. CASE ~(Top.errs \/ FieldsCollide(Top.cls))
    <3>1. [gen[Top.cls] EXCEPT !.fields = VtableOf(Top.cls).fields \cup {Top.cls}] \in Generator
      BY <1>b, <1>d DEF Generator
    <3>2. gen' \in [Class -> Generator]
      BY <1>7, <2>2, <3>1 DEF EndContent
    <3>3. [Top EXCEPT !.pc = "finish"] \in Frame
      BY <1>a DEF Frame, Pcs
    <3>4. stack' \in Seq(Frame) /\ solution' = solution
      BY <1>0, <1>7, <2>2, <3>3, SetTopType DEF EndContent
    <3>5. toValidate' \in Seq(Class) /\ post' \in Seq(Class)
      <4>1. Append(toValidate, Top.cls) \in Seq(Class) /\ Append(post, Top.cls) \in Seq(Class)
        BY <1>b, PushFrame
      <4> QED
        BY <1>7, <2>2, <4>1 DEF EndContent, WithPost, WithToValidate
    <3> QED
      BY <1>7, <2>0, <2>2, <3>2, <3>4, <3>5 DEF EndContent, driver
  <2> QED
    BY <2>1, <2>2
<1>8. CASE FinishClass
  <2>1. [Top EXCEPT !.pc = "postAll", !.aux = post] \in Frame
    BY <1>a DEF Frame, Pcs
  <2> QED
    BY <1>0, <1>8, <2>1, SetTopType, ReturnType, EmptyIsSeq DEF FinishClass, TakePost, driver
<1>9. CASE FinishInvalid
  <2>1. OfKind("none") \in Generator
    BY OfKindType DEF Kinds
  <2> QED
    BY <1>0, <1>b, <1>9, <2>1, ReturnType DEF FinishInvalid, driver
<1>10. CASE PostNext
  <2>0. Top.aux \in Seq(Class) /\ Top.aux # <<>>
    BY <1>a, <1>10 DEF PostNext, Frame
  <2>1. Head(Top.aux) \in Class /\ Tail(Top.aux) \in Seq(Class)
    BY <2>0
  <2>2. [Top EXCEPT !.aux = Tail(@)] \in Frame
    BY <1>a, <2>1 DEF Frame
  <2>3. NewFrame(Head(Top.aux), FALSE, TRUE, "ancestor") \in Frame
    BY <2>1, NewFrameType DEF Pcs
  <2> QED
    BY <1>0, <1>10, <2>2, <2>3, InvokeType DEF PostNext, driver
<1>11. CASE PostDone
  <2>1. [Top EXCEPT !.pc = "postAll", !.aux = post] \in Frame
    BY <1>a DEF Frame, Pcs
  <2> QED
    BY <1>0, <1>11, <2>1, SetTopType, ReturnType, EmptyIsSeq DEF PostDone, TakePost, driver
<1>12. CASE PostAbandoned
  BY <1>0, <1>12, ReturnType DEF PostAbandoned, driver
<1>13. CASE BeginPost
  <2>1. validation' \in Seq(Class)
    BY <1>b, <1>13 DEF BeginPost
  <2>2. Len(validation') \in Nat
    BY <2>1, SeqLen
  <2>3. [Top EXCEPT !.pc = "vtable", !.todo = MethodMentions(Top.cls),
                    !.base = VtableOf(Top.cls), !.level = Len(validation')] \in Frame
    BY <1>a, <1>d, <1>e, <2>2 DEF Frame, Pcs
  <2>4. [Top EXCEPT !.pc = "end", !.errs = TRUE] \in Frame
    BY <1>a DEF Frame, Pcs
  <2>5. [gen[Top.cls] EXCEPT !.asserted = gen[Top.cls].kind = "class"] \in Generator
    <3>1. (gen[Top.cls].kind = "class") \in BOOLEAN
      OBVIOUS
    <3>2. gen[Top.cls] \in Generator
      BY <1>b
    <3> QED
      BY <3>1, <3>2 DEF Generator
  <2>6. gen' \in [Class -> Generator]
    BY <1>13, <2>5 DEF BeginPost
  <2>7. stack' \in Seq(Frame) /\ solution' = solution
    BY <1>0, <1>13, <2>3, <2>4, SetTopType DEF BeginPost
  <2> QED
    BY <1>13, <2>1, <2>6, <2>7 DEF BeginPost, driver
<1>14. CASE EndPostVtable
  <2>0. validation' \in Seq(Class)
    BY <1>14, <1>c DEF EndPostVtable, PopValidation
  <2>1. WithVtable(Top) \in Generator
    BY <1>a, <1>b DEF WithVtable, Frame, Generator
  <2>2. VtableFailed(Top) \in BOOLEAN
    BY <1>a DEF VtableFailed, Frame
  <2>3. [Top EXCEPT !.pc = "end", !.errs = VtableFailed(Top)] \in Frame
    BY <1>a, <2>2 DEF Frame, Pcs
  <2>4. gen' \in [Class -> Generator]
    BY <1>14, <2>1 DEF EndPostVtable
  <2>5. stack' \in Seq(Frame) /\ solution' = solution
    BY <1>0, <1>14, <2>3, SetTopType DEF EndPostVtable
  <2> QED
    BY <1>14, <2>0, <2>4, <2>5 DEF EndPostVtable, driver
<1>15. CASE EndPost
  BY <1>0, <1>b, <1>15, ThrowErrorsType, ReturnType DEF EndPost, driver
<1> QED
  BY <1>1, <1>2, <1>3, <1>4, <1>5, <1>6, <1>7, <1>8, <1>9, <1>10, <1>11,
     <1>12, <1>13, <1>14, <1>15 DEF Visit

LEMMA DriveType ==
    ASSUME TypeOK, Drive
    PROVE  TypeOK'
<1> USE DEF TypeOK, visitor, driver
<1>1. CASE ValidateModuleClass
  <2>1. PICK c \in work : work' = work \ {c} /\ stack' = <<ValidateCall(c, TRUE)>>
    BY <1>1 DEF ValidateModuleClass
  <2>2. ValidateCall(c, TRUE) \in Frame
    BY <2>1, ValidateCallType DEF ProgramType, Declarations
  <2>3. stack' \in Seq(Frame)
    BY <2>1, <2>2, SingletonSeq
  <2> QED
    BY <1>1, <2>1, <2>3 DEF ValidateModuleClass
<1>2. CASE UseClass
  <2>1. PICK c \in Class :
          IF solution[c] = "failed"
          THEN ret' = "throw" /\ UNCHANGED <<stack, solution>>
          ELSE /\ stack' = <<ValidateCall(c, c \in New)>>
               /\ solution' = Registered(c)
               /\ UNCHANGED ret
    BY <1>2 DEF UseClass
  <2>2. ValidateCall(c, c \in New) \in Frame
    <3>1. (c \in New) \in BOOLEAN
      OBVIOUS
    <3> QED
      BY <3>1, ValidateCallType
  <2>5. Registered(c) \in Solutions
    BY RegisteredType
  <2>3. /\ stack' \in Seq(Frame) /\ ret' \in {"none", "ok", "throw"}
        /\ solution' \in [Class -> {"none", "registered", "failed"}]
    BY <2>1, <2>2, <2>5, SingletonSeq DEF Solutions
  <2>4. uses' \in 0 .. MaxUse
    <3>1. prog.bodyUses \in 0 .. MaxUse
      BY DEF ProgramType, Declarations
    <3> QED
      BY <1>2, <3>1, MaxUseAssumption DEF UseClass
  <2> QED
    BY <1>2, <2>3, <2>4 DEF UseClass
<1>3. CASE RootReturned
  BY <1>3 DEF RootReturned
<1>4. CASE EndModule
  BY <1>4, EmptyIsSeq DEF EndModule
<1>5. CASE ValidateClassFull
  <2>1. Head(queue) \in Class /\ Tail(queue) \in Seq(Class)
    BY <1>5 DEF ValidateClassFull
  <2>2. Append(list, Head(queue)) \in Seq(Class)
    BY <2>1, PushFrame
  <2>3. list' \in Seq(Class) /\ compile' \in {"classes", "halted"}
    BY <1>5, <2>2 DEF ValidateClassFull
  <2> QED
    BY <1>5, <2>1, <2>3 DEF ValidateClassFull
<1>6. CASE EndClasses
  BY <1>6, EmptyIsSeq DEF EndClasses
<1> QED
  BY <1>1, <1>2, <1>3, <1>4, <1>5, <1>6 DEF Drive

LEMMA TypeStep == TypeOK /\ [Next]_vars => TypeOK'
<1> SUFFICES ASSUME TypeOK, [Next]_vars PROVE TypeOK'
  OBVIOUS
<1>1. CASE Visit
  BY <1>1, VisitType
<1>2. CASE Drive
  BY <1>2, DriveType
<1>3. CASE UNCHANGED vars
  BY <1>3 DEF TypeOK, vars, visitor, driver
<1> QED
  BY <1>1, <1>2, <1>3 DEF Next

\* The variables of the visitor and of its callers keep the types the C++
\* declarations give them, whatever program is compiled.
THEOREM TypeCorrect == Spec => []TypeOK
BY InitType, TypeStep, PTL DEF Spec

-----------------------------------------------------------------------------
(* The calls of the visitor: StackInv, stated for any stack s, generators g *)
(* and __validation__ v, so that the three shapes of a step on the stack    *)
(* (a call replaces its frame, makes a call, returns) are treated once.  N  *)
(* is the set of the new solutions: no call can be active for their class.  *)

CallsOK(s, g, v, N) ==
    \A i \in DOMAIN s :
        /\ ~s[i].isPost => s[i].cls \notin N
        /\ Pushed(s[i]) =>
            /\ ~s[i].isPost => g[s[i].cls].kind = "class"
            /\ 1 <= s[i].level /\ s[i].level <= Len(v)
            /\ \A j \in DOMAIN s :
                  i < j =>
                      /\ ~s[i].isPost /\ Rebuilding(s[j]) => s[j].cls # s[i].cls
                      /\ Pushed(s[j]) => s[i].level < s[j].level
                      /\ ~IsPostFrame(s[j])

LEMMA StackInvIsCallsOK == StackInv <=> CallsOK(stack, gen, validation, New)
BY DEF StackInv, ActiveContent, LevelsGrow, PostIsOutermost, NoNewCall, CallsOK

\* The frames below the topmost one keep what CallsOK says of them when the
\* generators become h and __validation__ becomes w.
Preserved(s, h, w) ==
    \A i \in 1 .. Len(s) - 1 :
        Pushed(s[i]) =>
            /\ ~s[i].isPost => h[s[i].cls].kind = "class"
            /\ s[i].level <= Len(w)

LEMMA ReturnKeeps ==
    ASSUME NEW s \in Seq(Frame), s # <<>>, NEW g, NEW v, NEW N, CallsOK(s, g, v, N),
           NEW h, NEW w, NEW M, M \subseteq N, Preserved(s, h, w)
    PROVE  CallsOK(SubSeq(s, 1, Len(s) - 1), h, w, M)
<1> DEFINE t == SubSeq(s, 1, Len(s) - 1)
<1>1. t \in Seq(Frame) /\ Len(t) = Len(s) - 1 /\ \A i \in 1 .. Len(s) - 1 : t[i] = s[i]
  BY DropTop
<1>2. Len(s) \in Nat /\ DOMAIN s = 1 .. Len(s) /\ DOMAIN t = 1 .. Len(s) - 1
  BY <1>1, SeqLen
<1> HIDE DEF t
<1>3. CallsOK(t, h, w, M)
  BY <1>1, <1>2 DEF CallsOK, Preserved
<1> QED
  BY <1>3 DEF t

\* The new topmost frame f may only lose obligations, or take new ones that
\* the frames below allow.
LEMMA ReplaceKeeps ==
    ASSUME NEW s \in Seq(Frame), s # <<>>, NEW g, NEW v, NEW N, CallsOK(s, g, v, N),
           NEW h, NEW w, NEW M, M \subseteq N, Preserved(s, h, w),
           NEW f \in Frame,
           f.cls = s[Len(s)].cls, f.isPost = s[Len(s)].isPost,
           Rebuilding(f) => Rebuilding(s[Len(s)]),
           IsPostFrame(f) =>
               \/ IsPostFrame(s[Len(s)])
               \/ \A i \in 1 .. Len(s) - 1 : ~Pushed(s[i]),
           Pushed(f) =>
               /\ ~f.isPost => h[f.cls].kind = "class"
               /\ 1 <= f.level /\ f.level <= Len(w)
               /\ \A i \in 1 .. Len(s) - 1 : Pushed(s[i]) => s[i].level < f.level
    PROVE  CallsOK([s EXCEPT ![Len(s)] = f], h, w, M)
<1> DEFINE t == [s EXCEPT ![Len(s)] = f]
           n == Len(s)
<1>1. t \in Seq(Frame) /\ Len(t) = n /\ t[n] = f /\ \A i \in 1 .. n - 1 : t[i] = s[i]
  BY ReplaceTop
<1>0. n \in Nat \ {0} /\ DOMAIN s = 1 .. n
  BY SeqLen
<1>5. Preserved(s, h, w) <=>
        \A i \in 1 .. n - 1 :
          Pushed(s[i]) =>
            /\ ~s[i].isPost => h[s[i].cls].kind = "class"
            /\ s[i].level <= Len(w)
  BY DEF Preserved
<1> HIDE DEF t, n
<1>2. n \in Nat \ {0} /\ DOMAIN s = 1 .. n /\ DOMAIN t = 1 .. n
  <2>1. DOMAIN t = 1 .. Len(t)
    BY <1>1, SeqLen
  <2> QED
    BY <1>0, <1>1, <2>1
<1>3. \A i \in 1 .. n - 1 : i \in 1 .. n /\ i < n
  BY <1>0
<1>4. \A i \in 1 .. n : i = n \/ i \in 1 .. n - 1
  BY <1>0
<1>8. ASSUME NEW i \in 1 .. n, ~t[i].isPost
      PROVE  t[i].cls \notin M
  <2>1. t[i].isPost = s[i].isPost /\ t[i].cls = s[i].cls /\ i \in DOMAIN s
    BY <1>1, <1>2, <1>4 DEF n
  <2> QED
    BY <1>8, <2>1 DEF CallsOK
<1> SUFFICES ASSUME NEW i \in 1 .. n, Pushed(t[i])
             PROVE  /\ ~t[i].isPost => h[t[i].cls].kind = "class"
                    /\ 1 <= t[i].level /\ t[i].level <= Len(w)
                    /\ \A j \in 1 .. n :
                         i < j =>
                           /\ ~t[i].isPost /\ Rebuilding(t[j]) => t[j].cls # t[i].cls
                           /\ Pushed(t[j]) => t[i].level < t[j].level
                           /\ ~IsPostFrame(t[j])
  BY <1>2, <1>8 DEF CallsOK, t, n
<1>6. CASE i = n
  BY <1>1, <1>2, <1>6 DEF n
<1>7. CASE i \in 1 .. n - 1
  <2>1. t[i] = s[i] /\ Pushed(s[i]) /\ i \in DOMAIN s
    BY <1>1, <1>2, <1>3, <1>7
  <2>2. /\ ~t[i].isPost => h[t[i].cls].kind = "class"
        /\ 1 <= t[i].level /\ t[i].level <= Len(w)
    BY <1>5, <1>7, <2>1 DEF CallsOK
  <2>3. ASSUME NEW j \in 1 .. n, i < j
        PROVE  /\ ~t[i].isPost /\ Rebuilding(t[j]) => t[j].cls # t[i].cls
               /\ Pushed(t[j]) => t[i].level < t[j].level
               /\ ~IsPostFrame(t[j])
    <3>1. j \in DOMAIN s
      BY <1>2
    <3>2. /\ ~s[i].isPost /\ Rebuilding(s[j]) => s[j].cls # s[i].cls
          /\ Pushed(s[j]) => s[i].level < s[j].level
          /\ ~IsPostFrame(s[j])
      BY <2>1, <2>3, <3>1 DEF CallsOK
    <3>3. CASE j = n
      BY <1>1, <1>7, <2>1, <3>2, <3>3 DEF n
    <3>4. CASE j \in 1 .. n - 1
      BY <1>1, <2>1, <3>2, <3>4
    <3> QED
      BY <1>4, <3>3, <3>4
  <2> QED
    BY <2>2, <2>3
<1> QED
  BY <1>4, <1>6, <1>7

\* The callee is not yet validating a content; it may only start one for a
\* class that no active content is validating.
LEMMA CallKeeps ==
    ASSUME NEW s \in Seq(Frame), NEW g, NEW v, NEW N, CallsOK(s, g, v, N),
           NEW f \in Frame, ~Pushed(f), ~f.isPost => f.cls \notin N,
           \A i \in DOMAIN s :
               Pushed(s[i]) =>
                   /\ ~IsPostFrame(f)
                   /\ ~s[i].isPost /\ Rebuilding(f) => f.cls # s[i].cls
    PROVE  CallsOK(Append(s, f), g, v, N)
<1> DEFINE t == Append(s, f)
           n == Len(s)
<1>1. t \in Seq(Frame) /\ Len(t) = n + 1 /\ t[n + 1] = f /\ \A i \in 1 .. n : t[i] = s[i]
  BY PushFrame
<1>0. n \in Nat /\ DOMAIN s = 1 .. n
  BY SeqLen
<1> HIDE DEF t, n
<1>2. n \in Nat /\ DOMAIN s = 1 .. n /\ DOMAIN t = 1 .. n + 1
  <2>1. DOMAIN t = 1 .. Len(t)
    BY <1>1, SeqLen
  <2> QED
    BY <1>0, <1>1, <2>1
<1>3. \A i \in 1 .. n + 1 : i = n + 1 \/ i \in 1 .. n
  BY <1>2
<1>4. \A i \in 1 .. n + 1 : ~(n + 1 < i)
  BY <1>2
<1>5. CallsOK(t, g, v, N)
  BY <1>1, <1>2, <1>3, <1>4 DEF CallsOK
<1> QED
  BY <1>5 DEF t

\* The same three shapes as steps of the module.
LEMMA StepReturns ==
    ASSUME TypeOK, stack # <<>>, CallsOK(stack, gen, validation, New),
           Preserved(stack, gen', validation'), New' \subseteq New, NEW r, Return(r)
    PROVE  CallsOK(stack', gen', validation', New')
BY ReturnKeeps DEF TypeOK, Return, Callers, Depth

LEMMA StepReplaces ==
    ASSUME TypeOK, stack # <<>>, CallsOK(stack, gen, validation, New),
           Preserved(stack, gen', validation'), New' \subseteq New,
           NEW f \in Frame, SetTop(f), f.cls = Top.cls, f.isPost = Top.isPost,
           Rebuilding(f) => Rebuilding(Top),
           IsPostFrame(f) =>
               IsPostFrame(Top) \/ \A i \in 1 .. Depth - 1 : ~Pushed(stack[i]),
           Pushed(f) =>
               /\ ~f.isPost => gen'[f.cls].kind = "class"
               /\ 1 <= f.level /\ f.level <= Len(validation')
               /\ \A i \in 1 .. Depth - 1 : Pushed(stack[i]) => stack[i].level < f.level
    PROVE  CallsOK(stack', gen', validation', New')
BY ReplaceKeeps DEF TypeOK, SetTop, Top, Depth

LEMMA StepCalls ==
    ASSUME TypeOK, stack # <<>>, CallsOK(stack, gen, validation, New),
           UNCHANGED <<gen, validation>>, New' \subseteq New,
           NEW f \in Frame, NEW callee \in Frame, Invoke(f, callee),
           ~callee.isPost => callee.cls \notin New',
           f.cls = Top.cls, f.isPost = Top.isPost, f.level = Top.level,
           Pushed(f) <=> Pushed(Top),
           Rebuilding(f) => Rebuilding(Top), IsPostFrame(f) => IsPostFrame(Top),
           ~Pushed(callee),
           \A i \in DOMAIN stack :
               Pushed(stack[i]) =>
                   /\ ~IsPostFrame(callee)
                   /\ ~stack[i].isPost /\ Rebuilding(callee) => callee.cls # stack[i].cls
    PROVE  CallsOK(stack', gen', validation', New')
<1> DEFINE t == [stack EXCEPT ![Len(stack)] = f]
           n == Len(stack)
<1>0. stack \in Seq(Frame) /\ n \in Nat /\ DOMAIN stack = 1 .. n /\ n > 0
  BY SeqLen DEF TypeOK
<1>1. t \in Seq(Frame) /\ Len(t) = n /\ t[n] = f /\ \A i \in 1 .. n - 1 : t[i] = stack[i]
  BY ReplaceTop DEF TypeOK
<1>2. stack' = Append(t, callee)
  BY DEF Invoke, Depth
<1>3. Top = stack[n]
  BY DEF Top, Depth
<1>4. DOMAIN t = 1 .. n
  BY <1>1, SeqLen
<1> HIDE DEF n
<1>5. \A i \in 1 .. n : i = n \/ i \in 1 .. n - 1
  BY <1>0
<1>6. n \in DOMAIN stack /\ \A i \in 1 .. n - 1 : i \in DOMAIN stack /\ i < n
  BY <1>0
<1>7. Preserved(stack, gen, validation)
  BY <1>6 DEF Preserved, CallsOK, n
<1>8. Pushed(f) =>
        /\ ~f.isPost => gen[f.cls].kind = "class"
        /\ 1 <= f.level /\ f.level <= Len(validation)
        /\ \A i \in 1 .. n - 1 : Pushed(stack[i]) => stack[i].level < f.level
  BY <1>3, <1>6 DEF CallsOK
<1>9. CallsOK(t, gen, validation, New')
  BY <1>0, <1>3, <1>7, <1>8, ReplaceKeeps DEF n
<1>10. \A i \in DOMAIN t :
         Pushed(t[i]) =>
             /\ ~IsPostFrame(callee)
             /\ ~t[i].isPost /\ Rebuilding(callee) => callee.cls # t[i].cls
  <2> SUFFICES ASSUME NEW i \in 1 .. n, Pushed(t[i])
               PROVE  /\ ~IsPostFrame(callee)
                      /\ ~t[i].isPost /\ Rebuilding(callee) => callee.cls # t[i].cls
    BY <1>4
  <2> HIDE DEF t
  <2>1. CASE i = n
    BY <1>1, <1>3, <1>6, <2>1
  <2>2. CASE i \in 1 .. n - 1
    BY <1>1, <1>6, <2>2
  <2> QED
    BY <1>5, <2>1, <2>2
<1> HIDE DEF t
<1>11. CallsOK(Append(t, callee), gen, validation, New')
  BY <1>1, <1>9, <1>10, CallKeeps
<1> QED
  BY <1>2, <1>11

\* No generator loses its kind, and __validation__ does not shrink.
LEMMA ClassesKept ==
    ASSUME TypeOK, stack # <<>>, CallsOK(stack, gen, validation, New),
           \A c \in Class : gen[c].kind = "class" => gen'[c].kind = "class",
           validation' \in Seq(Class), Len(validation) <= Len(validation')
    PROVE  Preserved(stack, gen', validation')
<1>1. Len(stack) \in Nat /\ DOMAIN stack = 1 .. Len(stack)
  BY SeqLen DEF TypeOK
<1>2. \A i \in 1 .. Len(stack) - 1 : i \in DOMAIN stack
  BY <1>1
<1>3. Len(validation) \in Nat /\ Len(validation') \in Nat
  BY SeqLen DEF TypeOK
<1>4. ASSUME NEW i \in 1 .. Len(stack) - 1, Pushed(stack[i])
      PROVE  /\ ~stack[i].isPost => gen'[stack[i].cls].kind = "class"
             /\ stack[i].level <= Len(validation')
  <2>1. stack[i] \in Frame
    BY <1>2, SeqElement DEF TypeOK
  <2>2. stack[i].cls \in Class /\ stack[i].level \in Nat
    BY <2>1 DEF Frame
  <2>3. /\ ~stack[i].isPost => gen[stack[i].cls].kind = "class"
        /\ stack[i].level <= Len(validation)
    BY <1>2, <1>4 DEF CallsOK
  <2>4. stack[i].level <= Len(validation')
    BY <1>3, <2>2, <2>3
  <2> QED
    BY <2>2, <2>3, <2>4
<1> QED
  BY <1>4 DEF Preserved

\* A content ends: its class is popped, and its generator may be replaced.
LEMMA PopKeeps ==
    ASSUME TypeOK, stack # <<>>, CallsOK(stack, gen, validation, New), Pushed(Top),
           validation' = PopValidation,
           \A c \in Class \ {Top.cls} : gen'[c] = gen[c]
    PROVE  Preserved(stack, gen', validation')
<1>1. Len(stack) \in Nat \ {0} /\ DOMAIN stack = 1 .. Len(stack)
  BY SeqLen DEF TypeOK
<1>2. \A i \in 1 .. Len(stack) - 1 : i \in DOMAIN stack /\ i < Len(stack)
  BY <1>1
<1>3. Len(stack) \in DOMAIN stack /\ Top = stack[Len(stack)]
  BY <1>1 DEF Top, Depth
<1>4. Top \in Frame /\ Top.level \in Nat
  BY TopType DEF TypeOK, Frame
<1>5. 1 <= Top.level /\ Top.level <= Len(validation) /\ Len(validation) \in Nat
  BY <1>3, SeqLen DEF CallsOK, TypeOK
<1>6. validation # <<>>
  <2>1. Len(validation) > 0
    BY <1>4, <1>5
  <2> QED
    BY <2>1, SeqLen DEF TypeOK
<1>7. Len(validation') = Len(validation) - 1
  BY <1>6, DropTop DEF PopValidation, TypeOK
<1>8. ASSUME NEW i \in 1 .. Len(stack) - 1, Pushed(stack[i])
      PROVE  /\ ~stack[i].isPost => gen'[stack[i].cls].kind = "class"
             /\ stack[i].level <= Len(validation')
  <2>1. stack[i] \in Frame
    BY <1>2, SeqElement DEF TypeOK
  <2>2. stack[i].cls \in Class /\ stack[i].level \in Nat
    BY <2>1 DEF Frame
  <2>3. /\ ~stack[i].isPost => gen[stack[i].cls].kind = "class"
        /\ ~stack[i].isPost /\ Rebuilding(Top) => Top.cls # stack[i].cls
        /\ stack[i].level < Top.level
        /\ ~IsPostFrame(Top)
    BY <1>2, <1>3, <1>8 DEF CallsOK
  <2>4. stack[i].level <= Len(validation')
    BY <1>4, <1>5, <1>7, <2>2, <2>3
  <2>5. ~stack[i].isPost => gen'[stack[i].cls].kind = "class"
    BY <2>2, <2>3 DEF Pushed, Rebuilding
  <2> QED
    BY <2>4, <2>5
<1> QED
  BY <1>8 DEF Preserved

LEMMA VisitCalls ==
    ASSUME TypeOK, TypeOK', CallsOK(stack, gen, validation, New), Visit
    PROVE  CallsOK(stack', gen', validation', New')
<1>0. stack # <<>>
  BY DEF Visit, ResolveAncestor, AncestorResolved, BeginContent, ReferClass,
         ReferenceResolved, EndVtable, EndContent, FinishClass, FinishInvalid,
         PostNext, PostDone, PostAbandoned, BeginPost, EndPostVtable, EndPost, At, Active
<1>1. Top \in Frame /\ Top.cls \in Class /\ Depth \in Nat \ {0}
  BY <1>0, TopType DEF TypeOK, Frame
<1>2. DOMAIN stack = 1 .. Depth /\ Top = stack[Depth]
  BY SeqLen DEF TypeOK, Top, Depth
<1>3. /\ Depth \in DOMAIN stack
      /\ \A i \in 1 .. Depth - 1 : i \in DOMAIN stack /\ i < Depth
      /\ \A i \in DOMAIN stack : i = Depth \/ i \in 1 .. Depth - 1
  BY <1>1, <1>2
<1>4. gen \in [Class -> Generator] /\ gen' \in [Class -> Generator]
      /\ validation \in Seq(Class) /\ validation' \in Seq(Class)
      /\ Len(validation) \in Nat /\ Len(validation') \in Nat
  BY SeqLen DEF TypeOK
<1>5. \A i \in DOMAIN stack : stack[i] \in Frame /\ stack[i].cls \in Class
                              /\ stack[i].level \in Nat
  <2>1. \A i \in DOMAIN stack : stack[i] \in Frame
    BY SeqElement DEF TypeOK
  <2> QED
    BY <2>1 DEF Frame
<1>6. Pushed(Top) => /\ ~Top.isPost => gen[Top.cls].kind = "class"
                     /\ 1 <= Top.level /\ Top.level <= Len(validation)
                     /\ \A i \in 1 .. Depth - 1 : Pushed(stack[i]) => stack[i].level < Top.level
  BY <1>2, <1>3 DEF CallsOK
<1>7. UNCHANGED <<gen, validation>> => Preserved(stack, gen', validation')
  <2>1. Len(validation) <= Len(validation)
    BY <1>4
  <2> QED
    BY <1>0, <1>4, <2>1, ClassesKept
<1>8. ASSUME IsPostFrame(Top)
      PROVE  \A i \in 1 .. Depth - 1 : ~Pushed(stack[i])
  BY <1>2, <1>3, <1>8 DEF CallsOK
<1>8a. UNCHANGED prog
  BY DEF Visit, ResolveAncestor, AncestorResolved, BeginContent, ReferClass,
         ReferenceResolved, EndVtable, EndContent, FinishClass, FinishInvalid,
         PostNext, PostDone, PostAbandoned, BeginPost, EndPostVtable, EndPost
<1>8b. New' \subseteq New
  <2>2. (\E f : SetTop(f)) => UNCHANGED solution
    BY DEF SetTop
  <2>3. (\E r : Return(r)) => \E r : solution' = Filed(r)
    BY DEF Return
  <2>4. ASSUME NEW f, NEW c \in Class, Refer(f, c)
        PROVE  UNCHANGED solution \/ \E d \in Class : solution' = Registered(d)
    BY <2>4 DEF Refer, SetTop
  <2>5. CASE ResolveAncestor
    <3>1. Ancestor(Top.cls) # NoClass => Ancestor(Top.cls) \in Class
      BY <1>1 DEF Ancestor, TypeOK, ProgramType, Declarations
    <3> QED
      BY <1>8a, <2>2, <2>4, <2>5, <3>1, NewShrinks DEF ResolveAncestor
  <2>6. CASE ReferClass
    <3>1. Top.todo \subseteq Class
      BY <1>1 DEF Frame
    <3> QED
      BY <1>8a, <2>4, <2>6, <3>1, NewShrinks DEF ReferClass
  <2>7. CASE PostNext
    BY <1>8a, <2>7, NewShrinks DEF PostNext
  <2>8. CASE AncestorResolved \/ BeginContent \/ ReferenceResolved \/ EndVtable
             \/ EndContent \/ FinishClass \/ FinishInvalid
    <3>1. (\E f : SetTop(f)) \/ (\E r : Return(r))
      BY <2>8 DEF AncestorResolved, BeginContent, ReferenceResolved, EndVtable,
                  EndContent, FinishClass, FinishInvalid, TakePost, ThrowErrors
    <3> QED
      BY <1>8a, <2>2, <2>3, <3>1, NewShrinks
  <2>9. CASE PostDone \/ PostAbandoned \/ BeginPost \/ EndPostVtable \/ EndPost
    <3>1. (\E f : SetTop(f)) \/ (\E r : Return(r))
      BY <2>9 DEF PostDone, PostAbandoned, BeginPost, EndPostVtable, EndPost,
                  TakePost, ThrowErrors
    <3> QED
      BY <1>8a, <2>2, <2>3, <3>1, NewShrinks
  <2> QED
    BY <2>5, <2>6, <2>7, <2>8, <2>9 DEF Visit
\* A call may ask for the content of a class whatever its generator is only if
\* that class is a new solution.
<1>9. ASSUME NEW f \in Frame, NEW d \in Class, Refer(f, d), UNCHANGED <<gen, validation>>,
             f.cls = Top.cls, f.isPost = Top.isPost, f.level = Top.level,
             Pushed(f) <=> Pushed(Top),
             Rebuilding(f) => Rebuilding(Top), IsPostFrame(f) => IsPostFrame(Top)
      PROVE  CallsOK(stack', gen', validation', New')
  <2>1. CASE solution[d] = "failed"
    <3>1. SetTop(f)
      BY <1>9, <2>1 DEF Refer
    <3> QED
      BY <1>0, <1>6, <1>7, <1>9, <1>8b, <3>1, StepReplaces
  <2>2. CASE solution[d] # "failed"
    <3> DEFINE callee == ValidateCall(d, d \in New)
    <3>1. (d \in New) \in BOOLEAN
      OBVIOUS
    <3>2. callee \in Frame
      BY <3>1, ValidateCallType
    <3>3. callee.cls = d /\ ~callee.isPost
          /\ callee.pc = IF gen[d].kind = "empty" \/ d \in New THEN "ancestor" ELSE "finish"
      BY DEF ValidateCall, NewFrame
    <3>4. Invoke(f, callee) /\ solution' = Registered(d)
      BY <1>9, <2>2 DEF Refer
    <3>5. d \notin New'
      BY <1>8a, <3>4 DEF Registered, New, TypeOK
    <3>6. \A i \in DOMAIN stack :
            Pushed(stack[i]) /\ ~stack[i].isPost =>
              gen[stack[i].cls].kind = "class" /\ stack[i].cls \notin New
      BY DEF CallsOK
    <3> HIDE DEF callee
    <3>7. ~Pushed(callee) /\ ~IsPostFrame(callee)
      BY <3>3 DEF Pushed, IsPostFrame
    <3>8. \A i \in DOMAIN stack :
            Pushed(stack[i]) /\ ~stack[i].isPost /\ Rebuilding(callee) =>
              callee.cls # stack[i].cls
      BY <3>3, <3>6 DEF Rebuilding
    <3> QED
      BY <1>0, <1>9, <1>8b, <3>2, <3>3, <3>4, <3>5, <3>7, <3>8, StepCalls
  <2> QED
    BY <2>1, <2>2
<1>10. CASE ResolveAncestor
  <2>1. CASE Ancestor(Top.cls) = NoClass
    <3> DEFINE f == [Top EXCEPT !.pc = "begin"]
    <3>1. f \in Frame /\ f.cls = Top.cls /\ f.isPost = Top.isPost /\ f.pc = "begin"
      BY <1>1 DEF Frame, Pcs
    <3>2. SetTop(f) /\ UNCHANGED <<gen, validation>> /\ Top.pc = "ancestor"
      BY <1>10, <2>1 DEF ResolveAncestor, At
    <3> HIDE DEF f
    <3> QED
      BY <1>0, <1>7, <3>1, <3>2, <1>8b, StepReplaces DEF Rebuilding, IsPostFrame, Pushed
  <2>2. CASE Ancestor(Top.cls) # NoClass
    <3> DEFINE f == [Top EXCEPT !.pc = "inherit"]
    <3>1. f \in Frame /\ f.cls = Top.cls /\ f.isPost = Top.isPost /\ f.level = Top.level
          /\ f.pc = "inherit"
      BY <1>1 DEF Frame, Pcs
    <3>2. Refer(f, Ancestor(Top.cls)) /\ UNCHANGED <<gen, validation>>
          /\ Top.pc = "ancestor"
      BY <1>10, <2>2 DEF ResolveAncestor, At
    <3>3. Ancestor(Top.cls) \in Class
      BY <1>1, <2>2 DEF Ancestor, TypeOK, ProgramType, Declarations
    <3> HIDE DEF f
    <3>4. Pushed(f) <=> Pushed(Top)
      BY <3>1, <3>2 DEF Pushed
    <3>5. (Rebuilding(f) => Rebuilding(Top)) /\ (IsPostFrame(f) => IsPostFrame(Top))
      BY <3>1, <3>2 DEF Rebuilding, IsPostFrame
    <3> QED
      BY <1>9, <3>1, <3>2, <3>3, <3>4, <3>5
  <2> QED
    BY <2>1, <2>2
<1>11. CASE AncestorResolved
  <2>0. UNCHANGED <<gen, validation>> /\ Top.pc = "inherit"
    BY <1>11 DEF AncestorResolved, At
  <2>1. CASE SetTop([Top EXCEPT !.pc = "begin"])
    <3> DEFINE f == [Top EXCEPT !.pc = "begin"]
    <3>1. f \in Frame /\ f.cls = Top.cls /\ f.isPost = Top.isPost /\ f.pc = "begin"
      BY <1>1 DEF Frame, Pcs
    <3> HIDE DEF f
    <3> QED
      BY <1>0, <1>7, <2>0, <2>1, <3>1, <1>8b, StepReplaces DEF Rebuilding, IsPostFrame, Pushed, f
  <2>2. CASE Top.isPost /\ SetTop([Top EXCEPT !.pc = "end", !.errs = TRUE])
    <3> DEFINE f == [Top EXCEPT !.pc = "end", !.errs = TRUE]
    <3>1. f \in Frame /\ f.cls = Top.cls /\ f.isPost = Top.isPost /\ f.pc = "end"
      BY <1>1 DEF Frame, Pcs
    <3> HIDE DEF f
    <3> QED
      BY <1>0, <1>7, <2>0, <2>2, <3>1, <1>8b, StepReplaces DEF Rebuilding, IsPostFrame, Pushed, f
  <2>3. CASE Return("throw")
    BY <1>0, <1>7, <2>0, <2>3, <1>8b, StepReturns
  <2> QED
    BY <1>11, <2>1, <2>2, <2>3 DEF AncestorResolved
<1>12. CASE BeginContent
  <2>0. Top.pc = "begin" /\ ~Top.isPost
    BY <1>12 DEF BeginContent, At
  <2>1. Len(validation') = Len(validation) + 1
    BY <1>1, <1>4, <1>12, PushFrame DEF BeginContent
  <2>2. \A c \in Class : gen[c].kind = "class" => gen'[c].kind = "class"
    BY <1>1, <1>4, <1>12 DEF BeginContent, BeginGenerator, OfKind
  <2>3. gen'[Top.cls].kind = "class"
    BY <1>1, <1>4, <1>12 DEF BeginContent, BeginGenerator, OfKind
  <2>4. Preserved(stack, gen', validation')
    <3>1. Len(validation) <= Len(validation')
      BY <1>4, <2>1
    <3> QED
      BY <1>0, <1>4, <2>2, <3>1, ClassesKept
  <2>5. CASE Return("throw")
    BY <1>0, <2>4, <2>5, <1>8b, StepReturns
  <2>6. CASE SetTop([Top EXCEPT !.pc = "vtable", !.todo = MethodMentions(Top.cls),
                                !.base = VtableOf(Top.cls), !.level = Len(validation')])
    <3> DEFINE f == [Top EXCEPT !.pc = "vtable", !.todo = MethodMentions(Top.cls),
                                !.base = VtableOf(Top.cls), !.level = Len(validation')]
    <3>1. f.cls = Top.cls /\ f.isPost = Top.isPost /\ f.pc = "vtable"
          /\ f.level = Len(validation')
      BY <1>1 DEF Frame, Pcs
    <3>2. f \in Frame
      BY <1>0, <1>1, <1>4, TodoType, VtableOfType DEF Frame, Pcs
    <3> HIDE DEF f
    <3>3. 1 <= f.level /\ f.level <= Len(validation')
      BY <1>4, <2>1, <3>1
    <3>4. \A i \in 1 .. Depth - 1 : Pushed(stack[i]) => stack[i].level <= Len(validation)
      BY <1>3 DEF CallsOK
    <3>5. \A i \in 1 .. Depth - 1 : Pushed(stack[i]) => stack[i].level < f.level
      BY <1>3, <1>4, <1>5, <2>1, <3>1, <3>4
    <3>6. Rebuilding(Top) /\ (IsPostFrame(f) => IsPostFrame(Top))
      BY <2>0, <3>1 DEF Rebuilding, IsPostFrame
    <3>7. SetTop(f)
      BY <2>6 DEF f
    <3> QED
      BY <1>0, <2>3, <2>4, <3>1, <3>2, <3>3, <3>5, <3>6, <3>7, <1>8b, StepReplaces
  <2> QED
    BY <1>12, <2>5, <2>6 DEF BeginContent
<1>13. CASE ReferClass
  <2>1. PICK d \in Top.todo : Refer([Top EXCEPT !.todo = @ \ {d}], d)
    BY <1>13 DEF ReferClass
  <2> DEFINE f == [Top EXCEPT !.todo = @ \ {d}]
  <2>2. d \in Class /\ f \in Frame /\ f.cls = Top.cls /\ f.isPost = Top.isPost
        /\ f.level = Top.level /\ f.pc = Top.pc
    BY <1>1 DEF Frame
  <2>3. UNCHANGED <<gen, validation>> /\ Refer(f, d)
    BY <1>13, <2>1 DEF ReferClass
  <2> HIDE DEF f
  <2>4. (Pushed(f) <=> Pushed(Top)) /\ (Rebuilding(f) => Rebuilding(Top))
        /\ (IsPostFrame(f) => IsPostFrame(Top))
    BY <2>2 DEF Pushed, Rebuilding, IsPostFrame
  <2> QED
    BY <1>9, <2>2, <2>3, <2>4
<1>14. CASE ReferenceResolved
  <2>0. PICK f \in {[Top EXCEPT !.vtErr = @ \/ (ret = "throw")],
                    [Top EXCEPT !.errs = @ \/ (ret = "throw")]} : SetTop(f)
    BY <1>14 DEF ReferenceResolved
  <2>1. f \in Frame /\ f.cls = Top.cls /\ f.isPost = Top.isPost /\ f.level = Top.level
        /\ f.pc = Top.pc
    BY <1>1, <2>0 DEF Frame
  <2>2. UNCHANGED <<gen, validation>>
    BY <1>14 DEF ReferenceResolved
  <2>3. (Pushed(f) <=> Pushed(Top)) /\ (Rebuilding(f) => Rebuilding(Top))
        /\ (IsPostFrame(f) => IsPostFrame(Top))
    BY <2>1 DEF Pushed, Rebuilding, IsPostFrame
  <2> QED
    BY <1>0, <1>6, <1>7, <2>0, <2>1, <2>2, <2>3, <1>8b, StepReplaces
<1>15. CASE EndVtable
  <2> DEFINE f == [Top EXCEPT !.pc = "fields", !.errs = @ \/ VtableFailed(Top),
                              !.todo = prog.fieldTypes[Top.cls]]
  <2>0. Top.pc = "vtable" /\ ~Top.isPost /\ SetTop(f) /\ UNCHANGED validation
    BY <1>15 DEF EndVtable, At
  <2>1. VtableFailed(Top) \in BOOLEAN
    BY <1>1 DEF VtableFailed, Frame
  <2>2. f \in Frame /\ f.cls = Top.cls /\ f.isPost = Top.isPost /\ f.level = Top.level
        /\ f.pc = "fields"
    BY <1>1, <2>1, TodoType DEF Frame, Pcs
  <2>3. \A c \in Class : gen'[c].kind = gen[c].kind
    BY <1>1, <1>4, <1>15 DEF EndVtable, WithVtable, Generator
  <2>4. Preserved(stack, gen', validation')
    <3>1. Len(validation) <= Len(validation')
      BY <1>4, <2>0
    <3> QED
      BY <1>0, <1>4, <2>3, <3>1, ClassesKept
  <2> HIDE DEF f
  <2>5. Pushed(Top) /\ Rebuilding(Top) /\ (IsPostFrame(f) => IsPostFrame(Top))
    BY <2>0, <2>2 DEF Pushed, Rebuilding, IsPostFrame
  <2> QED
    BY <1>0, <1>1, <1>6, <2>0, <2>2, <2>3, <2>4, <2>5, <1>8b, StepReplaces
<1>16. CASE EndContent
  <2>0. Top.pc = "fields" /\ validation' = PopValidation
    BY <1>16 DEF EndContent, At
  <2>1. \A c \in Class \ {Top.cls} : gen'[c] = gen[c]
    BY <1>4, <1>16 DEF EndContent, ThrowErrors
  <2>2. Preserved(stack, gen', validation')
    BY <1>0, <2>0, <2>1, PopKeeps DEF Pushed
  <2>3. CASE Return("throw")
    BY <1>0, <2>2, <2>3, <1>8b, StepReturns
  <2>4. CASE SetTop([Top EXCEPT !.pc = "finish"])
    <3> DEFINE f == [Top EXCEPT !.pc = "finish"]
    <3>1. f \in Frame /\ f.cls = Top.cls /\ f.isPost = Top.isPost /\ f.pc = "finish"
      BY <1>1 DEF Frame, Pcs
    <3> HIDE DEF f
    <3> QED
      BY <1>0, <2>0, <2>2, <2>4, <3>1, <1>8b, StepReplaces DEF Rebuilding, IsPostFrame, Pushed, f
  <2> QED
    BY <1>16, <2>3, <2>4 DEF EndContent, ThrowErrors
<1>17. CASE FinishClass
  <2>0. Top.pc = "finish" /\ UNCHANGED <<gen, validation>>
    BY <1>17 DEF FinishClass, At
  <2>1. CASE validation = <<>>
    <3> DEFINE f == [Top EXCEPT !.pc = "postAll", !.aux = post]
    <3>1. f \in Frame /\ f.cls = Top.cls /\ f.isPost = Top.isPost /\ f.pc = "postAll"
      BY <1>1 DEF Frame, Pcs, TypeOK
    <3>2. SetTop(f)
      BY <1>17, <2>1 DEF FinishClass, TakePost
    <3>3. Len(validation) = 0
      BY <2>1
    <3>4. \A i \in 1 .. Depth - 1 : ~Pushed(stack[i])
      <4>1. \A i \in 1 .. Depth - 1 :
              Pushed(stack[i]) => 1 <= stack[i].level /\ stack[i].level <= 0
        BY <1>3, <3>3 DEF CallsOK
      <4> QED
        BY <1>3, <1>5, <4>1
    <3> HIDE DEF f
    <3> QED
      BY <1>0, <1>7, <2>0, <3>1, <3>2, <3>4, <1>8b, StepReplaces DEF Rebuilding, Pushed
  <2>2. CASE Return("ok")
    BY <1>0, <1>7, <2>0, <2>2, <1>8b, StepReturns
  <2> QED
    BY <1>17, <2>1, <2>2 DEF FinishClass
<1>18. CASE FinishInvalid
  <2>1. \A c \in Class : gen[c].kind = "class" => gen'[c].kind = "class"
    BY <1>1, <1>4, <1>18 DEF FinishInvalid
  <2>2. Len(validation) <= Len(validation')
    BY <1>4, <1>18 DEF FinishInvalid
  <2>3. Preserved(stack, gen', validation')
    BY <1>0, <1>4, <2>1, <2>2, ClassesKept
  <2>4. Return("throw")
    BY <1>18 DEF FinishInvalid
  <2> QED
    BY <1>0, <2>3, <2>4, <1>8b, StepReturns
<1>19. CASE PostNext
  <2> DEFINE f == [Top EXCEPT !.aux = Tail(@)]
             callee == NewFrame(Head(Top.aux), FALSE, TRUE, "ancestor")
  <2>0. Top.pc = "postAll" /\ Top.aux # <<>> /\ UNCHANGED <<gen, validation>>
        /\ Invoke(f, callee)
    BY <1>19 DEF PostNext, At
  <2>1. Top.aux \in Seq(Class)
    BY <1>1 DEF Frame
  <2>2. Head(Top.aux) \in Class /\ Tail(Top.aux) \in Seq(Class)
    BY <2>0, <2>1
  <2>3. f \in Frame /\ f.cls = Top.cls /\ f.isPost = Top.isPost /\ f.level = Top.level
        /\ f.pc = Top.pc
    BY <1>1, <2>2 DEF Frame
  <2>4. callee \in Frame /\ callee.pc = "ancestor" /\ callee.isPost
    BY <2>2, NewFrameType DEF NewFrame, Pcs
  <2> HIDE DEF f, callee
  <2>5. (Pushed(f) <=> Pushed(Top)) /\ (Rebuilding(f) => Rebuilding(Top))
        /\ (IsPostFrame(f) => IsPostFrame(Top)) /\ ~Pushed(callee)
        /\ ~Pushed(Top) /\ IsPostFrame(Top)
    BY <2>0, <2>3, <2>4 DEF Pushed, Rebuilding, IsPostFrame
  <2>6. \A i \in DOMAIN stack : ~Pushed(stack[i])
    BY <1>2, <1>3, <1>8, <2>5
  <2> QED
    BY <1>0, <2>0, <2>3, <2>4, <2>5, <2>6, <1>8b, StepCalls
<1>20. CASE PostDone
  <2>0. Top.pc = "postAll" /\ UNCHANGED <<gen, validation>>
    BY <1>20 DEF PostDone, At
  <2>1. CASE SetTop([Top EXCEPT !.pc = "postAll", !.aux = post])
    <3> DEFINE f == [Top EXCEPT !.pc = "postAll", !.aux = post]
    <3>1. f \in Frame /\ f.cls = Top.cls /\ f.isPost = Top.isPost /\ f.pc = Top.pc
      BY <1>1, <2>0 DEF Frame, Pcs, TypeOK
    <3> HIDE DEF f
    <3> QED
      BY <1>0, <1>7, <2>0, <2>1, <3>1, <1>8b, StepReplaces DEF Rebuilding, IsPostFrame, Pushed, f
  <2>2. CASE Return("ok")
    BY <1>0, <1>7, <2>0, <2>2, <1>8b, StepReturns
  <2> QED
    BY <1>20, <2>1, <2>2 DEF PostDone, TakePost
<1>21. CASE PostAbandoned
  BY <1>0, <1>7, <1>21, <1>8b, StepReturns DEF PostAbandoned
<1>22. CASE BeginPost
  <2>0. Top.pc = "begin" /\ Top.isPost
    BY <1>22 DEF BeginPost, At
  <2>1. Len(validation') = Len(validation) + 1
    BY <1>1, <1>4, <1>22, PushFrame DEF BeginPost
  <2>2. \A c \in Class : gen'[c].kind = gen[c].kind
    BY <1>1, <1>4, <1>22 DEF BeginPost, Generator
  <2>3. Preserved(stack, gen', validation')
    <3>1. Len(validation) <= Len(validation')
      BY <1>4, <2>1
    <3> QED
      BY <1>0, <1>4, <2>2, <3>1, ClassesKept
  <2>4. \A i \in 1 .. Depth - 1 : ~Pushed(stack[i])
    BY <1>8, <2>0 DEF IsPostFrame
  <2>5. CASE SetTop([Top EXCEPT !.pc = "end", !.errs = TRUE])
    <3> DEFINE f == [Top EXCEPT !.pc = "end", !.errs = TRUE]
    <3>1. f \in Frame /\ f.cls = Top.cls /\ f.isPost = Top.isPost /\ f.pc = "end"
      BY <1>1 DEF Frame, Pcs
    <3> HIDE DEF f
    <3> QED
      BY <1>0, <2>0, <2>3, <2>4, <2>5, <3>1, <1>8b, StepReplaces DEF Rebuilding, Pushed, f
  <2>6. CASE SetTop([Top EXCEPT !.pc = "vtable", !.todo = MethodMentions(Top.cls),
                                !.base = VtableOf(Top.cls), !.level = Len(validation')])
    <3> DEFINE f == [Top EXCEPT !.pc = "vtable", !.todo = MethodMentions(Top.cls),
                                !.base = VtableOf(Top.cls), !.level = Len(validation')]
    <3>1. f.cls = Top.cls /\ f.isPost = Top.isPost /\ f.pc = "vtable"
          /\ f.level = Len(validation')
      BY <1>1 DEF Frame, Pcs
    <3>2. f \in Frame
      BY <1>0, <1>1, <1>4, TodoType, VtableOfType DEF Frame, Pcs
    <3> HIDE DEF f
    <3>3. 1 <= f.level /\ f.level <= Len(validation')
      BY <1>4, <2>1, <3>1
    <3>4. Rebuilding(Top)
      BY <2>0 DEF Rebuilding
    <3>5. SetTop(f)
      BY <2>6 DEF f
    <3> QED
      BY <1>0, <2>0, <2>3, <2>4, <3>1, <3>2, <3>3, <3>4, <3>5, <1>8b, StepReplaces
  <2> QED
    BY <1>22, <2>5, <2>6 DEF BeginPost
<1>23. CASE EndPostVtable
  <2> DEFINE f == [Top EXCEPT !.pc = "end", !.errs = VtableFailed(Top)]
  <2>0. Top.pc = "vtable" /\ Top.isPost /\ SetTop(f) /\ validation' = PopValidation
    BY <1>23 DEF EndPostVtable, At
  <2>1. \A c \in Class \ {Top.cls} : gen'[c] = gen[c]
    BY <1>4, <1>23 DEF EndPostVtable
  <2>2. Preserved(stack, gen', validation')
    BY <1>0, <2>0, <2>1, PopKeeps DEF Pushed
  <2>3. VtableFailed(Top) \in BOOLEAN
    BY <1>1 DEF VtableFailed, Frame
  <2>4. f \in Frame /\ f.cls = Top.cls /\ f.isPost = Top.isPost /\ f.pc = "end"
    BY <1>1, <2>3 DEF Frame, Pcs
  <2>5. \A i \in 1 .. Depth - 1 : ~Pushed(stack[i])
    BY <1>8, <2>0 DEF IsPostFrame
  <2> HIDE DEF f
  <2> QED
    BY <1>0, <2>0, <2>2, <2>4, <2>5, <1>8b, StepReplaces DEF Rebuilding, Pushed
<1>24. CASE EndPost
  <2>0. \A i \in 1 .. Len(stack) - 1 : ~Pushed(stack[i])
    BY <1>8, <1>24 DEF EndPost, At, IsPostFrame, Depth
  <2>1. Preserved(stack, gen', validation')
    BY <2>0 DEF Preserved
  <2> QED
    BY <1>0, <1>24, <2>1, <1>8b, StepReturns DEF EndPost, ThrowErrors
<1> QED
  BY <1>10, <1>11, <1>12, <1>13, <1>14, <1>15, <1>16, <1>17, <1>18, <1>19, <1>20,
     <1>21, <1>22, <1>23, <1>24 DEF Visit

LEMMA DriveCalls ==
    ASSUME TypeOK, CallsOK(stack, gen, validation, New), Drive
    PROVE  CallsOK(stack', gen', validation', New')
<1>1. ASSUME NEW c \in Class, NEW m \in BOOLEAN, stack' = <<ValidateCall(c, m)>>,
             c \notin New'
      PROVE  CallsOK(stack', gen', validation', New')
  <2>1. ~Pushed(ValidateCall(c, m)) /\ ValidateCall(c, m).cls = c
    BY DEF Pushed, ValidateCall, NewFrame
  <2>2. \A i \in DOMAIN stack' : stack'[i] = ValidateCall(c, m)
    BY <1>1
  <2> QED
    BY <1>1, <2>1, <2>2 DEF CallsOK
<1>2. CASE ValidateModuleClass
  <2>1. PICK c \in work : stack' = <<ValidateCall(c, TRUE)>>
    BY <1>2 DEF ValidateModuleClass
  <2>2. c \in Class /\ c \notin prog.instances
    BY DEF TypeOK, ProgramType, Declarations
  <2>3. c \notin New'
    BY <1>2, <2>2 DEF ValidateModuleClass, New
  <2> QED
    BY <1>1, <2>1, <2>2, <2>3
<1>3. CASE UseClass
  <2>1. PICK c \in Class :
          IF solution[c] = "failed"
          THEN ret' = "throw" /\ UNCHANGED <<stack, solution>>
          ELSE /\ stack' = <<ValidateCall(c, c \in New)>>
               /\ solution' = Registered(c)
               /\ UNCHANGED ret
    BY <1>3 DEF UseClass
  <2>2. UNCHANGED <<prog, gen, validation>>
    BY <1>3 DEF UseClass
  <2>3. CASE solution[c] = "failed"
    BY <2>1, <2>2, <2>3 DEF New
  <2>4. CASE solution[c] # "failed"
    <3>1. c \notin New'
      BY <2>1, <2>2, <2>4 DEF Registered, New, TypeOK
    <3>2. (c \in New) \in BOOLEAN
      OBVIOUS
    <3> QED
      BY <1>1, <2>1, <2>4, <3>1, <3>2
  <2> QED
    BY <2>3, <2>4
<1>4. CASE RootReturned \/ EndModule \/ ValidateClassFull \/ EndClasses
  BY <1>4 DEF RootReturned, EndModule, ValidateClassFull, EndClasses, visitor, New
<1> QED
  BY <1>2, <1>3, <1>4 DEF Drive

LEMMA StackStep == TypeOK /\ StackInv /\ [Next]_vars => StackInv'
<1> SUFFICES ASSUME TypeOK, StackInv, [Next]_vars PROVE StackInv'
  OBVIOUS
<1>1. CallsOK(stack, gen, validation, New) /\ TypeOK'
  BY StackInvIsCallsOK, TypeStep
<1>2. CallsOK(stack', gen', validation', New')
  <2>1. CASE Visit
    BY <1>1, <2>1, VisitCalls
  <2>2. CASE Drive
    BY <1>1, <2>2, DriveCalls
  <2>3. CASE UNCHANGED vars
    BY <1>1, <2>3 DEF vars, visitor, New
  <2> QED
    BY <2>1, <2>2, <2>3 DEF Next
<1> QED
  BY <1>2 DEF StackInv, ActiveContent, LevelsGrow, PostIsOutermost, NoNewCall, CallsOK

\* Recursive validation is avoided for any set of classes and any program:
\* while the content of a class is being validated its symbol holds a Class
\* generator, and no nested call starts that content again.
THEOREM NoRecursiveContent == Spec => []ActiveContent
<1>1. Init => StackInv
  BY DEF Init, StackInv, ActiveContent, LevelsGrow, PostIsOutermost, NoNewCall
<1>2. StackInv => ActiveContent
  BY DEF StackInv
<1> QED
  BY <1>1, <1>2, StackStep, TypeCorrect, PTL DEF Spec

-----------------------------------------------------------------------------
(* A class that failed stays so.  A call that is about to validate a content *)
(* on behalf of a mere use found the symbol of its class empty; when the      *)
(* class fails under it, the error is on its way up to it: either it is being *)
(* thrown, or a call above has recorded it and will throw when it ends.       *)

Entering(f) == f.pc \in {"ancestor", "inherit", "begin"} /\ ~f.isPost /\ ~f.inModule
IsFailed(G) == G.kind \in {"none", "error"}
Doomed(f)   == (f.pc = "vtable" /\ f.vtErr) \/ (f.pc \in {"fields", "end"} /\ f.errs)

ErrorsClimb(s, g, r) ==
    \A i \in DOMAIN s :
        Entering(s[i]) /\ IsFailed(g[s[i].cls]) =>
            r = "throw" \/ \E j \in DOMAIN s : i < j /\ Doomed(s[j])

StickyInv == ErrorsClimb(stack, gen, ret)

\* Nothing that was valid or empty fails between g and h.
NoneFails(g, h) == \A c \in Class : IsFailed(h[c]) => IsFailed(g[c])

LEMMA ThrowClimbs ==
    ASSUME NEW s, NEW g
    PROVE  ErrorsClimb(s, g, "throw")
BY DEF ErrorsClimb

\* The topmost frame has nothing above it.
LEMMA TopClimbs ==
    ASSUME NEW s \in Seq(Frame), s # <<>>, NEW g, NEW r, ErrorsClimb(s, g, r), r # "throw"
    PROVE  ~(Entering(s[Len(s)]) /\ IsFailed(g[s[Len(s)].cls]))
<1>1. Len(s) \in DOMAIN s /\ \A j \in DOMAIN s : ~(Len(s) < j)
  BY SeqLen
<1> QED
  BY <1>1 DEF ErrorsClimb

\* The topmost call goes on: it takes the error that was thrown to it into
\* account, and forgets none.
LEMMA GoOnClimbs ==
    ASSUME NEW s \in Seq(Frame), s # <<>>, NEW g, NEW r, ErrorsClimb(s, g, r),
           NEW h, NoneFails(g, h), NEW q, NEW f \in Frame,
           r = "throw" => Doomed(f),
           Doomed(s[Len(s)]) => Doomed(f),
           Entering(f) => Entering(s[Len(s)]) /\ f.cls = s[Len(s)].cls
    PROVE  ErrorsClimb([s EXCEPT ![Len(s)] = f], h, q)
<1> DEFINE t == [s EXCEPT ![Len(s)] = f]
           n == Len(s)
<1>1. t \in Seq(Frame) /\ Len(t) = n /\ t[n] = f /\ \A i \in 1 .. n - 1 : t[i] = s[i]
  BY ReplaceTop
<1>0. n \in Nat \ {0} /\ DOMAIN s = 1 .. n
  BY SeqLen
<1>2. n \in Nat \ {0} /\ DOMAIN s = 1 .. n /\ DOMAIN t = 1 .. n
  <2> HIDE DEF t, n
  <2>1. DOMAIN t = 1 .. Len(t)
    BY <1>1, SeqLen
  <2> QED
    BY <1>0, <1>1, <2>1
<1>3. r # "throw" => ~(Entering(s[n]) /\ IsFailed(g[s[n].cls]))
  BY TopClimbs
<1>4. f.cls \in Class /\ \A i \in 1 .. n : s[i].cls \in Class
  <2>1. \A i \in 1 .. n : s[i] \in Frame
    BY <1>0, SeqElement
  <2> QED
    BY <2>1 DEF Frame
<1> SUFFICES ASSUME NEW i \in 1 .. n, Entering(t[i]), IsFailed(h[t[i].cls])
             PROVE  \E j \in 1 .. n : i < j /\ Doomed(t[j])
  BY <1>2 DEF ErrorsClimb
<1> HIDE DEF t, n
<1>5. CASE i = n
  <2>1. Entering(f) /\ IsFailed(h[f.cls])
    BY <1>1, <1>5
  <2>2. IsFailed(g[f.cls]) /\ r # "throw"
    BY <1>4, <2>1 DEF NoneFails, Entering, Doomed
  <2> QED
    BY <1>3, <2>1, <2>2 DEF n
<1>6. CASE i \in 1 .. n - 1
  <2>1. Entering(s[i]) /\ IsFailed(g[s[i].cls])
    BY <1>1, <1>2, <1>4, <1>6 DEF NoneFails
  <2>2. r = "throw" \/ \E j \in 1 .. n : i < j /\ Doomed(s[j])
    BY <1>2, <2>1 DEF ErrorsClimb
  <2>3. n \in 1 .. n /\ i < n /\ \A j \in 1 .. n : j = n \/ j \in 1 .. n - 1
    BY <1>2, <1>6
  <2>4. CASE Doomed(f)
    BY <1>1, <2>3, <2>4
  <2>5. CASE ~Doomed(f)
    <3>1. PICK j \in 1 .. n : i < j /\ Doomed(s[j])
      BY <2>2, <2>5
    <3>2. j \in 1 .. n - 1
      BY <2>3, <2>5, <3>1 DEF n
    <3> QED
      BY <1>1, <3>1, <3>2
  <2> QED
    BY <2>4, <2>5
<1> QED
  BY <1>2, <1>5, <1>6

\* A call is made: it enters a content for a use only if its class has not
\* failed.
LEMMA CallClimbs ==
    ASSUME NEW s \in Seq(Frame), NEW g, NEW r, ErrorsClimb(s, g, r),
           NEW f \in Frame, Entering(f) => ~IsFailed(g[f.cls])
    PROVE  ErrorsClimb(Append(s, f), g, r)
<1> DEFINE t == Append(s, f)
           n == Len(s)
<1>1. t \in Seq(Frame) /\ Len(t) = n + 1 /\ t[n + 1] = f /\ \A i \in 1 .. n : t[i] = s[i]
  BY PushFrame
<1>2. n \in Nat /\ DOMAIN s = 1 .. n /\ DOMAIN t = 1 .. n + 1
  BY <1>1, SeqLen
<1> SUFFICES ASSUME NEW i \in 1 .. n + 1, Entering(t[i]), IsFailed(g[t[i].cls]), r # "throw"
             PROVE  \E j \in 1 .. n + 1 : i < j /\ Doomed(t[j])
  BY <1>2 DEF ErrorsClimb
<1> HIDE DEF t, n
<1>3. i # n + 1
  BY <1>1
<1>4. i \in 1 .. n
  BY <1>2, <1>3
<1>5. PICK j \in 1 .. n : i < j /\ Doomed(s[j])
  BY <1>1, <1>2, <1>4 DEF ErrorsClimb
<1> QED
  BY <1>1, <1>2, <1>5

\* A call that returns without an error had recorded none.
LEMMA ReturnClimbs ==
    ASSUME NEW s \in Seq(Frame), s # <<>>, NEW g, NEW r, ErrorsClimb(s, g, r), r # "throw",
           ~Doomed(s[Len(s)]), NEW q
    PROVE  ErrorsClimb(SubSeq(s, 1, Len(s) - 1), g, q)
<1> DEFINE t == SubSeq(s, 1, Len(s) - 1)
           n == Len(s)
<1>1. t \in Seq(Frame) /\ Len(t) = n - 1 /\ \A i \in 1 .. n - 1 : t[i] = s[i]
  BY DropTop
<1>2. n \in Nat \ {0} /\ DOMAIN s = 1 .. n /\ DOMAIN t = 1 .. n - 1
  BY <1>1, SeqLen
<1> SUFFICES ASSUME NEW i \in 1 .. n - 1, Entering(t[i]), IsFailed(g[t[i].cls])
             PROVE  \E j \in 1 .. n - 1 : i < j /\ Doomed(t[j])
  BY <1>2 DEF ErrorsClimb
<1> HIDE DEF t, n
<1>3. PICK j \in 1 .. n : i < j /\ Doomed(s[j])
  BY <1>1, <1>2 DEF ErrorsClimb
<1>4. j # n
  BY <1>3 DEF n
<1>5. j \in 1 .. n - 1
  BY <1>2, <1>4
<1> QED
  BY <1>1, <1>3, <1>5

\* The same shapes as steps of the module.
LEMMA StepGoesOn ==
    ASSUME TypeOK, stack # <<>>, StickyInv, NoneFails(gen, gen'),
           NEW f \in Frame, SetTop(f), ret = "throw" => Doomed(f), Doomed(Top) => Doomed(f),
           Entering(f) => Entering(Top) /\ f.cls = Top.cls
    PROVE  StickyInv'
BY GoOnClimbs DEF StickyInv, TypeOK, SetTop, Top, Depth

LEMMA StepInvokes ==
    ASSUME TypeOK, stack # <<>>, StickyInv, UNCHANGED gen, ret' = "none",
           NEW f \in Frame, NEW callee \in Frame, Invoke(f, callee),
           ret # "throw", Doomed(Top) => Doomed(f),
           Entering(f) => Entering(Top) /\ f.cls = Top.cls,
           Entering(callee) => ~IsFailed(gen[callee.cls])
    PROVE  StickyInv'
<1> DEFINE t == [stack EXCEPT ![Len(stack)] = f]
<1>1. stack \in Seq(Frame) /\ t \in Seq(Frame)
  BY ReplaceTop DEF TypeOK
<1>2. NoneFails(gen, gen)
  BY DEF NoneFails
<1>3. ErrorsClimb(t, gen, "none")
  BY <1>1, <1>2, GoOnClimbs DEF StickyInv, Top, Depth
<1>4. stack' = Append(t, callee)
  BY DEF Invoke, Depth
<1> HIDE DEF t
<1> QED
  BY <1>1, <1>3, <1>4, CallClimbs DEF StickyInv

LEMMA StepAnswers ==
    ASSUME TypeOK, stack # <<>>, StickyInv, UNCHANGED gen, ret # "throw", ~Doomed(Top),
           NEW r, Return(r)
    PROVE  StickyInv'
BY ReturnClimbs DEF StickyInv, TypeOK, Return, Callers, Top, Depth

\* What a step of the topmost call does to the errors: it throws; it goes on and
\* keeps record of an error that was thrown to it; it makes a call; or it
\* returns, having recorded none.
GoesOn(f) ==
    /\ SetTop(f)
    /\ ret = "throw" \/ Doomed(Top) => Doomed(f)
    /\ Entering(f) => Entering(Top) /\ f.cls = Top.cls

CallsFrom(f, callee) ==
    /\ Invoke(f, callee) /\ ret # "throw" /\ ret' = "none"
    /\ Doomed(Top) => Doomed(f)
    /\ Entering(f) => Entering(Top) /\ f.cls = Top.cls
    /\ Entering(callee) => ~IsFailed(gen[callee.cls])
    /\ ~Doomed(callee)

ErrorStep ==
    \/ ret' = "throw"
    \/ NoneFails(gen, gen') /\ \E f \in Frame : GoesOn(f)
    \/ UNCHANGED gen /\ \E f \in Frame, callee \in Frame : CallsFrom(f, callee)
    \/ UNCHANGED gen /\ ret # "throw" /\ ~Doomed(Top) /\ \E r : Return(r)

LEMMA ReferErrors ==
    ASSUME UNCHANGED gen, ret = "none",
           NEW f \in Frame, NEW c \in Class, Refer(f, c), Doomed(Top) => Doomed(f),
           Entering(f) => Entering(Top) /\ f.cls = Top.cls
    PROVE  ErrorStep
<1>1. CASE solution[c] = "failed"
  BY <1>1 DEF Refer, ErrorStep
<1>2. CASE solution[c] # "failed"
  <2> DEFINE callee == ValidateCall(c, c \in New)
  <2>1. (c \in New) \in BOOLEAN
    OBVIOUS
  <2>2. callee \in Frame
    BY <2>1, ValidateCallType
  <2>3. callee.cls = c /\ callee.inModule = (c \in New)
        /\ callee.pc = IF gen[c].kind = "empty" \/ c \in New THEN "ancestor" ELSE "finish"
    BY DEF ValidateCall, NewFrame
  <2>4. Invoke(f, callee) /\ ret' = "none"
    BY <1>2 DEF Refer
  <2> HIDE DEF callee
  <2>5. (Entering(callee) => ~IsFailed(gen[callee.cls])) /\ ~Doomed(callee)
    BY <2>3 DEF Entering, IsFailed, Doomed
  <2> QED
    BY <2>2, <2>4, <2>5 DEF ErrorStep, CallsFrom
<1> QED
  BY <1>1, <1>2

LEMMA VisitActive == Visit => stack # <<>>
BY DEF Visit, ResolveAncestor, AncestorResolved, BeginContent, ReferClass,
       ReferenceResolved, EndVtable, EndContent, FinishClass, FinishInvalid,
       PostNext, PostDone, PostAbandoned, BeginPost, EndPostVtable, EndPost, At, Active

LEMMA WithVtableKind ==
    ASSUME gen \in [Class -> Generator], NEW f \in Frame
    PROVE  WithVtable(f).kind = gen[f.cls].kind
<1>1. gen[f.cls] \in Generator
  BY DEF Frame
<1> QED
  BY <1>1 DEF WithVtable, Generator

LEMMA VisitErrors ==
    ASSUME TypeOK, Visit
    PROVE  ErrorStep
<1>0. stack # <<>>
  BY VisitActive
<1>1. Top \in Frame /\ Top.cls \in Class
  BY <1>0, TopType DEF TypeOK, Frame
<1>2. gen \in [Class -> Generator]
  BY DEF TypeOK
<1>3. NoneFails(gen, gen)
  BY DEF NoneFails
<1>4. ret' = "throw" => ErrorStep
  BY DEF ErrorStep
<1>5. CASE ResolveAncestor
  <2>0. Top.pc = "ancestor" /\ ret = "none" /\ UNCHANGED gen
    BY <1>5 DEF ResolveAncestor, At
  <2>1. CASE Ancestor(Top.cls) = NoClass
    <3> DEFINE f == [Top EXCEPT !.pc = "begin"]
    <3>1. /\ f \in Frame /\ f.cls = Top.cls /\ f.pc = "begin"
          /\ f.isPost = Top.isPost /\ f.inModule = Top.inModule
      BY <1>1 DEF Frame, Pcs
    <3>2. SetTop(f)
      BY <1>5, <2>1 DEF ResolveAncestor
    <3> HIDE DEF f
    <3> QED
      BY <1>0, <1>3, <2>0, <3>1, <3>2 DEF ErrorStep, GoesOn, Entering, Doomed
  <2>2. CASE Ancestor(Top.cls) # NoClass
    <3> DEFINE f == [Top EXCEPT !.pc = "inherit"]
    <3>1. /\ f \in Frame /\ f.cls = Top.cls /\ f.pc = "inherit"
          /\ f.isPost = Top.isPost /\ f.inModule = Top.inModule
      BY <1>1 DEF Frame, Pcs
    <3>2. Refer(f, Ancestor(Top.cls))
      BY <1>5, <2>2 DEF ResolveAncestor
    <3>3. Ancestor(Top.cls) \in Class
      BY <1>1, <2>2 DEF Ancestor, TypeOK, ProgramType, Declarations
    <3> HIDE DEF f
    <3> QED
      BY <1>0, <2>0, <3>1, <3>2, <3>3, ReferErrors DEF Entering, Doomed
  <2> QED
    BY <2>1, <2>2
<1>6. CASE AncestorResolved
  <2>0. Top.pc = "inherit" /\ UNCHANGED gen
    BY <1>6 DEF AncestorResolved, At
  <2>1. CASE AncestorAccepted
    <3> DEFINE f == [Top EXCEPT !.pc = "begin"]
    <3>1. /\ f \in Frame /\ f.cls = Top.cls /\ f.pc = "begin"
          /\ f.isPost = Top.isPost /\ f.inModule = Top.inModule
      BY <1>1 DEF Frame, Pcs
    <3>2. SetTop(f) /\ ret = "ok"
      BY <1>6, <2>1 DEF AncestorResolved, AncestorAccepted
    <3> HIDE DEF f
    <3> QED
      BY <1>0, <1>3, <2>0, <3>1, <3>2 DEF ErrorStep, GoesOn, Entering, Doomed
  <2>2. CASE ~AncestorAccepted /\ Top.isPost
    <3> DEFINE f == [Top EXCEPT !.pc = "end", !.errs = TRUE]
    <3>1. f \in Frame /\ f.pc = "end" /\ f.errs
      BY <1>1 DEF Frame, Pcs
    <3>2. SetTop(f)
      BY <1>6, <2>2 DEF AncestorResolved
    <3> HIDE DEF f
    <3> QED
      BY <1>0, <1>3, <2>0, <3>1, <3>2 DEF ErrorStep, GoesOn, Entering, Doomed
  <2>3. CASE ~AncestorAccepted /\ ~Top.isPost
    BY <1>4, <1>6, <2>3 DEF AncestorResolved, Return
  <2> QED
    BY <2>1, <2>2, <2>3
<1>7. CASE BeginContent
  <2>0. Top.pc = "begin" /\ ret = "none"
    BY <1>7 DEF BeginContent, At
  <2>1. NoneFails(gen, gen')
    BY <1>1, <1>2, <1>7 DEF BeginContent, BeginGenerator, OfKind, NoneFails, IsFailed
  <2>2. CASE Return("throw")
    BY <1>4, <2>2 DEF Return
  <2>3. CASE SetTop([Top EXCEPT !.pc = "vtable", !.todo = MethodMentions(Top.cls),
                                !.base = VtableOf(Top.cls), !.level = Len(validation')])
    <3> DEFINE f == [Top EXCEPT !.pc = "vtable", !.todo = MethodMentions(Top.cls),
                                !.base = VtableOf(Top.cls), !.level = Len(validation')]
    <3>1. Len(validation') \in Nat
      <4>1. validation' \in Seq(Class)
        BY <1>1, <1>7, PushFrame DEF BeginContent, TypeOK
      <4> QED
        BY <4>1, SeqLen
    <3>2. f \in Frame /\ f.pc = "vtable"
      BY <1>0, <1>1, <3>1, TodoType, VtableOfType DEF Frame, Pcs
    <3>3. SetTop(f)
      BY <2>3 DEF f
    <3> HIDE DEF f
    <3> QED
      BY <1>0, <2>0, <2>1, <3>2, <3>3 DEF ErrorStep, GoesOn, Entering, Doomed
  <2> QED
    BY <1>7, <2>2, <2>3 DEF BeginContent
<1>8. CASE ReferClass
  <2>1. PICK d \in Top.todo : Refer([Top EXCEPT !.todo = @ \ {d}], d)
    BY <1>8 DEF ReferClass
  <2> DEFINE f == [Top EXCEPT !.todo = @ \ {d}]
  <2>2. /\ d \in Class /\ f \in Frame /\ f.cls = Top.cls /\ f.isPost = Top.isPost
        /\ f.inModule = Top.inModule /\ f.pc = Top.pc /\ f.errs = Top.errs
        /\ f.vtErr = Top.vtErr
    BY <1>1 DEF Frame
  <2>3. UNCHANGED gen /\ ret = "none" /\ Refer(f, d)
    BY <1>8, <2>1 DEF ReferClass
  <2> HIDE DEF f
  <2> QED
    BY <1>0, <2>2, <2>3, ReferErrors DEF Entering, Doomed
<1>9. CASE ReferenceResolved
  <2>0. Pushed(Top) /\ UNCHANGED gen
    BY <1>9 DEF ReferenceResolved
  <2>1. CASE Top.pc = "vtable"
    <3> DEFINE f == [Top EXCEPT !.vtErr = @ \/ (ret = "throw")]
    <3>1. f \in Frame /\ f.pc = "vtable" /\ f.vtErr = (Top.vtErr \/ (ret = "throw"))
      BY <1>1, <2>1 DEF Frame
    <3>2. SetTop(f)
      BY <1>9, <2>1 DEF ReferenceResolved
    <3> HIDE DEF f
    <3> QED
      BY <1>0, <1>3, <2>0, <2>1, <3>1, <3>2 DEF ErrorStep, GoesOn, Entering, Doomed
  <2>2. CASE Top.pc # "vtable"
    <3> DEFINE f == [Top EXCEPT !.errs = @ \/ (ret = "throw")]
    <3>1. f \in Frame /\ f.pc = "fields" /\ f.errs = (Top.errs \/ (ret = "throw"))
      BY <1>1, <2>0, <2>2 DEF Frame, Pushed
    <3>2. SetTop(f)
      BY <1>9, <2>2 DEF ReferenceResolved
    <3> HIDE DEF f
    <3> QED
      BY <1>0, <1>3, <2>0, <2>2, <3>1, <3>2 DEF ErrorStep, GoesOn, Entering, Doomed
  <2> QED
    BY <2>1, <2>2
<1>10. CASE EndVtable
  <2> DEFINE f == [Top EXCEPT !.pc = "fields", !.errs = @ \/ VtableFailed(Top),
                              !.todo = prog.fieldTypes[Top.cls]]
  <2>0. Top.pc = "vtable" /\ ret = "none" /\ SetTop(f)
    BY <1>10 DEF EndVtable, At
  <2>1. VtableFailed(Top) \in BOOLEAN
    BY <1>1 DEF VtableFailed, Frame
  <2>2. f \in Frame /\ f.pc = "fields" /\ f.errs = (Top.errs \/ VtableFailed(Top))
    BY <1>1, <2>1, TodoType DEF Frame, Pcs
  <2>3. NoneFails(gen, gen')
    BY <1>1, <1>2, <1>10, WithVtableKind DEF EndVtable, NoneFails, IsFailed
  <2> HIDE DEF f
  <2> QED
    BY <1>0, <2>0, <2>2, <2>3 DEF ErrorStep, GoesOn, Entering, Doomed, VtableFailed
<1>11. CASE EndContent
  <2>0. Top.pc = "fields" /\ ret = "none"
    BY <1>11 DEF EndContent, At
  <2>1. CASE Top.errs \/ FieldsCollide(Top.cls)
    BY <1>4, <1>11, <2>1 DEF EndContent, ThrowErrors, Return
  <2>2. CASE ~(Top.errs \/ FieldsCollide(Top.cls))
    <3> DEFINE f == [Top EXCEPT !.pc = "finish"]
    <3>1. f \in Frame /\ f.pc = "finish"
      BY <1>1 DEF Frame, Pcs
    <3>2. SetTop(f) /\ NoneFails(gen, gen')
      BY <1>1, <1>2, <1>11, <2>2 DEF EndContent, Generator, NoneFails, IsFailed
    <3> HIDE DEF f
    <3> QED
      BY <1>0, <2>0, <2>2, <3>1, <3>2 DEF ErrorStep, GoesOn, Entering, Doomed
  <2> QED
    BY <2>1, <2>2
<1>12. CASE FinishClass \/ PostDone
  <2>0. Top.pc \in {"finish", "postAll"} /\ ret # "throw" /\ UNCHANGED gen
    BY <1>12 DEF FinishClass, PostDone, At
  <2>1. CASE TakePost
    <3> DEFINE f == [Top EXCEPT !.pc = "postAll", !.aux = post]
    <3>1. f \in Frame /\ f.pc = "postAll"
      BY <1>1 DEF Frame, Pcs, TypeOK
    <3>2. SetTop(f)
      BY <2>1 DEF TakePost
    <3> HIDE DEF f
    <3> QED
      BY <1>0, <1>3, <2>0, <3>1, <3>2 DEF ErrorStep, GoesOn, Entering, Doomed
  <2>2. CASE Return("ok")
    BY <1>0, <2>0, <2>2 DEF ErrorStep, Doomed
  <2> QED
    BY <1>12, <2>1, <2>2 DEF FinishClass, PostDone
<1>13. CASE FinishInvalid \/ PostAbandoned
  BY <1>4, <1>13 DEF FinishInvalid, PostAbandoned, Return
<1>14. CASE PostNext
  <2> DEFINE f == [Top EXCEPT !.aux = Tail(@)]
             callee == NewFrame(Head(Top.aux), FALSE, TRUE, "ancestor")
  <2>0. /\ Top.pc = "postAll" /\ Top.aux # <<>> /\ UNCHANGED gen /\ ret # "throw"
        /\ ret' = "none" /\ Invoke(f, callee)
    BY <1>14 DEF PostNext, At
  <2>1. Top.aux \in Seq(Class)
    BY <1>1 DEF Frame
  <2>2. Head(Top.aux) \in Class /\ Tail(Top.aux) \in Seq(Class)
    BY <2>0, <2>1
  <2>3. f \in Frame /\ f.pc = Top.pc
    BY <1>1, <2>2 DEF Frame
  <2>4. callee \in Frame /\ callee.isPost /\ callee.pc = "ancestor"
    BY <2>2, NewFrameType DEF NewFrame, Pcs
  <2> HIDE DEF f, callee
  <2> QED
    BY <1>0, <2>0, <2>3, <2>4 DEF ErrorStep, CallsFrom, Entering, Doomed
<1>15. CASE BeginPost
  <2>0. Top.pc = "begin" /\ ret = "none"
    BY <1>15 DEF BeginPost, At
  <2>1. NoneFails(gen, gen')
    BY <1>1, <1>2, <1>15 DEF BeginPost, Generator, NoneFails, IsFailed
  <2>2. CASE SetTop([Top EXCEPT !.pc = "end", !.errs = TRUE])
    <3> DEFINE f == [Top EXCEPT !.pc = "end", !.errs = TRUE]
    <3>1. f \in Frame /\ f.pc = "end"
      BY <1>1 DEF Frame, Pcs
    <3>2. SetTop(f)
      BY <2>2
    <3> HIDE DEF f
    <3> QED
      BY <1>0, <2>0, <2>1, <3>1, <3>2 DEF ErrorStep, GoesOn, Entering, Doomed
  <2>3. CASE SetTop([Top EXCEPT !.pc = "vtable", !.todo = MethodMentions(Top.cls),
                                !.base = VtableOf(Top.cls), !.level = Len(validation')])
    <3> DEFINE f == [Top EXCEPT !.pc = "vtable", !.todo = MethodMentions(Top.cls),
                                !.base = VtableOf(Top.cls), !.level = Len(validation')]
    <3>1. Len(validation') \in Nat
      <4>1. validation' \in Seq(Class)
        BY <1>1, <1>15, PushFrame DEF BeginPost, TypeOK
      <4> QED
        BY <4>1, SeqLen
    <3>2. f \in Frame /\ f.pc = "vtable"
      BY <1>0, <1>1, <3>1, TodoType, VtableOfType DEF Frame, Pcs
    <3>3. SetTop(f)
      BY <2>3 DEF f
    <3> HIDE DEF f
    <3> QED
      BY <1>0, <2>0, <2>1, <3>2, <3>3 DEF ErrorStep, GoesOn, Entering, Doomed
  <2> QED
    BY <1>15, <2>2, <2>3 DEF BeginPost
<1>16. CASE EndPostVtable
  <2> DEFINE f == [Top EXCEPT !.pc = "end", !.errs = VtableFailed(Top)]
  <2>0. Top.pc = "vtable" /\ ret = "none" /\ SetTop(f)
    BY <1>16 DEF EndPostVtable, At
  <2>1. VtableFailed(Top) \in BOOLEAN
    BY <1>1 DEF VtableFailed, Frame
  <2>2. f \in Frame /\ f.pc = "end" /\ f.errs = VtableFailed(Top)
    BY <1>1, <2>1 DEF Frame, Pcs
  <2>3. NoneFails(gen, gen')
    BY <1>1, <1>2, <1>16, WithVtableKind DEF EndPostVtable, NoneFails, IsFailed
  <2> HIDE DEF f
  <2> QED
    BY <1>0, <2>0, <2>2, <2>3 DEF ErrorStep, GoesOn, Entering, Doomed, VtableFailed
<1>17. CASE EndPost
  <2>0. Top.pc = "end" /\ ret = "none"
    BY <1>17 DEF EndPost, At
  <2>1. CASE Top.errs
    BY <1>4, <1>17, <2>1 DEF EndPost, ThrowErrors, Return
  <2>2. CASE ~Top.errs
    BY <1>0, <1>17, <2>0, <2>2 DEF ErrorStep, EndPost, Doomed
  <2> QED
    BY <2>1, <2>2
<1> QED
  BY <1>5, <1>6, <1>7, <1>8, <1>9, <1>10, <1>11, <1>12, <1>13, <1>14, <1>15,
     <1>16, <1>17 DEF Visit

LEMMA VisitClimbs ==
    ASSUME TypeOK, StickyInv, Visit
    PROVE  StickyInv'
<1>0. stack # <<>>
  BY VisitActive
<1>1. CASE ret' = "throw"
  BY <1>1, ThrowClimbs DEF StickyInv
<1>2. CASE NoneFails(gen, gen') /\ \E f \in Frame : GoesOn(f)
  BY <1>0, <1>2, StepGoesOn DEF GoesOn
<1>3. CASE UNCHANGED gen /\ \E f \in Frame, callee \in Frame : CallsFrom(f, callee)
  BY <1>0, <1>3, StepInvokes DEF CallsFrom
<1>4. CASE UNCHANGED gen /\ ret # "throw" /\ ~Doomed(Top) /\ \E r : Return(r)
  BY <1>0, <1>4, StepAnswers
<1> QED
  BY <1>1, <1>2, <1>3, <1>4, VisitErrors DEF ErrorStep

LEMMA DriveClimbs ==
    ASSUME TypeOK, StickyInv, Drive
    PROVE  StickyInv'
<1>1. ASSUME NEW c, NEW m \in BOOLEAN, stack' = <<ValidateCall(c, m)>>, UNCHANGED gen
      PROVE  StickyInv'
  <2>1. \A i \in DOMAIN stack' : stack'[i] = ValidateCall(c, m)
    BY <1>1
  <2>2. Entering(ValidateCall(c, m)) => ~IsFailed(gen[ValidateCall(c, m).cls])
    BY DEF Entering, IsFailed, ValidateCall, NewFrame
  <2> QED
    BY <1>1, <2>1, <2>2 DEF StickyInv, ErrorsClimb
<1>2. CASE ValidateModuleClass
  BY <1>1, <1>2 DEF ValidateModuleClass
<1>3. CASE UseClass
  <2>1. PICK c \in Class :
          IF solution[c] = "failed"
          THEN ret' = "throw" /\ UNCHANGED <<stack, solution>>
          ELSE /\ stack' = <<ValidateCall(c, c \in New)>>
               /\ solution' = Registered(c)
               /\ UNCHANGED ret
    BY <1>3 DEF UseClass
  <2>2. UNCHANGED gen /\ (c \in New) \in BOOLEAN
    BY <1>3 DEF UseClass
  <2> QED
    BY <1>1, <2>1, <2>2, ThrowClimbs DEF StickyInv
<1>4. CASE RootReturned
  BY <1>4 DEF RootReturned, StickyInv, ErrorsClimb
<1>5. CASE EndModule \/ ValidateClassFull \/ EndClasses
  BY <1>5 DEF EndModule, ValidateClassFull, EndClasses, visitor, StickyInv
<1> QED
  BY <1>2, <1>3, <1>4, <1>5 DEF Drive

LEMMA StickyStep == TypeOK /\ StickyInv /\ [Next]_vars => StickyInv'
BY VisitClimbs, DriveClimbs DEF Next, vars, visitor, StickyInv

\* Only the content of a class makes its generator a Class generator.
LEMMA OnlyContentRevives ==
    ASSUME TypeOK, [Next]_vars, NEW c \in Class, IsFailed(gen[c]), gen'[c].kind = "class"
    PROVE  BeginContent /\ Top.cls = c
<1>1. gen \in [Class -> Generator] /\ \A d \in Class : gen[d] \in Generator
  BY DEF TypeOK
<1>2. Visit => Top.cls \in Class
  BY VisitActive, TopType DEF TypeOK, Frame
<1>3. CASE BeginContent
  BY <1>1, <1>2, <1>3 DEF BeginContent, Visit, IsFailed
<1>a. Visit => WithVtable(Top).kind = gen[Top.cls].kind
  BY VisitActive, TopType, WithVtableKind DEF TypeOK
<1>4. CASE EndVtable \/ EndContent
  <2>1. CASE EndVtable
    BY <1>1, <1>2, <1>a, <2>1 DEF EndVtable, Visit, IsFailed
  <2>2. CASE EndContent
    BY <1>1, <1>2, <2>2 DEF EndContent, ThrowErrors, OfKind, Generator, Visit, IsFailed
  <2> QED
    BY <1>4, <2>1, <2>2
<1>5. CASE FinishInvalid \/ BeginPost
  BY <1>1, <1>2, <1>5 DEF FinishInvalid, BeginPost, OfKind, Generator, Visit, IsFailed
<1>6. CASE EndPostVtable \/ EndPost
  BY <1>1, <1>2, <1>a, <1>6 DEF EndPostVtable, EndPost, ThrowErrors, OfKind, Visit, IsFailed
<1>7. CASE ResolveAncestor \/ AncestorResolved \/ ReferClass \/ ReferenceResolved
           \/ FinishClass \/ PostNext \/ PostDone \/ PostAbandoned
  BY <1>7 DEF ResolveAncestor, AncestorResolved, ReferClass, ReferenceResolved,
              FinishClass, PostNext, PostDone, PostAbandoned, IsFailed
<1>8. CASE Drive
  BY <1>8 DEF Drive, ValidateModuleClass, UseClass, RootReturned, EndModule,
              ValidateClassFull, EndClasses, visitor, IsFailed
<1>9. CASE UNCHANGED vars
  BY <1>9 DEF vars, visitor, IsFailed
<1> QED
  BY <1>3, <1>4, <1>5, <1>6, <1>7, <1>8, <1>9 DEF Next, Visit

LEMMA StepIsSticky ==
    ASSUME TypeOK, StickyInv, [Next]_vars
    PROVE  \A c \in Class :
              gen[c].kind \in {"none", "error"} /\ gen'[c].kind = "class" =>
                  Top.cls = c /\ Top.inModule
<1> SUFFICES ASSUME NEW c \in Class, IsFailed(gen[c]), gen'[c].kind = "class"
             PROVE  Top.cls = c /\ Top.inModule
  BY DEF IsFailed
<1>1. BeginContent /\ Top.cls = c
  BY OnlyContentRevives
<1>2. stack # <<>> /\ ret = "none" /\ Top.pc = "begin" /\ ~Top.isPost
  BY <1>1 DEF BeginContent, At, Active
<1>3. ~(Entering(Top) /\ IsFailed(gen[Top.cls]))
  BY <1>2, TopClimbs DEF StickyInv, TypeOK, Top, Depth
<1>4. Top \in Frame
  BY <1>2, TopType DEF TypeOK
<1> QED
  BY <1>1, <1>2, <1>3, <1>4 DEF Entering, Frame

\* An invalid class is not validated anew, for any set of classes and any
\* program: once its generator says that it failed, only its own module, or the
\* template that has it as a solution, asks for its content again, and no mere
\* use of it ever makes it a Class generator.
THEOREM FailuresStay == Spec => FailureIsSticky
<1>1. Init => StickyInv
  BY DEF Init, StickyInv, ErrorsClimb
<1>2. TypeOK /\ StickyInv /\ [Next]_vars =>
        [\A c \in Class :
            gen[c].kind \in {"none", "error"} /\ gen'[c].kind = "class" =>
                Top.cls = c /\ Top.inModule]_vars
  BY StepIsSticky
<1> QED
  BY <1>1, <1>2, StickyStep, TypeCorrect, PTL DEF Spec, FailureIsSticky

-----------------------------------------------------------------------------
(* __validation__ and the active contents.  Matches is inductive; what is to  *)
(* show is how the count of the active contents follows the topmost frame.    *)

\* As many contents below the topmost frame as __validation__ has classes
\* without that of the topmost frame; each one is listed there at its rank.
LEMMA CountAtTop ==
    ASSUME NEW s \in Seq(Frame), NEW n \in 1 .. Len(s)
    PROVE  LET below == Cardinality(ContentsTo(s, n - 1))
           IN  /\ below \in Nat
               /\ Cardinality(ContentsTo(s, n)) = IF Pushed(s[n]) THEN below + 1 ELSE below
               /\ \A i \in 1 .. n - 1 : Pushed(s[i]) => Cardinality(ContentsTo(s, i)) \in 1 .. below
<1>0. Len(s) \in Nat /\ n \in Nat \ {0}
  BY SeqLen
<1>1. \A m \in Nat : IsFiniteSet(1 .. m)
  BY FS_Interval
<1>2. ASSUME NEW m \in Nat PROVE IsFiniteSet(ContentsTo(s, m))
  <2>1. ContentsTo(s, m) \subseteq 1 .. m
    BY DEF ContentsTo
  <2> QED
    BY <1>1, <2>1, FS_Subset
<1>3. IsFiniteSet(ContentsTo(s, n - 1)) /\ Cardinality(ContentsTo(s, n - 1)) \in Nat
  <2>1. n - 1 \in Nat
    BY <1>0
  <2> QED
    BY <1>2, <2>1, FS_CardinalityType
<1>6. ASSUME NEW i \in 1 .. n - 1, Pushed(s[i])
      PROVE  Cardinality(ContentsTo(s, i)) \in 1 .. Cardinality(ContentsTo(s, n - 1))
  <2>1. ContentsTo(s, i) \subseteq ContentsTo(s, n - 1) /\ i \in ContentsTo(s, i)
    BY <1>0, <1>6 DEF ContentsTo
  <2>2. i \in Nat
    BY <1>0
  <2>3. /\ IsFiniteSet(ContentsTo(s, i)) /\ Cardinality(ContentsTo(s, i)) \in Nat
        /\ Cardinality(ContentsTo(s, i)) # 0
        /\ Cardinality(ContentsTo(s, i)) <= Cardinality(ContentsTo(s, n - 1))
    BY <1>2, <1>3, <2>1, <2>2, FS_Subset, FS_CardinalityType, FS_EmptySet
  <2> QED
    BY <1>3, <2>3
<1>4. CASE Pushed(s[n])
  <2>1. ContentsTo(s, n) = ContentsTo(s, n - 1) \cup {n}
    BY <1>0, <1>4 DEF ContentsTo
  <2>2. n \notin ContentsTo(s, n - 1)
    BY <1>0 DEF ContentsTo
  <2> QED
    BY <1>3, <1>4, <2>1, <2>2, FS_AddElement, <1>6
<1>5. CASE ~Pushed(s[n])
  <2>1. ContentsTo(s, n) = ContentsTo(s, n - 1)
    BY <1>0, <1>5 DEF ContentsTo
  <2> QED
    BY <1>3, <1>5, <2>1, <1>6
<1> QED
  BY <1>4, <1>5

\* The entries of __validation__ that belong to the calls below the topmost one.
Below(s, v) == IF Pushed(s[Len(s)]) THEN Len(v) - 1 ELSE Len(v)

\* The calls below the topmost one stay, and so do the classes they pushed.
LEMMA MatchesAgain ==
    ASSUME NEW s \in Seq(Frame), s # <<>>, NEW v \in Seq(Class), Matches(s, v),
           NEW t \in Seq(Frame), Len(t) \in {Len(s) - 1, Len(s)},
           \A i \in 1 .. Len(s) - 1 : t[i] = s[i],
           NEW w \in Seq(Class), \A k \in 1 .. Below(s, v) : w[k] = v[k],
           Len(w) = IF Len(t) = Len(s) /\ Pushed(t[Len(s)])
                    THEN Below(s, v) + 1 ELSE Below(s, v),
           Len(t) = Len(s) /\ Pushed(t[Len(s)]) => w[Below(s, v) + 1] = t[Len(s)].cls
    PROVE  Matches(t, w)
<1> DEFINE n == Len(s)
           m == Len(t)
           below == Below(s, v)
<1>z. /\ n \in Nat \ {0} /\ m \in {n - 1, n} /\ Len(s) = n /\ Len(t) = m
      /\ below = IF Pushed(s[n]) THEN Len(v) - 1 ELSE Len(v)
      /\ \A i \in 1 .. n - 1 : t[i] = s[i]
      /\ \A k \in 1 .. below : w[k] = v[k]
      /\ Len(w) = IF m = n /\ Pushed(t[n]) THEN below + 1 ELSE below
      /\ m = n /\ Pushed(t[n]) => w[below + 1] = t[n].cls
  BY SeqLen DEF Below
<1> HIDE DEF n, m, below
<1> DEFINE C(i) == Cardinality(ContentsTo(s, i))
           D(i) == Cardinality(ContentsTo(t, i))
<1>0. DOMAIN s = 1 .. n /\ DOMAIN t = 1 .. m /\ n \in 1 .. n /\ Len(v) \in Nat
  BY <1>z, SeqLen
<1>1. /\ C(n - 1) \in Nat
      /\ C(n) = IF Pushed(s[n]) THEN C(n - 1) + 1 ELSE C(n - 1)
      /\ \A i \in 1 .. n - 1 : Pushed(s[i]) => C(i) \in 1 .. C(n - 1)
  BY <1>z, <1>0, CountAtTop
<1>b. Len(v) = C(n) /\ \A i \in 1 .. n : Pushed(s[i]) => v[C(i)] = s[i].cls
  BY <1>z, <1>0 DEF Matches
<1>3. ASSUME NEW i \in 0 .. n - 1 PROVE D(i) = C(i)
  <2>1. ContentsTo(t, i) = ContentsTo(s, i)
    <3>1. \A k \in 1 .. i : t[k] = s[k]
      BY <1>z
    <3> QED
      BY <3>1 DEF ContentsTo
  <2> QED
    BY <1>z, <2>1
<1>d. m = n => D(n) = IF Pushed(t[n]) THEN D(n - 1) + 1 ELSE D(n - 1)
  BY <1>z, <1>0, CountAtTop
<1> SUFFICES /\ Len(w) = D(m)
             /\ \A i \in 1 .. m : Pushed(t[i]) => w[D(i)] = t[i].cls
  BY <1>z, <1>0 DEF Matches
<1> HIDE DEF C, D
<1>2. below = C(n - 1) /\ D(n - 1) = C(n - 1)
  BY <1>z, <1>1, <1>3, <1>b
<1>4. ASSUME NEW i \in 1 .. n - 1, Pushed(t[i])
      PROVE  w[D(i)] = t[i].cls
  <2>1. t[i] = s[i] /\ D(i) = C(i) /\ C(i) \in 1 .. below /\ i \in 1 .. n
    BY <1>z, <1>1, <1>2, <1>3, <1>4
  <2>2. v[C(i)] = s[i].cls
    BY <1>z, <1>b, <1>4, <2>1
  <2> QED
    BY <1>z, <2>1, <2>2
<1>5. CASE m = n - 1
  <2>1. Len(w) = D(m)
    BY <1>z, <1>2, <1>5
  <2> QED
    BY <1>z, <1>4, <1>5, <2>1
<1>6. CASE m = n
  <2>1. Len(w) = D(n) /\ (Pushed(t[n]) => w[D(n)] = t[n].cls)
    BY <1>z, <1>1, <1>2, <1>6, <1>d
  <2>2. \A i \in 1 .. n : i = n \/ i \in 1 .. n - 1
    BY <1>z
  <2> QED
    BY <1>z, <1>4, <1>6, <2>1, <2>2
<1> QED
  BY <1>z, <1>5, <1>6

LEMMA BelowType ==
    ASSUME NEW s \in Seq(Frame), s # <<>>, NEW v \in Seq(Class), Matches(s, v)
    PROVE  /\ Below(s, v) \in Nat
           /\ Len(v) = IF Pushed(s[Len(s)]) THEN Below(s, v) + 1 ELSE Below(s, v)
           /\ Pushed(s[Len(s)]) => v # <<>> /\ v[Len(v)] = s[Len(s)].cls
<1> DEFINE n == Len(s)
<1>1. n \in Nat \ {0} /\ DOMAIN s = 1 .. n /\ n \in 1 .. n /\ Len(v) \in Nat
      /\ (v # <<>> <=> Len(v) > 0)
  BY SeqLen
<1>2. /\ Cardinality(ContentsTo(s, n - 1)) \in Nat
      /\ Cardinality(ContentsTo(s, n)) =
            IF Pushed(s[n]) THEN Cardinality(ContentsTo(s, n - 1)) + 1
                            ELSE Cardinality(ContentsTo(s, n - 1))
  BY <1>1, CountAtTop
<1>3. Len(v) = Cardinality(ContentsTo(s, n))
      /\ (Pushed(s[n]) => v[Cardinality(ContentsTo(s, n))] = s[n].cls)
  BY <1>1 DEF Matches
<1> HIDE DEF n
<1>4. Len(v) = IF Pushed(s[n]) THEN Cardinality(ContentsTo(s, n - 1)) + 1
                               ELSE Cardinality(ContentsTo(s, n - 1))
  BY <1>2, <1>3
<1>5. /\ Below(s, v) \in Nat
      /\ Len(v) = IF Pushed(s[n]) THEN Below(s, v) + 1 ELSE Below(s, v)
      /\ Pushed(s[n]) => v # <<>>
  <2>1. Below(s, v) = IF Pushed(s[n]) THEN Len(v) - 1 ELSE Len(v)
    BY DEF Below, n
  <2> QED
    BY <1>1, <1>2, <1>4, <2>1
<1> QED
  BY <1>3, <1>5 DEF n

LEMMA MatchesTop ==
    ASSUME NEW s \in Seq(Frame), s # <<>>, NEW v \in Seq(Class), Matches(s, v),
           NEW f \in Frame, NEW w \in Seq(Class),
           \A k \in 1 .. Below(s, v) : w[k] = v[k],
           Len(w) = IF Pushed(f) THEN Below(s, v) + 1 ELSE Below(s, v),
           Pushed(f) => w[Below(s, v) + 1] = f.cls
    PROVE  Matches([s EXCEPT ![Len(s)] = f], w)
<1> DEFINE t == [s EXCEPT ![Len(s)] = f]
<1>1. /\ t \in Seq(Frame) /\ Len(t) = Len(s) /\ t[Len(s)] = f
      /\ \A i \in 1 .. Len(s) - 1 : t[i] = s[i]
  BY ReplaceTop
<1> HIDE DEF t
<1>2. Matches(t, w)
  BY <1>1, MatchesAgain
<1> QED
  BY <1>2 DEF t

LEMMA MatchesDrop ==
    ASSUME NEW s \in Seq(Frame), s # <<>>, NEW v \in Seq(Class), Matches(s, v),
           NEW w \in Seq(Class),
           \A k \in 1 .. Below(s, v) : w[k] = v[k], Len(w) = Below(s, v)
    PROVE  Matches(SubSeq(s, 1, Len(s) - 1), w)
<1> DEFINE t == SubSeq(s, 1, Len(s) - 1)
<1>1. t \in Seq(Frame) /\ Len(t) = Len(s) - 1 /\ \A i \in 1 .. Len(s) - 1 : t[i] = s[i]
  BY DropTop
<1>2. Len(s) \in Nat
  BY SeqLen
<1> HIDE DEF t
<1>3. Len(t) # Len(s)
  BY <1>1, <1>2
<1>4. Matches(t, w)
  BY <1>1, <1>3, MatchesAgain
<1> QED
  BY <1>4 DEF t

\* A call that has not begun a content adds nothing.
LEMMA MatchesCall ==
    ASSUME NEW s \in Seq(Frame), NEW v \in Seq(Class), Matches(s, v),
           NEW f \in Frame, ~Pushed(f)
    PROVE  Matches(Append(s, f), v)
<1> DEFINE t == Append(s, f)
           n == Len(s)
<1>1. t \in Seq(Frame) /\ Len(t) = n + 1 /\ t[n + 1] = f /\ \A i \in 1 .. n : t[i] = s[i]
  BY PushFrame
<1>0. n \in Nat /\ DOMAIN s = 1 .. n
  BY SeqLen
<1> HIDE DEF t, n
<1>2. DOMAIN t = 1 .. n + 1
  BY <1>1, SeqLen
<1>3. ContentsTo(t, n + 1) = ContentsTo(s, n)
  BY <1>0, <1>1 DEF ContentsTo
<1>4. ASSUME NEW i \in 1 .. n PROVE ContentsTo(t, i) = ContentsTo(s, i)
  BY <1>0, <1>1 DEF ContentsTo
<1>5. ASSUME NEW i \in 1 .. n + 1, Pushed(t[i])
      PROVE  v[Cardinality(ContentsTo(t, i))] = t[i].cls
  <2>1. i \in 1 .. n
    BY <1>0, <1>1, <1>5
  <2> QED
    BY <1>0, <1>1, <1>4, <1>5, <2>1 DEF Matches
<1>6. Matches(t, v)
  BY <1>1, <1>2, <1>3, <1>5 DEF Matches, n
<1> QED
  BY <1>6 DEF t

MatchInv == Matches(stack, validation)

LEMMA MatchFacts ==
    ASSUME TypeOK, stack # <<>>, MatchInv
    PROVE  /\ stack \in Seq(Frame) /\ validation \in Seq(Class)
           /\ Top = stack[Len(stack)]
           /\ Below(stack, validation) \in Nat
           /\ Len(validation) = IF Pushed(Top) THEN Below(stack, validation) + 1
                                               ELSE Below(stack, validation)
           /\ Pushed(Top) => validation # <<>> /\ validation[Len(validation)] = Top.cls
BY BelowType DEF TypeOK, MatchInv, Top, Depth

\* What a step of the topmost call can do to the list: nothing, ...
LEMMA ListKept ==
    ASSUME TypeOK, stack # <<>>, MatchInv, NEW f \in Frame,
           Pushed(f) <=> Pushed(Top), f.cls = Top.cls
    PROVE  Matches([stack EXCEPT ![Len(stack)] = f], validation)
BY MatchFacts, MatchesTop DEF MatchInv

\* ... the push_back of the class whose content begins, ...
LEMMA ListPushed ==
    ASSUME TypeOK, stack # <<>>, MatchInv, NEW f \in Frame, ~Pushed(Top), Pushed(f)
    PROVE  Matches([stack EXCEPT ![Len(stack)] = f], Append(validation, f.cls))
<1> DEFINE w == Append(validation, f.cls)
<1>1. f.cls \in Class
  BY DEF Frame
<1>2. /\ w \in Seq(Class) /\ Len(w) = Len(validation) + 1
      /\ w[Len(validation) + 1] = f.cls /\ \A k \in 1 .. Len(validation) : w[k] = validation[k]
  BY <1>1, PushFrame DEF TypeOK
<1> HIDE DEF w
<1>3. Matches([stack EXCEPT ![Len(stack)] = f], w)
  BY <1>2, MatchFacts, MatchesTop DEF MatchInv
<1> QED
  BY <1>3 DEF w

\* ... or the pop_back when the content ends, with or without an error.
LEMMA PopFacts ==
    ASSUME TypeOK, stack # <<>>, MatchInv, Pushed(Top)
    PROVE  /\ PopValidation \in Seq(Class)
           /\ Len(PopValidation) = Below(stack, validation)
           /\ \A k \in 1 .. Below(stack, validation) : PopValidation[k] = validation[k]
<1>1. validation \in Seq(Class) /\ validation # <<>>
      /\ Below(stack, validation) \in Nat
      /\ Len(validation) = Below(stack, validation) + 1
  BY MatchFacts
<1>2. /\ PopValidation \in Seq(Class) /\ Len(PopValidation) = Len(validation) - 1
      /\ \A k \in 1 .. Len(validation) - 1 : PopValidation[k] = validation[k]
  BY <1>1, DropTop DEF PopValidation
<1> QED
  BY <1>1, <1>2

LEMMA ListPopped ==
    ASSUME TypeOK, stack # <<>>, MatchInv, Pushed(Top), NEW f \in Frame, ~Pushed(f)
    PROVE  Matches([stack EXCEPT ![Len(stack)] = f], PopValidation)
BY PopFacts, MatchFacts, MatchesTop DEF MatchInv

\* A call returns: its content ends now, or has ended already.
LEMMA ListReturns ==
    ASSUME TypeOK, stack # <<>>, MatchInv, NEW r, Return(r),
           IF Pushed(Top) THEN validation' = PopValidation ELSE UNCHANGED validation
    PROVE  MatchInv'
<1>1. stack' = SubSeq(stack, 1, Len(stack) - 1)
  BY DEF Return, Callers, Depth
<1>2. CASE Pushed(Top)
  BY <1>1, <1>2, PopFacts, MatchFacts, MatchesDrop DEF MatchInv
<1>3. CASE ~Pushed(Top)
  BY <1>1, <1>3, MatchFacts, MatchesDrop DEF MatchInv
<1> QED
  BY <1>2, <1>3

\* The same as steps of the module.
LEMMA ListSets ==
    ASSUME TypeOK, stack # <<>>, MatchInv, NEW f \in Frame, SetTop(f), f.cls = Top.cls,
           \/ (Pushed(f) <=> Pushed(Top)) /\ UNCHANGED validation
           \/ ~Pushed(Top) /\ Pushed(f) /\ validation' = Append(validation, f.cls)
           \/ Pushed(Top) /\ ~Pushed(f) /\ validation' = PopValidation
    PROVE  MatchInv'
<1>1. stack' = [stack EXCEPT ![Len(stack)] = f]
  BY DEF SetTop, Depth
<1> QED
  BY <1>1, ListKept, ListPushed, ListPopped DEF MatchInv

LEMMA ListInvokes ==
    ASSUME TypeOK, stack # <<>>, MatchInv, UNCHANGED validation,
           NEW f \in Frame, NEW callee \in Frame, Invoke(f, callee),
           Pushed(f) <=> Pushed(Top), f.cls = Top.cls, ~Pushed(callee)
    PROVE  MatchInv'
<1> DEFINE t == [stack EXCEPT ![Len(stack)] = f]
<1>1. t \in Seq(Frame) /\ stack' = Append(t, callee)
  BY ReplaceTop DEF TypeOK, Invoke, Depth
<1>2. Matches(t, validation)
  BY ListKept
<1> HIDE DEF t
<1> QED
  BY <1>1, <1>2, MatchesCall DEF MatchInv, TypeOK

LEMMA ListRefers ==
    ASSUME TypeOK, stack # <<>>, MatchInv, UNCHANGED validation,
           NEW f \in Frame, NEW c \in Class, Refer(f, c), Pushed(f) <=> Pushed(Top),
           f.cls = Top.cls
    PROVE  MatchInv'
<1>1. (c \in New) \in BOOLEAN
  OBVIOUS
<1>2. ValidateCall(c, c \in New) \in Frame /\ ~Pushed(ValidateCall(c, c \in New))
  BY <1>1, ValidateCallType DEF Pushed, ValidateCall, NewFrame
<1> QED
  BY <1>2, ListSets, ListInvokes DEF Refer

\* Without a failed assertion a content always ends through its pop_back.
LEMMA VisitMatches ==
    ASSUME TypeOK, MatchInv, prog.badAssert = {}, Visit
    PROVE  MatchInv'
<1>0. stack # <<>>
  BY VisitActive
<1>1. Top \in Frame /\ Top.cls \in Class
  BY <1>0, TopType DEF TypeOK, Frame
<1>2. CASE ResolveAncestor
  <2>0. Top.pc = "ancestor" /\ UNCHANGED validation
    BY <1>2 DEF ResolveAncestor, At
  <2>1. CASE Ancestor(Top.cls) = NoClass
    <3> DEFINE f == [Top EXCEPT !.pc = "begin"]
    <3>1. f \in Frame /\ f.cls = Top.cls /\ f.pc = "begin"
      BY <1>1 DEF Frame, Pcs
    <3>2. SetTop(f)
      BY <1>2, <2>1 DEF ResolveAncestor
    <3> HIDE DEF f
    <3> QED
      BY <1>0, <2>0, <3>1, <3>2, ListSets DEF Pushed
  <2>2. CASE Ancestor(Top.cls) # NoClass
    <3> DEFINE f == [Top EXCEPT !.pc = "inherit"]
    <3>1. f \in Frame /\ f.cls = Top.cls /\ f.pc = "inherit"
      BY <1>1 DEF Frame, Pcs
    <3>2. Refer(f, Ancestor(Top.cls))
      BY <1>2, <2>2 DEF ResolveAncestor
    <3>3. Ancestor(Top.cls) \in Class
      BY <1>1, <2>2 DEF Ancestor, TypeOK, ProgramType, Declarations
    <3> HIDE DEF f
    <3> QED
      BY <1>0, <2>0, <3>1, <3>2, <3>3, ListRefers DEF Pushed
  <2> QED
    BY <2>1, <2>2
<1>3. CASE AncestorResolved
  <2>0. Top.pc = "inherit" /\ UNCHANGED validation
    BY <1>3 DEF AncestorResolved, At
  <2>1. PICK f \in {[Top EXCEPT !.pc = "begin"], [Top EXCEPT !.pc = "end", !.errs = TRUE]} :
            SetTop(f) \/ Return("throw")
    BY <1>3 DEF AncestorResolved
  <2>2. f \in Frame /\ f.cls = Top.cls /\ f.pc \in {"begin", "end"}
    BY <1>1, <2>1 DEF Frame, Pcs
  <2> QED
    BY <1>0, <2>0, <2>1, <2>2, ListSets, ListReturns DEF Pushed
<1>4. CASE BeginContent \/ BeginPost
  <2> DEFINE f == [Top EXCEPT !.pc = "vtable", !.todo = MethodMentions(Top.cls),
                              !.base = VtableOf(Top.cls), !.level = Len(validation')]
  <2>0. Top.pc = "begin" /\ validation' = Append(validation, Top.cls)
    BY <1>4 DEF BeginContent, BeginPost, At
  <2>1. Len(validation') \in Nat
    <3>1. validation' \in Seq(Class)
      BY <1>1, <2>0, PushFrame DEF TypeOK
    <3> QED
      BY <3>1, SeqLen
  <2>2. f \in Frame /\ f.cls = Top.cls /\ f.pc = "vtable"
    BY <1>0, <1>1, <2>1, TodoType, VtableOfType DEF Frame, Pcs
  <2>3. SetTop(f)
    BY <1>4 DEF BeginContent, BeginPost
  <2> HIDE DEF f
  <2> QED
    BY <1>0, <2>0, <2>2, <2>3, ListSets DEF Pushed
<1>5. CASE ReferClass
  <2>1. PICK d \in Top.todo : Refer([Top EXCEPT !.todo = @ \ {d}], d)
    BY <1>5 DEF ReferClass
  <2> DEFINE f == [Top EXCEPT !.todo = @ \ {d}]
  <2>2. d \in Class /\ f \in Frame /\ f.cls = Top.cls /\ f.pc = Top.pc
    BY <1>1 DEF Frame
  <2>3. UNCHANGED validation /\ Refer(f, d)
    BY <1>5, <2>1 DEF ReferClass
  <2> HIDE DEF f
  <2> QED
    BY <1>0, <2>2, <2>3, ListRefers DEF Pushed
<1>6. CASE ReferenceResolved
  <2>1. PICK f \in {[Top EXCEPT !.vtErr = @ \/ (ret = "throw")],
                    [Top EXCEPT !.errs = @ \/ (ret = "throw")]} : SetTop(f)
    BY <1>6 DEF ReferenceResolved
  <2>2. f \in Frame /\ f.cls = Top.cls /\ f.pc = Top.pc
    BY <1>1, <2>1 DEF Frame
  <2>3. UNCHANGED validation
    BY <1>6 DEF ReferenceResolved
  <2> QED
    BY <1>0, <2>1, <2>2, <2>3, ListSets DEF Pushed
<1>7. CASE EndVtable
  <2> DEFINE f == [Top EXCEPT !.pc = "fields", !.errs = @ \/ VtableFailed(Top),
                              !.todo = prog.fieldTypes[Top.cls]]
  <2>0. Top.pc = "vtable" /\ SetTop(f) /\ UNCHANGED validation
    BY <1>7 DEF EndVtable, At
  <2>1. VtableFailed(Top) \in BOOLEAN
    BY <1>1 DEF VtableFailed, Frame
  <2>2. f \in Frame /\ f.cls = Top.cls /\ f.pc = "fields"
    BY <1>1, <2>1, TodoType DEF Frame, Pcs
  <2> HIDE DEF f
  <2> QED
    BY <1>0, <2>0, <2>2, ListSets DEF Pushed
<1>8. CASE EndContent
  <2> DEFINE f == [Top EXCEPT !.pc = "finish"]
  <2>0. Top.pc = "fields" /\ validation' = PopValidation
    BY <1>8 DEF EndContent, At
  <2>1. f \in Frame /\ f.cls = Top.cls /\ f.pc = "finish"
    BY <1>1 DEF Frame, Pcs
  <2>2. SetTop(f) \/ Return("throw")
    BY <1>8 DEF EndContent, ThrowErrors
  <2> HIDE DEF f
  <2> QED
    BY <1>0, <2>0, <2>1, <2>2, ListSets, ListReturns DEF Pushed
<1>9. CASE FinishClass \/ PostDone
  <2> DEFINE f == [Top EXCEPT !.pc = "postAll", !.aux = post]
  <2>0. Top.pc \in {"finish", "postAll"} /\ UNCHANGED validation
    BY <1>9 DEF FinishClass, PostDone, At
  <2>1. f \in Frame /\ f.cls = Top.cls /\ f.pc = "postAll"
    BY <1>1 DEF Frame, Pcs, TypeOK
  <2>2. SetTop(f) \/ Return("ok")
    BY <1>9 DEF FinishClass, PostDone, TakePost
  <2> HIDE DEF f
  <2> QED
    BY <1>0, <2>0, <2>1, <2>2, ListSets, ListReturns DEF Pushed
<1>10. CASE FinishInvalid \/ PostAbandoned \/ EndPost
  <2>1. Top.pc \in {"finish", "postAll", "end"} /\ UNCHANGED validation
    BY <1>10 DEF FinishInvalid, PostAbandoned, EndPost, At
  <2>2. \E r : Return(r)
    BY <1>10 DEF FinishInvalid, PostAbandoned, EndPost, ThrowErrors
  <2> QED
    BY <1>0, <2>1, <2>2, ListReturns DEF Pushed
<1>11. CASE PostNext
  <2> DEFINE f == [Top EXCEPT !.aux = Tail(@)]
             callee == NewFrame(Head(Top.aux), FALSE, TRUE, "ancestor")
  <2>0. Top.aux # <<>> /\ UNCHANGED validation /\ Invoke(f, callee)
    BY <1>11 DEF PostNext
  <2>1. Top.aux \in Seq(Class)
    BY <1>1 DEF Frame
  <2>2. Head(Top.aux) \in Class /\ Tail(Top.aux) \in Seq(Class)
    BY <2>0, <2>1
  <2>3. f \in Frame /\ f.cls = Top.cls /\ f.pc = Top.pc
    BY <1>1, <2>2 DEF Frame
  <2>4. callee \in Frame /\ callee.pc = "ancestor"
    BY <2>2, NewFrameType DEF NewFrame, Pcs
  <2> HIDE DEF f, callee
  <2> QED
    BY <1>0, <2>0, <2>3, <2>4, ListInvokes DEF Pushed
<1>12. CASE EndPostVtable
  <2> DEFINE f == [Top EXCEPT !.pc = "end", !.errs = VtableFailed(Top)]
  <2>0. Top.pc = "vtable" /\ SetTop(f) /\ validation' = PopValidation
    BY <1>12 DEF EndPostVtable, At
  <2>1. VtableFailed(Top) \in BOOLEAN
    BY <1>1 DEF VtableFailed, Frame
  <2>2. f \in Frame /\ f.cls = Top.cls /\ f.pc = "end"
    BY <1>1, <2>1 DEF Frame, Pcs
  <2> HIDE DEF f
  <2> QED
    BY <1>0, <2>0, <2>2, ListSets DEF Pushed
<1> QED
  BY <1>2, <1>3, <1>4, <1>5, <1>6, <1>7, <1>8, <1>9, <1>10, <1>11, <1>12 DEF Visit

LEMMA DriveMatches ==
    ASSUME TypeOK, MatchInv, Drive
    PROVE  MatchInv'
<1>1. CASE UNCHANGED stack
  BY <1>1 DEF Drive, ValidateModuleClass, UseClass, RootReturned, EndModule,
              ValidateClassFull, EndClasses, visitor, MatchInv
<1>2. CASE ~UNCHANGED stack
  <2>1. stack = <<>> /\ UNCHANGED validation
        /\ \E c \in Class, m \in BOOLEAN : stack' = <<ValidateCall(c, m)>>
    <3>1. CASE ValidateModuleClass
      BY <3>1 DEF ValidateModuleClass, Idle, TypeOK, ProgramType, Declarations
    <3>2. CASE UseClass
      <4>1. \A c \in Class : (c \in New) \in BOOLEAN
        OBVIOUS
      <4> QED
        BY <1>2, <3>2, <4>1 DEF UseClass, Idle
    <3>3. CASE RootReturned \/ EndModule \/ ValidateClassFull \/ EndClasses
      BY <1>2, <3>3 DEF RootReturned, EndModule, ValidateClassFull, EndClasses, visitor
    <3> QED
      BY <3>1, <3>2, <3>3 DEF Drive
  <2>2. PICK c \in Class, m \in BOOLEAN : stack' = <<ValidateCall(c, m)>>
    BY <2>1
  <2>3. ValidateCall(c, m) \in Frame /\ ~Pushed(ValidateCall(c, m))
    BY ValidateCallType DEF Pushed, ValidateCall, NewFrame
  <2>4. stack' = Append(stack, ValidateCall(c, m))
    BY <2>1, <2>2
  <2> QED
    BY <2>1, <2>3, <2>4, MatchesCall DEF MatchInv, TypeOK
<1> QED
  BY <1>1, <1>2

LEMMA MatchStep ==
    TypeOK /\ ValidationMatchesCalls /\ [Next]_vars => ValidationMatchesCalls'
<1> SUFFICES ASSUME TypeOK, ValidationMatchesCalls, [Next]_vars
             PROVE  ValidationMatchesCalls'
  OBVIOUS
<1>1. UNCHANGED prog
  BY DEF Next, Visit, ResolveAncestor, AncestorResolved, BeginContent, ReferClass,
         ReferenceResolved, EndVtable, EndContent, FinishClass, FinishInvalid,
         PostNext, PostDone, PostAbandoned, BeginPost, EndPostVtable, EndPost,
         Drive, ValidateModuleClass, UseClass, RootReturned, EndModule,
         ValidateClassFull, EndClasses, vars
<1>2. ASSUME prog.badAssert = {} PROVE MatchInv'
  <2>1. MatchInv
    BY <1>2 DEF ValidationMatchesCalls, MatchInv
  <2>2. CASE UNCHANGED vars
    BY <2>1, <2>2 DEF vars, visitor, MatchInv
  <2> QED
    BY <1>2, <2>1, <2>2, VisitMatches, DriveMatches DEF Next
<1> QED
  BY <1>1, <1>2 DEF ValidationMatchesCalls, MatchInv

\* Whatever is thrown through the calls of the visitor, __validation__ lists the
\* classes whose content is being validated, for any set of classes and any
\* program without a failed assertion.
THEOREM ListFollowsCalls == Spec => []ValidationMatchesCalls
<1>1. Init => ValidationMatchesCalls
  <2> SUFFICES ASSUME Init PROVE Matches(stack, validation)
    BY DEF ValidationMatchesCalls
  <2>1. stack = <<>> /\ validation = <<>> /\ DOMAIN stack = {} /\ Len(stack) = 0
    BY DEF Init
  <2>2. ContentsTo(stack, Len(stack)) = {}
    BY <2>1 DEF ContentsTo
  <2> QED
    BY <2>1, <2>2, FS_EmptySet DEF Matches
<1> QED
  BY <1>1, MatchStep, TypeCorrect, PTL DEF Spec
=============================================================================
