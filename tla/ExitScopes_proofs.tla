-------------------------- MODULE ExitScopes_proofs --------------------------
(***************************************************************************)
(* That a throw lands in a scope whose content is running, for every code  *)
(* whose buffers are pushed and popped as IsNested says, whatever the      *)
(* calls throw and the tests answer, and for as long as it runs.           *)
(*                                                                         *)
(* A buffer holds where its setjmp is (FramesAreFilled), and was filled    *)
(* before it is pushed (Ready); the buffers that are there are among those *)
(* of the scopes around the instruction, the outer ones first              *)
(* (HandlersAreHeld).                                                      *)
(***************************************************************************)
EXTENDS ExitScopes, SequenceTheorems, TLAPS

Place == Seq(Nat)
IsFilled(at, n) == \E s \in DOMAIN code : code[s].op = "setjmp" /\ code[s].at = at /\ n = s + 1

IsLocals(l) == l = [ref |-> l.ref, state |-> l.state, value |-> l.value, resume |-> l.resume]

FramesAreFilled ==
    /\ frame = [at \in DOMAIN frame |-> frame[at]]
    /\ \A at \in DOMAIN frame :
          IsLocals(frame[at]) /\ (frame[at].resume = 0 \/ IsFilled(at, frame[at].resume))

Filled(at, n) == at \in DOMAIN frame /\ frame[at].resume = n
Ready == \A p \in Opens(code) : pc \in {p - 1, p} => Filled(code[p].at, p - 1)

HandlersAreHeld ==
    /\ handlers \in Seq(Place)
    /\ \A n \in DOMAIN handlers :
          /\ handlers[n] \in Held(code, pc)
          /\ handlers[n] \in DOMAIN frame /\ frame[handlers[n]].resume # 0
    /\ \A m, n \in DOMAIN handlers : m < n => Len(handlers[m]) < Len(handlers[n])

Inv ==
    /\ IsNested(code)
    /\ FramesAreFilled
    /\ pc \in 1 .. Len(code) + 1
    /\ outcome = Running => Ready /\ HandlersAreHeld
    /\ outcome.o \in {"end", "return"} => handlers = <<>>

-----------------------------------------------------------------------------
LEMMA RunningIs == Running.o \notin {"end", "return"}
BY DEF Running

LEMMA InitHolds == (\A n \in DOMAIN Codes : IsNested(Codes[n])) /\ Init => Inv
<1> SUFFICES ASSUME \A n \in DOMAIN Codes : IsNested(Codes[n]), Init PROVE Inv
  OBVIOUS
<1>1. IsNested(code) /\ DOMAIN code = 1 .. Len(code) /\ Len(code) \in Nat
  BY DEF Init, IsNested
<1>2. FramesAreFilled
  BY DEF Init, FramesAreFilled
<1>3. Ready
  <2>1. \A p \in Opens(code) : p > 2
    BY <1>1 DEF IsNested, BuffersAreRight
  <2>2. Opens(code) \subseteq Int
    BY <1>1 DEF Opens
  <2> QED BY <2>1, <2>2 DEF Ready, Init
<1>4. HandlersAreHeld
  BY DEF Init, HandlersAreHeld
<1>5. outcome = Running
  BY DEF Init
<1>6. pc \in 1 .. Len(code) + 1
  BY <1>1 DEF Init
<1> QED BY <1>1, <1>2, <1>3, <1>4, <1>5, <1>6, RunningIs DEF Inv

\* The variables of a scope that is given new ones, and of the others.
LEMMA SetOne ==
    ASSUME NEW at, NEW l, SetLocals(at, l)
    PROVE  /\ DOMAIN frame' = DOMAIN frame \cup {at}
           /\ frame' = [x \in DOMAIN frame' |-> frame'[x]]
           /\ frame'[at] = l
           /\ \A x \in DOMAIN frame : x # at => frame'[x] = frame[x]
BY DEF SetLocals

LEMMA LocalsAre ==
    ASSUME FramesAreFilled, NEW at
    PROVE  /\ IsLocals(Locals(at))
           /\ Locals(at).resume = 0 \/ IsFilled(at, Locals(at).resume)
           /\ at \in DOMAIN frame => Locals(at) = frame[at]
           /\ at \notin DOMAIN frame => Locals(at).resume = 0
BY DEF FramesAreFilled, Locals, NoLocals, IsLocals

LEMMA LocalsSet ==
    ASSUME NEW l, IsLocals(l), NEW v
    PROVE  /\ IsLocals([l EXCEPT !.state = v]) /\ [l EXCEPT !.state = v].resume = l.resume
           /\ IsLocals([l EXCEPT !.value = v]) /\ [l EXCEPT !.value = v].resume = l.resume
           /\ IsLocals([l EXCEPT !.ref = v]) /\ [l EXCEPT !.ref = v].resume = l.resume
           /\ IsLocals([l EXCEPT !.resume = v]) /\ [l EXCEPT !.resume = v].resume = v
<1>1. PICK a, b, c, d : l = [ref |-> a, state |-> b, value |-> c, resume |-> d]
  BY DEF IsLocals
<1>2. /\ [l EXCEPT !.state = v] = [ref |-> a, state |-> v, value |-> c, resume |-> d]
      /\ [l EXCEPT !.value = v] = [ref |-> a, state |-> b, value |-> v, resume |-> d]
  BY <1>1
<1>3. /\ [l EXCEPT !.ref = v] = [ref |-> v, state |-> b, value |-> c, resume |-> d]
      /\ [l EXCEPT !.resume = v] = [ref |-> a, state |-> b, value |-> c, resume |-> v]
  BY <1>1
<1> QED BY <1>1, <1>2, <1>3 DEF IsLocals

\* The frame after a change of the variables of one scope.
LEMMA SetKeeps ==
    ASSUME FramesAreFilled, NEW at, NEW l, SetLocals(at, l), code' = code,
           IsLocals(l), l.resume = 0 \/ IsFilled(at, l.resume)
    PROVE  FramesAreFilled'
<1>1. \A x, n : IsFilled(x, n)' = IsFilled(x, n)
  BY DEF IsFilled
<1>2. \A x \in DOMAIN frame' : frame'[x] = IF x = at THEN l ELSE frame[x]
  BY DEF SetLocals
<1>3. frame' = [x \in DOMAIN frame' |-> frame'[x]] /\ DOMAIN frame' = DOMAIN frame \cup {at}
  BY SetOne
<1> QED BY <1>1, <1>2, <1>3 DEF FramesAreFilled

\* A step of the code that fills no buffer.
Goes ==
    /\ code' = code /\ outcome' = outcome
    /\ pc \in DOMAIN code /\ pc' \in Sequels(code, pc)
    /\ Instr.op # "setjmp"
    /\ FramesAreFilled'
    /\ \A x \in DOMAIN frame : x \in DOMAIN frame' /\ frame'[x].resume = frame[x].resume

LEMMA GoesWell ==
    ASSUME Inv, outcome = Running, Goes
    PROVE  /\ pc' \in 1 .. Len(code) + 1
           /\ Ready'
           /\ Remaining(code, pc) \subseteq Held(code, pc')
<1>1. IsNested(code) /\ Len(code) \in Nat /\ DOMAIN code = 1 .. Len(code) /\ pc \in 1 .. Len(code) /\ Ready
  BY DEF Inv, IsNested, Goes
<1>2. /\ Instr.op \in Jumping => Instr.label \in DOMAIN code /\ code[Instr.label].op = "label"
      /\ Remaining(code, pc) \subseteq Held(code, pc')
  BY <1>1 DEF IsNested, JumpsAreRight, Goes, Instr
<1>3. pc' = pc + 1 \/ (pc' \in DOMAIN code /\ code[pc'].op = "label")
  BY <1>2 DEF Goes, Sequels, Instr
<1>4. pc' \in 1 .. Len(code) + 1
  BY <1>1, <1>3
<1>5. Ready'
  <2> SUFFICES ASSUME NEW p \in Opens(code), pc' \in {p - 1, p}
               PROVE  Filled(code[p].at, p - 1)'
    BY DEF Ready, Goes
  <2>1. /\ p \in 1 .. Len(code) /\ code[p].op = "push"
        /\ p > 2 /\ code[p - 2].op = "setjmp" /\ code[p - 1].op = "state"
    BY <1>1 DEF IsNested, BuffersAreRight, Opens
  <2>2. pc' = pc + 1
    BY <1>3, <2>1
  <2>3. pc # p - 2
    BY <2>1 DEF Goes, Instr
  <2>4. pc = p - 1
    BY <1>1, <2>1, <2>2, <2>3
  <2> QED BY <2>4, <1>1 DEF Ready, Filled, Goes
<1> QED BY <1>2, <1>4, <1>5

LEMMA GoesOn ==
    ASSUME Inv, outcome = Running, Goes, Instr.op \notin {"pop"}, handlers' = handlers
    PROVE  Inv'
<1>1. pc' \in 1 .. Len(code) + 1 /\ Ready' /\ Remaining(code, pc) \subseteq Held(code, pc')
  BY GoesWell
<1>2. Remaining(code, pc) = Held(code, pc)
  BY DEF Remaining, Instr
<1>3. HandlersAreHeld'
  BY <1>1, <1>2 DEF Inv, HandlersAreHeld, Goes
<1> QED BY <1>1, <1>3 DEF Inv, Goes, Running

\* The runtime's throw.
LEMMA RaiseKeeps ==
    ASSUME Inv, outcome = Running, pc \in DOMAIN code, Instr.op \in Raises,
           NEW kind, Raise(kind), code' = code
    PROVE  Inv'
<1>1. IsNested(code) /\ Len(code) \in Nat /\ DOMAIN code = 1 .. Len(code) /\ pc \in 1 .. Len(code)
  BY DEF Inv, IsNested
<1>2. CASE handlers = <<>>
  <2>1. outcome' = Thrown(kind) /\ UNCHANGED <<pc, handlers, frame>>
    BY <1>2 DEF Raise
  <2>2. FramesAreFilled'
    BY <2>1 DEF Inv, FramesAreFilled, IsFilled
  <2> QED BY <2>1, <2>2 DEF Inv, Thrown, Running
<1>3. CASE handlers # <<>>
  <2> DEFINE top == Last(handlers)
             n   == Len(handlers)
  <2>1. /\ handlers' = Front(handlers) /\ pc' = frame[top].resume
        /\ SetLocals(top, [frame[top] EXCEPT !.ref = "jumped"]) /\ outcome' = outcome
    BY <1>3 DEF Raise
  <2>2. /\ handlers \in Seq(Place) /\ n \in Nat /\ n > 0 /\ top = handlers[n] /\ n \in DOMAIN handlers
        /\ DOMAIN handlers = 1 .. n
    BY <1>3 DEF Inv, HandlersAreHeld, Last
  <2>3. top \in Held(code, pc) /\ top \in DOMAIN frame /\ frame[top].resume # 0
    BY <2>2 DEF Inv, HandlersAreHeld
  <2>4. PICK s \in DOMAIN code : code[s].op = "setjmp" /\ code[s].at = top /\ frame[top].resume = s + 1
    BY <2>3 DEF Inv, FramesAreFilled, IsFilled
  <2>5. IsLocals(frame[top])
    BY <2>3 DEF Inv, FramesAreFilled
  <2>6. LET l == [frame[top] EXCEPT !.ref = "jumped"] IN IsLocals(l) /\ l.resume = s + 1
    BY <2>4, <2>5 DEF IsLocals
  <2>7. IsFilled(top, s + 1)
    BY <2>4 DEF IsFilled
  <2>8. FramesAreFilled'
    BY <2>1, <2>6, <2>7, SetKeeps DEF Inv
  <2>9. /\ \A x \in DOMAIN frame : x \in DOMAIN frame' /\ frame'[x].resume = frame[x].resume
    BY <2>1, <2>6, <2>4, SetOne
  <2>10. /\ handlers' \in Seq(Place) /\ DOMAIN handlers' = 1 .. n - 1
         /\ \A i \in 1 .. n - 1 : handlers'[i] = handlers[i]
    BY <2>1, <2>2 DEF Front
  <2>11. \A i \in 1 .. n - 1 : handlers[i] \in Held(code, s + 1)
    <3> SUFFICES ASSUME NEW i \in 1 .. n - 1 PROVE handlers[i] \in Held(code, s + 1)
      OBVIOUS
    <3>1. handlers[i] \in Held(code, pc) /\ Len(handlers[i]) < Len(top)
      BY <2>2 DEF Inv, HandlersAreHeld
    <3> QED BY <1>1, <2>3, <2>4, <3>1 DEF IsNested, ThrowsAreRight, Instr
  <2>12. HandlersAreHeld'
    BY <2>1, <2>2, <2>4, <2>9, <2>10, <2>11 DEF Inv, HandlersAreHeld
  <2>13. Ready'
    <3> SUFFICES ASSUME NEW p \in Opens(code), pc' \in {p - 1, p}
                 PROVE  Filled(code[p].at, p - 1)'
      BY DEF Ready
    <3>1. /\ p \in 1 .. Len(code) /\ code[p].op = "push"
          /\ p > 2 /\ code[p - 2].at = code[p].at /\ code[p - 1].op = "state"
      BY <1>1 DEF IsNested, BuffersAreRight, Opens
    <3>2. s = p - 2
      BY <1>1, <2>1, <2>4, <3>1
    <3> QED BY <2>3, <2>4, <2>9, <3>1, <3>2 DEF Filled
  <2>14. pc' \in 1 .. Len(code) + 1
    BY <1>1, <2>1, <2>4
  <2> QED BY <2>1, <2>8, <2>12, <2>13, <2>14, RunningIs DEF Inv
<1> QED BY <1>2, <1>3

-----------------------------------------------------------------------------
LEMMA CodeIs == Inv => Len(code) \in Nat /\ DOMAIN code = 1 .. Len(code)
BY DEF Inv, IsNested

LEMMA ThrowsKeep == Inv /\ (CallThrows \/ Throw \/ Rethrow) => Inv'
<1> SUFFICES ASSUME Inv, CallThrows \/ Throw \/ Rethrow PROVE Inv'
  OBVIOUS
<1>1. /\ outcome = Running /\ pc \in DOMAIN code /\ Instr.op \in Raises /\ code' = code
      /\ \E kind : Raise(kind)
  BY CodeIs DEF CallThrows, Throw, Rethrow, At, Raises, Inv
<1> QED BY <1>1, RaiseKeeps

\* A step of the code that changes no variable of a scope.
LEMMA StillKeeps ==
    Inv /\ (Effect \/ CallReturns \/ Test \/ TestKind \/ Jump) => Inv'
<1> SUFFICES ASSUME Inv, Effect \/ CallReturns \/ Test \/ TestKind \/ Jump PROVE Inv'
  OBVIOUS
<1>1. /\ outcome = Running /\ pc \in DOMAIN code /\ UNCHANGED <<code, frame, handlers, outcome>>
      /\ Instr.op \in {"effect", "call", "branch", "goto", "label", "getvalue", "unless"}
  BY CodeIs DEF Effect, CallReturns, Test, TestKind, Jump, At, Inv
<1>2. \/ pc' = pc + 1 /\ Instr.op # "goto"
      \/ pc' = Instr.label /\ Instr.op \in {"branch", "goto", "unless"}
  BY DEF Effect, CallReturns, Test, TestKind, Jump, At
<1>3. pc' \in Sequels(code, pc)
  BY <1>1, <1>2 DEF Sequels, Jumping, Instr
<1>4. FramesAreFilled'
  BY <1>1 DEF Inv, FramesAreFilled, IsFilled
<1>5. Goes /\ Instr.op # "pop"
  BY <1>1, <1>3, <1>4 DEF Goes
<1> QED BY <1>1, <1>5, GoesOn

LEMMA AssignKeeps == Inv /\ Assign => Inv'
<1> SUFFICES ASSUME Inv, Assign PROVE Inv'
  OBVIOUS
<1> DEFINE l == Locals(Instr.at)
<1>1. /\ outcome = Running /\ pc \in DOMAIN code /\ UNCHANGED <<code, handlers, outcome>>
      /\ Instr.op \in {"state", "keep"} /\ pc' = pc + 1
  BY CodeIs DEF Assign, At, Inv
<1>2. /\ IsLocals(l)
      /\ l.resume = 0 \/ IsFilled(Instr.at, l.resume)
      /\ Instr.at \in DOMAIN frame => l = frame[Instr.at]
  BY LocalsAre DEF Inv
<1>3. PICK new : SetLocals(Instr.at, new) /\ IsLocals(new) /\ new.resume = l.resume
  <2>1. CASE SetLocals(Instr.at, [l EXCEPT !.state = Instr.state])
    <3>1. IsLocals([l EXCEPT !.state = Instr.state]) /\ [l EXCEPT !.state = Instr.state].resume = l.resume
      <4> HIDE DEF l
      <4> QED BY <1>2, LocalsSet
    <3> QED BY <2>1, <3>1
  <2>2. CASE SetLocals(Instr.at, [l EXCEPT !.value = Value])
    <3>1. IsLocals([l EXCEPT !.value = Value]) /\ [l EXCEPT !.value = Value].resume = l.resume
      <4> HIDE DEF l
      <4> QED BY <1>2, LocalsSet
    <3> QED BY <2>2, <3>1
  <2> QED BY <2>1, <2>2 DEF Assign
<1>4. FramesAreFilled'
  BY <1>1, <1>2, <1>3, SetKeeps DEF Inv
<1>5. \A x \in DOMAIN frame : x \in DOMAIN frame' /\ frame'[x].resume = frame[x].resume
  BY <1>2, <1>3, SetOne
<1>6. pc' \in Sequels(code, pc)
  BY <1>1 DEF Sequels, Instr
<1>7. Goes /\ Instr.op # "pop"
  BY <1>1, <1>4, <1>5, <1>6 DEF Goes
<1> QED BY <1>1, <1>7, GoesOn

LEMMA SetJmpKeeps == Inv /\ SetJmp => Inv'
<1> SUFFICES ASSUME Inv, SetJmp PROVE Inv'
  OBVIOUS
<1> DEFINE at == Instr.at
           l   == Locals(at)
           new == [l EXCEPT !.ref = "zero", !.resume = pc + 1]
<1>1. /\ outcome = Running /\ pc \in DOMAIN code /\ UNCHANGED <<code, handlers, outcome>>
      /\ Instr.op = "setjmp" /\ pc' = pc + 1 /\ SetLocals(at, new)
  BY CodeIs DEF SetJmp, At, Inv
<1>2. IsNested(code) /\ Len(code) \in Nat /\ DOMAIN code = 1 .. Len(code)
  BY DEF Inv, IsNested
<1>3. IsLocals(l) /\ (at \in DOMAIN frame => l = frame[at])
  BY LocalsAre DEF Inv
<1>4. IsLocals(new) /\ new.resume = pc + 1 /\ IsFilled(at, pc + 1)
  <2>1. IsLocals(new) /\ new.resume = pc + 1
    <3> HIDE DEF l
    <3>1. PICK m : m = [l EXCEPT !.ref = "zero"]
      OBVIOUS
    <3>2. IsLocals(m)
      BY <1>3, <3>1, LocalsSet
    <3>3. new = [m EXCEPT !.resume = pc + 1]
      BY <3>1
    <3>4. IsLocals([m EXCEPT !.resume = pc + 1]) /\ [m EXCEPT !.resume = pc + 1].resume = pc + 1
      BY <3>2, LocalsSet
    <3> HIDE DEF new
    <3> QED BY <3>3, <3>4
  <2> QED BY <1>1, <2>1 DEF IsFilled, Instr
<1>5. FramesAreFilled'
  BY <1>1, <1>4, SetKeeps DEF Inv
<1>6. /\ at \in DOMAIN frame' /\ frame'[at].resume = pc + 1
      /\ \A x \in DOMAIN frame : x \in DOMAIN frame' /\ (x # at => frame'[x] = frame[x])
  <2> HIDE DEF at, new
  <2> QED BY <1>1, <1>4, SetOne
<1>7. Ready'
  <2> SUFFICES ASSUME NEW p \in Opens(code), pc' \in {p - 1, p}
               PROVE  Filled(code[p].at, p - 1)'
    BY <1>1 DEF Ready
  <2>1. /\ p \in 1 .. Len(code) /\ code[p].op = "push"
        /\ p > 2 /\ code[p - 2].at = code[p].at /\ code[p - 1].op = "state"
    BY <1>2 DEF IsNested, BuffersAreRight, Opens
  <2>2. pc = p - 2
    BY <1>1, <1>2, <2>1 DEF Instr
  <2>3. code'[p].at = at /\ (p - 1)' = pc + 1
    BY <1>1, <1>2, <2>1, <2>2 DEF Instr, Opens
  <2> QED BY <1>6, <2>3 DEF Filled
<1>8. Held(code, pc) \subseteq Held(code, pc')
  <2>1. pc' \in Sequels(code, pc) /\ Remaining(code, pc) = Held(code, pc)
    BY <1>1 DEF Sequels, Remaining, Instr
  <2> QED BY <1>1, <1>2, <2>1 DEF IsNested, JumpsAreRight
<1>9. \A x \in DOMAIN frame : x \in DOMAIN frame' /\ (frame[x].resume # 0 => frame'[x].resume # 0)
  <2>1. pc + 1 # 0
    BY <1>1, <1>2
  <2> QED BY <1>6, <2>1
<1>10. HandlersAreHeld'
  BY <1>1, <1>8, <1>9 DEF Inv, HandlersAreHeld
<1>11. pc' \in 1 .. Len(code) + 1
  BY <1>1, <1>2
<1> QED BY <1>1, <1>2, <1>5, <1>7, <1>10, <1>11, RunningIs DEF Inv

LEMMA PushKeeps == Inv /\ Push => Inv'
<1> SUFFICES ASSUME Inv, Push PROVE Inv'
  OBVIOUS
<1> DEFINE at == Instr.at
<1>1. /\ outcome = Running /\ pc \in DOMAIN code /\ UNCHANGED <<code, frame, outcome>>
      /\ Instr.op = "push"
  BY CodeIs DEF Push, At, Inv
<1>2. /\ IsNested(code) /\ Len(code) \in Nat /\ DOMAIN code = 1 .. Len(code) /\ pc \in Opens(code)
  BY <1>1 DEF Inv, IsNested, Opens, Instr
<1>3. FramesAreFilled'
  BY <1>1 DEF Inv, FramesAreFilled, IsFilled
<1>4. CASE pc' = Instr.label /\ UNCHANGED handlers
  <2>1. Goes /\ Instr.op # "pop"
    BY <1>1, <1>3, <1>4 DEF Goes, Sequels, Jumping, Instr
  <2> QED BY <1>1, <1>4, <2>1, GoesOn
<1>5. CASE handlers' = Append(handlers, at) /\ pc' = pc + 1
  <2>1. Goes
    BY <1>1, <1>3, <1>5 DEF Goes, Sequels, Instr
  <2>2. pc' \in 1 .. Len(code) + 1 /\ Ready' /\ Held(code, pc) \subseteq Held(code, pc')
    BY <1>1, <2>1, GoesWell DEF Remaining, Instr
  <2>3. Filled(at, pc - 1) /\ pc > 2
    BY <1>1, <1>2 DEF Inv, Ready, IsNested, BuffersAreRight, Instr
  <2>4. at \in Place /\ \A h \in Held(code, pc) : Len(h) < Len(at)
    BY <1>1, <1>2 DEF IsNested, BuffersAreRight, Instr, Place
  <2>5. at \in Held(code, pc')
    <3>1. code[pc].label > pc + 1 /\ code[pc].label \in Nat /\ code[pc].op = "push"
      BY <1>1, <1>2 DEF IsNested, BuffersAreRight, JumpsAreRight, Jumping, Instr
    <3>2. pc + 1 \in pc + 1 .. code[pc].label - 1 /\ (pc + 1) - 1 = pc
      BY <1>1, <1>2, <3>1
    <3>3. at \in Around(code, pc + 1)
      BY <1>2, <3>2 DEF Around, Instr
    <3> QED BY <1>5, <3>1, <3>2, <3>3 DEF Held
  <2>6. /\ handlers \in Seq(Place) /\ handlers' \in Seq(Place)
        /\ DOMAIN handlers' = 1 .. Len(handlers) + 1 /\ handlers'[Len(handlers) + 1] = at
        /\ \A i \in 1 .. Len(handlers) : handlers'[i] = handlers[i]
    BY <1>1, <1>5, <2>4 DEF Inv, HandlersAreHeld
  <2>7. HandlersAreHeld'
    <3> DEFINE n == Len(handlers)
    <3>1. /\ n \in Nat /\ DOMAIN handlers = 1 .. n
          /\ \A i \in 1 .. n : /\ handlers[i] \in Held(code, pc)
                              /\ handlers[i] \in DOMAIN frame /\ frame[handlers[i]].resume # 0
          /\ \A i, j \in 1 .. n : i < j => Len(handlers[i]) < Len(handlers[j])
      BY <1>1, <2>6 DEF Inv, HandlersAreHeld
    <3>2. at \in DOMAIN frame /\ frame[at].resume # 0
      BY <1>1, <1>2, <2>3 DEF Filled
    <3>3. \A i \in 1 .. n + 1 : /\ handlers'[i] \in Held(code, pc')
                               /\ handlers'[i] \in DOMAIN frame /\ frame[handlers'[i]].resume # 0
      BY <2>2, <2>5, <2>6, <3>1, <3>2
    <3>4. \A i, j \in 1 .. n + 1 : i < j => Len(handlers'[i]) < Len(handlers'[j])
      <4> SUFFICES ASSUME NEW i \in 1 .. n + 1, NEW j \in 1 .. n + 1, i < j
                   PROVE  Len(handlers'[i]) < Len(handlers'[j])
        OBVIOUS
      <4>1. i \in 1 .. n /\ handlers'[i] = handlers[i]
        BY <2>6, <3>1
      <4>2. CASE j = n + 1
        BY <2>4, <2>6, <3>1, <4>1, <4>2
      <4>3. CASE j \in 1 .. n
        BY <2>6, <3>1, <4>1, <4>3
      <4> QED BY <3>1, <4>2, <4>3
    <3> QED BY <1>1, <2>6, <3>3, <3>4 DEF HandlersAreHeld
  <2> QED BY <1>1, <1>2, <1>3, <2>2, <2>7, RunningIs DEF Inv
<1> QED BY <1>4, <1>5 DEF Push

LEMMA PopKeeps == Inv /\ PopHandler => Inv'
<1> SUFFICES ASSUME Inv, PopHandler PROVE Inv'
  OBVIOUS
<1> DEFINE at == Instr.at
           n  == Len(handlers)
<1>1. /\ outcome = Running /\ pc \in DOMAIN code /\ UNCHANGED <<code, frame, outcome>>
      /\ Instr.op = "pop" /\ pc' = pc + 1
  BY CodeIs DEF PopHandler, At, Inv
<1>2. /\ IsNested(code) /\ Len(code) \in Nat /\ DOMAIN code = 1 .. Len(code)
  BY DEF Inv, IsNested
<1>3. FramesAreFilled'
  BY <1>1 DEF Inv, FramesAreFilled, IsFilled
<1>4. Goes
  BY <1>1, <1>3 DEF Goes, Sequels, Instr
<1>5. pc' \in 1 .. Len(code) + 1 /\ Ready' /\ Held(code, pc) \ {at} \subseteq Held(code, pc')
  BY <1>1, <1>4, GoesWell DEF Remaining, Instr
<1>6. \A h \in Held(code, pc) : Len(h) <= Len(at)
  BY <1>1, <1>2 DEF IsNested, BuffersAreRight, Instr
<1>7. handlers \in Seq(Place) /\ n \in Nat /\ DOMAIN handlers = 1 .. n
  BY <1>1 DEF Inv, HandlersAreHeld
<1>8. \A i \in 1 .. n : Len(handlers[i]) \in Nat
  BY <1>7 DEF Place
<1>9. \A i \in 1 .. n : i < n => handlers[i] # at
  <2> SUFFICES ASSUME NEW i \in 1 .. n, i < n, handlers[i] = at PROVE FALSE
    OBVIOUS
  <2>1. Len(handlers[i]) < Len(handlers[n]) /\ handlers[n] \in Held(code, pc)
    BY <1>1, <1>7 DEF Inv, HandlersAreHeld
  <2> QED BY <1>6, <1>7, <1>8, <2>1
<1>10. HandlersAreHeld'
  <2>1. CASE n > 0 /\ handlers[n] = at
    <3>1. handlers' = SubSeq(handlers, 1, n - 1)
      BY <1>7, <2>1 DEF PopHandler, Last, Front
    <3>2. /\ handlers' \in Seq(Place) /\ DOMAIN handlers' = 1 .. n - 1
          /\ \A i \in 1 .. n - 1 : handlers'[i] = handlers[i]
      BY <1>7, <2>1, <3>1
    <3>3. \A i \in 1 .. n : /\ handlers[i] \in Held(code, pc)
                           /\ handlers[i] \in DOMAIN frame /\ frame[handlers[i]].resume # 0
      BY <1>1, <1>7 DEF Inv, HandlersAreHeld
    <3>4. \A i, j \in 1 .. n : i < j => Len(handlers[i]) < Len(handlers[j])
      BY <1>1, <1>7 DEF Inv, HandlersAreHeld
    <3>5. \A i \in 1 .. n - 1 : handlers[i] # at
      BY <1>7, <1>9
    <3>6. \A i \in 1 .. n - 1 : /\ handlers'[i] \in Held(code, pc')
                               /\ handlers'[i] \in DOMAIN frame /\ frame[handlers'[i]].resume # 0
      BY <1>5, <1>7, <3>2, <3>3, <3>5
    <3>7. \A i, j \in 1 .. n - 1 : i < j => Len(handlers'[i]) < Len(handlers'[j])
      BY <1>7, <3>2, <3>4
    <3> QED BY <1>1, <3>2, <3>6, <3>7 DEF HandlersAreHeld
  <2>2. CASE ~(n > 0 /\ handlers[n] = at)
    <3>1. handlers' = handlers
      BY <1>7, <2>2 DEF PopHandler, Last
    <3>2. \A i \in 1 .. n : handlers[i] # at
      BY <1>7, <1>9, <2>2
    <3> QED BY <1>1, <1>5, <1>7, <3>1, <3>2 DEF Inv, HandlersAreHeld
  <2> QED BY <2>1, <2>2
<1> QED BY <1>1, <1>2, <1>3, <1>5, <1>10, RunningIs DEF Inv

\* Nothing is around the end of the code, nor, in the right code, around a return.
LEMMA LeaveKeeps == Inv /\ Leave => Inv'
<1> SUFFICES ASSUME Inv, Leave PROVE Inv'
  OBVIOUS
<1>1. /\ outcome = Running /\ UNCHANGED <<code, pc, frame, handlers>> /\ outcome' # Running
      /\ (pc \in DOMAIN code /\ Instr.op = "return") \/ pc > Len(code)
  <2>1. \A v : Returned(v).o = "return" /\ Ended.o = "end" /\ Running.o = "running"
    BY DEF Running, Returned, Ended
  <2>2. \A v : Returned(v) # Running /\ Ended # Running
    BY <2>1
  <2> QED BY <2>2, CodeIs DEF Leave, At, Inv
<1>2. /\ IsNested(code) /\ Len(code) \in Nat /\ DOMAIN code = 1 .. Len(code) /\ HandlersAreHeld
  BY <1>1 DEF Inv, IsNested
<1>3. Held(code, pc) = {}
  <2>1. CASE pc \in DOMAIN code /\ Instr.op = "return"
    BY <1>2, <2>1 DEF IsNested, Instr
  <2>2. CASE pc > Len(code)
    <3>1. \A p \in Opens(code) : p \in 1 .. Len(code) /\ code[p].label \in 1 .. Len(code)
      BY <1>2 DEF IsNested, JumpsAreRight, Opens, Jumping
    <3>2. \A p \in Opens(code) : pc \notin p + 1 .. code[p].label - 1
      BY <1>2, <2>2, <3>1 DEF Inv
    <3> QED BY <3>2 DEF Held, Around
  <2> QED BY <1>1, <2>1, <2>2
<1>4. handlers = <<>>
  BY <1>2, <1>3 DEF HandlersAreHeld
<1>5. FramesAreFilled'
  BY <1>1 DEF Inv, FramesAreFilled, IsFilled
<1> QED BY <1>1, <1>4, <1>5 DEF Inv

LEMMA NextKeeps == Inv /\ [Next]_vars => Inv'
<1> SUFFICES ASSUME Inv, [Next]_vars PROVE Inv'
  OBVIOUS
<1>1. CASE UNCHANGED vars
  BY <1>1 DEF vars, Inv, FramesAreFilled, IsFilled, Ready, Filled, HandlersAreHeld
<1> QED BY <1>1, ThrowsKeep, StillKeeps, AssignKeeps, SetJmpKeeps, PushKeeps, PopKeeps, LeaveKeeps DEF Next

LEMMA Encloses == Inv => OnlyEnclosingCatch
<1> SUFFICES ASSUME Inv PROVE OnlyEnclosingCatch
  OBVIOUS
<1>1. ASSUME outcome = Running, pc <= Len(code), Instr.op \in Raises, NEW n \in DOMAIN handlers
      PROVE  IsPrefix(Append(handlers[n], WhoPart), Instr.at)
  <2>1. handlers[n] \in Held(code, pc) /\ pc \in DOMAIN code
    BY <1>1, CodeIs DEF Inv, HandlersAreHeld
  <2> QED BY <1>1, <2>1 DEF Inv, IsNested, ThrowsAreRight, Instr
<1>2. HandlersEnclose
  BY <1>1 DEF Inv, HandlersEnclose
<1> QED BY <1>2 DEF Inv, OnlyEnclosingCatch

\* For every code whose buffers are pushed and popped as IsNested says, whatever
\* the calls throw and the tests answer: while code that may throw runs, a pushed
\* buffer belongs to a scope whose content is running, and a function that returns
\* leaves none (generateExitScope, generator/Visitor.cc:1904-2047; popLastException).
THEOREM ThrowsAreCaughtInside ==
    (\A n \in DOMAIN Codes : IsNested(Codes[n])) /\ Spec => []OnlyEnclosingCatch
BY InitHolds, NextKeeps, Encloses, PTL DEF Spec
=============================================================================
