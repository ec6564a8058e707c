--------------------------- MODULE GuardedBlocks ----------------------------
(***************************************************************************)
(* Statements of a function body with guarded blocks, and the values that  *)
(* the validator builds out of them.                                       *)
(*                                                                         *)
(* A source term is a record with a field s.  A block carries its content, *)
(* the guards of scope exit, scope success and scope failure, and the arms *)
(* of its catcher (validator/Visitor_blocks.cc).  A value is a record with *)
(* a field k, and the three facts that every generator::Value computes in  *)
(* its constructor: br and rt, whether the value always leaves its place   *)
(* by a break or by a return or throw, and th, the kinds of exceptions     *)
(* that may leave it (generator/value/*.cc).                               *)
(*                                                                         *)
(* The values are translated to the instructions of ExitScopes, and Replay *)
(* says what the source terms mean.                                        *)
(***************************************************************************)
EXTENDS ExitScopes

CONSTANT Corpus     \* the bodies, a sequence of source terms

(***************************************************************************)
(* Source terms.  An id names the event that the execution of the term     *)
(* records.                                                                *)
(***************************************************************************)
Do(id)            == [s |-> "do", id |-> id]
Calls(id, kinds)  == [s |-> "call", id |-> id, kinds |-> kinds]
Throws(kind)      == [s |-> "throw", kind |-> kind]
Breaks            == [s |-> "break"]
Returns(v)        == [s |-> "return", v |-> v]
If(id, then)      == [s |-> "if", id |-> id, then |-> then]
While(id, body)   == [s |-> "while", id |-> id, do |-> FALSE, body |-> body]
DoWhile(id, body) == [s |-> "while", id |-> id, do |-> TRUE, body |-> body]
Forever(body)     == [s |-> "forever", body |-> body]
Arm(kind, act)    == [kind |-> kind, act |-> act]
Guarded(content, exit, success, failure, catch) ==
    [s |-> "block", content |-> content, exit |-> exit,
     success |-> success, failure |-> failure, catch |-> catch]
Plain(content) == Guarded(content, <<>>, <<>>, <<>>, <<>>)
With(resources, body) == [s |-> "with", resources |-> resources, body |-> body]
Atomic(lock, unlock, body) ==
    [s |-> "atomic", lock |-> lock, unlock |-> unlock, body |-> body]
Try(body) == [s |-> "try", body |-> body]

(***************************************************************************)
(* Values, one operator per constructor.                                   *)
(***************************************************************************)
All(values, fact(_)) == UNION {fact(values[n]) : n \in DOMAIN values}
Throwers(values) == LET th(v) == v.th IN All(values, th)

EffectValue(id) == [k |-> "effect", id |-> id, br |-> FALSE, rt |-> FALSE, th |-> {}]
CallValue(id, kinds) ==
    [k |-> "call", id |-> id, kinds |-> kinds, br |-> FALSE, rt |-> FALSE, th |-> kinds]
ThrowValue(kind) == [k |-> "throw", kind |-> kind, br |-> FALSE, rt |-> TRUE, th |-> {kind}]
BreakValue == [k |-> "break", br |-> TRUE, rt |-> FALSE, th |-> {}]
ReturnValue(v) == [k |-> "return", v |-> v, br |-> FALSE, rt |-> TRUE, th |-> {}]

\* Block::init gives the flags their default, Value::initBrRet replaces them.
BlockValue(items, br, rt) ==
    [k |-> "block", items |-> items, br |-> br, rt |-> rt, th |-> Throwers(items)]

LoopValue(test, do, body) ==
    [k |-> "loop", test |-> test, do |-> do, body |-> body,
     br |-> FALSE, rt |-> FALSE, th |-> body.th]

\* els is the empty sequence or holds the value of the else part.
CondValue(test, then, els, mandatory) ==
    LET both(fact(_)) == /\ fact(then)
                         /\ IF els = <<>> THEN mandatory ELSE fact(els[1])
        breaks(v)  == v.br
        returns(v) == v.rt
    IN  [k |-> "cond", test |-> test, then |-> then, els |-> els,
         br |-> both(breaks), rt |-> both(returns), th |-> then.th \cup Throwers(els)]

SuccessValue(who, values) ==
    [k |-> "success", who |-> who, values |-> values,
     br |-> FALSE, rt |-> FALSE, th |-> who.th \cup Throwers(values)]

\* catch is the empty sequence or holds the catching action.
ExitValue(who, exit, failure, catch) ==
    [k |-> "exit", who |-> who, exit |-> exit, failure |-> failure, catch |-> catch,
     br |-> who.br /\ (catch = <<>> \/ catch[1].br),
     rt |-> who.rt /\ (catch = <<>> \/ catch[1].rt),
     th |-> (IF catch = <<>> THEN who.th ELSE {})
              \cup Throwers(failure) \cup Throwers(exit) \cup Throwers(catch)]

(***************************************************************************)
(* The validator.                                                          *)
(***************************************************************************)
OnEvent(id)  == [on |-> "event", id |-> id, kind |-> Anything]
OnKind(kind) == [on |-> "kind", id |-> "", kind |-> kind]

RECURSIVE AddElse(_, _)
AddElse(cond, els) ==
    CondValue(cond.test, cond.then,
              IF cond.els = <<>> THEN <<els>> ELSE <<AddElse(cond.els[1], els)>>, FALSE)

RECURSIVE SetComplete(_)
SetComplete(cond) ==
    IF cond.els = <<>> THEN CondValue(cond.test, cond.then, <<>>, TRUE)
    ELSE CondValue(cond.test, cond.then, <<SetComplete(cond.els[1])>>, FALSE)

\* The arms of a catcher, in their order, then completed when none of them
\* accepts every kind.
Dispatch(arms) ==
    LET cond(arm) == CondValue(OnKind(arm.kind), arm.act, <<>>, arm.kind = Anything)
        chain == FoldLeft(LAMBDA v, arm : AddElse(v, cond(arm)),
                          cond(arms[1]), Tail(arms))
    IN  IF \E n \in DOMAIN arms : arms[n].kind = Anything
        THEN chain ELSE SetComplete(chain)

RECURSIVE Validate(_), ValidateGuarded(_), ValidateWith(_, _)

ValidateAll(terms) == [n \in DOMAIN terms |-> Validate(terms[n])]

\* The validation that wraps the success guards around the others.
SuccessOutermost(b) ==
    LET items   == ValidateAll(b.content)
        content == BlockValue(items, \E n \in DOMAIN items : items[n].br,
                                     \E n \in DOMAIN items : items[n].rt)
        arms    == [n \in DOMAIN b.catch |-> Arm(b.catch[n].kind, Validate(b.catch[n].act))]
        catch   == IF arms = <<>> THEN <<>> ELSE <<Dispatch(arms)>>
        scope   == IF b.exit \o b.failure \o b.catch = <<>> THEN content
                   ELSE ExitValue(content, ValidateAll(b.exit), ValidateAll(b.failure), catch)
    IN  IF b.success = <<>> THEN scope ELSE SuccessValue(scope, ValidateAll(b.success))

\* The success guards are wrapped before the others, and the catcher is
\* validated against the throwers of the content alone.
ValidateGuarded(b) ==
    LET items   == ValidateAll(b.content)
        content == BlockValue(items, \E n \in DOMAIN items : items[n].br,
                                     \E n \in DOMAIN items : items[n].rt)
        arms    == [n \in DOMAIN b.catch |-> Arm(b.catch[n].kind, Validate(b.catch[n].act))]
        catch   == IF arms = <<>> THEN <<>> ELSE <<Dispatch(arms)>>
        inner   == IF b.success = <<>> THEN content
                   ELSE SuccessValue(content, ValidateAll(b.success))
    IN  IF b.exit \o b.failure \o b.catch = <<>> THEN inner
        ELSE ExitValue(inner, ValidateAll(b.exit), ValidateAll(b.failure), catch)

\* The last resource opened is the first one disposed of.
ValidateWith(resources, body) ==
    IF resources = <<>> THEN body
    ELSE LET r     == Last(resources)
             scope == ExitValue(body, <<EffectValue(r.close)>>, <<>>, <<>>)
         IN  ValidateWith(Front(resources),
                          BlockValue(<<CallValue(r.open, r.kinds), scope>>, FALSE, FALSE))

Validate(t) ==
    CASE t.s = "do"      -> EffectValue(t.id)
      [] t.s = "call"    -> CallValue(t.id, t.kinds)
      [] t.s = "throw"   -> ThrowValue(t.kind)
      [] t.s = "break"   -> BreakValue
      [] t.s = "return"  -> ReturnValue(t.v)
      [] t.s = "if"      -> CondValue(OnEvent(t.id), Validate(t.then), <<>>, FALSE)
      [] t.s = "while"   -> LoopValue(<<OnEvent(t.id)>>, t.do, Validate(t.body))
      [] t.s = "forever" -> LoopValue(<<>>, FALSE, Validate(t.body))
      [] t.s = "block"   -> ValidateGuarded(t)
      [] t.s = "with"    -> ValidateWith(t.resources, Validate(t.body))
      [] t.s = "atomic"  ->
            ExitValue(BlockValue(<<EffectValue(t.lock), Validate(t.body)>>, FALSE, FALSE),
                      <<EffectValue(t.unlock)>>, <<>>, <<>>)
      [] t.s = "try"     ->
            LET inner == Validate(t.body)
            IN  IF inner.th = {} THEN inner
                ELSE ExitValue(inner, <<>>, <<>>, <<BlockValue(<<>>, FALSE, FALSE)>>)

(***************************************************************************)
(* The errors of the validator that restrict which bodies reach the        *)
(* generator: unreachable statements, a break out of a loop, a failure     *)
(* guard or a catcher with nothing to catch, an exception that the catcher *)
(* of its block does not catch, an arm for a kind that is not thrown or    *)
(* that another arm catches.                                               *)
(***************************************************************************)
RECURSIVE Accepted(_, _)
AcceptedAll(terms, inLoop) == \A n \in DOMAIN terms : Accepted(terms[n], inLoop)

AcceptedCatch(b) ==
    LET thrown == Throwers(ValidateAll(b.content))
        kinds  == {b.catch[n].kind : n \in DOMAIN b.catch}
    IN  b.catch # <<>> =>
            /\ thrown # {}
            /\ Anything \in kinds \/ thrown \subseteq kinds
            /\ kinds \ {Anything} \subseteq thrown
            /\ \A m, n \in DOMAIN b.catch :
                  b.catch[m].kind = b.catch[n].kind => m = n \/ b.catch[m].kind = Anything

AcceptedBlock(b, inLoop) ==
    LET items == ValidateAll(b.content)
    IN  /\ \A m, n \in DOMAIN items : m < n => ~items[m].br /\ ~items[m].rt
        /\ AcceptedAll(b.content \o b.exit \o b.success \o b.failure, inLoop)
        /\ \A n \in DOMAIN b.catch : Accepted(b.catch[n].act, inLoop)
        /\ b.failure # <<>> => Throwers(items) # {}
        /\ AcceptedCatch(b)

Accepted(t, inLoop) ==
    CASE t.s = "break" -> inLoop
      [] t.s = "if" -> Accepted(t.then, inLoop)
      [] t.s \in {"while", "forever"} -> Accepted(t.body, TRUE)
      [] t.s = "block" -> AcceptedBlock(t, inLoop)
      [] t.s \in {"with", "atomic", "try"} -> Accepted(t.body, inLoop)
      [] OTHER -> TRUE

-----------------------------------------------------------------------------
(* The translation of values into statements with labels and jumps         *)
(* (generator/Visitor.cc).                                                 *)
(*                                                                         *)
(* chain is exceptionDeclChain.back (), one entry for each loop, success   *)
(* scope and exit scope that is being generated; loops is _loopLabels.     *)
(* Trees become a flat sequence of instructions; at is the place of a      *)
(* value in the body, the sequence of the positions of its ancestors, and  *)
(* names the labels and the local variables of that value.  The positions  *)
(* of the children of a scope are those named below.                       *)

ExitPart    == 2
FailurePart == 3
CatchPart   == 4
SuccessPart == 5

LoopEntry        == [kind |-> "loop", at |-> <<>>]
SuccessEntry(at) == [kind |-> "success", at |-> at]
ExitEntry(at)    == [kind |-> "exit", at |-> at]

Label(at, name) == [at |-> at, name |-> name]
Placed(label)   == [op |-> "label", label |-> label]
Goto(label)     == [op |-> "goto", label |-> label]
Branch(test, label) == [op |-> "branch", test |-> test, label |-> label]
Unless(at, state, label) == [op |-> "unless", at |-> at, state |-> state, label |-> label]
SetState(at, state) == [op |-> "state", at |-> at, state |-> state]
Pop(at)         == [op |-> "pop", at |-> at]

\* A returned value is a literal of the source or the #ret_val of a scope.
Literal(v)   == [from |-> "literal", v |-> v, at |-> <<>>]
Kept(at)     == [from |-> "scope", v |-> "", at |-> at]

Within(fact(_), chain) == SelectSeq(chain, fact)

\* The call that names the buffer of the outermost scope.
PopFirstException(chain) ==
    LET withBuffer(e) == e.kind = "exit"
        entries == Within(withBuffer, chain)
    IN  IF entries = <<>> THEN <<>> ELSE <<Pop(Head(entries).at)>>

PopLastException(chain) ==
    LET withBuffer(e) == e.kind = "exit"
        entries == Within(withBuffer, chain)
    IN  IF entries = <<>> THEN <<>> ELSE <<Pop(Last(entries).at)>>

\* The chain is not empty: the validator refuses a break out of a loop.
GenerateBreak(chain, loops) ==
    LET e == Last(chain)
    IN  IF e.kind = "loop" THEN <<Goto(Last(loops))>>
        ELSE <<SetState(e.at, "BREAK")>> \o PopLastException(chain)
               \o <<Goto(Label(e.at, "exit"))>>

GenerateReturn(value, chain) ==
    LET catches(e) == e.kind # "loop"
        entries    == Within(catches, chain)     \* getLastCatcherPosition
        at         == Last(entries).at
    IN  IF entries = <<>> THEN <<[op |-> "return", value |-> value]>>
        ELSE <<SetState(at, "RETURN"), [op |-> "keep", at |-> at, value |-> value]>>
               \o PopLastException(chain) \o <<Goto(Label(at, "exit"))>>

GenerateEndOfExit(at, chain, loops) ==
    LET done  == Label(at, "done")
        next  == Label(at, "breaks")
        throw == Label(at, "throws")
    IN  <<Unless(at, "NONE", Label(at, "leaves")), Goto(done), Placed(Label(at, "leaves")),
          Unless(at, "RETURN", next)>>
          \o GenerateReturn(Kept(at), chain) \o <<Placed(next)>>
          \o (IF loops = <<>> THEN <<>>
              ELSE <<Unless(at, "BREAK", throw)>> \o GenerateBreak(chain, loops)
                     \o <<Placed(throw)>>)
          \o <<[op |-> "rethrow", at |-> at], Placed(done)>>

RECURSIVE Generate(_, _, _, _)

GenerateAll(values, chain, loops, at) ==
    FlattenSeq([n \in DOMAIN values |-> Generate(values[n], chain, loops, Append(at, n))])

GenerateConditional(v, chain, loops, at) ==
    LET else == Label(at, "else")
        end  == Label(at, "end")
    IN  <<Branch(v.test, else)>> \o Generate(v.then, chain, loops, Append(at, 1))
          \o <<Goto(end), Placed(else)>>
          \o (IF v.els = <<>> THEN <<>>
              ELSE Generate(v.els[1], chain, loops, Append(at, 2)))
          \o <<Placed(end)>>

GenerateLoop(v, chain, loops, at) ==
    LET begin == Label(at, "begin")
        test  == Label(at, "test")
        end   == Label(at, "end")
    IN  (IF v.test # <<>> /\ ~v.do THEN <<Goto(test)>> ELSE <<>>)
          \o <<Placed(begin)>>
          \o Generate(v.body, Append(chain, LoopEntry), Append(loops, end), Append(at, 1))
          \o (IF v.test = <<>> THEN <<Goto(begin)>>
              ELSE <<Placed(test), Branch(v.test[1], end), Goto(begin)>>)
          \o <<Placed(end)>>

GenerateCatching(v, chain, loops, at) ==
    IF v.catch = <<>>
    THEN <<SetState(at, "THROW"), Goto(Label(at, "exit"))>>
    ELSE <<[op |-> "getvalue", at |-> at]>>
           \o Generate(v.catch[1], chain, loops, Append(at, CatchPart))

\* The translation that takes the entry off the chain after the exit guards.
EntryKeptForExit(v, chain, loops, at) ==
    LET exit  == Label(at, "exit")
        right == Label(at, "failed")
        inner == Append(chain, ExitEntry(at))
    IN  <<[op |-> "setjmp", at |-> at], SetState(at, "NONE"),
          [op |-> "push", at |-> at, label |-> right]>>
          \o Generate(v.who, inner, loops, Append(at, WhoPart))
          \o <<Pop(at), Goto(exit), Placed(right)>>
          \o GenerateAll(v.failure, chain, loops, Append(at, FailurePart))
          \o GenerateCatching(v, chain, loops, at)
          \o <<Goto(exit), Placed(exit)>>
          \o GenerateAll(v.exit, inner, loops, Append(at, ExitPart))
          \o GenerateEndOfExit(at, inner, loops)

\* The failure guards, the catcher and the exit guards are generated after
\* the entry of the scope has been taken off the chain.
GenerateExitScope(v, chain, loops, at) ==
    LET exit  == Label(at, "exit")
        right == Label(at, "failed")
    IN  <<[op |-> "setjmp", at |-> at], SetState(at, "NONE"),
          [op |-> "push", at |-> at, label |-> right]>>
          \o Generate(v.who, Append(chain, ExitEntry(at)), loops, Append(at, WhoPart))
          \o <<Pop(at), Goto(exit), Placed(right)>>
          \o GenerateAll(v.failure, chain, loops, Append(at, FailurePart))
          \o GenerateCatching(v, chain, loops, at)
          \o <<Goto(exit), Placed(exit)>>
          \o GenerateAll(v.exit, chain, loops, Append(at, ExitPart))
          \o GenerateEndOfExit(at, chain, loops)

GenerateSuccessScope(v, chain, loops, at) ==
    LET exit == Label(at, "exit")
    IN  <<SetState(at, "NONE")>>
          \o Generate(v.who, Append(chain, SuccessEntry(at)), loops, Append(at, WhoPart))
          \o <<Goto(exit), Placed(exit)>>
          \o GenerateAll(v.values, chain, loops, Append(at, SuccessPart))
          \o GenerateEndOfExit(at, chain, loops)

Generate(v, chain, loops, at) ==
    CASE v.k = "effect"  -> <<[op |-> "effect", id |-> v.id]>>
      [] v.k = "call"    -> <<[op |-> "call", id |-> v.id, kinds |-> v.kinds, at |-> at]>>
      [] v.k = "throw"   -> <<[op |-> "throw", kind |-> v.kind, at |-> at]>>
      [] v.k = "break"   -> GenerateBreak(chain, loops)
      [] v.k = "return"  -> GenerateReturn(Literal(v.v), chain)
      [] v.k = "block"   -> GenerateAll(v.items, chain, loops, at)
      [] v.k = "cond"    -> GenerateConditional(v, chain, loops, at)
      [] v.k = "loop"    -> GenerateLoop(v, chain, loops, at)
      [] v.k = "exit"    -> GenerateExitScope(v, chain, loops, at)
      [] v.k = "success" -> GenerateSuccessScope(v, chain, loops, at)

(***************************************************************************)
(* The code of a body, whose jumps hold the index of their label.          *)
(***************************************************************************)
Assemble(instructions) ==
    LET labels == {n \in DOMAIN instructions : instructions[n].op = "label"}
        index  == [l \in {instructions[n].label : n \in labels} |->
                      CHOOSE n \in labels : instructions[n].label = l]
    IN  [n \in DOMAIN instructions |->
            IF instructions[n].op \in {"goto", "branch", "unless", "push"}
            THEN [instructions[n] EXCEPT !.label = index[instructions[n].label]]
            ELSE instructions[n]]

CodeOf(term) == Assemble(Generate(Validate(term), <<>>, <<>>, <<>>))

-----------------------------------------------------------------------------
(***************************************************************************)
(* The meaning of a source term, as a reader of traces: from position i,   *)
(* the position reached and how the term completes.  "diverged" says that  *)
(* the trace is not one of this term.                                      *)
(***************************************************************************)
Result(i, out) == [i |-> i, o |-> out.o, v |-> out.v]
Diverged(i)    == Result(i, [o |-> "diverged", v |-> ""])
Broken         == [o |-> "break", v |-> ""]

\* What the trace answers to the event id at position i.
Answer(tr, i, id) == IF i <= Len(tr) /\ tr[i][1] = id THEN tr[i][2] ELSE "diverged"

RECURSIVE Replay(_, _, _), ReplayAll(_, _, _), ReplayLoop(_, _, _), ReplayWith(_, _, _, _)

ReplayAll(terms, tr, i) ==
    IF terms = <<>> THEN Result(i, Ended)
    ELSE LET r == Replay(Head(terms), tr, i)
         IN  IF r.o = "end" THEN ReplayAll(Tail(terms), tr, r.i) ELSE r

\* The guards run after r, and r stands unless they leave.
Then(r, guards, tr) ==
    LET g == ReplayAll(guards, tr, r.i)
    IN  IF r.o = "diverged" THEN r
        ELSE IF g.o = "end" THEN [r EXCEPT !.i = g.i] ELSE g

ReplayGuarded(b, tr, i) ==
    LET content == ReplayAll(b.content, tr, i)
        settled == IF content.o = "throw" THEN content ELSE Then(content, b.success, tr)
        arms    == SelectSeq(b.catch, LAMBDA arm : arm.kind \in {Anything, settled.v})
        failed  == ReplayAll(b.failure, tr, settled.i)
        handled == CASE settled.o # "throw" -> settled
                     [] failed.o # "end"    -> failed
                     [] arms = <<>>         -> [settled EXCEPT !.i = failed.i]
                     [] OTHER               -> Replay(Head(arms).act, tr, failed.i)
    IN  Then(handled, b.exit, tr)

ReplayCall(id, kinds, tr, i) ==
    LET answer == Answer(tr, i, id)
    IN  CASE answer = "done"   -> Result(i + 1, Ended)
          [] answer \in kinds  -> Result(i + 1, Thrown(answer))
          [] OTHER             -> Diverged(i)

ReplayBody(t, tr, i) ==
    LET r == Replay(t.body, tr, i)
    IN  CASE r.o = "break" -> Result(r.i, Ended)
          [] r.o = "end"   -> ReplayLoop(t, tr, r.i)
          [] OTHER         -> r

ReplayLoop(t, tr, i) ==
    IF t.s = "forever" THEN ReplayBody(t, tr, i)
    ELSE LET answer == Answer(tr, i, t.id)
         IN  CASE answer = "yes" -> ReplayBody(t, tr, i + 1)
               [] answer = "no"  -> Result(i + 1, Ended)
               [] OTHER          -> Diverged(i)

ReplayWith(resources, inner, tr, i) ==
    IF resources = <<>> THEN Replay(inner, tr, i)
    ELSE LET r == Head(resources)
             opened == ReplayCall(r.open, r.kinds, tr, i)
         IN  IF opened.o # "end" THEN opened
             ELSE Then(ReplayWith(Tail(resources), inner, tr, opened.i), <<Do(r.close)>>, tr)

Replay(t, tr, i) ==
    CASE t.s = "do"      -> ReplayCall(t.id, {}, tr, i)
      [] t.s = "call"    -> ReplayCall(t.id, t.kinds, tr, i)
      [] t.s = "throw"   -> Result(i, Thrown(t.kind))
      [] t.s = "break"   -> Result(i, Broken)
      [] t.s = "return"  -> Result(i, Returned(t.v))
      [] t.s = "if"      ->
            LET answer == Answer(tr, i, t.id)
            IN  CASE answer = "yes" -> Replay(t.then, tr, i + 1)
                  [] answer = "no"  -> Result(i + 1, Ended)
                  [] OTHER          -> Diverged(i)
      [] t.s = "while"   -> IF t.do THEN ReplayBody(t, tr, i) ELSE ReplayLoop(t, tr, i)
      [] t.s = "forever" -> ReplayLoop(t, tr, i)
      [] t.s = "block"   -> ReplayGuarded(t, tr, i)
      [] t.s = "with"    -> ReplayWith(t.resources, t.body, tr, i)
      [] t.s = "atomic"  ->
            LET locked == ReplayCall(t.lock, {}, tr, i)
            IN  IF locked.o = "end" THEN Then(Replay(t.body, tr, locked.i), <<Do(t.unlock)>>, tr)
                ELSE locked
      [] t.s = "try"     ->
            LET r == Replay(t.body, tr, i)
            IN  IF r.o = "throw" THEN Result(r.i, Ended) ELSE r

(***************************************************************************)
(* The bodies for which the generated code keeps the meaning of the guards *)
(* (README, findings): failure guards and the arms of a catcher leave      *)
(* their block by its end only, and the content of a block with success    *)
(* guards does too, unless it throws.                                      *)
(***************************************************************************)
RECURSIVE Leaves(_)
LeavesAny(values) == \E n \in DOMAIN values : Leaves(values[n])
Leaves(v) ==      \* a break or a return of v may leave v
    CASE v.k \in {"break", "return"} -> TRUE
      [] v.k = "block"   -> LeavesAny(v.items)
      [] v.k = "cond"    -> LeavesAny(<<v.then>> \o v.els)
      [] v.k = "loop"    -> Leaves(v.body)
      [] v.k = "exit"    -> LeavesAny(<<v.who>> \o v.exit \o v.failure \o v.catch)
      [] v.k = "success" -> LeavesAny(<<v.who>> \o v.values)
      [] OTHER           -> FALSE

RECURSIVE Disciplined(_)
DisciplinedAll(values) == \A n \in DOMAIN values : Disciplined(values[n])
Disciplined(v) ==
    CASE v.k = "block"   -> DisciplinedAll(v.items)
      [] v.k = "cond"    -> DisciplinedAll(<<v.then>> \o v.els)
      [] v.k = "loop"    -> Disciplined(v.body)
      [] v.k = "exit"    ->
            /\ DisciplinedAll(<<v.who>> \o v.exit \o v.failure \o v.catch)
            /\ ~LeavesAny(v.failure \o v.catch)
            /\ Throwers(v.failure \o v.catch) = {}
      [] v.k = "success" ->
            /\ DisciplinedAll(<<v.who>> \o v.values)
            /\ ~Leaves(v.who)
            /\ Throwers(v.values) \subseteq v.who.th
      [] OTHER           -> TRUE

Facts         == Validate(Corpus[function])
IsDisciplined == Disciplined(Facts)

\* The generated code does what the guarded blocks of the source say: the
\* events in their order, each guard run exactly when its block ends the way
\* the guard is for, innermost blocks first, and the same value returned or
\* the same exception thrown to the caller (generateExitScope,
\* generateSuccessScope, generateEndOfExit, generateBreak, generateReturn).
MeaningKept ==
    outcome # Running /\ IsDisciplined =>
        Replay(Corpus[function], trace, 1) = Result(Len(trace) + 1, outcome)
=============================================================================
