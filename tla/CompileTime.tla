----------------------------- MODULE CompileTime -----------------------------
(***************************************************************************)
(* CompileTime: the values that the compiler retrieves from generators     *)
(* while it validates (Visitor::retreiveValue), for the tests of `cte if`,  *)
(* of `assert`, of the arguments of templates and of accesses.             *)
(*                                                                         *)
(* The recursion of CompileTime::execute is explicit.  "calls" is the      *)
(* stack of its executeFrame: each one has what is left to do, its last    *)
(* task first, and the values found so far.  A request begins with one of  *)
(* its own.  A task executes a generator ("exec"), or uses the values of   *)
(* the operands of one ("apply").                                          *)
(*                                                                         *)
(* The counter nb_recurse is a static variable of executeFrame: it lives   *)
(* as long as the compiler, and an error that unwinds the frames leaves it *)
(* as it is.                                                               *)
(***************************************************************************)
EXTENDS IntegerFolding, Sequences, SequencesExt

CONSTANTS Programs,             \* [frames : name -> body, requests : sequence]
          LIMIT_RECURSE_CALL    \* 300

ASSUME LimitAssumption == LIMIT_RECURSE_CALL \in Nat \ {0}

VARIABLES program,      \* what is compiled
          list,         \* Visitor::_list: the names of the frames validated so far
          nbRecurse,    \* the static nb_recurse of executeFrame
          calls,        \* what is being executed, empty between two requests
          knownValues,  \* the values of the frames executed for this request
          served,       \* the requests answered or asked
          outcome       \* what became of the last one

vars == <<program, list, nbRecurse, calls, knownValues, served, outcome>>

NoFrame == "request"

Init ==
    /\ program \in Programs
    /\ list = {}
    /\ nbRecurse = 0
    /\ calls = <<>>
    /\ knownValues = <<>>
    /\ served = 0
    /\ outcome = [is |-> "none"]

Value(v)        == [is |-> "value", v |-> v]
Failure(cause)  == [is |-> "failure", cause |-> cause, depth |-> Len(calls)]

Exec(g)  == [do |-> "exec", g |-> g]
Apply(g) == [do |-> "apply", g |-> g]

Call  == calls[Len(calls)]
Task  == Call.todo[1]
Busy  == calls # <<>> /\ Call.todo # <<>>
Executes(ops) == Busy /\ Task.do = "exec" /\ Task.g.op \in ops
Applies(ops)  == Busy /\ Task.do = "apply" /\ Task.g.op \in ops

\* The values of the operands of the task, the last one first.
Operand(n) == Call.values[n]

\* The task is replaced by others, and takes n values.
Becomes(tasks, n) ==
    calls' = [calls EXCEPT ![Len(calls)].todo = tasks \o Tail(@),
                           ![Len(calls)].values = SubSeq(@, n + 1, Len(@))]

\* The task gives a value in the place of n others.
Gives(v, n) ==
    /\ calls' = [calls EXCEPT ![Len(calls)].todo = Tail(@),
                              ![Len(calls)].values = <<v>> \o SubSeq(@, n + 1, Len(@))]
    /\ UNCHANGED <<program, list, nbRecurse, knownValues, served, outcome>>

\* An error list: everything that is executed is abandoned, and nothing is undone.
Throws(cause) ==
    /\ calls' = <<>>
    /\ outcome' = Failure(cause)
    /\ UNCHANGED <<program, list, knownValues, served>>

Unknown == Throws("unknown") /\ UNCHANGED nbRecurse

-----------------------------------------------------------------------------
(* Between two requests.                                                   *)

Emit(f) ==
    /\ calls = <<>>
    /\ f \in DOMAIN program.frames \ list
    /\ list' = list \cup {f}
    /\ UNCHANGED <<program, nbRecurse, calls, knownValues, served, outcome>>

RetrieveValue ==
    /\ calls = <<>>
    /\ served < Len(program.requests)
    /\ outcome.is # "crash"
    /\ served' = served + 1
    /\ calls' = <<[frame |-> NoFrame, values |-> <<>>,
                   todo |-> <<Exec(program.requests[served + 1].gen)>>]>>
    /\ knownValues' = <<>>
    /\ outcome' = [is |-> "running"]
    /\ UNCHANGED <<program, list, nbRecurse>>

-----------------------------------------------------------------------------
(* Execution of a generator.                                               *)

ExecConstant ==
    /\ Executes({"fixed", "bool", "char", "string"})
    /\ Gives(Task.g, 0)

Operands(g) ==
    CASE g.op \in {"binint", "binchar", "concat"} -> <<g.left, g.right>>
      [] g.op = "binbool" -> <<g.left>>
      [] g.op \in {"unaint", "unabool"} -> <<g.who>>
      [] g.op = "cond" -> <<g.test>>
      [] g.op = "range" -> <<g.left, g.right, g.full>>

ExecOperation ==
    /\ Executes({"binint", "binchar", "concat", "binbool", "unaint", "unabool",
                 "cond", "range"})
    /\ LET these == Operands(Task.g)
       IN  Becomes([i \in DOMAIN these |-> Exec(these[i])] \o <<Apply(Task.g)>>, 0)
    /\ UNCHANGED <<program, list, nbRecurse, knownValues, served, outcome>>

\* Of a block only the last value is executed.
Inside(g) ==
    CASE g.op = "block" -> {Last(g.content) : t \in {g.type} \ {Void}}
      [] g.op = "unique" -> {g.value}
      [] g.op = "varref" -> g.value
      [] OTHER -> {}

ExecInside ==
    /\ Executes({"block", "unique", "varref"})
    /\ \E g \in Inside(Task.g) : Becomes(<<Exec(g)>>, 0)
    /\ UNCHANGED <<program, list, nbRecurse, knownValues, served, outcome>>

ExecUnknown ==
    /\ Executes({"block", "varref", "other", "next", "return", "throw"})
    /\ Inside(Task.g) = {}
    /\ Unknown

-----------------------------------------------------------------------------
(* Use of the operands.                                                    *)

OverflowsLate(type, n) == type.is = "int" /\ ~Fits(type, n) /\ n # MaxOf(type) + 1
Overflows(type, n) == type.is = "int" /\ ~Fits(type, n)

BinIntResult(g, a, b) ==
    IF g.by \in MathInt
    THEN FixedValue(g.type, ApplyBinInt(g.by, g.type.signed, a, b))
    ELSE BoolValue(Compared(g.by, a, b))

ApplyInt ==
    /\ Applies({"binint"})
    /\ LET g == Task.g   a == Operand(2).v   b == Operand(1).v
       IN  /\ ~Traps(g.by, g.type.signed, a, b)
           /\ IF Overflows(g.type, BinIntResult(g, a, b).v)
              THEN Throws("overflow") /\ UNCHANGED nbRecurse
              ELSE Gives(BinIntResult(g, a, b), 2)

\* The machine traps the division: the compiler is killed.
KilledByDivision ==
    /\ Applies({"binint"})
    /\ Traps(Task.g.by, Task.g.type.signed, Operand(2).v, Operand(1).v)
    /\ calls' = <<>>
    /\ outcome' = [is |-> "crash"]
    /\ UNCHANGED <<program, list, nbRecurse, knownValues, served>>

ApplyUnaInt ==
    /\ Applies({"unaint"})
    /\ LET type == Task.g.type
           minus == Wrapped(IF type.signed THEN Long ELSE ULong, - Operand(1).v)
       IN  IF Overflows(type, minus) THEN Throws("overflow") /\ UNCHANGED nbRecurse
           ELSE Gives(FixedValue(type, minus), 1)

ApplyChar ==
    /\ Applies({"binchar"})
    /\ LET g == Task.g   a == Operand(2).v   b == Operand(1).v
       IN  Gives(IF g.type = Bool THEN BoolValue(Compared(g.by, a, b))
                 ELSE CharValue(g.type, ApplyBinChar(g.by, a, b)), 2)

ApplyUnaBool ==
    /\ Applies({"unabool"})
    /\ Gives(BoolValue(~Operand(1).v), 1)

ApplyConcat ==
    /\ Applies({"concat"})
    /\ Gives([Operand(2) EXCEPT !.v = @ \o Operand(1).v], 2)

ApplyRange ==
    /\ Applies({"range"})
    /\ Gives([Task.g EXCEPT !.left = Operand(3), !.right = Operand(2), !.full = Operand(1)], 3)

\* The right operand of && is executed only when the left one is true, that of
\* the others always.
BoolResult(by, a, b) ==
    CASE by = "&&" -> a /\ b
      [] by = "||" -> a \/ b
      [] OTHER -> Compared(by, a, b)

ShortCircuits(g, left) == g.by = "&&" /\ ~left

ApplyBool ==
    /\ Applies({"binbool"})
    /\ IF ShortCircuits(Task.g, Operand(1).v)
       THEN Gives(BoolValue(FALSE), 1)
       ELSE /\ Becomes(<<Exec(Task.g.right), Apply([Task.g EXCEPT !.op = "bothbool"])>>, 0)
            /\ UNCHANGED <<program, list, nbRecurse, knownValues, served, outcome>>

ApplyBothBool ==
    /\ Applies({"bothbool"})
    /\ Gives(BoolValue(BoolResult(Task.g.by, Operand(2).v, Operand(1).v)), 2)

\* An if without else has no value when its test is false.
Chosen(g, test) == IF test THEN {g.content} ELSE g.else

ApplyConditional ==
    /\ Applies({"cond"})
    /\ LET chosen == Chosen(Task.g, Operand(1).v)
       IN  IF chosen = {} THEN Unknown
           ELSE /\ \E g \in chosen : Becomes(<<Exec(g)>>, 1)
                /\ UNCHANGED <<program, list, nbRecurse, knownValues, served, outcome>>

-----------------------------------------------------------------------------
(* Calls.                                                                  *)

\* A call with parameters, or of something else than a frame.
ExecCallUnknown ==
    /\ Executes({"call"})
    /\ \/ Task.g.parameters > 0
       \/ Task.g.frame \notin DOMAIN knownValues \cup list
    /\ Unknown

ExecCallKnown ==
    /\ Executes({"call"})
    /\ Task.g.parameters = 0
    /\ Task.g.frame \in DOMAIN knownValues
    /\ Gives(knownValues[Task.g.frame], 0)

LimitPassed(nb)  == nb > LIMIT_RECURSE_CALL
LimitReached(nb) == nb >= LIMIT_RECURSE_CALL

ExecFrame ==
    /\ Executes({"call"})
    /\ Task.g.parameters = 0
    /\ Task.g.frame \in list \ DOMAIN knownValues
    /\ nbRecurse' = nbRecurse + 1
    /\ IF LimitReached(nbRecurse + 1)
       THEN Throws("recursion")
       ELSE /\ calls' = Append(calls, [frame |-> Task.g.frame, values |-> <<>>,
                                       todo |-> <<Exec(program.frames[Task.g.frame])>>])
            /\ UNCHANGED <<program, list, knownValues, served, outcome>>

\* The end of executeFrame: the task of the caller was its call.
LeaveFrame ==
    /\ calls # <<>>
    /\ Call.todo = <<>>
    /\ Call.frame # NoFrame
    /\ LET v == Call.values[1]   n == Len(calls) - 1
       IN  /\ knownValues' = [f \in DOMAIN knownValues \cup {Call.frame} |->
                                IF f = Call.frame THEN v ELSE knownValues[f]]
           /\ calls' = [Front(calls) EXCEPT ![n].todo = Tail(@), ![n].values = <<v>> \o @]
    /\ nbRecurse' = nbRecurse - 1
    /\ UNCHANGED <<program, list, served, outcome>>

Answer ==
    /\ calls # <<>>
    /\ Call.todo = <<>>
    /\ Call.frame = NoFrame
    /\ calls' = <<>>
    /\ outcome' = Value(Call.values[1])
    /\ UNCHANGED <<program, list, nbRecurse, knownValues, served>>

-----------------------------------------------------------------------------
Execute ==
    \/ ExecConstant \/ ExecOperation \/ ExecInside \/ ExecUnknown
    \/ ApplyInt \/ KilledByDivision \/ ApplyUnaInt \/ ApplyChar \/ ApplyUnaBool
    \/ ApplyConcat \/ ApplyRange \/ ApplyBool \/ ApplyBothBool \/ ApplyConditional
    \/ ExecCallUnknown \/ ExecCallKnown \/ ExecFrame \/ LeaveFrame \/ Answer

Next == RetrieveValue \/ Execute \/ \E f \in DOMAIN program.frames : Emit(f)

Spec == Init /\ [][Next]_vars

-----------------------------------------------------------------------------
(* Properties.                                                             *)

\* The stack of the compiler does not grow without limit: the frames that are
\* open at once, the request itself included, are at most LIMIT_RECURSE_CALL,
\* whatever the frames call.
RecursionBounded == Len(calls) <= LIMIT_RECURSE_CALL

=============================================================================
