---------------------------- MODULE ScopeProtocol ----------------------------
(***************************************************************************)
(* The scopes of semantic::validator::Visitor across nested calls and      *)
(* exceptions.                                                             *)
(*                                                                         *)
(* The functions of the validator call one another without a static bound  *)
(* and any call can end with an ErrorList.  They share the scopes of one   *)
(* Visitor, entered and quit by hand: nothing quits a scope during         *)
(* unwinding.  The C++ call stack is the variable stack; Code gives what   *)
(* each function does to the scopes (see ScopeCode and ValidatorScopes).   *)
(***************************************************************************)
EXTENDS ScopeCode

CONSTANTS
    Routine,   \* the functions that may be called
    Code,      \* their instructions
    Held,      \* the scopes a function holds at each of them: see Disciplined
    Clean,     \* those it reaches with nothing in the list errors: see Reports
    Tested,    \* those it reaches with a template level below Limit: see TestsLevel
    Symbol,    \* the class and macro symbols of _classContext
    Limit,     \* LIMIT_TEMPLATE_RECUR, 300 in Visitor.hh
    MaxDepth   \* bound on the nesting of calls

ASSUME CodeAssumption  == Code \in [Routine -> Seq(Instruction)]
ASSUME LimitAssumption == Limit \in Nat \ {0} /\ MaxDepth \in Nat

VARIABLES
    scope,    \* the scopes of the Visitor
    stack,    \* the active calls
    ret,      \* how the call that just ended did, not yet seen by its caller
    crashed   \* a scope was quit that is not the innermost of its kind

vars == <<scope, stack, ret, crashed>>

-----------------------------------------------------------------------------
(* Scopes.  "frames" pairs _symbols with _loopSaved and _loopBreakTypes:    *)
(* one element per enterForeign, the last one being current; "classes" is   *)
(* _classContext; "count" gives the sizes of the other stacks.              *)

Frame == [Local -> Nat]
Scope == [count : [Counter -> Nat], frames : Seq(Frame) \ {<<>>},
          classes : Seq(Symbol)]

EmptyFrame == [k \in Local |-> 0]
NoScope    == [count |-> [k \in Counter |-> 0], frames |-> <<EmptyFrame>>,
               classes |-> <<>>]

DropLast(s) == SubSeq(s, 1, Len(s) - 1)

Opened(s, k, y) ==
    CASE k \in Counter  -> [s EXCEPT !.count[k] = @ + 1]
      [] k = "classdef" -> [s EXCEPT !.classes = Append(@, y)]
      [] k = "foreign"  -> [s EXCEPT !.frames = Append(@, EmptyFrame)]
      [] k \in Local    -> [s EXCEPT !.frames[Len(s.frames)][k] = @ + 1]

\* exitContext, quitBlock and exitClassDef halt otherwise; the others call
\* pop_back on an empty vector, which is undefined.
Closable(s, k, y) ==
    CASE k \in Counter  -> s.count[k] > 0
      [] k = "classdef" -> s.classes # <<>> /\ s.classes[Len(s.classes)] = y
      [] k = "foreign"  -> Len(s.frames) > 1
      [] k \in Local    -> s.frames[Len(s.frames)][k] > 0

Closed(s, k) ==
    CASE k \in Counter  -> [s EXCEPT !.count[k] = @ - 1]
      [] k = "classdef" -> [s EXCEPT !.classes = DropLast(@)]
      [] k = "foreign"  -> [s EXCEPT !.frames = DropLast(@)]
      [] k \in Local    -> [s EXCEPT !.frames[Len(s.frames)][k] = @ - 1]

-----------------------------------------------------------------------------
(* The active calls.  "entry" is a history variable: the scopes when the    *)
(* call started.                                                            *)

Activation == [routine : Routine, sym : Symbol, pc : Nat, errs : BOOLEAN,
               entry : Scope]

Top        == stack[Len(stack)]
Size(r)    == Len(Code[r])
Current    == Code[Top.routine][Top.pc]
Ready      == ~crashed /\ stack # <<>> /\ ret = "none"
Running    == Ready /\ Top.pc \in 1..Size(Top.routine)
At(op)     == Running /\ Current.op = op

Continue(d, e) ==
    stack' = [stack EXCEPT ![Len(stack)].pc = @ + d, ![Len(stack)].errs = e]

Fall       == Continue(1, Top.errs) /\ UNCHANGED ret
JumpTo     == Continue(Current.to, Top.errs) /\ UNCHANGED ret
EndCall(o) == stack' = DropLast(stack) /\ ret' = o

\* An ErrorList is thrown at the current instruction of the innermost call.
Throw ==
    IF Current.to = 0 THEN EndCall("throw")
    ELSE /\ Continue(Current.to, Top.errs \/ Current.keep)
         /\ ret' = "none"

Call(r, y) ==
    stack' = Append(stack, [routine |-> r, sym |-> y, pc |-> 1,
                            errs |-> FALSE, entry |-> scope])

-----------------------------------------------------------------------------
(* The driver: Parser::semanticTime calls the validator again and again.    *)

Start ==
    /\ ~crashed /\ stack = <<>> /\ ret = "none"
    /\ \E r \in Routine, y \in Symbol : Call(r, y)
    /\ UNCHANGED <<scope, ret, crashed>>

Finish ==
    /\ stack = <<>> /\ ret # "none"
    /\ ret' = "none"
    /\ UNCHANGED <<scope, stack, crashed>>

(* The instructions. *)

EnterScope ==
    /\ At("enter")
    /\ scope' = Opened(scope, Current.kind, Top.sym)
    /\ Fall
    /\ UNCHANGED crashed

Crash == crashed' = TRUE /\ UNCHANGED <<scope, stack, ret>>

QuitScope ==
    /\ At("quit")
    /\ IF Closable(scope, Current.kind, Top.sym)
       THEN /\ scope' = Closed(scope, Current.kind)
            /\ Fall
            /\ UNCHANGED crashed
       ELSE Crash

\* Mutant: the block is popped only if there is nothing to report.
BlockThrowsFirst ==
    /\ At("quitblock")
    /\ IF Closable(scope, Current.kind, Top.sym)
       THEN \/ scope' = Closed(scope, Current.kind) /\ Fall /\ UNCHANGED crashed
            \/ ~Top.errs /\ Throw /\ UNCHANGED <<scope, crashed>>
       ELSE Crash

\* The block is popped before its unused variables are reported.
QuitBlockScope ==
    /\ At("quitblock")
    /\ IF Closable(scope, Current.kind, Top.sym)
       THEN /\ scope' = Closed(scope, Current.kind)
            /\ \/ Fall
               \/ ~Top.errs /\ Throw
            /\ UNCHANGED crashed
       ELSE Crash

CallRoutine ==
    /\ At("call") /\ Len(stack) < MaxDepth
    /\ \E r \in Routine, y \in Symbol : Call(r, y)
    /\ UNCHANGED <<scope, ret, crashed>>

\* The error comes from a function that enters no scope.
CallRaises == At("call") /\ Throw /\ UNCHANGED <<scope, crashed>>
CallsDone  == At("call") /\ Fall /\ UNCHANGED <<scope, crashed>>

Resume ==
    /\ ~crashed /\ stack # <<>> /\ ret = "ok"
    /\ ret' = "none"
    /\ UNCHANGED <<scope, stack, crashed>>

Propagate ==
    /\ ~crashed /\ stack # <<>> /\ ret = "throw"
    /\ Throw
    /\ UNCHANGED <<scope, crashed>>

Choose == At("choose") /\ (Fall \/ JumpTo) /\ UNCHANGED <<scope, crashed>>
Goto   == At("goto") /\ JumpTo /\ UNCHANGED <<scope, crashed>>

SkipOnErrors ==
    /\ At("unless")
    /\ IF Top.errs THEN JumpTo ELSE Fall
    /\ UNCHANGED <<scope, crashed>>

TestLimit ==
    /\ At("limit")
    /\ IF scope.count["template"] >= Limit THEN Throw ELSE Fall
    /\ UNCHANGED <<scope, crashed>>

Rethrow ==
    /\ At("rethrow")
    /\ IF Top.errs THEN Throw ELSE Fall
    /\ UNCHANGED <<scope, crashed>>

Raise == At("raise") /\ Throw /\ UNCHANGED <<scope, crashed>>

Return ==
    /\ At("return") \/ (Ready /\ Top.pc = Size(Top.routine) + 1)
    /\ EndCall("ok")
    /\ UNCHANGED <<scope, crashed>>

-----------------------------------------------------------------------------
Init ==
    /\ scope = NoScope
    /\ stack = <<>>
    /\ ret = "none"
    /\ crashed = FALSE

Next ==
    \/ Start \/ Finish
    \/ EnterScope \/ QuitScope \/ QuitBlockScope
    \/ CallRoutine \/ CallRaises \/ CallsDone \/ Resume \/ Propagate
    \/ Choose \/ Goto \/ SkipOnErrors \/ TestLimit
    \/ Rethrow \/ Raise \/ Return

Spec == Init /\ [][Next]_vars

-----------------------------------------------------------------------------
(* What a function holds at each of its instructions, read off its text:    *)
(* the scopes it entered and has not quit, as a Scope whose only class is   *)
(* "self".                                                                  *)

HeldScope == [count : [Counter -> Nat], frames : Seq(Frame) \ {<<>>},
              classes : Seq({"self"})]

\* The scopes after executing instruction i, wherever it goes.
After(h, i) ==
    CASE i.op = "enter"                 -> Opened(h, i.kind, "self")
      [] i.op \in {"quit", "quitblock"} -> Closed(h, i.kind)
      [] OTHER                          -> h

Falls(i) == i.op \notin {"goto", "raise", "return"}
Ends(i)  == i.op = "return" \/ (i.op \in Throwing /\ i.to = 0)

\* Instruction i at pc of a function that holds h[n] at its instruction n: it
\* quits only what is held, agrees with every instruction that can follow it,
\* and ends the call only with nothing held.
Agrees(h, i, pc) ==
    /\ i.op \in {"quit", "quitblock"} => Closable(h[pc], i.kind, "self")
    /\ Falls(i) => h[pc + 1] = After(h[pc], i)
    /\ i.to # 0 => pc + i.to \in DOMAIN h /\ h[pc + i.to] = After(h[pc], i)
    /\ Ends(i)  => After(h[pc], i) = NoScope

\* Held describes the code of r.
Disciplined(r) ==
    /\ Held[r] \in [1..(Size(r) + 1) -> HeldScope]
    /\ Held[r][1] = NoScope
    /\ Held[r][Size(r) + 1] = NoScope
    /\ \A pc \in 1..Size(r) : Agrees(Held[r], Code[r][pc], pc)

\* A function with nothing in its list errors at the instructions of clean: a
\* handler that adds to the list, and what follows it until the list is thrown or
\* found empty, is not one of them, and the function returns from one of them.
KeepsClean(clean, i, pc) ==
    /\ i.op = "return" => pc \in clean
    /\ Falls(i) /\ pc + 1 \in clean => pc \in clean \/ i.op \in {"unless", "rethrow"}
    /\ i.to # 0 /\ pc + i.to \in clean => pc \in clean /\ ~i.keep

\* Clean describes the code of r.
Reports(r) ==
    /\ Size(r) + 1 \in Clean[r]
    /\ \A pc \in 1..Size(r) : KeepsClean(Clean[r], Code[r][pc], pc)

\* The function holds no template level that its caller did not count, or it has
\* compared their number with Limit.
Below(h, tested, pc) == h[pc].count["template"] = 0 \/ pc \in tested

\* Between the entrance of a template level and the comparison with Limit, and
\* where the error of the comparison leads, nothing is called.
KeepsTested(h, tested, i, pc) ==
    /\ i.op = "call" => Below(h, tested, pc)
    /\ Falls(i) /\ pc + 1 \in tested =>
          \/ i.op = "limit"
          \/ Below(h, tested, pc) /\ ~(i.op = "enter" /\ i.kind = "template")
    /\ i.to # 0 /\ pc + i.to \in tested => Below(h, tested, pc)

\* Tested describes the code of r.
TestsLevel(r) == \A pc \in 1..Size(r) : KeepsTested(Held[r], Tested[r], Code[r][pc], pc)

\* The scopes of the Visitor when a call made in e for symbol y holds h: the
\* current frame of e is also the first one of h.
AddCounts(c, d) == [k \in Counter |-> c[k] + d[k]]
AddFrame(f, g)  == [k \in Local |-> f[k] + g[k]]

AddFrames(f, g) ==
    [n \in 1..(Len(f) + Len(g) - 1) |->
        IF n < Len(f) THEN f[n]
        ELSE IF n = Len(f) THEN AddFrame(f[n], g[1]) ELSE g[n + 1 - Len(f)]]

AddClasses(c, d, y) ==
    [n \in 1..(c + Len(d)) |-> IF n <= Len(d) THEN d[n] ELSE y]

Extend(e, h, y) ==
    [count   |-> AddCounts(e.count, h.count),
     frames  |-> AddFrames(e.frames, h.frames),
     classes |-> AddClasses(Len(h.classes), e.classes, y)]

\* The scopes when the call made by the nth active call started, and now for
\* the innermost one.
Above(n) == IF n = Len(stack) THEN scope ELSE stack[n + 1].entry

-----------------------------------------------------------------------------
\* Type invariant: in particular no counter of the Visitor is ever negative.
TypeOK ==
    /\ scope \in Scope
    /\ stack \in Seq(Activation)
    /\ ret \in {"none", "ok", "throw"}
    /\ crashed \in BOOLEAN

\* However a function ends, by a return or by an error that leaves it, the
\* scopes of the Visitor are those its caller had when it made the call: the
\* same referent, class and context, the same local blocks and loops.
Restored ==
    [][Len(stack') < Len(stack) => scope' = Top.entry]_vars

\* No function quits a scope it did not enter: exitContext, quitBlock and
\* exitClassDef never reach their Error::halt.
NeverCrashed == ~crashed

\* A function that caught errors to go on with its work (the list errors)
\* throws them before it returns to its caller.
ErrorsReported ==
    [][(Len(stack') < Len(stack) /\ ret' = "ok") => ~Top.errs]_vars

\* The nesting of template validations is counted on every path, and the level
\* that reaches LIMIT_TEMPLATE_RECUR unwinds before it validates anything.
RecursionBounded == At("call") => scope.count["template"] < Limit

\* Every function that is called, read on its own without its callees, keeps
\* the scopes balanced on all of its paths, those taken by errors included, throws
\* the errors it caught, and compares a template level with its limit before it calls.
CodeIsDisciplined ==
    (stack # <<>> /\ Top.pc = 1) =>
        Disciplined(Top.routine) /\ Reports(Top.routine) /\ TestsLevel(Top.routine)

\* The code keeps its scopes and its limit, and none of its quits ends the compiler.
ScopesAreSafe == NeverCrashed /\ RecursionBounded /\ CodeIsDisciplined

\* What is read is what happens: at each of its instructions, however deep the
\* calls and whatever was thrown before, a function finds the scopes of its
\* caller and those it holds.
HeldIsExact ==
    \A n \in 1..Len(stack) :
        LET a == stack[n]
        IN  Above(n) = Extend(a.entry, Held[a.routine][a.pc], a.sym)

\* Between two calls of the driver, the Visitor is as its constructor left it.
CleanAtRest == stack = <<>> => scope = NoScope
=============================================================================
