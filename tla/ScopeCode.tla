------------------------------ MODULE ScopeCode ------------------------------
(***************************************************************************)
(* The notation in which ValidatorScopes writes what a member function of  *)
(* the validator does to the scopes of the Visitor.                        *)
(*                                                                         *)
(* A function is a sequence of instructions.  It keeps the calls that      *)
(* enter and quit a scope, the places where an ErrorList can appear, the   *)
(* try blocks, and the branches; everything else is left out.  Jumps are   *)
(* relative, so that a function is a concatenation of smaller sequences.   *)
(***************************************************************************)
EXTENDS Integers, Sequences

\* The stacks of the Visitor that grow and shrink on their own: _referent,
\* _contextCas, _dollars, __TEMPLATE_NB_RECURS__, __CALL_NB_RECURS__, the
\* three lists __validating__, __names__, and the lists of
\* verifyConstructionLoop.
Counter == {"referent", "context", "dollar", "template", "call",
            "validating", "names", "protos"}

\* What enterForeign hides and exitForeign gives back: the blocks of _symbols
\* and the loops of _loopBreakTypes.
Local == {"block", "loop"}

Kind == Counter \cup Local \cup {"foreign", "classdef"}

Op == {"enter", "quit", "quitblock", "call", "choose", "goto", "unless",
       "limit", "rethrow", "raise", "return"}

(* "to" is the offset of the other successor of the instruction: the target *)
(* of its jump, or the handler of the error it throws; 0 when it has none.  *)
(* "keep" says that this handler adds the error to the list errors.         *)
Instruction == [op : Op, kind : Kind, to : Int, keep : BOOLEAN]

Plain(op)   == [op |-> op, kind |-> "block", to |-> 0, keep |-> FALSE]
Jumping(op, d) == [Plain(op) EXCEPT !.to = d]

Enter(k)    == [Plain("enter") EXCEPT !.kind = k]
Quit(k)     == [Plain("quit") EXCEPT !.kind = k]

QuitBlock   == Plain("quitblock")  \* quitBlock (errors.size () == 0)
Invoke      == Plain("call")       \* any number of calls that may throw
CheckLimit  == Plain("limit")      \* LIMIT_TEMPLATE_RECUR
Occur       == Plain("raise")      \* Error::occur, or throw list
ThrowErrors == Plain("rethrow")    \* if (errors.size () != 0) throw
Leave       == Plain("return")     \* return from the middle of a function

Throwing == {"quitblock", "call", "limit", "rethrow", "raise"}

\* Every error that body lets out is caught at its end.
Caught(body, keep) ==
    [i \in DOMAIN body |->
        IF body[i].op \in Throwing /\ body[i].to = 0
        THEN [body[i] EXCEPT !.to = Len(body) + 1 - i, !.keep = keep]
        ELSE body[i]]

Try(body)     == Caught(body, TRUE)
Swallow(body) == Caught(body, FALSE)

\* try { body } catch (ErrorList list) { handler }
TryCatch(body, handler) ==
    Swallow(body \o <<Jumping("goto", Len(handler) + 1)>>) \o handler

Optional(body) == <<Jumping("choose", Len(body) + 1)>> \o body
IfClean(body)  == <<Jumping("unless", Len(body) + 1)>> \o body
Loop(body)     == <<Jumping("choose", Len(body) + 2)>> \o body
                     \o <<Jumping("goto", -(Len(body) + 1))>>
Either(a, b)   == <<Jumping("choose", Len(a) + 2)>> \o a
                     \o <<Jumping("goto", Len(b) + 1)>> \o b

\* The idiom of the validator: enter, catch what the body throws, quit.
Inside(k, body) == <<Enter(k)>> \o Try(body) \o <<Quit(k)>>
=============================================================================
