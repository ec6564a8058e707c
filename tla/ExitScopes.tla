----------------------------- MODULE ExitScopes -----------------------------
(***************************************************************************)
(* The execution of the code generated for a function body.                *)
(*                                                                         *)
(* The machine runs the instructions that GuardedBlocks generates.  The    *)
(* functions SET_JMP, EXCEPT_PUSH, EXCEPT_POP, EXCEPT_GET_VALUE, THROW and *)
(* RETHROW belong to the runtime library, which is not in the repository:  *)
(* what they do is read off the calls that generator/Visitor.cc makes.  A  *)
(* throw takes the last buffer that was pushed and returns a second time   *)
(* from the setjmp that filled it; EXCEPT_POP removes the buffer it is     *)
(* given when that one is the last pushed; GET_VALUE takes the exception.  *)
(*                                                                         *)
(* The calls and the tests of the body answer anything.  What they answer  *)
(* is recorded in trace, and Replay (GuardedBlocks) reads a trace against  *)
(* the meaning of the source term.                                         *)
(***************************************************************************)
EXTENDS Integers, Sequences, SequencesExt

CONSTANTS Codes,      \* the code of each function, a sequence of instructions
          MaxTrace    \* bound: length of the trace from which tests answer no

Anything == "_"     \* the matcher of a catcher that accepts every kind
WhoPart  == 1       \* the position of the content in the place of a scope

VARIABLES function,   \* the index of the function in Codes
          code,       \* its code
          pc,
          handlers,   \* the buffers pushed, the last one is the next to jump to
          frame,      \* the variables #ref, #ret?, #ret_val and #buf of the scopes
          pending,    \* the kind of the exception thrown last
          trace,      \* the events, each with what the environment answered
          outcome     \* how the function ended

vars == <<function, code, pc, handlers, frame, pending, trace, outcome>>

Running  == [o |-> "running", v |-> ""]
Ended    == [o |-> "end", v |-> ""]
Returned(v)  == [o |-> "return", v |-> v]
Thrown(kind) == [o |-> "throw", v |-> kind]
NoLocals == [ref |-> "zero", state |-> "unset", value |-> "unset", resume |-> 0]

Init ==
    /\ function \in DOMAIN Codes
    /\ code = Codes[function]
    /\ pc = 1
    /\ handlers = <<>>
    /\ frame = <<>>
    /\ pending = "none"
    /\ trace = <<>>
    /\ outcome = Running

Instr == code[pc]
At(op) == /\ outcome = Running
          /\ pc <= Len(code)
          /\ Instr.op = op
Locals(at) == IF at \in DOMAIN frame THEN frame[at] ELSE NoLocals
SetLocals(at, locals) ==
    frame' = [x \in DOMAIN frame \cup {at} |-> IF x = at THEN locals ELSE frame[x]]
Record(id, answer) == trace' = Append(trace, <<id, answer>>)

\* The runtime's throw.
Raise(kind) ==
    /\ pending' = kind
    /\ IF handlers = <<>>
       THEN /\ outcome' = Thrown(kind)
            /\ UNCHANGED <<pc, handlers, frame>>
       ELSE LET top == Last(handlers)
            IN  /\ handlers' = Front(handlers)
                /\ pc' = frame[top].resume
                /\ SetLocals(top, [frame[top] EXCEPT !.ref = "jumped"])
                /\ UNCHANGED outcome

Effect ==
    /\ At("effect")
    /\ Record(Instr.id, "done")
    /\ pc' = pc + 1
    /\ UNCHANGED <<function, code, handlers, frame, pending, outcome>>

CallReturns ==
    /\ At("call")
    /\ Record(Instr.id, "done")
    /\ pc' = pc + 1
    /\ UNCHANGED <<function, code, handlers, frame, pending, outcome>>

CallThrows ==
    /\ At("call")
    /\ \E kind \in Instr.kinds : Record(Instr.id, kind) /\ Raise(kind)
    /\ UNCHANGED <<function, code>>

Throw ==
    /\ At("throw")
    /\ Raise(Instr.kind)
    /\ UNCHANGED <<function, code, trace>>

Rethrow ==
    /\ At("rethrow")
    /\ Raise(pending)
    /\ UNCHANGED <<function, code, trace>>

Test ==
    /\ At("branch")
    /\ Instr.test.on = "event"
    /\ \/ /\ Len(trace) < MaxTrace
          /\ Record(Instr.test.id, "yes")
          /\ pc' = pc + 1
       \/ /\ Record(Instr.test.id, "no")
          /\ pc' = Instr.label
    /\ UNCHANGED <<function, code, handlers, frame, pending, outcome>>

\* The test of an arm of a catcher, on the value that GET_VALUE returned.
TestKind ==
    /\ At("branch")
    /\ Instr.test.on = "kind"
    /\ pc' = IF Instr.test.kind \in {Anything, pending} THEN pc + 1 ELSE Instr.label
    /\ UNCHANGED <<function, code, handlers, frame, pending, trace, outcome>>

Jump ==
    /\ \/ At("goto") /\ pc' = Instr.label
       \/ At("label") /\ pc' = pc + 1
       \/ At("getvalue") /\ pc' = pc + 1
       \/ /\ At("unless")
          /\ pc' = IF Locals(Instr.at).state = Instr.state THEN pc + 1 ELSE Instr.label
    /\ UNCHANGED <<function, code, handlers, frame, pending, trace, outcome>>

SetJmp ==
    /\ At("setjmp")
    /\ SetLocals(Instr.at, [Locals(Instr.at) EXCEPT !.ref = "zero", !.resume = pc + 1])
    /\ pc' = pc + 1
    /\ UNCHANGED <<function, code, handlers, pending, trace, outcome>>

Push ==
    /\ At("push")
    /\ IF frame[Instr.at].ref = "zero"
       THEN handlers' = Append(handlers, Instr.at) /\ pc' = pc + 1
       ELSE pc' = Instr.label /\ UNCHANGED handlers
    /\ UNCHANGED <<function, code, frame, pending, trace, outcome>>

PopHandler ==
    /\ At("pop")
    /\ handlers' = IF handlers # <<>> /\ Last(handlers) = Instr.at
                   THEN Front(handlers) ELSE handlers
    /\ pc' = pc + 1
    /\ UNCHANGED <<function, code, frame, pending, trace, outcome>>

Value == IF Instr.value.from = "literal" THEN Instr.value.v
         ELSE Locals(Instr.value.at).value

Assign ==
    /\ \/ /\ At("state")
          /\ SetLocals(Instr.at, [Locals(Instr.at) EXCEPT !.state = Instr.state])
       \/ /\ At("keep")
          /\ SetLocals(Instr.at, [Locals(Instr.at) EXCEPT !.value = Value])
    /\ pc' = pc + 1
    /\ UNCHANGED <<function, code, handlers, pending, trace, outcome>>

Leave ==
    /\ \/ At("return") /\ outcome' = Returned(Value)
       \/ outcome = Running /\ pc > Len(code) /\ outcome' = Ended
    /\ UNCHANGED <<function, code, pc, handlers, frame, pending, trace>>

Next == \/ Effect \/ CallReturns \/ CallThrows \/ Throw \/ Rethrow \/ Test \/ TestKind
        \/ Jump \/ SetJmp \/ Push \/ PopHandler \/ Assign \/ Leave

Spec == Init /\ [][Next]_vars /\ WF_vars(Next)

(***************************************************************************)
(* The shape of the code that keeps the buffers right.  The buffer of a    *)
(* scope is there from its push to the label that the push jumps to; where *)
(* it has just been popped, it is not.                                     *)
(***************************************************************************)
Opens(c)      == {p \in DOMAIN c : c[p].op = "push"}
Around(c, at) == {c[p].at : p \in {q \in Opens(c) : at \in q + 1 .. c[q].label - 1}}
Held(c, at)   == Around(c, at) \ (IF at > 1 /\ c[at - 1].op = "pop" THEN {c[at - 1].at} ELSE {})
Remaining(c, at) == Held(c, at) \ (IF c[at].op = "pop" THEN {c[at].at} ELSE {})

Raises   == {"call", "throw", "rethrow"}
Jumping  == {"goto", "branch", "unless", "push"}
Sequels(c, at) == (IF c[at].op \in {"goto", "throw", "rethrow", "return"} THEN {} ELSE {at + 1})
                    \cup (IF c[at].op \in Jumping THEN {c[at].label} ELSE {})

\* A jump is to a label; the buffers that an instruction leaves may be where it leads.
JumpsAreRight(c) ==
    \A at \in DOMAIN c :
        /\ c[at].op \in Jumping => c[at].label \in DOMAIN c /\ c[c[at].label].op = "label"
        /\ \A to \in Sequels(c, at) : Remaining(c, at) \subseteq Held(c, to)

\* A buffer is filled, then pushed in a scope that is inside of the others; what is
\* popped is the innermost one.
BuffersAreRight(c) ==
    /\ \A at \in DOMAIN c : c[at].op \in {"setjmp", "push", "pop"} => c[at].at \in Seq(Nat)
    /\ \A s, t \in DOMAIN c :
          c[s].op = "setjmp" /\ c[t].op = "setjmp" /\ c[s].at = c[t].at => s = t
    /\ \A p \in Opens(c) :
          /\ c[p].label > p + 1
          /\ p > 2 /\ c[p - 2].op = "setjmp" /\ c[p - 2].at = c[p].at /\ c[p - 1].op = "state"
          /\ \A h \in Held(c, p) : Len(h) < Len(c[p].at)
    /\ \A q \in DOMAIN c : \A h \in Held(c, q) : c[q].op = "pop" => Len(h) <= Len(c[q].at)

\* What throws is in the content of the scopes around it, and those outside of the one
\* that is jumped to are around its setjmp too.
ThrowsAreRight(c) ==
    \A at \in DOMAIN c : c[at].op \in Raises =>
        \A h \in Held(c, at) :
            /\ IsPrefix(Append(h, WhoPart), c[at].at)
            /\ \A s \in DOMAIN c : c[s].op = "setjmp" /\ c[s].at = h =>
                  \A g \in Held(c, at) : Len(g) < Len(h) => g \in Held(c, s + 1)

IsNested(c) ==
    /\ Len(c) \in Nat /\ DOMAIN c = 1 .. Len(c)
    /\ JumpsAreRight(c) /\ BuffersAreRight(c) /\ ThrowsAreRight(c)
    /\ \A at \in DOMAIN c : c[at].op = "return" => Held(c, at) = {}

(***************************************************************************)
(* Properties.                                                             *)
(***************************************************************************)

\* Of every body: while code that may throw runs, a pushed buffer belongs to
\* a scope whose content is running, so an exception never comes back to a
\* block that has already been left; and a function that returns leaves no
\* buffer of its own frame to the runtime, for a later call to jump to
\* (popLastException, the pops of generateExitScope).
HandlersEnclose ==
    /\ outcome = Running /\ pc <= Len(code) /\ Instr.op \in Raises =>
           \A n \in DOMAIN handlers : IsPrefix(Append(handlers[n], WhoPart), Instr.at)
    /\ outcome.o \in {"end", "return"} => handlers = <<>>

\* The code has the shape from which this follows.
OnlyEnclosingCatch == HandlersEnclose /\ (pc = 1 => IsNested(code))

\* Every function ends: no jump of the generated code closes a cycle that
\* the source does not have (fairness: the processor runs the next
\* instruction; a test answers no once the trace is MaxTrace long).
EveryBodyEnds == <>(outcome # Running)
=============================================================================
