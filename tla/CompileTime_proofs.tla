-------------------------- MODULE CompileTime_proofs --------------------------
(***************************************************************************)
(* The frames that CompileTime opens are bounded, for every program and    *)
(* every limit.                                                            *)
(*                                                                         *)
(* The static counter of executeFrame is not the number of the frames that *)
(* are open, since an error leaves it as it is; but it is never smaller,    *)
(* which is what the bound needs.  Nothing is assumed of what is in a call: *)
(* the elements of "calls" are those of some set.                          *)
(***************************************************************************)
EXTENDS CompileTime, TLAPS

\* A number n that counts at least the frames of s, of which the first call is
\* that of the request, the only one without a frame.
IsRequest(call) == "frame" \in DOMAIN call /\ call.frame = NoFrame

Counts(n, s) ==
    /\ n \in Nat
    /\ \E S : s \in Seq(S)
    /\ Len(s) <= n + 1
    /\ Len(s) <= LIMIT_RECURSE_CALL
    /\ s # <<>> => IsRequest(s[1])

Counted == Counts(nbRecurse, calls)

-----------------------------------------------------------------------------
\* The top of a stack of calls can be given other tasks and values: the calls
\* stay as many and the first one is still that of the request.
LEMMA TopContinues ==
    ASSUME NEW n, NEW s, Counts(n, s), s # <<>>, NEW a, NEW b
    PROVE  Counts(n, [s EXCEPT ![Len(s)].todo = a, ![Len(s)].values = b])
<1> DEFINE top == [s[Len(s)] EXCEPT !.todo = a, !.values = b]
           t == [s EXCEPT ![Len(s)].todo = a, ![Len(s)].values = b]
<1> PICK S : s \in Seq(S)
    BY DEF Counts
<1>1. Len(s) \in Nat /\ Len(s) > 0 /\ DOMAIN s = 1 .. Len(s) /\ \A i \in 1 .. Len(s) : s[i] \in S
    OBVIOUS
<1>2. t = [s EXCEPT ![Len(s)] = top]
    BY <1>1
<1> HIDE DEF top, t
<1>3. DOMAIN t = 1 .. Len(s)
    BY <1>1, <1>2
<1>4. \A i \in 1 .. Len(s) : t[i] = IF i = Len(s) THEN top ELSE s[i]
    BY <1>1, <1>2
<1>5. \A i \in 1 .. Len(s) : t[i] \in S \cup {top}
    BY <1>1, <1>4
<1>6. t \in [1 .. Len(s) -> S \cup {top}]
    BY <1>2, <1>3, <1>5
<1>7. t \in Seq(S \cup {top}) /\ Len(t) = Len(s)
    BY <1>1, <1>6
<1>8. IsRequest(s[Len(s)]) => IsRequest(top)
    BY DEF IsRequest, top
<1>9. IsRequest(s[1])
    BY DEF Counts
<1>10. IsRequest(t[1])
    <2>1. CASE Len(s) = 1
        BY <1>1, <1>4, <1>8, <1>9, <2>1
    <2>2. CASE Len(s) # 1
        <3>1. 1 \in 1 .. Len(s)
            BY <1>1
        <3>2. t[1] = s[1]
            BY <1>4, <2>2, <3>1
        <3> QED
            BY <1>9, <3>2
    <2> QED
        BY <2>1, <2>2
<1>11. Counts(n, t)
    BY <1>7, <1>10 DEF Counts
<1> QED
    BY <1>11 DEF t

\* Nothing is executed.
LEMMA Abandoned ==
    ASSUME NEW n \in Nat, NEW s, s = <<>>
    PROVE  Counts(n, s)
<1>1. s \in Seq({}) /\ Len(s) = 0
    OBVIOUS
<1>2. 0 <= n + 1 /\ 0 <= LIMIT_RECURSE_CALL
    BY LimitAssumption
<1> QED
    BY <1>1, <1>2 DEF Counts

\* A request begins.
LEMMA Begun ==
    ASSUME NEW n \in Nat, NEW call, IsRequest(call)
    PROVE  Counts(n, <<call>>)
<1> DEFINE s == <<call>>
<1>1. s \in Seq({call}) /\ Len(s) = 1 /\ s[1] = call
    OBVIOUS
<1> HIDE DEF s
<1>2. Len(s) <= n + 1 /\ Len(s) <= LIMIT_RECURSE_CALL
    BY <1>1, LimitAssumption
<1>3. Counts(n, s)
    BY <1>1, <1>2 DEF Counts
<1> QED
    BY <1>3 DEF s

\* A frame is opened, and counted.
LEMMA Opened ==
    ASSUME NEW n, NEW s, Counts(n, s), s # <<>>, n + 1 < LIMIT_RECURSE_CALL, NEW call
    PROVE  Counts(n + 1, Append(s, call))
<1> DEFINE t == Append(s, call)
<1> PICK S : s \in Seq(S)
    BY DEF Counts
<1>1. s \in Seq(S \cup {call})
    OBVIOUS
<1>2. t \in Seq(S \cup {call}) /\ Len(t) = Len(s) + 1 /\ t[1] = s[1] /\ t # <<>>
    BY <1>1
<1> HIDE DEF t
<1>3. Counts(n + 1, t)
    BY <1>2, LimitAssumption DEF Counts
<1> QED
    BY <1>3 DEF t

\* A frame is left, and its value given to the call under it.
LEMMA Left ==
    ASSUME NEW n, NEW s, Counts(n, s), s # <<>>, s[Len(s)].frame # NoFrame, NEW a, NEW b
    PROVE  Counts(n - 1, [Front(s) EXCEPT ![Len(s) - 1].todo = a, ![Len(s) - 1].values = b])
<1> DEFINE t == Front(s)
<1> PICK S : s \in Seq(S)
    BY DEF Counts
<1>1. Len(s) > 1
    BY DEF Counts, IsRequest
<1>2. t \in Seq(S) /\ Len(t) = Len(s) - 1 /\ t[1] = s[1] /\ t # <<>>
    <2>1. t = SubSeq(s, 1, Len(s) - 1)
        BY DEF Front
    <2>2. t \in Seq(S) /\ Len(t) = Len(s) - 1
        BY <1>1, <2>1
    <2>3. t[1] = s[1]
        BY <1>1, <2>1
    <2> QED
        BY <1>1, <2>2, <2>3
<1> HIDE DEF t
<1>3. Counts(n - 1, t)
    BY <1>1, <1>2, LimitAssumption DEF Counts
<1>4. Counts(n - 1, [t EXCEPT ![Len(t)].todo = a, ![Len(t)].values = b])
    BY <1>2, <1>3, TopContinues
<1> QED
    BY <1>2, <1>4 DEF t

-----------------------------------------------------------------------------
\* A task that is replaced by others, or gives a value, opens no call.
LEMMA BecomesOpensNothing ==
    ASSUME Counted, calls # <<>>, NEW tasks, NEW k, Becomes(tasks, k), UNCHANGED nbRecurse
    PROVE  Counted'
BY TopContinues DEF Counted, Becomes

LEMMA GivesOpensNothing ==
    ASSUME Counted, calls # <<>>, NEW v, NEW k, Gives(v, k)
    PROVE  Counted'
BY TopContinues DEF Counted, Gives

LEMMA ThrowsOpensNothing ==
    ASSUME Counted, NEW cause, Throws(cause), UNCHANGED nbRecurse
    PROVE  Counted'
BY Abandoned DEF Counted, Counts, Throws
-----------------------------------------------------------------------------
LEMMA InitCounted == Init => Counted
BY Abandoned DEF Init, Counted

LEMMA StepCounted ==
    ASSUME Counted, [Next]_vars
    PROVE  Counted'
<1> USE DEF Executes, Applies, Busy
<1>1. CASE RetrieveValue
    BY <1>1, Begun DEF RetrieveValue, Counted, Counts, IsRequest
<1>2. ASSUME NEW f, Emit(f) PROVE Counted'
    BY <1>2 DEF Emit, Counted
<1>3. CASE ExecConstant
    BY <1>3, GivesOpensNothing DEF ExecConstant
<1>4. CASE ExecOperation
    BY <1>4, BecomesOpensNothing DEF ExecOperation
<1>5. CASE ExecInside
    BY <1>5, BecomesOpensNothing DEF ExecInside
<1>6. CASE ExecUnknown
    BY <1>6, ThrowsOpensNothing DEF ExecUnknown, Unknown
<1>7. CASE ApplyInt
    BY <1>7, GivesOpensNothing, ThrowsOpensNothing DEF ApplyInt
<1>8. CASE KilledByDivision
    BY <1>8, Abandoned DEF KilledByDivision, Counted, Counts
<1>9. CASE ApplyUnaInt
    BY <1>9, GivesOpensNothing, ThrowsOpensNothing DEF ApplyUnaInt
<1>10. CASE ApplyChar
    BY <1>10, GivesOpensNothing DEF ApplyChar
<1>11. CASE ApplyUnaBool
    BY <1>11, GivesOpensNothing DEF ApplyUnaBool
<1>12. CASE ApplyConcat
    BY <1>12, GivesOpensNothing DEF ApplyConcat
<1>13. CASE ApplyRange
    BY <1>13, GivesOpensNothing DEF ApplyRange
<1>14. CASE ApplyBool
    BY <1>14, GivesOpensNothing, BecomesOpensNothing DEF ApplyBool
<1>15. CASE ApplyBothBool
    BY <1>15, GivesOpensNothing DEF ApplyBothBool
<1>16. CASE ApplyConditional
    BY <1>16, BecomesOpensNothing, ThrowsOpensNothing DEF ApplyConditional, Unknown
<1>17. CASE ExecCallUnknown
    BY <1>17, ThrowsOpensNothing DEF ExecCallUnknown, Unknown
<1>18. CASE ExecCallKnown
    BY <1>18, GivesOpensNothing DEF ExecCallKnown
<1>19. CASE ExecFrame
    <2>1. nbRecurse \in Nat /\ calls # <<>> /\ nbRecurse' = nbRecurse + 1
        BY <1>19 DEF ExecFrame, Counted, Counts
    <2>2. CASE LimitReached(nbRecurse + 1)
        <3>1. calls' = <<>> /\ nbRecurse + 1 \in Nat
            BY <1>19, <2>1, <2>2 DEF ExecFrame, Throws
        <3> QED
            BY <2>1, <3>1, Abandoned DEF Counted
    <2>3. CASE ~LimitReached(nbRecurse + 1)
        <3>1. nbRecurse + 1 < LIMIT_RECURSE_CALL
            BY <2>1, <2>3, LimitAssumption DEF LimitReached
        <3>2. \E call : calls' = Append(calls, call)
            BY <1>19, <2>3 DEF ExecFrame
        <3> QED
            BY <2>1, <3>1, <3>2, Opened DEF Counted
    <2> QED
        BY <2>2, <2>3
<1>20. CASE LeaveFrame
    BY <1>20, Left DEF LeaveFrame, Counted, Call
<1>21. CASE Answer
    BY <1>21, Abandoned DEF Answer, Counted, Counts
<1>22. CASE UNCHANGED vars
    BY <1>22 DEF vars, Counted
<1> QED
    BY <1>1, <1>2, <1>3, <1>4, <1>5, <1>6, <1>7, <1>8, <1>9, <1>10, <1>11, <1>12, <1>13,
       <1>14, <1>15, <1>16, <1>17, <1>18, <1>19, <1>20, <1>21, <1>22 DEF Next, Execute

\* The frames that are open at once, with the request that they answer, are at
\* most LIMIT_RECURSE_CALL, although executeFrame counts those of the requests
\* that failed before as well: the compiler never recurses deeper for a program.
THEOREM DepthIsBounded == Spec => []RecursionBounded
<1>1. Init => Counted
    BY InitCounted
<1>2. Counted /\ [Next]_vars => Counted'
    BY StepCounted
<1>3. Counted => RecursionBounded
    BY DEF Counted, Counts, RecursionBounded
<1> QED
    BY <1>1, <1>2, <1>3, PTL DEF Spec
=============================================================================
