------------------------------- MODULE MCScopes -------------------------------
(***************************************************************************)
(* ScopeProtocol for the code of ValidatorScopes.                          *)
(***************************************************************************)
EXTENDS ScopeProtocol, ValidatorScopes, SequencesExt

Names == DOMAIN Disciplines

MCCode == [r \in Routine |->
             IF r \in Names THEN Disciplines[r] ELSE Leaks[r]]

\* What each function holds, propagated along the first edge that reaches an
\* instruction: a forward jump or the instruction before it.
HeldIn(code) ==
    LET Jumps(n) == {m \in 1..(n - 1) : code[m].to = n - m}
        held[n \in 1..(Len(code) + 1)] ==
            IF n = 1 THEN NoScope
            ELSE LET m == CHOOSE m \in Jumps(n) \cup {n - 1} :
                            Jumps(n) # {} => m \in Jumps(n)
                 IN  After(held[m], code[m])
    IN  held

MCHeld == [r \in Routine |-> HeldIn(MCCode[r])]

\* The instructions that those of a set lead to, through the ones of a set, and
\* past the ones of another one.
Reached(code, from, through, past) ==
    LET next(s) == {m + 1 : m \in {m \in s \cap past : Falls(code[m])}}
                   \cup {m + code[m].to : m \in {m \in s : code[m].to # 0}}
    IN  FoldSeq(LAMBDA i, s : s \cup next(s \cap through), from, code)

Those(code, Of(_)) == {m \in DOMAIN code : Of(code[m])}

CleanIn(code) ==
    (1..(Len(code) + 1))
    \ Reached(code, {m + code[m].to : m \in Those(code, LAMBDA i : i.keep)}, DOMAIN code,
              Those(code, LAMBDA i : i.op \notin {"unless", "rethrow"}))

TestedIn(code, held) ==
    (1..(Len(code) + 1))
    \ Reached(code, {m + 1 : m \in Those(code, LAMBDA i : i = Enter("template"))},
              {m \in DOMAIN code : held[m].count["template"] > 0},
              Those(code, LAMBDA i : i.op # "limit"))

MCClean  == [r \in Routine |-> CleanIn(MCCode[r])]
MCTested == [r \in Routine |-> TestedIn(MCCode[r], MCHeld[r])]

Symmetry == Permutations(Symbol)

\* The functions that leave scopes entered, called by the loop of a module.
Leaking == DOMAIN Leaks \cup {"validate"}
=============================================================================
