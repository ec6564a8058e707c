---------------------------- MODULE MCExitScopes ----------------------------
(***************************************************************************)
(* Bodies for ExitScopes: every content, under every set of guards, in     *)
(* every context, and a few that use the other statements.                 *)
(***************************************************************************)
EXTENDS GuardedBlocks

A == {"A"}
B == {"B"}

Contents == <<
    <<Do("a")>>,
    <<Calls("a", A)>>,
    <<Calls("a", A), Returns("r")>>,
    <<If("t", Breaks), Calls("a", A)>>,
    <<If("t", Returns("r")), Calls("a", A)>>,
    <<Calls("a", A), Breaks>>,
    <<Do("a"), Throws("A")>>,
    <<Calls("a", A \cup B)>> >>

Catches == <<
    <<>>,
    <<Arm(Anything, Do("c"))>>,
    <<Arm("A", Do("c"))>>,
    <<Arm("A", Calls("c", B)), Arm(Anything, Do("d"))>>,
    <<Arm("A", Do("c")), Arm("B", Do("d"))>>,
    <<Arm(Anything, Returns("c"))>>,
    <<Arm(Anything, Breaks)>> >>

Exits     == <<<<>>, <<Do("x")>>, <<Calls("x", B)>>, <<If("x", Returns("y"))>>, <<If("x", Breaks)>> >>
Successes == <<<<>>, <<Do("s")>>, <<Calls("s", A)>>, <<Calls("s", B)>> >>
Failures  == <<<<>>, <<Do("f")>>, <<If("f", Returns("g"))>> >>

\* <<exit, success, failure, catch>>
Guards == <<
    <<2, 1, 1, 1>>, <<3, 1, 1, 1>>, <<4, 1, 1, 1>>, <<5, 1, 1, 1>>,
    <<1, 2, 1, 1>>, <<1, 3, 1, 1>>, <<2, 2, 2, 1>>, <<2, 4, 1, 1>>,
    <<1, 1, 2, 1>>, <<2, 1, 3, 1>>, <<1, 1, 1, 2>>, <<2, 1, 2, 3>>,
    <<2, 3, 2, 2>>, <<2, 4, 1, 3>>, <<1, 1, 1, 4>>, <<3, 1, 1, 5>>,
    <<2, 1, 1, 6>>, <<2, 1, 1, 7>> >>

InBlock(c, g) == Guarded(Contents[c], Exits[g[1]], Successes[g[2]], Failures[g[3]], Catches[g[4]])

Outer(content) == Guarded(content, <<Do("o")>>, <<>>, <<Do("p")>>, <<>>)
Catching(content) == Guarded(content, <<Do("o")>>, <<>>, <<>>, <<Arm(Anything, Do("q"))>>)

InContext(n, t) ==
    CASE n = 1 -> t
      [] n = 2 -> While("w", t)
      [] n = 3 -> Outer(<<t, Calls("z", A)>>)
      [] n = 4 -> While("w", Catching(<<t, Calls("z", A)>>))
      [] n = 5 -> Outer(<<DoWhile("w", t), Calls("z", A)>>)
      [] n = 6 -> Guarded(<<t>>, <<>>, <<Do("u")>>, <<>>, <<>>)

Others == <<
    With(<<[open |-> "a", close |-> "b", kinds |-> A],
           [open |-> "c", close |-> "d", kinds |-> A]>>,
         Plain(<<Calls("e", B), If("f", Returns("r"))>>)),
    While("w", Atomic("l", "u", Plain(<<If("t", Breaks), Calls("a", A)>>))),
    Plain(<<Try(Plain(<<Atomic("l", "u", Calls("a", A)), If("t", Returns("r"))>>)), Do("z")>>),
    Forever(Guarded(<<Calls("a", A), Breaks>>, <<Do("x")>>, <<>>, <<>>, <<>>)),
    Plain(<<Forever(Plain(<<Try(Calls("a", A)), Breaks>>)), Do("z")>>),
    Try(Try(Plain(<<Do("a"), Returns("r")>>))),
    Guarded(<<If("t", Throws("A"))>>, <<Outer(<<Calls("x", B)>>)>>, <<>>, <<>>, <<>>),
    DoWhile("w", With(<<[open |-> "a", close |-> "b", kinds |-> A]>>,
                      While("v", Guarded(<<If("t", Breaks)>>, <<Do("x")>>, <<>>, <<>>, <<>>)))) >>

MCCorpus ==
    LET c == Len(Contents)
        g == Len(Guards)
        all == c * g * 6
    IN  [n \in 1..(all + Len(Others)) |->
            IF n > all THEN Others[n - all]
            ELSE InContext(((n - 1) \div (c * g)) + 1,
                           InBlock(((n - 1) % c) + 1, Guards[(((n - 1) \div c) % g) + 1]))]

\* The code generated for the bodies without an error.
MCCodes == [n \in {k \in DOMAIN MCCorpus : Accepted(MCCorpus[k], FALSE)} |-> CodeOf(MCCorpus[n])]
=============================================================================
