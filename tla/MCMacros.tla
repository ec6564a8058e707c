------------------------------- MODULE MCMacros ------------------------------
(***************************************************************************)
(* A corpus of macros, and every call of them with a short text.           *)
(***************************************************************************)
EXTENDS MacroExpansion

M(mult, items)  == [k |-> "mult", mult |-> mult, of |-> items]
Tok(s)          == [k |-> "tok", s |-> s]
Either(l, r)    == [k |-> "or", left |-> l, right |-> r]
As(name, item)  == [k |-> "var", name |-> name, of |-> item]
Uses(name)      == [k |-> "rule", macro |-> "", name |-> name]
UsesOf(m, name) == [k |-> "rule", macro |-> m, name |-> name]

a == Tok(<<"a">>)   b == Tok(<<"b">>)   plus == Tok(<<"+">>)

Text(s)        == [k |-> "text", s |-> s]
Put(e)         == [k |-> "eval", of |-> e]
ForIn(n, e, p) == [k |-> "for", name |-> n, of |-> e, body |-> p]
Name(n)        == [k |-> "name", name |-> n]
Sub(e, n)      == [k |-> "sub", left |-> e, name |-> n]
Index(e, i)    == [k |-> "index", left |-> e, at |-> i]

Production(items, skips, body) ==
    [rule |-> M("", items), skips |-> skips, body |-> body, pub |-> TRUE]
Private(p) == [p EXCEPT !.pub = FALSE]
Macro(rules, constructors, exact) ==
    [rules |-> rules, constructors |-> constructors, exact |-> exact]
Spaces == <<<<Space>>>>

Parenthesised == <<Text(<<"(">>), Put(Name("x")), Text(<<")">>)>>

\* "exact": the first choice and the longest repetition are never wrong, and no
\* rule of another macro can match (it would stay the innermost class context).
MCMacros ==
    ("list" :> Macro(<<>>, <<Production(
            <<As("x", Uses("__expr")), As("y", M("*", <<As("z", Uses("__token")), As("w", Uses("__ident"))>>))>>,
            <<>>, <<Put(Name("x")), ForIn("i", Name("y"),
                    <<Text(<<";">>), Put(Sub(Name("i"), "w")), Put(Sub(Name("i"), "z"))>>)>>)>>, FALSE)) @@
    ("sum" :> Macro(
        [term |-> Production(<<As("x", Uses("__ident"))>>, <<>>, Parenthesised),
         rest |-> Production(<<plus, As("x", Uses("term"))>>, Spaces,
                             <<Put(Sub(Sub(Name("x"), "rule"), "x")), Put(Name("x"))>>)],
        <<Production(<<As("x", Uses("term")), As("y", M("*", <<Uses("rest")>>))>>, Spaces,
                     <<Put(Name("y")), Put(Sub(Name("y"), "len")), Put(Name("x"))>>)>>, FALSE)) @@
    ("choice" :> Macro(<<>>, <<Production(
        <<Either(M("", <<a, b>>), Either(M("", <<a, plus>>), b)), As("x", M("?", <<plus>>)),
          As("y", M("+", <<Either(a, b)>>))>>, Spaces,
        <<Put(Name("y")), Put(Index(Name("y"), 0)), Put(Name("x"))>>)>>, TRUE)) @@
    ("twice" :> Macro(<<>>, <<Production(
        <<As("x", a), As("x", b), As("y", M("*", <<As("x", Either(a, b)), plus>>))>>, <<>>,
        <<Put(Name("x")), ForIn("i", Name("y"), <<Put(Sub(Name("i"), "x")), Put(Name("x"))>>)>>)>>, TRUE)) @@
    ("greedy" :> Macro(<<>>, <<Production(
        <<As("x", M("*", <<a>>)), M("?", <<a, plus>>), As("y", M("*", <<Uses("__any")>>))>>, <<>>,
        <<Put(Index(Name("x"), 1)), Put(Name("y"))>>)>>, FALSE)) @@
    ("two" :> Macro(<<>>, <<
        Production(<<As("x", Uses("__char"))>>, <<>>, Parenthesised),
        Production(<<As("x", M("+", <<Either(a, plus)>>))>>, <<>>, Parenthesised),
        Private(Production(<<b, b>>, <<>>, Parenthesised)),
        Production(<<b, plus>>, <<>>, Parenthesised)>>, TRUE)) @@
    ("same" :> Macro(<<>>, <<Production(
        <<As("x", M("+", <<b>>))>>, <<>>, Parenthesised)>>, TRUE)) @@
    ("failing" :> Macro(
        [r |-> Production(<<a, M("?", <<Uses("s")>>)>>, <<>>, <<Text(<<"r">>)>>),
         s |-> Production(<<b, As("x", M("*", <<a>>))>>, <<>>, <<Put(Index(Name("x"), 0))>>)],
        <<Production(<<As("x", Either(M("", <<Uses("r"), Uses("s")>>), M("", <<a, b, plus>>)))>>,
                     <<>>, Parenthesised)>>, FALSE)) @@
    ("endless" :> Macro(<<>>, <<Production(<<M("*", <<M("?", <<a>>)>>)>>, Spaces, <<>>)>>, FALSE)) @@
    ("words" :> Macro(<<>>, <<Production(<<M("+", <<Uses("__word")>>)>>, <<>>, <<>>)>>, FALSE)) @@
    ("skips" :> Macro(<<>>, <<Production(<<a, b>>, <<<<Space>>, <<>>>>, <<>>)>>, FALSE)) @@
    ("left" :> Macro(
        [r |-> Production(<<M("?", <<a>>), Either(Uses("r"), b)>>, <<>>, <<>>)],
        <<Production(<<Uses("r")>>, <<>>, <<>>)>>, FALSE)) @@
    ("own" :> Macro(
        [r |-> Production(<<b>>, <<>>, <<Text(<<"b">>)>>)],
        <<Production(<<M("?", <<UsesOf("lib", "r"), plus>>), As("x", M("*", <<Either(a, Uses("r"))>>))>>,
                     <<>>, Parenthesised)>>, FALSE)) @@
    ("lib" :> Macro([r |-> Production(<<a>>, <<>>, <<>>)], <<>>, TRUE))

MCLetters == {"a", "b"}
MCTokens  == {"+", "'"}
MCInvalid == {<<"(", "b", "b", ")">>, <<"a", "b">>}

Texts(n) == SeqOf(MCLetters \cup {"+", Space}, n)
CallsOf(macros, n) == {[macros |-> m, text |-> t] : m \in macros, t \in Texts(n)}
MCCalls == CallsOf({<<m>> : m \in DOMAIN Macros} \cup {<<"two", "same">>}, 4)
           \cup CallsOf({<<"sum">>, <<"twice">>, <<"list">>}, 5)
           \cup {[macros |-> <<"two">>, text |-> <<"'">>]}

-----------------------------------------------------------------------------
(* The reference: what a rule derives, in any way, and what the body of a  *)
(* macro says of a derivation.                                             *)

RECURSIVE Derive(_, _, _, _), Skipped(_, _, _), Derived(_, _, _, _), Repeated(_, _, _, _)

Derivation(at, text, map) == [at |-> at, text |-> text, map |-> map]
Following(d, r) == Derivation(r.at, d.text \o r.text, d.map @@ r.map)
Matches(s, text, at) == MatchToken(s, text, at, <<>>).ok

Skipped(skips, text, at) ==
    {at} \cup UNION {Skipped(skips, text, at + Len(skips[i])) :
                        i \in {j \in DOMAIN skips : skips[j] # <<>> /\ Matches(skips[j], text, at)}}

\* "g" is the macro whose rule is derived, and the skips of the rule.
FirstOf(items, text, at, g) ==
    UNION {Derive(Head(items), text, i, g) : i \in Skipped(g.skips, text, at)}
Derived(items, text, at, g) ==
    IF items = <<>> THEN {Derivation(at, <<>>, NoCapture)}
    ELSE UNION {{Following(d, r) : r \in Derived(Tail(items), text, d.at, g)} :
                    d \in FirstOf(items, text, at, g)}

\* Pairs of a place and of the iterations before it.
Repeated(items, text, at, g) ==
    {<<at, <<>>>>} \cup
    UNION {{<<r[1], Single(d) \o r[2]>> : r \in Repeated(items, text, d.at, g)} :
               d \in {x \in Derived(items, text, at, g) : x.at > at}}
RepeatedAs(m, text, at, g) ==
    {r \in Repeated(m.of, text, at, g) : m.mult = "+" => r[2] # <<>>}

\* A part of a capture, however many matches it has; the variable of a for
\* hides the captures of its name.
RefEval(e, map) ==
    IF e.k = "sub" /\ e.name = "len"
    THEN {<<Match(<<ToString(Len(m))>>, NoCapture)>> : m \in Eval(e.left, map)}
    ELSE Eval(e, map)

RECURSIVE RefRender(_, _)
RefPiece(p, map) ==
    CASE p.k = "text" -> {p.s}
      [] p.k = "eval" -> {TextOf(m) : m \in RefEval(p.of, map)}
      [] p.k = "for"  ->
            UNION {Joined([i \in DOMAIN m |-> RefRender(p.body, (p.name :> <<m[i]>>) @@ map)]) :
                       m \in RefEval(p.of, map)}
RefRender(body, map) == Joined([i \in DOMAIN body |-> RefPiece(body[i], map)])

OfRule(rule, text, at, m) ==
    UNION {{Derivation(d.at, t, "rule" :> Single(d)) : t \in RefRender(rule.body, d.map)} :
               d \in Derive(rule.rule, text, at, [macro |-> m, skips |-> rule.skips])}

Derive(e, text, at, g) ==
    CASE e.k = "tok" ->
            IF Matches(e.s, text, at) THEN {Derivation(at + Len(e.s), e.s, NoCapture)} ELSE {}
      [] e.k = "or"  -> Derive(e.left, text, at, g) \cup Derive(e.right, text, at, g)
      [] e.k = "var" /\ e.of.k = "mult" /\ e.of.mult \in {"*", "+"} ->
            {Derivation(r[1], TextOf(r[2]), e.name :> r[2]) : r \in RepeatedAs(e.of, text, at, g)}
      [] e.k = "var" -> {Captured(d, e.name, Single(d)) : d \in Derive(e.of, text, at, g)}
      [] e.k = "mult" /\ e.mult = "" -> Derived(e.of, text, at, g)
      [] e.k = "mult" /\ e.mult = "?" ->
            Derived(e.of, text, at, g) \cup {Derivation(at, <<>>, NoCapture)}
      [] e.k = "mult" ->
            {Derivation(r[1], TextOf(r[2]), NoCapture) : r \in RepeatedAs(e, text, at, g)}
      [] e.k = "rule" /\ e.name \in KnownRules ->
            LET r == KnownRule(e.name, text, at, <<>>)
            IN  IF r.ok THEN {Derivation(r.at, r.text, NoCapture)} ELSE {}
      [] OTHER ->
            LET m == IF e.macro = "" THEN g.macro ELSE e.macro
            IN  OfRule(Macros[m].rules[e.name], text, at, m)

\* What the call may expand to.
Meanings(m) ==
    UNION {UNION {RefRender(k.body, d.map) :
                    d \in {x \in Derive(k.rule, call.text, 1, [macro |-> m, skips |-> k.skips]) :
                              x.at = Len(call.text) + 1}} :
               k \in {c \in Range(Macros[m].constructors) : c.pub}} \ Invalid

-----------------------------------------------------------------------------
(* The rules that never end, or use those of another macro.                *)

RECURSIVE Nullable(_, _)
Nullable(e, m) ==
    CASE e.k = "tok" -> e.s = <<>>
      [] e.k = "or"  -> Nullable(e.left, m) \/ Nullable(e.right, m)
      [] e.k = "var" -> Nullable(e.of, m)
      [] e.k = "mult" -> e.mult \in {"?", "*"} \/ \A i \in DOMAIN e.of : Nullable(e.of[i], m)
      [] e.k = "rule" -> e.name = "__word"

RECURSIVE Items(_), FirstRules(_, _)

\* The items of an item, with itself, and the rules that may be opened first.
Items(e) ==
    {e} \cup (CASE e.k = "or"   -> Items(e.left) \cup Items(e.right)
                [] e.k = "var"  -> Items(e.of)
                [] e.k = "mult" -> UNION {Items(e.of[i]) : i \in DOMAIN e.of}
                [] OTHER -> {})
FirstRules(e, m) ==
    CASE e.k = "or"   -> FirstRules(e.left, m) \cup FirstRules(e.right, m)
      [] e.k = "var"  -> FirstRules(e.of, m)
      [] e.k = "mult" -> UNION {FirstRules(e.of[i], m) :
                            i \in {j \in DOMAIN e.of : \A x \in 1 .. j - 1 : Nullable(e.of[x], m)}}
      [] e.k = "rule" -> {e.name}
      [] OTHER -> {}

Productions(m) == Range(Macros[m].rules) \cup Range(Macros[m].constructors)
NullableRepetition(m) ==
    \E p \in Productions(m) :
        \/ <<>> \in Range(p.skips)
        \/ \E e \in Items(p.rule) :
              e.k = "mult" /\ e.mult \in {"*", "+"} /\ \A i \in DOMAIN e.of : Nullable(e.of[i], m)
UsesForeign(m) ==
    \E e \in UNION {Items(q.rule) : q \in Productions(m)} :
        e.k = "rule" /\ e.macro \notin {"", m}
LeftRecursive(m) ==
    \E n \in DOMAIN Macros[m].rules : n \in FirstRules(Macros[m].rules[n].rule, m)

-----------------------------------------------------------------------------
(* Properties.                                                             *)

\* What a call expands to is what the body of a macro makes of a derivation of
\* the whole text: an alternative or an iteration that failed leaves nothing
\* behind, in the place, in the captures or in the text.
ExpansionIsADerivation ==
    outcome.is = "expanded" => \E i \in DOMAIN call.macros : outcome.text \in Meanings(call.macros[i])

\* A call is refused only when no macro derives its text, wherever the first
\* choice and the longest repetition of the macros are never wrong.
DerivableIsExpanded ==
    (/\ outcome.is \notin {"rest", "matching", "expanded", "ambiguous"}
     /\ \A i \in DOMAIN call.macros : Macros[call.macros[i]].exact)
    => \A i \in DOMAIN call.macros : Meanings(call.macros[i]) = {}

\* The compiler loops on a call only when a macro repeats what may match no
\* text, recurses without end only when a rule opens itself first, and halts
\* only when it uses the rules of another.
StopsOnBadRules ==
    /\ outcome.is = "endless" => \E i \in DOMAIN call.macros : NullableRepetition(call.macros[i])
    /\ outcome.is = "overflow" => \E i \in DOMAIN call.macros : LeftRecursive(call.macros[i])
    /\ outcome.is = "halt" => \E i \in DOMAIN call.macros : UsesForeign(call.macros[i])

\* A call that is not expanded has a reason in its text or in its macros.
RefusalsAreRight == DerivableIsExpanded /\ StopsOnBadRules
=============================================================================
