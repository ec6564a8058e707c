--------------------------- MODULE MacroExpansion ---------------------------
(***************************************************************************)
(* The rules of a macro, matched against the text of a call.               *)
(*                                                                         *)
(* An item of a rule is                                                    *)
(*    [k |-> "mult", mult |-> "" "?" "*" or "+", of |-> items]             *)
(*    [k |-> "or", left, right]      [k |-> "var", name, of |-> item]      *)
(*    [k |-> "tok", s]               [k |-> "rule", macro, name]           *)
(* and a rule has a list of items, the tokens that are skipped between     *)
(* them, a body, and may be public.  Choice is ordered, repetition takes   *)
(* all it can, and nothing is tried again: a failure is an error that is   *)
(* caught where there is something else to do.                             *)
(*                                                                         *)
(* A result is a match or a failure, the place after it, the innermost     *)
(* class contexts it leaves (a failure keeps those its matches left), and  *)
(* why the compiler stops, if it does: a loop or a recursion without end,  *)
(* or a context that is not the expected one.                              *)
(***************************************************************************)
EXTENDS Integers, Sequences, SequencesExt, TLC, FiniteSetsExt

-----------------------------------------------------------------------------
(* The text that a macro, or one of its rules, makes of a match: the body  *)
(* is copied, and its #{...} are replaced by what the match captured.      *)
(*                                                                         *)
(* A match (MacroVisitor::Mapper) is a text and the captures below it: for *)
(* each name the sequence of the matches that it holds.  A text is a       *)
(* sequence of characters.  An operator that may be refused returns the    *)
(* set of its results: one, or none.                                       *)

Match(text, map) == [text |-> text, map |-> map]
NoCapture        == <<>>

\* The text of captures.
TextOf(matches) == FlattenSeq([i \in DOMAIN matches |-> matches[i].text])

Found(map, name) == {map[n] : n \in {name} \cap DOMAIN map}

\* One of the captures, counted from 0.
Element(matches, at) ==
    IF at < 0 \/ at >= Len(matches) THEN {} ELSE {<<matches[at + 1]>>}

\* A part of a capture: one of the captures below its only match, or how many
\* matches it has when it has not just one.
Part(matches, name) ==
    IF Len(matches) = 1 THEN Found(matches[1].map, name)
    ELSE IF name = "len" THEN {<<Match(<<ToString(Len(matches))>>, NoCapture)>>}
    ELSE {}

RECURSIVE Eval(_, _)
Eval(e, map) ==
    CASE e.k = "name"  -> Found(map, e.name)
      [] e.k = "sub"   -> UNION {Part(m, e.name) : m \in Eval(e.left, map)}
      [] e.k = "index" -> UNION {Element(m, e.at) : m \in Eval(e.left, map)}

\* One after the other, refused if one of them is.
Joined(texts) ==
    IF \E i \in DOMAIN texts : texts[i] = {} THEN {}
    ELSE {FlattenSeq([i \in DOMAIN texts |-> CHOOSE t \in texts[i] : TRUE])}

RECURSIVE Render(_, _)

\* The body of a for, once for each match; a capture of the name of its
\* variable is kept (emplace).
RenderFor(p, matches, map) ==
    Joined([i \in DOMAIN matches |-> Render(p.body, map @@ (p.name :> <<matches[i]>>))])

RenderPiece(p, map) ==
    CASE p.k = "text" -> {p.s}
      [] p.k = "eval" -> {TextOf(m) : m \in Eval(p.of, map)}
      [] p.k = "for"  -> UNION {RenderFor(p, m, map) : m \in Eval(p.of, map)}

Render(body, map) == Joined([i \in DOMAIN body |-> RenderPiece(body[i], map)])

-----------------------------------------------------------------------------
CONSTANTS Macros,       \* by name: its rules, its constructors
          Letters,      \* the characters of a word
          Tokens        \* the other characters, space excluded

Space == " "

\* ctx is _classContext, from the macro of the call on.
Start(at, ctx) ==
    [ok |-> TRUE, at |-> at, text |-> <<>>, map |-> NoCapture, ctx |-> ctx, stop |-> "no"]
Failed(at, ctx)  == [Start(at, ctx) EXCEPT !.ok = FALSE]
Stopped(r, why)  == [r EXCEPT !.ok = FALSE, !.stop = why]

Merge(left, right) ==
    [right EXCEPT !.text = left.text \o @, !.map = left.map @@ @]

Captured(r, name, matches) == [r EXCEPT !.map = name :> matches]
Single(r) == <<Match(r.text, r.map)>>
CapturedOne(r, name)    == IF r.ok THEN Captured(r, name, Single(r)) ELSE r
CapturedEach(all, name) == IF all.r.ok THEN Captured(all.r, name, all.each) ELSE all.r

-----------------------------------------------------------------------------
(* The rules that are known: they read the text from a place on with a     *)
(* lexer, and take what is skipped before the word that follows.           *)

AtEnd(text, at) == at > Len(text)

FirstNot(text, at, chars) ==
    SelectInSubSeq(text, at, Len(text), LAMBDA c : c \notin chars)
After(text, at, chars) ==
    LET p == FirstNot(text, at, chars) IN IF p = 0 THEN Len(text) + 1 ELSE p
AfterSpaces(text, at) == After(text, at, {Space})

\* The places after one word from a place on: none when there is a token or the end.
Word(text, at) ==
    LET p == AfterSpaces(text, at)
    IN  IF AtEnd(text, p) \/ text[p] \notin Letters THEN {} ELSE {After(text, p, Letters)}
TokenAt(text, at) ==
    LET p == AfterSpaces(text, at)
    IN  IF AtEnd(text, p) \/ text[p] \notin Tokens THEN {} ELSE {p + 1}

\* An expression is words with a token "+" between them.
RECURSIVE ExpressionAt(_, _)
ExpressionAt(text, at) ==
    UNION {LET o == AfterSpaces(text, p)
           IN  IF ~AtEnd(text, o) /\ text[o] = "+" THEN ExpressionAt(text, o + 1) ELSE {p}
           : p \in Word(text, at)}

LexedEnds(name, text, at) ==
    CASE name = "__ident" -> Word(text, at)
      [] name = "__expr"  -> ExpressionAt(text, at)
      [] name = "__token" -> TokenAt(text, at)
      [] name = "__word"  -> IF TokenAt(text, at) # {} THEN {}
                             ELSE IF AtEnd(text, AfterSpaces(text, at)) THEN {Len(text) + 1}
                             ELSE Word(text, at)

KnownRules == {"__any", "__char", "__ident", "__expr", "__token", "__word"}

\* __char escapes the character that it takes.
Escaped(name, c) == IF name = "__char" /\ c = "'" THEN <<"\\", c>> ELSE <<c>>

KnownRule(name, text, at, ctx) ==
    IF name \in {"__any", "__char"}
    THEN IF AtEnd(text, at) THEN Failed(at, ctx)
         ELSE [Start(at + 1, ctx) EXCEPT !.text = Escaped(name, text[at])]
    ELSE LET ends == {AfterSpaces(text, p) : p \in LexedEnds(name, text, at)}
         IN  IF ends = {} THEN Failed(at, ctx)
             ELSE LET e == CHOOSE p \in ends : TRUE
                  IN  [Start(e, ctx) EXCEPT !.text = SubSeq(text, at, e - 1)]

MatchToken(s, text, at, ctx) ==
    IF /\ Len(s) <= Len(text) + 1 - at
       /\ SubSeq(text, at, at + Len(s) - 1) = s
    THEN [Start(at + Len(s), ctx) EXCEPT !.text = s]
    ELSE Failed(at, ctx)

-----------------------------------------------------------------------------
(* "open" holds the rules that are being matched and where each started:   *)
(* one that is opened again where it is would open itself for ever.        *)

RECURSIVE MatchItem(_, _, _, _, _, _)

\* The skips are tried one after the other, as often as one matches.
RECURSIVE Skip(_, _, _)
Skip(skips, text, s) ==
    LET hits == {i \in DOMAIN skips : MatchToken(skips[i], text, s.at, s.ctx).ok}
    IN  IF hits = {} THEN s
        ELSE LET n == Len(skips[CHOOSE i \in hits : \A j \in hits : i <= j])
             IN  IF n = 0 THEN Stopped(s, "endless") ELSE Skip(skips, text, [s EXCEPT !.at = @ + n])

RECURSIVE MatchList(_, _, _, _, _)

\* The elements of a list after the skips that start it, and after its first one.
MatchHead(items, text, from, skips, open) ==
    IF from.stop # "no" THEN from
    ELSE MatchItem(Head(items), text, from.at, from.ctx, skips, open)
MatchRest(items, text, s, r, skips, open) ==
    IF ~r.ok THEN r ELSE MatchList(Tail(items), text, Merge(s, r), skips, open)

MatchList(items, text, s, skips, open) ==
    IF items = <<>> THEN s
    ELSE MatchRest(items, text, s,
                   MatchHead(items, text, Skip(skips, text, s), skips, open), skips, open)

\* Mutant: what an iteration that failed has consumed is not given back.
KeepsFailed(s, r) == [s EXCEPT !.at = r.at, !.ctx = r.ctx]

\* The first iteration that fails ends a repetition where the last one ended.
EndRepeat(s, r) == [s EXCEPT !.ctx = r.ctx]

\* The iterations after those of s, and the matches of all of them.
RECURSIVE Repeat(_, _, _, _, _, _)
RepeatAfter(items, text, s, each, r, skips, open) ==
    IF r.stop # "no" THEN [r |-> r, each |-> each]
    ELSE IF ~r.ok THEN [r |-> EndRepeat(s, r), each |-> each]
    ELSE IF r.at = s.at /\ Last(r.ctx) = Last(s.ctx)
    THEN [r |-> Stopped(r, "endless"), each |-> each]
    ELSE Repeat(items, text, [s EXCEPT !.at = r.at, !.ctx = r.ctx, !.text = @ \o r.text],
                each \o Single(r), skips, open)
Repeat(items, text, s, each, skips, open) ==
    RepeatAfter(items, text, s, each, MatchList(items, text, Start(s.at, s.ctx), skips, open),
                skips, open)

AtLeastOne(all, at) ==
    IF all.r.ok /\ all.each = <<>> THEN [all EXCEPT !.r = Failed(at, @.ctx)] ELSE all
Enough(m, all, at) == IF m.mult = "+" THEN AtLeastOne(all, at) ELSE all
OneOrMore(m, text, at, ctx, skips, open) ==
    Enough(m, Repeat(m.of, text, Start(at, ctx), <<>>, skips, open), at)

OneOrNone(r, at) == IF r.ok \/ r.stop # "no" THEN r ELSE Start(at, r.ctx)

\* The captures inside of a repetition are those of its matches: only a
\* variable of the repetition holds them.
Mult(m, text, at, ctx, skips, open) ==
    CASE m.mult = ""  -> MatchList(m.of, text, Start(at, ctx), skips, open)
      [] m.mult = "?" -> OneOrNone(MatchList(m.of, text, Start(at, ctx), skips, open), at)
      [] OTHER        -> OneOrMore(m, text, at, ctx, skips, open).r

Var(v, text, at, ctx, skips, open) ==
    IF v.of.k = "mult" /\ v.of.mult \in {"*", "+"}
    THEN CapturedEach(OneOrMore(v.of, text, at, ctx, skips, open), v.name)
    ELSE CapturedOne(MatchItem(v.of, text, at, ctx, skips, open), v.name)

\* Mutant: the right side goes on where the left one failed.
OrResumed(l, o, text, at, skips, open) ==
    IF l.ok \/ l.stop # "no" THEN l ELSE MatchItem(o.right, text, l.at, l.ctx, skips, open)

\* l is what the left side of o made of the text.
Or(l, o, text, at, skips, open) ==
    IF l.ok \/ l.stop # "no" THEN l ELSE MatchItem(o.right, text, at, l.ctx, skips, open)

-----------------------------------------------------------------------------
(* A rule of a macro: of the one whose context is the innermost, or of the *)
(* one that is named if that is visible.                                   *)

RuleNamed(e, ctx) ==
    LET m == IF e.macro = "" THEN Last(ctx) ELSE e.macro
        visible(r) == e.macro = "" \/ r.pub \/ m = Last(ctx)
    IN  {<<m, n>> : n \in {x \in {e.name} \cap DOMAIN Macros[m].rules :
                                visible(Macros[m].rules[x])}}

\* exitClassDef, which a rule that matches does not reach.
ExitClassDef(m, r) ==
    IF Last(r.ctx) # m THEN Stopped(r, "halt") ELSE Failed(r.at, Front(r.ctx))

WithBody(m, r, body) ==
    IF body = {} THEN ExitClassDef(m, r)
    ELSE Captured([r EXCEPT !.text = CHOOSE t \in body : TRUE], "rule", Single(r))
Expanded(m, body, r) ==
    IF r.stop # "no" THEN r
    ELSE IF ~r.ok THEN ExitClassDef(m, r) ELSE WithBody(m, r, Render(body, r.map))

\* r is the rule that m calls target[2].
MatchRule(target, r, text, at, ctx, open) ==
    IF <<target, at>> \in open THEN Stopped(Start(at, ctx), "overflow")
    ELSE Expanded(target[1], r.body,
                  Mult(r.rule, text, at, Append(ctx, target[1]), r.skips, open \cup {<<target, at>>}))

Rule(e, targets, text, at, ctx, open) ==
    IF targets = {} THEN Failed(at, ctx)
    ELSE LET t == CHOOSE x \in targets : TRUE
         IN  MatchRule(t, Macros[t[1]].rules[t[2]], text, at, ctx, open)

MatchItem(e, text, at, ctx, skips, open) ==
    CASE e.k = "mult" -> Mult(e, text, at, ctx, skips, open)
      [] e.k = "or"   -> Or(MatchItem(e.left, text, at, ctx, skips, open), e, text, at, skips, open)
      [] e.k = "var"  -> Var(e, text, at, ctx, skips, open)
      [] e.k = "tok"  -> MatchToken(e.s, text, at, ctx)
      [] e.k = "rule" /\ e.macro = "" /\ e.name \in KnownRules -> KnownRule(e.name, text, at, ctx)
      [] OTHER -> Rule(e, RuleNamed(e, ctx), text, at, ctx, open)

-----------------------------------------------------------------------------
(* MacroVisitor::validate: the calls of macros that a function makes, one  *)
(* after the other.  The name of a call may be that of several macros, and *)
(* each of them may have several constructors: all of them are matched,    *)
(* and what they expand to is validated, before there is an answer.        *)

CONSTANTS Calls,        \* the calls: the names of the macros and a text
          Invalid,      \* the expansions that have errors
          Writer,       \* the symbol whose class context the calls are in
          MaxCalls      \* the calls of a function

VARIABLES call,         \* the call that is validated: its macros and its text
          toTry,        \* its macros that are still to try, and their constructors
          values,       \* what the constructors of the macro expanded to
          successes,    \* what the macros that were tried expanded to
          classContext, \* _classContext
          nbCalls,      \* the calls that were made
          outcome       \* of the last call

vars == <<call, toTry, values, successes, classContext, nbCalls, outcome>>

Rest   == [is |-> "rest"]
NoCall == [macros |-> <<>>, text |-> <<>>]

Init ==
    /\ call = NoCall
    /\ toTry = <<>> /\ values = <<>> /\ successes = <<>>
    /\ classContext = <<Writer>>
    /\ nbCalls = 0
    /\ outcome = Rest

CallMacro ==
    /\ outcome = Rest
    /\ nbCalls < MaxCalls
    /\ \E c \in Calls : call' = c
    /\ toTry' = [i \in DOMAIN call'.macros |->
                    [macro |-> call'.macros[i],
                     constructors |-> SelectSeq(Macros[call'.macros[i]].constructors,
                                                LAMBDA k : k.pub)]]
    /\ nbCalls' = nbCalls + 1
    /\ values' = <<>> /\ successes' = <<>>
    /\ outcome' = [is |-> "matching"]
    /\ UNCHANGED classContext

Trying == outcome.is = "matching" /\ toTry # <<>>
Constructors == Head(toTry).constructors

\* validateConstructor: the match, or how the compiler stops.
Matching(k, ctx) == Mult(k.rule, call.text, 1, ctx, k.skips, {})

\* A match that leaves a part of the call is an error (MACRO_REST).
Whole(r) == IF r.ok /\ r.at = Len(call.text) + 1 THEN {r} ELSE {}

\* validateMacroExpression: what was expanded may itself have errors.
Expansions(k, r) == UNION {Render(k.body, m.map) : m \in Whole(r)} \ Invalid

\* The compiler stops while it matches, or leaves the context of another macro.
Stops(r, m) ==
    /\ r.stop # "no" \/ Last(r.ctx) # m
    /\ outcome' = [is |-> IF r.stop # "no" THEN r.stop ELSE "halt"]
    /\ UNCHANGED <<toTry, values, classContext>>

TriedConstructor(k, r, m) ==
    /\ r.stop = "no" /\ Last(r.ctx) = m
    /\ classContext' = Front(r.ctx)
    /\ values' = values \o SetToSeq(Expansions(k, r))
    /\ toTry' = [toTry EXCEPT ![1].constructors = Tail(@)]
    /\ UNCHANGED outcome

TryConstructor ==
    /\ Trying /\ Constructors # <<>>
    /\ LET m == Head(toTry).macro IN
          \E k \in {Head(Constructors)} : \E r \in {Matching(k, Append(classContext, m))} :
             Stops(r, m) \/ TriedConstructor(k, r, m)
    /\ UNCHANGED <<call, successes, nbCalls>>

\* The values of several constructors are one success, as a MultSym of them.
EndMacro ==
    /\ Trying /\ Constructors = <<>>
    /\ successes' = IF values = <<>> THEN successes ELSE Append(successes, values)
    /\ values' = <<>>
    /\ toTry' = Tail(toTry)
    /\ UNCHANGED <<call, classContext, nbCalls, outcome>>

Answer ==
    CASE successes = <<>> -> [is |-> "refused"]
      [] Len(successes) > 1 \/ Len(successes[1]) > 1 -> [is |-> "ambiguous"]
      [] OTHER -> [is |-> "expanded", text |-> successes[1][1]]

EndCall ==
    /\ outcome.is = "matching" /\ toTry = <<>>
    /\ outcome' = Answer
    /\ UNCHANGED <<call, toTry, values, successes, classContext, nbCalls>>

\* The function goes on, with the answer or with its errors.
GoOn ==
    /\ outcome.is \in {"expanded", "refused", "ambiguous"}
    /\ call' = NoCall /\ successes' = <<>>
    /\ outcome' = Rest
    /\ UNCHANGED <<toTry, values, classContext, nbCalls>>

Next == CallMacro \/ TryConstructor \/ EndMacro \/ EndCall \/ GoOn

Spec == Init /\ [][Next]_vars /\ WF_vars(Next)
=============================================================================
