----------------------------- MODULE SyntaxSession -----------------------------
(***************************************************************************)
(* A programmer and the parser: a file is written, read by the compiler    *)
(* and perhaps laid out differently and read again.                        *)
(*                                                                         *)
(* The file is one of a corpus, or one that is one edit away: it is cut    *)
(* short, a word is left out, replaced, or put before another.             *)
(***************************************************************************)
EXTENDS SyntaxVisitor, FiniteSets

CONSTANTS Corpus,      \* files that every compiler of the language accepts
          Put,         \* the words that an edit writes
          Fillers      \* what a layout writes instead of a space

VARIABLES text,      \* the words of the file, spaces and comments included
          edit,      \* how the file was written
          tmp,       \* the static variable inTmpCall of visitTemplateCall
          verdict    \* what the parser made of the file

vars == <<text, edit, tmp, verdict>>

-----------------------------------------------------------------------------
(* The text of a file. *)

\* A space may not be put in a string or a character, nor in a float.
Quotes == {"\"", "'"}
InText(f, k) == \E q \in Quotes : Cardinality({i \in 1..k : f[i] = q}) % 2 = 1
InLiteral(f, k) ==
    \/ InText(f, k)
    \/ f[k] = "." /\ (f[k + 1] \in Decimal \/ (k > 1 /\ f[k - 1] \in Decimal))
    \/ f[k + 1] = "." /\ f[k] \in Decimal

\* A space wherever the words of a file may be separated.
Text(f) ==
    LET written[k \in 0..Len(f)] ==
            IF k = 0 THEN <<>>
            ELSE written[k - 1] \o <<f[k]>>
                 \o IF k = Len(f) \/ InLiteral(f, k) THEN <<>> ELSE <<" ">>
    IN written[Len(f)]

WordsOf(s) == {k \in DOMAIN s : s[k] # " "}
Gaps(s)    == {k \in DOMAIN s : s[k] = " " /\ ~InText(s, k)}

\* The words ws instead of the k-th one.
Replaced(s, k, ws) == SubSeq(s, 1, k - 1) \o ws \o SubSeq(s, k + 1, Len(s))

Truncated(s) == {SubSeq(s, 1, k) : k \in WordsOf(s)}
Changed(s)   == {Replaced(s, k, ws) : k \in WordsOf(s), ws \in {<<>>} \cup {<<w>> : w \in Put}}
                \cup {Replaced(s, k, <<"}", " ", s[k]>>) : k \in WordsOf(s)}

Count(s, W) == Cardinality({k \in DOMAIN s : s[k] \in W /\ ~InText(s, k)})

\* The words that come after, or before, the position k.
After(s, k)  == LET at == {i \in WordsOf(s) : i > k}
                IN IF at = {} THEN EOF ELSE s[CHOOSE i \in at : \A j \in at : i <= j]
Before(s, k) == LET at == {i \in WordsOf(s) : i < k}
                IN IF at = {} THEN EOF ELSE s[CHOOSE i \in at : \A j \in at : j <= i]

\* A catch whose brace is left out, and the braces that are not looked at: the
\* name of a macro, and one before the declaration of a protection.
BareCatches(s) == {k \in WordsOf(s) : s[k] = "catch" /\ After(s, k) # "{"}
Swallowed(s)   == {k \in WordsOf(s) : s[k] = "}"
                                          /\ Before(s, k) \in {"macro", "pub", "prv", "prot", "extern"}}
MacroCalls     == {"#{", "#(", "#["}

BracketsMatch(s) ==
    /\ Count(s, {"("}) = Count(s, {")"})
    /\ Count(s, {"["}) = Count(s, {"]"})
    /\ Count(s, {"{"}) + Cardinality(BareCatches(s))
         = Count(s, {"}"}) - Cardinality(Swallowed(s))

-----------------------------------------------------------------------------
(* The compiler. *)

NotRead == [read |-> FALSE, ok |-> FALSE, idle |-> FALSE, halted |-> FALSE,
            disturbed |-> FALSE, restored |-> TRUE]

VerdictOf(s) == [read |-> TRUE, ok |-> s.ok, idle |-> s.idle, halted |-> s.halted,
                 disturbed |-> s.disturbed,
                 restored |-> s.lex.skips = Spaces /\ s.lex.comments]

Init ==
    /\ \E i \in DOMAIN Corpus :
          LET s == Text(Corpus[i])
          IN \/ edit = "none" /\ text = s
             \/ edit = "cut" /\ text \in Truncated(s)
             \/ edit = "change" /\ text \in Changed(s)
    /\ tmp = FALSE
    /\ verdict = NotRead

\* Parser::syntaxicTime: the compiler reads the file.
SyntaxicTime ==
    /\ ~verdict.read
    /\ \E s \in {Parse(text, tmp)} : verdict' = VerdictOf(s) /\ tmp' = s.tmp
    /\ UNCHANGED <<text, edit>>

\* The layout of a file is changed and another compiler reads it.
Relayout ==
    /\ verdict.read /\ edit = "none"
    /\ edit' = "layout"
    /\ \E k \in Gaps(text), ws \in Fillers :
          /\ text' = Replaced(text, k, ws)
          /\ \E s \in {Parse(text', FALSE)} : verdict' = VerdictOf(s) /\ tmp' = s.tmp

Next == SyntaxicTime \/ Relayout

Spec == Init /\ [][Next]_vars

-----------------------------------------------------------------------------
(* Properties. *)

\* Every file of the corpus is accepted, by a parser that looks ahead, goes
\* back and tries: no production hides another one.  A comment may stand wherever a
\* space may, unless a consumeIf has read it while comments were not skipped.
CorpusAccepted ==
    verdict.read /\ (edit = "none" \/ (edit = "layout" /\ ~verdict.disturbed)) => verdict.ok

\* Whatever is wrong in a file, the parser ends: none of its loops goes round
\* without having consumed a word, none of its functions calls itself before.
NeverStuck == ~verdict.idle

\* The parser answers: it ends on every text, and accepts those of the language.
EveryTextIsDecided == CorpusAccepted /\ NeverStuck

\* A file that is accepted leaves the modes of the lexer, and the variable that
\* the next file will find, as they were: what was tried and given up included.
ModesRestored == verdict.ok => verdict.restored /\ ~tmp

\* A file is not accepted with a bracket too few or too many, but for the braces
\* that the parser does not look at.
BracketsChecked ==
    verdict.ok /\ edit # "layout" /\ Count(text, MacroCalls) = 0 => BracketsMatch(text)

\* A file that is accepted has its brackets, and leaves nothing behind it.
AcceptedIsClean == ModesRestored /\ BracketsChecked
=============================================================================
