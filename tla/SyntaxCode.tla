----------------------------- MODULE SyntaxCode -----------------------------
(***************************************************************************)
(* The notation in which SyntaxVisitor writes the functions of             *)
(* syntax::Visitor, and what it means.                                     *)
(*                                                                         *)
(* A function is a term: which words it asks the lexer for, which branch   *)
(* and which function it takes then, where it moves the cursor back and    *)
(* what it does to the modes of the lexer.  The trees that it builds are   *)
(* left out, but for whether an expression is a block (is <Block> ()).     *)
(* "last" is the word that the function last read.                         *)
(***************************************************************************)
EXTENDS Integers, Sequences

-----------------------------------------------------------------------------
(* lexing::Lexer: a cursor over the words of a file, with a buffer.        *)
(*                                                                         *)
(* A word is a string of the source: a token or what stands between two    *)
(* tokens.  The lexer keeps every word that it has returned in "reads" and *)
(* the parser moves a cursor over them.  Spaces and comments are dropped   *)
(* when a word is read from the file, unless the parser has disabled that; *)
(* the words of the buffer are only tested against the spaces.             *)

EOF    == ""
Spaces == {" ", "\t", "\n", "\r"}

\* The tokens that open a comment, and the ones that close it.
Closing == [o \in {"//", "/*"} |-> IF o = "//" THEN "\n" ELSE "*/"]

\* A lexer: the words of its file, how many were taken, the buffer, the number
\* of its words before the cursor ("current" in the code is cur - 1), the
\* spaces that are skipped, and whether comments are.
NewLexer(words) ==
    [file |-> words, taken |-> 0, reads |-> <<>>, cur |-> 0,
     skips |-> Spaces, comments |-> TRUE]

SkipEnable(lex, elems, on) ==
    [lex EXCEPT !.skips = IF on THEN @ \cup elems ELSE @ \ elems]

CommentEnable(lex, on) == [lex EXCEPT !.comments = on]

\* getWord: w is left as it was at the end of the file.
WordAt(lex, i, w) == IF i <= Len(lex.file) THEN lex.file[i] ELSE w

\* The first position from i on that holds w, or the end of the file.
PositionOf(lex, i, w) ==
    LET P == {j \in i..Len(lex.file) : lex.file[j] = w}
    IN IF P = {} THEN Len(lex.file) + 1 ELSE CHOOSE j \in P : \A k \in P : j <= k

\* The comments that start with the word w at position i are left behind:
\* the word after them, and its position.  The closing token of a comment that
\* ends the file stays in w.
AfterComments(lex, pos, word) ==
    LET after[i \in 1..Len(lex.file) + 2, w \in {EOF} \cup {lex.file[k] : k \in DOMAIN lex.file}] ==
            IF w \in DOMAIN Closing /\ lex.comments
            THEN LET j == PositionOf(lex, i + 1, Closing[w])
                 IN IF j > Len(lex.file) THEN [pos |-> j, word |-> EOF]
                    ELSE after[j + 1, WordAt(lex, j + 1, Closing[w])]
            ELSE [pos |-> i, word |-> w]
    IN after[pos, word]

\* The next word of the file that is not skipped.
Scan(lex) ==
    LET scan[i \in 1..Len(lex.file) + 2] ==
            IF i > Len(lex.file) THEN [pos |-> i, word |-> EOF]
            ELSE LET a == AfterComments(lex, i, lex.file[i])
                 IN IF a.word \in lex.skips THEN scan[a.pos + 1] ELSE a
    IN scan[lex.taken + 1]

MinOf(a, b) == IF a <= b THEN a ELSE b

Taken(lex, s) == [lex EXCEPT !.taken = MinOf(s.pos, Len(lex.file)),
                             !.reads = Append(@, s.word), !.cur = @ + 1]
Get(lex) == Taken(lex, Scan(lex))

\* Lexer::next: the words of the buffer, then the ones of the file.
Buffered(lex) ==
    LET Stop == {i \in lex.cur + 1..Len(lex.reads) :
                    i = Len(lex.reads) \/ lex.reads[i] \notin lex.skips}
    IN [lex EXCEPT !.cur = CHOOSE j \in Stop : \A k \in Stop : j <= k]

NextWord(lex) ==
    IF lex.cur >= Len(lex.reads) THEN Get(lex)
    ELSE LET moved == Buffered(lex)
         IN IF lex.reads[moved.cur] \in lex.skips THEN Get(moved) ELSE moved

\* The word under the cursor.
Word(lex) == IF lex.cur = 0 THEN EOF ELSE lex.reads[lex.cur]

Rewind(lex, nb) == [lex EXCEPT !.cur = IF @ < nb THEN 0 ELSE @ - nb]

Seek(lex, where) == [lex EXCEPT !.cur = where]

-----------------------------------------------------------------------------
CONSTANT Identifiers    \* the words that canVisitIdentifier accepts

Op(op) == [op |-> op]

S(terms)      == [op |-> "seq", terms |-> terms]
Nop           == S(<<>>)
Want(T)       == [op |-> "want", words |-> T]       \* next (T)
Take(T)       == [op |-> "take", words |-> T]       \* consumeIf (T)
Advance       == Op("any")                          \* next ()
Back(n)       == [op |-> "back", nb |-> n]          \* rewind (n)
On(T, a, b)   == [op |-> "on", words |-> T, then |-> a, else |-> b]
Done          == Op("done")                         \* leaves a loop
Loop(T, a, in) == [op |-> "while", words |-> T, body |-> a, in |-> in, from |-> 0]
While(T, a)    == Loop(T, a, TRUE)
WhileNot(T, a) == Loop(T, a, FALSE)
DoUntil(T, a) == S(<<a, WhileNot(T, a)>>)
P(name)       == [op |-> "call", name |-> name, asks |-> FALSE]
Consumes(name) == [op |-> "call", name |-> name, asks |-> TRUE] \* last: did it read a word
Switch(to, a) == [op |-> "switch", to |-> to, else |-> a]
Can(name, a, b) == [op |-> "can", name |-> name, then |-> a, else |-> b]
IfIdent(a, b) == [op |-> "ident", then |-> a, else |-> b]
Attempt(a)    == [op |-> "attempt", body |-> a]     \* try { a } catch { seek }
Mark(a)       == [op |-> "mark", body |-> a]        \* begin = tell (); a
ToMark        == Op("tomark")                       \* seek (begin)
SetFlag(on)   == [op |-> "setflag", on |-> on]      \* a local boolean
OnFlag(a, b)  == [op |-> "onflag", then |-> a, else |-> b]
Halt          == Op("halt")                         \* Error::halt
Raise         == Op("raise")
Build         == Op("build")                        \* a tree that is no block
IsBlock       == Op("isblock")                      \* a tree that is a block
IfBlock(a, b) == [op |-> "block", then |-> a, else |-> b]
Skips(T, on)  == [op |-> "skips", words |-> T, on |-> on]
Comments(on)  == [op |-> "comments", on |-> on]
InTmp(a, b)   == [op |-> "intmp", then |-> a, else |-> b]
SetTmp(on)    == [op |-> "settmp", on |-> on]
Decorators(T) == [op |-> "decos", words |-> T, seen |-> {}]      \* each of T at most once
Balance(open, close) == [op |-> "balance", words |-> open, close |-> close, nb |-> 1]
Quoted(close, bad)   == [op |-> "quoted", words |-> bad, close |-> close, escaping |-> FALSE]

Opt(T, a)       == S(<<Take(T), On(T, a, Nop)>>)
OptElse(T, a, b) == S(<<Take(T), On(T, a, b)>>)
Peek            == S(<<Advance, Back(1)>>)
Raw             == S(<<Skips(Spaces, FALSE), Comments(FALSE)>>)
Cooked          == S(<<Skips(Spaces, TRUE), Comments(TRUE)>>)

-----------------------------------------------------------------------------
(* The parser.  "todo" is what remains to be done: the terms, and the frames *)
(* of the functions, loops and handlers that are open.  "tmp" is the static  *)
(* variable inTmpCall of visitTemplateCall and outlives a file.  The last    *)
(* three fields are only read by properties: "idle" when a loop or a         *)
(* recursion did not consume a word, "disturbed" when a consumeIf that       *)
(* consumed nothing changed the word that follows, "active" the functions    *)
(* that are running and where they started.                                  *)

NewParser(words, tmp, todo) ==
    [lex |-> NewLexer(words), todo |-> <<todo>>, ok |-> TRUE, last |-> EOF, tmp |-> tmp,
     block |-> FALSE, mark |-> 0, flag |-> FALSE, halted |-> FALSE,
     idle |-> FALSE, disturbed |-> FALSE, active |-> {}]

Throw(s) == [s EXCEPT !.ok = FALSE]
Stuck(s) == [s EXCEPT !.ok = FALSE, !.idle = TRUE]
Do(s, t) == [s EXCEPT !.todo = <<t>> \o @]

DefaultNext(lex) ==
    Word(NextWord(CommentEnable(SkipEnable(lex, Spaces, TRUE), TRUE)))

Read(s) == LET l == NextWord(s.lex) IN [s EXCEPT !.lex = l, !.last = Word(l)]

Unread(s, r) == [r EXCEPT !.lex = Rewind(r.lex, 1), !.last = EOF]

\* The functions that give back the tree of a function they call.
Transparent == {"E0", "E1", "E2", "E3", "E4", "E5", "E6", "E7", "E8", "E9",
                "Operand0", "Operand1", "Operand2", "Operand3", "NameOperand",
                "FieldOperand", "Version", "Tuple", "Block"}

\* A call, whose frame keeps what the caller finds again; "asks" when the caller
\* then tests whether the function consumed a word.
CallFunction(G, name, asks, s) ==
    LET here == <<name, s.lex.cur>>
    IN IF here \in s.active THEN Stuck(s)
       ELSE [s EXCEPT !.active = @ \cup {here},
               !.todo = <<G[name], [op |-> "return", name |-> name, asks |-> asks,
                                    from |-> s.lex.cur, last |-> s.last, mark |-> s.mark,
                                    flag |-> s.flag, active |-> s.active]>> \o @]

Return(t, s) ==
    [s EXCEPT !.active = t.active, !.mark = t.mark, !.flag = t.flag,
              !.block = @ /\ t.name \in Transparent,
              !.last = IF ~t.asks THEN t.last
                       ELSE IF s.lex.cur > t.from THEN "some" ELSE EOF]

\* The body is tried, and "failed" is done back from here when it raised an
\* error; otherwise its words are kept, or "done" is done back from here.
Trying(body, done, failed, keep, s) ==
    [s EXCEPT !.todo = <<body, [op |-> "tried", then |-> done, else |-> failed, keep |-> keep,
                                from |-> s.lex.cur, last |-> s.last, block |-> s.block,
                                active |-> s.active, mark |-> s.mark, flag |-> s.flag]>> \o @]

BackTo(t, s) == [s EXCEPT !.lex = Seek(@, t.from), !.ok = TRUE, !.last = t.last,
                          !.block = t.block, !.active = t.active, !.mark = t.mark,
                          !.flag = t.flag]

\* A loop goes on: its body, then the test again.
Turn(t, s) == [s EXCEPT !.todo = <<t.body, [t EXCEPT !.op = "turn", !.from = s.lex.cur]>> \o @]

\* The words up to the one that closes the nb brackets that are open.
Balancing(t, r) ==
    LET n == IF r.last = t.close THEN t.nb - 1
             ELSE IF r.last \in t.words THEN t.nb + 1 ELSE t.nb
    IN IF r.last = EOF THEN Throw(r) ELSE IF n = 0 THEN r
       ELSE Do(r, [t EXCEPT !.nb = n])

\* The words up to a closing quote that is not escaped.
Quoting(t, r) ==
    IF r.last = EOF \/ r.last \in t.words THEN Throw(r)
    ELSE IF r.last = t.close /\ ~t.escaping THEN r
    ELSE Do(r, [t EXCEPT !.escaping = r.last = "\\" /\ ~t.escaping])

Decorated(t, s, r) ==
    IF r.last \in t.words
    THEN Do(r, [t EXCEPT !.words = @ \ {r.last}, !.seen = @ \cup {r.last}])
    ELSE IF r.last \in t.seen THEN Throw(r) ELSE Unread(s, r)

\* consumeIf: what it did not ask for is read again; "disturbed" when that read
\* something else.
Taking(t, s, r, u) ==
    IF r.last \in t.words THEN r
    ELSE [u EXCEPT !.disturbed = @ \/ (~s.lex.comments /\ DefaultNext(u.lex) # DefaultNext(s.lex))]

\* The terms that read a word: r is the parser that has read it.
Reading(t, s, r) ==
    CASE t.op = "any"  -> r
      [] t.op = "want" -> IF r.last \in t.words THEN r ELSE Throw(Unread(s, r))
      [] t.op = "take" -> Taking(t, s, r, Unread(s, r))
      [] t.op = "ident" -> Do([Unread(s, r) EXCEPT !.last = s.last],
                              IF r.last \in Identifiers THEN t.then ELSE t.else)
      [] t.op = "decos" -> Decorated(t, s, r)
      [] t.op = "balance" -> Balancing(t, r)
      [] t.op = "quoted" -> Quoting(t, r)

\* A term is done in the parser s, whose "todo" does not hold it any more.
Perform(G, t, s) ==
    CASE t.op = "seq"  -> [s EXCEPT !.todo = t.terms \o @]
      [] t.op = "call" -> CallFunction(G, t.name, t.asks, s)
      [] t.op = "return" -> Return(t, s)
      [] t.op = "on"   -> Do(s, IF s.last \in t.words THEN t.then ELSE t.else)
      [] t.op = "back" -> [s EXCEPT !.lex = Rewind(@, t.nb)]
      [] t.op = "done" -> [s EXCEPT !.last = EOF]
      [] t.op = "while" -> IF (s.last \in t.words) # t.in THEN s ELSE Turn(t, s)
      [] t.op = "turn" -> IF (s.last \in t.words) # t.in THEN s
                          ELSE IF s.lex.cur <= t.from \/ Word(s.lex) = EOF THEN Stuck(s)
                          ELSE Turn(t, s)
      [] t.op = "switch" -> IF s.last \in DOMAIN t.to
                            THEN CallFunction(G, t.to[s.last], FALSE, s) ELSE Do(s, t.else)
      [] t.op = "can"  -> Trying(P(t.name), t.then, t.else, FALSE, s)
      [] t.op = "attempt" -> Trying(t.body, Nop, Nop, TRUE, s)
      [] t.op = "tried" -> IF t.keep THEN s ELSE Do(BackTo(t, s), t.then)
      [] t.op = "mark" -> [s EXCEPT !.mark = s.lex.cur,
                                    !.todo = <<t.body, [op |-> "unmark", mark |-> s.mark]>> \o @]
      [] t.op = "unmark" -> [s EXCEPT !.mark = t.mark]
      [] t.op = "tomark" -> [s EXCEPT !.lex = Seek(@, s.mark)]
      [] t.op = "setflag" -> [s EXCEPT !.flag = t.on]
      [] t.op = "onflag" -> Do(s, IF s.flag THEN t.then ELSE t.else)
      [] t.op = "raise" -> Throw(s)
      [] t.op = "halt" -> [Throw(s) EXCEPT !.halted = TRUE]
      [] t.op = "build" -> [s EXCEPT !.block = FALSE]
      [] t.op = "isblock" -> [s EXCEPT !.block = TRUE]
      [] t.op = "block" -> Do(s, IF s.block THEN t.then ELSE t.else)
      [] t.op = "skips" -> [s EXCEPT !.lex = SkipEnable(@, t.words, t.on)]
      [] t.op = "comments" -> [s EXCEPT !.lex = CommentEnable(@, t.on)]
      [] t.op = "intmp" -> Do(s, IF s.tmp THEN t.then ELSE t.else)
      [] t.op = "settmp" -> [s EXCEPT !.tmp = t.on]
      [] OTHER -> Reading(t, s, Read(s))

\* An error is raised through the frames, up to the one that tries.
Unwind(t, s) ==
    IF t.op = "tried" /\ ~s.idle /\ ~s.halted THEN Do(BackTo(t, s), t.else) ELSE s

Step(G, s) ==
    LET t == Head(s.todo)
        r == [s EXCEPT !.todo = Tail(@)]
    IN IF s.ok THEN Perform(G, t, r) ELSE Unwind(t, r)

RECURSIVE Steps(_, _, _)

\* 2^n steps, or fewer when nothing is left to be done.
Steps(G, n, s) ==
    IF s.todo = <<>> THEN s
    ELSE IF n = 0 THEN Step(G, s)
    ELSE Steps(G, n - 1, Steps(G, n - 1, s))

\* What has not ended after that many steps never does.
Depth == 16
Ended(s) == IF s.todo = <<>> THEN s ELSE Stuck(s)
Eval(G, s) == Ended(Steps(G, Depth, s))
=============================================================================
