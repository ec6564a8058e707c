------------------------------- MODULE RunTime -------------------------------
(***************************************************************************)
(* What the code that generator::Visitor makes of a generator computes.    *)
(* The result is a value, or an exit (a return or a throw), or "undefined"  *)
(* where the machine or the language that it is compiled to promises       *)
(* nothing: a result that a signed type cannot hold, a division by zero,   *)
(* a count of a shift that is outside of its type, a recursion without end. *)
(*                                                                         *)
(* "next" is a call whose results nobody knows: another at each call.      *)
(***************************************************************************)
EXTENDS IntegerFolding, Sequences, SequencesExt

CONSTANTS Depth         \* the calls that a reference evaluation follows

Defined(v)  == [is |-> "value", v |-> v]
Returned(v) == [is |-> "returned", v |-> v]
Thrown      == [is |-> "thrown"]
Undefined   == [is |-> "undefined"]

\* Tree::binary converts the narrower operand to the type of the wider one.
WiderType(l, r) == IF Width(l) >= Width(r) THEN l ELSE r

OnIntegers(g, a, b) ==
    LET in == WiderType(g.left.type, g.right.type)
        exact == Exact(g.by, a, b)
    IN  IF \/ g.by \in {"/", "%"} /\ b = 0
           \/ g.by \in {"<<", ">>"} /\ ~(b >= 0 /\ b < Width(in))
        THEN Undefined
        ELSE IF in.signed /\ ~Fits(g.type, exact)
        THEN Undefined
        ELSE Defined(FixedValue(g.type, Wrapped(g.type, Wrapped(in, exact))))

Negated(g, a) ==
    IF g.type.signed /\ ~Fits(g.type, - a) THEN Undefined
    ELSE Defined(FixedValue(g.type, Wrapped(g.type, - a)))

OnChars(g, a, b) ==
    Defined(CharValue(g.type,
                      Wrapped(g.type, Wrapped(WiderType(g.left.type, g.right.type),
                                              Exact(g.by, a, b)))))

OnBooleans(g, a, b) ==
    CASE g.by = "&&" -> a /\ b
      [] g.by = "||" -> a \/ b
      [] OTHER -> Compared(g.by, a, b)

OnOperands(g, a, b) ==
    CASE g.op = "binbool" -> Defined(BoolValue(OnBooleans(g, a, b)))
      [] g.op = "concat" -> Defined([g.left EXCEPT !.v = a \o b])
      [] g.type = Bool -> Defined(BoolValue(Compared(g.by, a, b)))
      [] g.op = "binint" -> OnIntegers(g, a, b)
      [] g.op = "binchar" -> OnChars(g, a, b)

RECURSIVE Run(_, _, _)

\* The contents of a block one after the other, until one of them exits.
RunBlock(frames, content, depth) ==
    LET runs == [i \in DOMAIN content |-> Run(frames, content[i], depth)]
        exits == {i \in DOMAIN content : runs[i].is # "value"}
    IN  IF exits = {} THEN runs[Len(content)] ELSE runs[Min(exits)]

\* The value of a frame is what it returns, or the value of its body.
RunFrame(frames, f, depth) ==
    IF depth = 0 THEN Undefined
    ELSE LET r == Run(frames, frames[f], depth - 1)
         IN  IF r.is = "returned" THEN Defined(r.v) ELSE r

Run(frames, g, depth) ==
    CASE g.op \in {"fixed", "bool", "char", "string"} -> Defined(g)
      [] g.op \in {"binint", "binchar", "binbool", "concat"} ->
            LET l == Run(frames, g.left, depth)
                r == Run(frames, g.right, depth)
            IN  IF l.is # "value" \/ (g.by = "&&" /\ ~l.v.v) THEN l
                ELSE IF r.is # "value" THEN r
                ELSE OnOperands(g, l.v.v, r.v.v)
      [] g.op = "unaint" ->
            LET r == Run(frames, g.who, depth)
            IN  IF r.is # "value" THEN r ELSE Negated(g, r.v.v)
      [] g.op = "unabool" ->
            LET r == Run(frames, g.who, depth)
            IN  IF r.is # "value" THEN r ELSE Defined(BoolValue(~r.v.v))
      [] g.op = "cond" ->
            LET t == Run(frames, g.test, depth)
            IN  IF t.is # "value" THEN t
                ELSE IF t.v.v THEN Run(frames, g.content, depth)
                ELSE IF g.else = {} THEN Defined([op |-> "none"])
                ELSE Run(frames, CHOOSE e \in g.else : TRUE, depth)
      [] g.op = "block" -> RunBlock(frames, g.content, depth)
      [] g.op = "unique" -> Run(frames, g.value, depth)
      [] g.op = "varref" /\ g.value # {} ->
            Run(frames, CHOOSE v \in g.value : TRUE, depth)
      [] g.op = "call" /\ g.parameters = 0 -> RunFrame(frames, g.frame, depth)
      [] g.op = "return" ->
            LET r == Run(frames, g.value, depth)
            IN  IF r.is = "value" THEN Returned(r.v) ELSE r
      [] g.op = "throw" -> Thrown
      [] OTHER -> Undefined

Meaning(frames, g) == Run(frames, g, Depth)

-----------------------------------------------------------------------------
(* BracketVisitor: the access to an element or to a range of an array, of  *)
(* a slice and of a string literal.  An index that CompileTime knows is    *)
(* tested by the compiler, and the access has no test; any other one is    *)
(* tested by the code that is generated.                                   *)
(*                                                                         *)
(* An index is a number once it is cast to usize.  That of a slice is      *)
(* computed once (UniqValue), that of an array once for the test and once  *)
(* for the access; "first" and "second" are the results of the two.        *)

\* The element that is accessed when the compiler retrieves the index of an
\* array or of a literal; none when it refuses the access.
AccessKnown(len, index) ==
    IF Wrapped(ULong, index) < len THEN {Wrapped(ULong, index)} ELSE {}

\* validateArray, when the index is not known: `len < index` throws.
ValidateArray(len, first, second) ==
    IF len < first THEN {} ELSE {second}

\* validateSlice with an index: `len <= index` throws.
SliceWithInf(len, index) ==
    IF len < index THEN {} ELSE {index}
ValidateSlice(len, index) ==
    IF len <= index THEN {} ELSE {index}

\* validateSlice with a range: the elements of the slice that it makes, whose
\* length is the difference of the bounds.
TestOrder(left, right) == right < left
ValidateRange(len, left, right) ==
    IF TestOrder(left, right) \/ len < left \/ len < right THEN {}
    ELSE {left + k : k \in 0 .. Wrapped(ULong, right - left) - 1}

\* validateStringLiteral with a range that the compiler knows: neither its step
\* nor whether it holds its last bound is looked at.
LiteralRange(len, left, right) ==
    LET from == Wrapped(ULong, left)   to == Wrapped(ULong, right)
    IN  IF from < to /\ to <= len THEN from .. to - 1 ELSE {}
=============================================================================
