----------------------------- MODULE MCConstants -----------------------------
(***************************************************************************)
(* Instances of CompileTime, of the accesses of RunTime, of Members, of    *)
(* Patterns and of OperatorCalls.                                          *)
(*                                                                         *)
(* NumericPrograms ask for one operation, or two, on the scalars next to   *)
(* the ends of every type; FramePrograms have frames that call each other, *)
(* fail, recurse and are not validated yet when they are called;           *)
(* SlicePrograms and ArrayPrograms ask for the index of an access; the     *)
(* other ones ask what is answered of a type, of a pattern, of an operator *)
(* or of a loop.                                                           *)
(***************************************************************************)
EXTENDS CompileTime, OperatorCalls

Types == {Integer(s, signed) : s \in Sizes, signed \in BOOLEAN}

\* Literals at the ends of a type, and their opposites.
Literals(type) == UNION {Fixed(type, n) : n \in {0, 1, 3, MaxOf(type)}}
Scalars(type) ==
    Literals(type)
    \cup (IF type.signed THEN {Negative(g) : g \in Literals(type) \ Fixed(type, 0)} ELSE {})
Numbers == UNION {Scalars(type) : type \in Types}
Chars == {CharValue(Char(s), c) : s \in Sizes \ {0}, c \in {0, 1, 3}}
Booleans == {BoolValue(b) : b \in BOOLEAN}

Operators == MathInt \cup Logical \cup MathBool
Binaries(by, L, R) == UNION {Validate(b, l, r) : b \in by, l \in L, r \in R}

Singles == Binaries(Operators, Numbers, Numbers) \cup Binaries(Operators, Booleans, Booleans)
CharOperations ==
    {g \in Binaries(Operators, Chars, Chars) :
        g.type = Bool \/ Fits(g.type, Exact(g.by, g.left.v, g.right.v))}

\* Operations whose operands are operations.
Inner(type) == {g \in Binaries({"+", "-", "*", "<<"}, Literals(type), Literals(type)) :
                    g.left.v \in {1, MaxOf(type)}}
Nested == UNION {Binaries({"-", "/", "%", ">>", "<", "=="}, Inner(type), Literals(type)) :
                    type \in {Integer(2, TRUE), Long, ULong}}

Tests == {Not(g) : g \in Booleans} \cup Binaries({"<", "=="}, Literals(Long), Literals(Long))
Conditional(test, content, else) ==
    [op |-> "cond", type |-> Long, test |-> test, content |-> content, else |-> else]
Conditions ==
    {Conditional(t, c, e) : t \in Tests, c \in Fixed(Long, 1),
                            e \in {{}, Fixed(Long, 2), Fixed(Long, MaxOf(Long))}}
    \cup Binaries({"&&", "||", "!="}, Tests, Tests)

Strings == {[op |-> "string", type |-> Void, v |-> s] : s \in {<<>>, <<1>>, <<1, 2>>}}
Concats == {Binary("concat", "~", l, r, Void) : l \in Strings, r \in Strings}

Request(gen) == [gen |-> gen, of |-> "value", len |-> 0]
NumericPrograms ==
    {[frames |-> <<>>, requests |-> <<Request(g)>>] :
        g \in Singles \cup CharOperations \cup Nested \cup Conditions \cup Concats}

-----------------------------------------------------------------------------
One(n)      == CHOOSE g \in Fixed(Long, n) : TRUE
CallOf(f)   == [op |-> "call", type |-> Long, frame |-> f, parameters |-> 0]
CallWith(f) == [CallOf(f) EXCEPT !.parameters = 1]
Plus(l, r)  == CHOOSE g \in Validate("+", l, r) : TRUE
Block(type, content) == [op |-> "block", type |-> type, content |-> content]
Other       == [op |-> "other", type |-> Void]
Effect      == [op |-> "other", type |-> Long]
VarRef(value) == [op |-> "varref", type |-> Long, value |-> value]
If(by, g)   == Conditional(CHOOSE t \in Validate(by, g, One(1)) : TRUE, One(2), {One(3)})

Asks(gens) == [i \in DOMAIN gens |-> Request(gens[i])]

FramePrograms == {
    [frames |-> [f |-> Block(Long, <<One(0), CallOf("f")>>), g |-> One(1)],
     requests |-> Asks(<<CallOf("f"), CallOf("g"), Plus(CallOf("g"), CallOf("g"))>>)],
    [frames |-> [f |-> Plus(CallOf("g"), CallOf("g")), g |-> VarRef({One(1)}), h |-> CallOf("f")],
     requests |-> Asks(<<Plus(CallOf("h"), CallOf("f")), If("<", CallOf("f"))>>)],
    [frames |-> [a |-> CallOf("b"), b |-> CallOf("c"), c |-> CallOf("d"), d |-> One(2)],
     requests |-> Asks(<<CallOf("a"), CallOf("b"), Negative(CallOf("c"))>>)],
    [frames |-> [f |-> Block(Void, <<Other>>), g |-> Plus(One(1), VarRef({})), h |-> One(3)],
     requests |-> Asks(<<CallOf("f"), CallOf("g"), Effect, CallWith("h"), CallOf("h"),
                         Plus(CallOf("h"), CallOf("g")), CallOf("h")>>)],
    [frames |-> [f |-> If("==", CallOf("g")), g |-> If("!=", CallOf("f"))],
     requests |-> Asks(<<CallOf("f"), CallOf("g")>>)],
    [frames |-> [f |-> If(">", CallOf("g")),
                 g |-> CHOOSE q \in Validate("/", One(1), One(0)) : TRUE],
     requests |-> Asks(<<CallOf("f"), CallOf("f")>>)]}

-----------------------------------------------------------------------------
(* The index of an access: a number, a call that another frame answers, a  *)
(* variable, a call that gives another result each time, or a range.       *)

Next1       == [op |-> "next", type |-> ULong]
Variable    == [VarRef({}) EXCEPT !.type = ULong]
RangeOf(l, r) == [op |-> "range", type |-> Void, left |-> l, right |-> r, full |-> BoolValue(FALSE)]
Bounds      == {One(0), One(1), One(2), Negative(One(1)), Variable, Next1}

Accesses(of, gens) ==
    {[frames |-> [f |-> One(1)], requests |-> <<[gen |-> g, of |-> of, len |-> n]>>] :
        g \in gens, n \in 0 .. 3}

Indices == Bounds \cup {CallOf("f"), Plus(One(1), One(1))}
Ranges  == {RangeOf(l, r) : l \in Bounds, r \in Bounds}
SlicePrograms == Accesses("slice", Indices) \cup Accesses("range", Ranges)
                 \cup Accesses("literal", Ranges) \cup Accesses("letter", Indices)
ArrayPrograms == Accesses("array", Indices)

\* The values that an index may have when it is cast to usize, each time that
\* it is computed.
Values(g) ==
    CASE g.op \in {"next", "varref"} -> 0 .. MaxOf(ULong)
      [] OTHER -> {Wrapped(ULong, Meaning(program.frames, g).v.v)}

Computed(g) ==      \* the pairs of results of two computations
    {p \in Values(g) \X Values(g) : g.op # "next" => p[1] = p[2]}

-----------------------------------------------------------------------------
(* Types, and what is asked of them: a name or an index that CompileTime    *)
(* retrieves, or a name that is written.                                   *)

Field(n, type, default) == [name |-> n, type |-> type, mut |-> default = {}, default |-> default]
MCStructs == [
    S |-> <<Field(<<1>>, Integer(2, TRUE), {Part(1, Integer(2, TRUE))}),
            Field(<<2>>, SliceOf(Char(4)), {}), Field(<<1, 2>>, EnumRef("E"), {})>>,
    P |-> <<Field(<<1>>, PointerTo(Bool), {}), Field(<<2>>, Float(4), {})>>,
    N |-> <<Field(<<2>>, StructRef("S"), {}), Field(<<1>>, ArrayOf(StructRef("S"), 2), {}),
            Field(<<1, 2>>, OptionOf(Bool), {Part("null", OptionOf(Bool))})>>,
    V |-> <<>>,
    T |-> <<Field(<<1>>, Bool, {}), Field(<<2>>, Bool, {Part(TRUE, Bool)}), Field(<<1, 2>>, Bool, {})>>]

Member(n, v) == [name |-> Name(n, FALSE), value |-> v]
MCEnums == [
    E |-> [inner |-> Integer(2, TRUE), members |-> <<Member("X", 1), Member("members", -1)>>],
    F |-> [inner |-> PointerTo(Bool), members |-> <<Member("X", "x")>>]]

Marked(n, prot) == [name |-> n, type |-> Bool, mut |-> TRUE, prot |-> prot]
Method(n, prot, by) == [name |-> n, prot |-> prot, by |-> by, override |-> FALSE, template |-> FALSE]
Overrides(m) == [m EXCEPT !.override = TRUE]
Generic(m)   == [m EXCEPT !.template = TRUE]
Class(anc, fields, methods, csts) ==
    [ancestor |-> anc, fields |-> fields, methods |-> methods, constructors |-> csts]
Cst(n, prot) == [name |-> n, prot |-> prot]
MCClasses == [
    A |-> Class(NoClass, <<Marked("u", "prv"), Marked("v", "prot"), Marked("w", "pub")>>,
                <<Method("f", "prv", "A.f"), Method("g", "prot", "A.g"),
                  Generic(Method("h", "prv", "A.h")), Generic(Method("i", "prot", "A.i"))>>,
                {Cst("", "prot"), Cst("k", "prv")}),
    B |-> Class("A", <<Marked("x", "pub"), Marked("y", "prv")>>,
                <<Overrides(Method("g", "prot", "B.g")), Method("f", "prv", "B.f"),
                  Method("g", "pub", "B.gg")>>, {Cst("", "pub"), Cst("k", "prv")}),
    C |-> Class("B", <<Marked("z", "prot")>>, <<Method("f", "pub", "C.f")>>, {Cst("", "prv")}),
    D |-> Class("A", <<>>, <<Generic(Method("g", "pub", "D.g"))>>, {}),
    O |-> Class(NoClass, <<>>, <<>>, {}),
    H |-> Class("O", <<Marked("v", "pub")>>, <<>>, {}),
    X |-> Class(NoClass, <<Marked("u", "prv")>>, <<>>, {}),
    Y |-> Class("X", <<Marked("v", "pub")>>, <<>>, {}),
    Z |-> Class("Y", <<>>, <<>>, {}),
    W |-> Class("X", <<>>, <<>>, {})]

AllTypes ==
    Types \cup {Bool, Char(4), Float(4), EnumRef("E"), EnumRef("F"), ClassPtr("C"), ClassProxy("A"),
               PointerTo(Bool), SliceOf(OptionOf(Bool)), OptionOf(Bool), ArrayOf(EnumRef("E"), 2),
               ArrayOf(ClassPtr("B"), 0), RangeType(Long), TupleType(<<>>)}
    \cup {StructRef(s) : s \in DOMAIN MCStructs}
    \cup {TupleType(<<a, b>>) : a, b \in {Bool, StructRef("N"), StructRef("P"), PointerTo(RangeType(Long))}}
AllNames ==
    {Name(b, w) : b \in {"init", "min", "max", "nan", "inner", "len", "arity", "err", "members", "super",
                         "new", "k", "typeid", "typeinfo", "X", "other"}, w \in BOOLEAN}

Contexts == DOMAIN MCClasses \cup {NoClass}
Question(g, subject) ==
    [frames |-> [f |-> One(1)], requests |-> <<[gen |-> g, of |-> "members", len |-> 0, subject |-> subject]>>]
Fact(subject) == Question(BoolValue(TRUE), subject)

NameGens == Strings \cup {g \in Concats : Len(g.left.v) + Len(g.right.v) <= 2}
MemberPrograms ==
    {Question(g, [is |-> "struct", name |-> s]) : g \in NameGens, s \in DOMAIN MCStructs}
    \cup {Question(g, t) : g \in Indices, t \in {u \in AllTypes : u.is = "tuple"}}
    \cup {Fact([is |-> "context", class |-> c, context |-> k, proxy |-> p]) :
            c \in DOMAIN MCClasses, k \in Contexts, p \in BOOLEAN}
    \cup {Fact([is |-> "part", type |-> t, context |-> k, name |-> n]) :
            t \in AllTypes, k \in {NoClass, "B"}, n \in AllNames}
    \cup {Fact([is |-> "enum", name |-> e]) : e \in DOMAIN MCEnums}

-----------------------------------------------------------------------------
(* Matches and catches: a subject, and one arm or more.                    *)

Anything              == [p |-> "any"]
Constant(v, type)   == [p |-> "value", v |-> v, type |-> type]
Between(l, h, type) == [p |-> "range", low |-> l, high |-> h, type |-> type]
Either(l, r)     == [p |-> "or", left |-> l, right |-> r]
Var(n, types, of) == [p |-> "var", name |-> n, types |-> types, pattern |-> of]
List(paren, in)  == [p |-> "list", paren |-> paren, in |-> in]
CallPattern(type, in)  == [p |-> "call", type |-> type, in |-> in]
Unnamed(p)       == [name |-> {}, pattern |-> p]
WithName(n, p)   == [name |-> {n}, pattern |-> p]

Small == Integer(2, TRUE)
ValuesOf(type) ==
    CASE type = Bool  -> {ScalarValue(b) : b \in BOOLEAN}
      [] type = Small -> {ScalarValue(v) : v \in MinOf(Small) .. MaxOf(Small)}
      [] type.is \in {"tuple", "array", "struct"} ->
            LET n == CASE type.is = "tuple" -> Len(type.inners) [] type.is = "array" -> type.len
                       [] OTHER -> Len(Structs[type.name])
            IN  {PartsValue([i \in 1 .. n |-> ScalarValue(f[i])]) : f \in [1 .. n -> BOOLEAN]}
      [] type.is = "class" ->
            {ObjectValue(c, [n \in {"u", "v"} |-> ScalarValue(b)]) :
                c \in {d \in DOMAIN Classes : IsHeir(d, type.name)}, b \in BOOLEAN}
      [] type.is = "option" ->
            {OptionValue(TRUE, ScalarValue(b)) : b \in BOOLEAN}
            \cup {OptionValue(FALSE, NullValue), OptionValue(FALSE, ObjectValue("Y", [v |-> ScalarValue(TRUE)]))}

BoolPatterns == {Anything, Constant(TRUE, Bool), Constant(FALSE, Bool), Var("n", {}, {})}
PatternsOf(type) ==
    CASE type = Bool  -> BoolPatterns \cup {Either(Constant(FALSE, Bool), Constant(TRUE, Bool)), Constant(1, Small)}
      [] type = Small ->
            {Anything, Constant(0, Small), Constant(1, Small), Between(-1, 1, Small), Between(-2, -1, Small),
             Either(Constant(0, Small), Between(-2, -1, Small)), Var("n", {Small}, {}),
             Var("n", {}, {Between(0, 1, Small)}), Var("_", {Bool}, {})}
      [] type.is = "tuple" -> {Anything, List(FALSE, <<Anything, Anything>>)} \cup {List(TRUE, <<a, b>>) : a, b \in BoolPatterns}
      [] type.is = "array" ->
            {Anything, List(TRUE, <<Anything>>)} \cup {List(FALSE, <<a>>) : a \in BoolPatterns} \cup {List(FALSE, <<Anything, Anything>>)}
      [] type.is = "struct" ->
            {Anything, CallPattern(type, <<>>)} \cup
            {CallPattern(t, <<Unnamed(a), b>>) : t \in {Void, type, Bool}, a \in {Anything, Constant(TRUE, Bool)},
                 b \in {Unnamed(Var("n", {}, {})), WithName(<<2>>, Constant(TRUE, Bool)), WithName(<<1>>, Var("n", {Bool}, {}))}}
      [] type.is = "option" ->
            {Anything, CallPattern(Ok, <<>>), CallPattern(Err, <<>>), CallPattern(Void, <<>>), CallPattern(Ok, <<WithName("error", Anything)>>)}
            \cup {CallPattern(Ok, <<Unnamed(a)>>) : a \in BoolPatterns}
            \cup {CallPattern(Err, <<WithName("error", a)>>) :
                     a \in {Anything, Var("n", {ClassPtr("Y")}, {}),
                            CallPattern(ClassPtr("Y"), <<WithName("v", Constant(TRUE, Bool))>>)}}
      [] OTHER ->
            {Anything, Var("n", {}, {}), Var("n", {ClassPtr("Y")}, {Anything}), CallPattern(Void, <<>>)}
            \cup UNION {{Var("n", {c}, {}), CallPattern(c, <<>>), CallPattern(c, <<WithName("v", Constant(TRUE, Bool))>>),
                         CallPattern(c, <<WithName("v", Var("n", {}, {}))>>)} :
                           c \in {ClassPtr(d) : d \in IF type.name = "O" THEN {"H", "Y"} ELSE {"X", "Y", "Z"}}}

Arms(patterns, types, returns) ==
    {[pattern |-> p, type |-> t, returns |-> r] : p \in patterns, t \in types, r \in returns}

Subjects ==
    {Subject(t, {}) : t \in {Bool, Small, TupleType(<<Bool, Bool>>), TupleType(<<>>), ArrayOf(Bool, 0),
                             ArrayOf(Bool, 1), ArrayOf(Bool, 2), StructRef("T"), OptionOf(Bool), ClassPtr("O"),
                             ClassPtr("H"), ClassPtr("X"), ClassPtr("Y")}}
    \cup {Subject(Bool, {b}) : b \in BOOLEAN}

MayThrow == {<<ClassPtr("Y")>>, <<ClassPtr("Z"), ClassPtr("Y")>>, <<ClassPtr("Y"), ClassPtr("Z")>>,
             <<ClassPtr("Y"), ClassPtr("W")>>, <<ClassPtr("X"), ClassPtr("H")>>}
Caughts == PatternsOf(ClassPtr("X")) \cup {Var("n", {}, {CallPattern(ClassPtr("Y"), <<>>)}), Constant(1, Small)}

\* The arms that may come after the one of the subject.
ArmsAfter(q) ==
    CASE q.is = "catch" -> Arms(Caughts, {Void}, {FALSE})
      [] q.is = "match" /\ q.of.type = Small ->
            Arms(PatternsOf(Small), {Void, Long, ClassPtr("X"), ClassPtr("Y"), ClassPtr("Z")}, BOOLEAN)
      [] OTHER -> Arms(PatternsOf(q.of.type), {Long}, BOOLEAN)

Starts == {[is |-> "match", of |-> s, final |-> f] : s \in Subjects, f \in BOOLEAN}
          \cup {[is |-> "catch", possible |-> t] : t \in MayThrow}
PatternPrograms == UNION {{Fact([arm |-> a] @@ q) : a \in ArmsAfter(q)} : q \in Starts}

-----------------------------------------------------------------------------
(* Operands, and the overloads that a program may have for them.           *)

A == ClassPtr("A")
T == StructRef("T")

Overload(name, by, takes, gives) ==
    [name |-> name, by |-> by, method |-> takes[1].is = "class", final |-> FALSE,
     takes |-> takes, gives |-> gives]

Both(name, by, other, gives) == {Overload(name, by, <<of, other>>, gives) : of \in {A, T}}
CoreCmp == {Overload("core::array::opCmp", "", <<SliceOf(Bool), SliceOf(Bool)>>, Small)}

OverloadSets == {
    {},
    CoreCmp \cup Both("opBinary", "+", Small, Small) \cup Both("opBinaryRight", "+", Small, Small)
        \cup Both("opBinary", "^^", A, T) \cup Both("opBinaryRight", "^^", T, A)
        \cup Both("opEquals", "", Small, Bool) \cup Both("opCmp", "", T, Small)
        \cup Both("opContain", "", Small, Bool) \cup Both("opIndex", "", Small, Small)
        \cup {Overload("opIndexAssign", "", <<A, Small, Small>>, Void),
              Overload("opUnaryAssign", "*", <<A, Small>>, Void)}
        \cup {Overload("opUnary", by, <<A>>, Small) : by \in {"-", "*"}},
    {[o EXCEPT !.final = TRUE] :
        o \in Both("opEquals", "", A, Small) \cup Both("opCmp", "", A, Small)
             \cup Both("opBinary", "-", A, A) \cup Both("opBinary", "-", ClassPtr("B"), A)},
    Both("opBinaryRight", "*", Small, A) \cup Both("opCmp", "", Small, ULong)
        \cup Both("opEquals", "", T, Bool),
    Both("opCmp", "", Small, Float(4)) \cup Both("opEquals", "", Small, Bool)}

\* What an object that can be iterated has: an iterator of class C, and an end.
Cursor == ClassPtr("C")
Iterations(compare) == {
    Overload("begin", "", <<A>>, Cursor), Overload("end", "", <<A>>, Cursor),
    Overload(compare.name, "", <<Cursor, Cursor>>, compare.gives),
    Overload("get", "0", <<Cursor>>, Small), Overload("get", "1", <<Cursor>>, A),
    Overload("next", "", <<Cursor>>, Void)}
IterationSets == UNION {
    {o, o \cup {Overload("dispose", "", <<Cursor>>, Void)}} :
        o \in {Iterations([name |-> "opEquals", gives |-> Bool]),
                   Iterations([name |-> "opCmp", gives |-> Small]),
                   Iterations([name |-> "opCmp", gives |-> Bool])}}

Leaf(id, type, level) == [op |-> "operand", type |-> type, id |-> id, level |-> level]
Leaves(id) ==
    {Leaf(id, t, 0) : t \in {Small, ULong, Bool, Char(4), Float(4), PointerTo(Bool), A, ClassPtr("B"), T}}
    \cup {Leaf(id, t, n) : t \in {SliceOf(Bool), ArrayOf(Bool, 2), SliceOf(Small)}, n \in {1, 2}}
Nulls == {[op |-> "null", type |-> PointerTo(Void), id |-> "b", level |-> 0]}

AllOperators == MathOps \cup Logical \cup {"&&", "||", "is", "!is", "in", "!in", "..", "..."}
Unaries      == {"!", "-", "*"}
Assigns      == {"=", "+", "-", "*", "/", "~", "<<", ">>"}

Target(form, of, type, place) ==
    [form |-> form, of |-> of, type |-> type, place |-> place,
     at |-> IF form = "index" THEN <<Leaf("i", Small, 0)>> ELSE <<>>]
TargetsOf(of) ==
    {Target(form, of, type, place) : form \in {"plain", "index", "deref"}, type \in {Small, Bool},
                                     place \in {"mutable", "const", "self", "none"}}

OperatorPrograms == {Fact([is |-> "operator", left |-> l]) : l \in Leaves("a")}
LoopPrograms ==
    {Fact([is |-> "range", type |-> t]) : t \in Types \cup {Char(2)}}
    \cup {Fact([is |-> "row", type |-> t]) : t \in {SliceOf(Bool), ArrayOf(Bool, 2), TupleType(<<>>)}}
    \cup {Fact([is |-> "object", overloads |-> o]) : o \in IterationSets}
    \cup {Fact([is |-> "variable", type |-> t, level |-> n]) : t \in {ULong, Small, A}, n \in 0 .. 2}

Decls == {[type |-> t, deco |-> d] :
            t \in {{}, {Small}, {ULong}, {A}, {ClassPtr("B")}}, d \in {"", "mut", "ref"}}

LoopDecls == {<<>>} \cup {<<d>> : d \in Decls} \cup {<<c, d>> : c, d \in Decls}

-----------------------------------------------------------------------------
Asked == program.requests[served]
Answered == served > 0 /\ calls = <<>>

\* The elements that the code of the access can touch.
Touched(request) ==
    LET g == request.gen   n == request.len   known == outcome.is = "value"
    IN  CASE request.of \in {"value", "members"} -> {}
          [] request.of = "array" ->
                IF known THEN AccessKnown(n, outcome.v.v)
                ELSE UNION {ValidateArray(n, p[1], p[2]) : p \in Computed(g)}
          [] request.of = "letter" /\ known -> AccessKnown(n, outcome.v.v)
          [] request.of \in {"slice", "letter"} ->
                UNION {ValidateSlice(n, i) : i \in Values(g)}
          [] request.of = "literal" /\ known ->
                LiteralRange(n, outcome.v.left.v, outcome.v.right.v)
          [] OTHER ->
                UNION {ValidateRange(n, l, r) : l \in Values(g.left), r \in Values(g.right)}

-----------------------------------------------------------------------------
(* Properties.                                                             *)

\* A value that the compiler retrieves is the one that the code of the same
\* generator computes when it runs, wherever that is defined: folding never
\* changes what a program means, whatever frame it goes through, whatever was
\* validated or failed before and next to whichever end of a type.
FoldAgrees ==
    (Answered /\ outcome.is = "value" /\ Asked.of = "value") =>
        LET r == Meaning(program.frames, Asked.gen)
        IN  r.is # "undefined" => (r.is = "value" /\ r.v = outcome.v)

\* The code of an access to a slice or to a range of one only touches elements
\* of the slice, whatever its index is when the code runs: the accesses that
\* the compiler does not test are those that it has computed.  The access to an
\* array, whose index is computed once more after its test, which lets the
\* length through, goes no further than that when the index does not change.
AccessesAreGuarded ==
    Answered =>
        /\ Asked.of \in {"slice", "range", "literal", "letter"} =>
              Touched(Asked) \subseteq 0 .. Asked.len - 1
        /\ Asked.of = "array" /\ Asked.gen # Next1 => Touched(Asked) \subseteq 0 .. Asked.len

\* What a type has inside is answered alike by whoever asks: an access, a part
\* of a type and a pragma; code only reaches the fields, the methods and the
\* constructors that are declared for it; and a part of a type is of its type.
MembersAreRight ==
    (Answered /\ Asked.of = "members") =>
        LET q == Asked.subject
        IN  CASE q.is = "struct" -> outcome.is = "value" => StructPragmasAgree(q.name, outcome.v.v)
              [] q.is = "tuple" -> outcome.is = "value" => IndexIsGuarded(q, outcome.v.v)
              [] q.is = "enum" -> EnumPragmasAgree(q.name)
              [] q.is = "part" -> PartsAreRight(q.context, q.type, q.name)
              [] q.is = "context" ->
                    /\ FieldsAreGuarded(q.context, q.class, q.proxy)
                    /\ MethodsAreGuarded(q.context, q.class, q.proxy)
                    /\ ConstructorsAreGuarded(q.context, q.class)
                    /\ ProxiesAreGuarded(q.context, q.class, q.proxy)
                    /\ ClassPragmasAgree(q.context, q.class, q.proxy)
              [] OTHER -> TRUE

\* The tests that the validator makes of the patterns of a match, or of a catch,
\* find for every value the first arm that it fits, and one that must end in an
\* arm does, whatever the value.
PatternsDecide ==
    (Answered /\ Asked.of = "members" /\ Asked.subject.is \in {"match", "catch"}) =>
        LET q == Asked.subject
            values == IF q.is = "catch" THEN ValuesOf(ClassPtr("X"))
                      ELSE IF q.of.known = {} THEN ValuesOf(q.of.type)
                      ELSE {ScalarValue(v) : v \in q.of.known}
        IN  \A rest \in {<<>>} \cup {<<a>> : a \in ArmsAfter(q)} :
                IF q.is = "catch" THEN CatchDecides(q.possible, <<q.arm>> \o rest, values)
                ELSE MatchDecides(q.of, <<q.arm>> \o rest, q.final, values)

\* The operators, the assignments and the loops do what they mean, whichever of
\* the operations of the machine and of the overloads they are made of.
OperationsAreRight ==
    (Answered /\ Asked.of = "members") =>
        LET q == Asked.subject
        IN  CASE q.is = "operator" ->
                    \A overloads \in OverloadSets :
                        /\ \A by \in Unaries : UnaryIsRight(overloads, by, q.left)
                        /\ \A by \in AllOperators, r \in Leaves("b") \cup Nulls : OperatorIsRight(overloads, by, q.left, r)
                        /\ \A by \in Assigns, target \in TargetsOf(q.left), r \in Leaves("b") :
                              AssignmentIsRight(overloads, by, target, r)
              [] q.is = "range" -> RangeIsRight(q.type)
              [] q.is = "row" -> RowIsRight(q.type)
              [] q.is = "object" ->
                    \A disposable \in SUBSET {Cursor}, n \in 0 .. 2, decls \in LoopDecls :
                        ObjectLoopIsRight(q.overloads, disposable, Leaf("a", A, 0), decls, n)
              [] q.is = "variable" ->
                    \A decl \in Decls : LoopVariablesAreRight(decl, q.type, q.level)
              [] OTHER -> TRUE

AllPrograms ==
    OperatorPrograms \cup LoopPrograms \cup PatternPrograms \cup MemberPrograms \cup NumericPrograms \cup FramePrograms \cup SlicePrograms
    \cup ArrayPrograms
=============================================================================
