----------------------------- MODULE MCTemplates -----------------------------
(* Programs for TemplateCalls, a reference for the specialisation of a       *)
(* template, and the properties.                                             *)
EXTENDS TemplateCalls

MCAncestor == [c \in {"Base", "Derived", "Other", "Exception"} |-> IF c = "Derived" THEN "Base" ELSE ""]
MCImpl     == [c \in {"Base", "Derived", "Other", "Exception"} |-> IF c = "Base" THEN {"Show"} ELSE {}]
MCAlias    == [a \in {"P"} |-> ClassPtr("Base")]

\* How the text of a program writes types, and the parameters of a template.
Addr(e)     == Expression("addr", "", <<e>>, <<>>)
TryOf(e)    == Expression("try", "", <<e>>, <<>>)
SliceOf(e)  == Expression("slice", "", <<e>>, <<>>)
PairOf(es)  == Expression("tuple", "", es, <<>>)
ArrOf(e, n) == Expression("arr", "", <<e, n>>, <<>>)
FnOf(r, es) == Expression("func", "", <<r>> \o es, <<>>)
DgOf(r, es) == Expression("dg", "", <<r>> \o es, <<>>)
TCall(n, es) == Expression("tcall", n, es, <<>>)
Size(n)     == Fixed(n, Prim("u64"))

Param(k, n, es) == Expression(k, n, es, <<>>)
Of(n, e)        == Param("of", n, <<e>>)
Over(n, e)      == Param("over", n, <<e>>)
Implementing(n, e) == Param("impl", n, <<e>>)
Value(n, e)     == Param("value", n, <<e>>)
Default(n, es, v) == Expression("value", n, es, <<v>>)
Literal(n, v)   == Expression("lit", n, <<>>, <<v>>)

I32 == Var("i32")
U64 == Var("u64")
T == Var("T")
U == Var("U")
V == Var("V")
BaseP    == Addr(Var("Base"))
DerivedP == Addr(Var("Derived"))
OtherP   == Addr(Var("Other"))

\* Functions, their parameters and their calls.
Arg(e)      == [n |-> "", t |-> e]
Args(es)    == [i \in DOMAIN es |-> Arg(es[i])]
Calls(nm, es)       == [nm |-> nm, steps |-> <<>>, args |-> Args(es)]
With(nm, steps, es) == [nm |-> nm, steps |-> steps, args |-> Args(es)]
Pars(es)    == [i \in DOMAIN es |-> [n |-> <<"a", "b", "c">>[i], t |-> es[i], def |-> <<>>]]
Fn(id, nm, params, es, body) ==
    [id |-> id, nm |-> nm, params |-> params, test |-> <<>>, args |-> Pars(es), body |-> body, wrong |-> FALSE]
Wrong(f)    == [f EXCEPT !.wrong = TRUE]
WithTest(f, vals, params) == [f EXCEPT !.test = <<[vals |-> vals, params |-> params]>>]
Main(calls) == Fn(0, "main", <<>>, <<>>, calls)

\* One type of each kind.
SomeTypes == <<I32, U64, BaseP, DerivedP, OtherP, Addr(I32), SliceOf(I32), PairOf(<<I32, U64>>),
               ArrOf(I32, Wrap(Size("3"))), TryOf(I32), FnOf(U64, <<I32>>), DgOf(U64, <<I32>>),
               TCall("S", <<I32>>), TCall("Range", <<I32>>)>>

\* A template of one parameter is called with each type.
OnEach(params, e) ==
    {Fn(1, "f", params, <<e>>, <<>>), Main([i \in DOMAIN SomeTypes |-> Calls("f", <<SomeTypes[i]>>)])}

Singles ==
    {OnEach(<<T>>, e) : e \in {T, Addr(T), SliceOf(T), TryOf(T), ArrOf(T, Wrap(Size("3"))), TCall("S", <<T>>),
                               TCall("Range", <<T>>), FnOf(U64, <<T>>), FnOf(T, <<I32>>), PairOf(<<T, U64>>)}}
    \cup {OnEach(<<Of("T", e)>>, T) : e \in {I32, BaseP, DerivedP, SliceOf(I32), Var("P"), FnOf(U64, <<I32>>)}}
    \cup {OnEach(<<Of("T", e), U>>, T) : e \in {U, Addr(U), SliceOf(U), TryOf(U), PairOf(<<U, U64>>),
                                               TCall("S", <<U>>), FnOf(U64, <<U>>)}}
    \cup {OnEach(<<U, Of("T", e)>>, T) : e \in {U, Addr(U), SliceOf(U)}}
    \cup {OnEach(<<Over("T", BaseP)>>, T), OnEach(<<Over("T", U), U>>, T),
          OnEach(<<Implementing("T", Var("Show"))>>, T), OnEach(<<Implementing("T", Var("Show"))>>, Addr(T)),
          OnEach(<<Param("struct", "T", <<>>)>>, T), OnEach(<<Param("class", "T", <<>>)>>, T),
          OnEach(<<Param("class", "T", <<>>)>>, Addr(T)), OnEach(<<Param("alias", "T", <<>>)>>, T),
          OnEach(<<Param("variadic", "T", <<>>)>>, T), OnEach(<<Param("variadic", "T", <<>>)>>, PairOf(<<T>>)),
          OnEach(<<Param("variadic", "T", <<>>), U>>, FnOf(U, <<T>>)),
          OnEach(<<T, Value("n", U64)>>, ArrOf(T, Var("n"))),
          OnEach(<<Of("T", ArrOf(U, Var("n"))), U, Value("n", U64)>>, T),
          OnEach(<<T, U>>, PairOf(<<T, U>>)), OnEach(<<T>>, PairOf(<<T, T>>))}

\* Two parameters, in the two orders; the second type is known, or is not,
\* when the first one is matched.
TwoArguments == <<Calls("f", <<I32, I32>>), Calls("f", <<I32, U64>>), Calls("f", <<BaseP, DerivedP>>),
                  Calls("f", <<DerivedP, BaseP>>), Calls("f", <<Addr(I32), I32>>), Calls("f", <<I32, Addr(I32)>>),
                  Calls("f", <<SliceOf(I32), I32>>), Calls("f", <<I32, PairOf(<<I32, U64>>)>>),
                  Calls("f", <<PairOf(<<Addr(U64), U64>>), U64>>), Calls("f", <<Addr(I32), SliceOf(U64)>>),
                  Calls("f", <<I32, I32, U64>>), Calls("f", <<I32>>)>>
Shapes  == {T, U, Addr(T), Addr(U), SliceOf(U), PairOf(<<T, U>>)}
Doubles ==
    {{Fn(1, "f", c[1], c[2], <<>>), Main(TwoArguments)} :
        c \in ({<<T, U>>, <<Of("T", Addr(U)), U>>, <<U, Of("T", U)>>, <<Of("T", SliceOf(U)), U>>, <<Over("T", U), U>>}
               \X {<<e, g>> : e \in Shapes, g \in Shapes})
              \cup {<<<<T>>, <<T, T>>>>, <<<<T>>, <<Addr(T), T>>>>, <<<<T>>, <<T, Addr(T)>>>>,
                    <<<<Of("T", BaseP), Of("U", Var("P"))>>, <<T, U>>>>}
              \cup {<<<<Param("variadic", "T", <<>>)>>, es>> : es \in {<<T>>, <<I32, T>>, <<T, I32>>, <<T, T>>}}}

\* What is written in !{}: types and values, in one or several steps.
Three == Wrap(Size("3"))
Explicits ==
    {{Fn(1, "f", <<T, U>>, <<T, U>>, <<>>),
      Main(<<With("f", <<<<I32>>>>, <<I32, U64>>), With("f", <<<<I32, U64>>>>, <<I32, U64>>),
             With("f", <<<<I32>>, <<U64>>>>, <<I32, U64>>), With("f", <<<<U64>>>>, <<I32, U64>>),
             With("f", <<<<I32, I32, I32>>>>, <<I32, I32>>)>>)},
     {Fn(1, "f", <<T, U>>, <<Addr(T), U>>, <<>>), Main(<<With("f", <<<<I32>>>>, <<Addr(I32), U64>>)>>)},
     {Fn(1, "f", <<T, U, V>>, <<V>>, <<>>),
      Main(<<With("f", <<<<I32>>, <<U64>>>>, <<I32>>), With("f", <<<<U64>>, <<U64>>>>, <<I32>>),
             With("f", <<<<U64, U64>>>>, <<I32>>), With("f", <<<<I32>>, <<I32>>, <<I32>>>>, <<I32>>)>>)},
     {Fn(1, "f", <<Of("T", SliceOf(U)), U>>, <<T, U>>, <<>>),
      Main(<<With("f", <<<<SliceOf(I32)>>>>, <<SliceOf(I32), I32>>), With("f", <<<<SliceOf(I32), I32>>>>, <<SliceOf(I32), I32>>),
             With("f", <<<<SliceOf(I32)>>, <<I32>>>>, <<SliceOf(I32), I32>>)>>)},
     {Fn(1, "f", <<Value("n", U64)>>, <<>>, <<>>),
      Main(<<With("f", <<<<Three>>>>, <<>>), With("f", <<<<I32>>>>, <<>>)>>)},
     {Fn(1, "f", <<Value("n", T), T>>, <<T>>, <<>>),
      Main(<<With("f", <<<<Three>>>>, <<U64>>), With("f", <<<<Three>>>>, <<I32>>)>>)},
     {Fn(1, "f", <<Literal("1:3", Size("3")), T>>, <<T>>, <<>>), Fn(2, "f", <<Literal("2:4", Size("4")), T>>, <<T>>, <<>>),
      Main(<<With("f", <<<<Three>>>>, <<I32>>), With("f", <<<<Three, I32>>>>, <<I32>>)>>)},
     {WithTest(Fn(1, "f", <<T>>, <<T>>, <<>>), <<T>>, <<Of("X", SliceOf(Var("Y"))), Var("Y")>>),
      Main(<<Calls("f", <<SliceOf(I32)>>), Calls("f", <<I32>>)>>)},
     {WithTest(Fn(1, "f", <<T>>, <<T>>, <<>>), <<Var("X")>>, <<Var("Y")>>), Main(<<Calls("f", <<I32>>)>>)},
     {[Fn(1, "f", <<T>>, <<T, U64>>, <<>>) EXCEPT !.args[1].def = <<Prim("i32")>>],
      Main(<<Calls("f", <<U64>>), [nm |-> "f", steps |-> <<>>, args |-> <<Arg(U64), [n |-> "a", t |-> BaseP]>>],
             [nm |-> "f", steps |-> <<>>, args |-> <<[n |-> "b", t |-> U64]>>],
             [nm |-> "f", steps |-> <<>>, args |-> <<Arg(U64), [n |-> "c", t |-> BaseP]>>]>>)}}

\* Several functions of a name.
Overloaded ==
    {{Fn(1, "f", <<T>>, <<T>>, <<>>), Fn(2, "f", <<Of("T", BaseP)>>, <<T>>, <<>>), Fn(3, "f", <<>>, <<I32>>, <<>>),
      Main(<<Calls("f", <<I32>>), Calls("f", <<BaseP>>), Calls("f", <<DerivedP>>), Calls("f", <<U64>>)>>)},
     {Fn(1, "f", <<T>>, <<T>>, <<>>), Wrong(Fn(2, "f", <<T>>, <<SliceOf(T)>>, <<>>)), Fn(3, "f", <<T>>, <<Addr(T)>>, <<>>),
      Main(<<Calls("f", <<SliceOf(I32)>>), Calls("f", <<Addr(I32)>>), Calls("f", <<I32>>)>>)},
     {Fn(1, "f", <<T>>, <<T>>, <<>>), Fn(2, "f", <<U>>, <<U>>, <<>>), Main(<<Calls("f", <<I32>>)>>)},
     {Wrong(Fn(1, "f", <<T>>, <<T>>, <<>>)), Fn(2, "f", <<>>, <<BaseP>>, <<>>), Fn(3, "f", <<>>, <<DerivedP>>, <<>>),
      Main(<<Calls("f", <<BaseP>>), Calls("f", <<DerivedP>>)>>)},
     {Fn(1, "f", <<T, U>>, <<T>>, <<>>), Fn(2, "f", <<T>>, <<T>>, <<>>),
      Main(<<With("f", <<<<I32>>>>, <<I32>>), With("f", <<<<I32, U64>>>>, <<I32>>), Calls("f", <<I32>>)>>)}}

\* The body of a solution calls templates: itself, one another, without end.
Recursive ==
    {{Fn(1, "f", <<T>>, <<T>>, <<Calls("f", <<T>>)>>), Main(<<Calls("f", <<I32>>), Calls("f", <<U64>>)>>)},
     {Fn(1, "f", <<T>>, <<T>>, <<Calls("f", <<Addr(T)>>)>>), Main(<<Calls("f", <<I32>>)>>)},
     {Fn(1, "f", <<T>>, <<T>>, <<Calls("g", <<T>>)>>), Fn(2, "g", <<T>>, <<T>>, <<Calls("f", <<T>>)>>),
      Main(<<Calls("f", <<I32>>), Calls("g", <<U64>>)>>)},
     {Fn(1, "f", <<T>>, <<T>>, <<Calls("g", <<T>>), Calls("h", <<T>>)>>), Fn(2, "g", <<T>>, <<T>>, <<Calls("f", <<T>>)>>),
      Fn(3, "f", <<>>, <<U64>>, <<>>), Main(<<Calls("g", <<I32>>)>>)},
     {Wrong(Fn(1, "f", <<T>>, <<T>>, <<Calls("g", <<T>>)>>)), Fn(2, "f", <<T>>, <<Addr(T)>>, <<>>),
      Fn(3, "g", <<T>>, <<T>>, <<Calls("f", <<T>>)>>), Main(<<Calls("f", <<Addr(I32)>>), Calls("g", <<Addr(I32)>>)>>)},
     {Wrong(Fn(1, "f", <<T>>, <<Addr(T)>>, <<Calls("g", <<T>>)>>)), Fn(2, "f", <<T>>, <<T>>, <<>>),
      Fn(3, "g", <<T>>, <<T>>, <<Calls("f", <<Addr(T)>>)>>), Main(<<Calls("f", <<Addr(I32)>>)>>)},
     {Fn(1, "f", <<T>>, <<SliceOf(T)>>, <<Calls("f", <<T>>)>>), Fn(2, "f", <<>>, <<I32>>, <<>>),
      Main(<<Calls("f", <<SliceOf(SliceOf(I32))>>)>>)}}

\* Templates that need nothing to be bound are validated by their module too.
Unspecialised ==
    {{Fn(1, "f", <<Of("T", BaseP)>>, <<T>>, <<>>), Main(<<Calls("f", <<BaseP>>)>>)},
     {Fn(1, "f", <<Of("T", BaseP)>>, <<T>>, <<>>), Main(<<Calls("f", <<DerivedP>>)>>)},
     {Wrong(Fn(1, "f", <<Of("T", BaseP)>>, <<T>>, <<>>)), Main(<<Calls("f", <<BaseP>>)>>)},
     {Fn(1, "f", <<Of("T", Var("P"))>>, <<T>>, <<>>), Main(<<Calls("f", <<DerivedP>>), Calls("f", <<BaseP>>)>>)},
     {Fn(1, "f", <<Default("n", <<U64>>, Size("3"))>>, <<>>, <<>>),
      Main(<<With("f", <<<<Three>>>>, <<>>), Calls("f", <<>>)>>)},
     {Fn(1, "f", <<Default("n", <<U>>, Size("3")), Of("U", I32)>>, <<>>, <<>>), Main(<<>>)},
     {Fn(1, "f", <<Of("T", PairOf(<<U, V>>)), Of("U", I32), Of("V", U)>>, <<T>>, <<>>),
      Main(<<Calls("f", <<PairOf(<<I32, I32>>)>>)>>)},
     {Fn(1, "f", <<Literal("1:3", Size("3"))>>, <<>>, <<Calls("g", <<I32>>)>>), Fn(2, "g", <<T>>, <<T>>, <<>>),
      Main(<<>>)},
     {WithTest(Fn(1, "f", <<Of("T", I32)>>, <<T>>, <<>>), <<T>>, <<Of("X", U64)>>), Main(<<>>)},
     {Fn(1, "f", <<U, Of("T", U)>>, <<T>>, <<>>),
      Main(<<Calls("f", <<I32>>), With("f", <<<<BaseP>>>>, <<BaseP>>),
             With("f", <<<<BaseP>>, <<DerivedP>>>>, <<DerivedP>>)>>)}}

MCPrograms == Singles \cup Doubles \cup Explicits \cup Overloaded \cup Recursive \cup Unspecialised

-----------------------------------------------------------------------------
\* The reference: which bindings a template asks for, whatever the order in
\* which the code meets them.

\* What a parameter asks of the bindings of all of them.  T of E is E, or an
\* heir of E when E is the name of a type of the module, or a type that is
\* bound already: T of &Base is &Base itself, and T of U is U.
Asks(p, map) ==
    LET b == map[p.n]
        g == b.ts[1]
        e == ValidateType(replaceAll(p.in[1], map))
    IN  CASE p.k = "variadic" -> \A i \in DOMAIN b.ts : IsType(b.ts[i])
          [] b.k # "wrap"     -> FALSE
          [] p.k = "name"     -> IsType(g)
          [] p.k = "of"       -> e = g \/ (IsClass(g) /\ p.in[1].k = "wrap" /\ Compatible(e, g))
                                 \/ (IsClass(g) /\ p.in[1].k = "name" /\ Compatible(Global(p.in[1].n), g))
          [] p.k = "over"     -> IsAncestor(e, g) \/ (e = g /\ ~IsClass(g))
          [] p.k = "impl"     -> g.k = "class" /\ e.k = "trait" /\ e.n \in Implements(ClassOf(g))
          [] p.k = "struct"   -> g.k = "struct"
          [] p.k = "class"    -> IsClass(g)
          [] p.k = "alias"    -> ContainPointers(g)
          [] p.k = "value"    -> g.k = "val" /\ (p.ts = <<>> \/ p.ts[1] = g) /\ (p.in = <<>> \/ e = g.a[1])
          [] p.k = "lit"      -> g = p.ts[1]

\* The types that the parameters of the function have with these bindings.
Asked(f, map) ==
    FlattenSeq([i \in DOMAIN f.args |->
        LET e == replaceAll(f.args[i].t, map) IN IF e.k = "list" THEN e.ts ELSE <<ValidateType(e)>>])

RECURSIVE PartsOf(_), NamesIn(_), Reached(_, _)
PartsOf(t) == {t} \cup UNION {PartsOf(t.a[i]) : i \in DOMAIN t.a}

\* A parameter is bound to a part of the type of an argument, to a class that
\* it extends, to a size, or to several types that follow one another.
Bindings(types) ==
    LET parts == UNION {PartsOf(types[i]) : i \in DOMAIN types}
        rows  == {types} \cup {t.a : t \in parts} \cup {Tail(t.a) : t \in {u \in parts : u.a # <<>>}}
    IN  {Wrap(t) : t \in parts \cup {ClassPtr("Base")} \cup {Size(t.n) : t \in {u \in parts : u.k = "array"}}}
        \cup UNION {UNION {{List(SubSeq(r, i, j)) : i \in 1 .. j - 1} : j \in DOMAIN r} : r \in rows}

\* The parameters that the types of the arguments say something of: those in
\* the parameters of the function, and those in the text of these ones.
NamesIn(e) == (IF e.k \in {"name", "variadic"} THEN {e.n} ELSE {}) \cup UNION {NamesIn(e.in[i]) : i \in DOMAIN e.in}
Reached(params, names) ==
    LET said == {i \in DOMAIN params : params[i].n \in names /\ params[i].in # <<>>}
        more == names \cup UNION {NamesIn(params[i].in[1]) : i \in said}
    IN  IF more = names THEN names ELSE Reached(params, more)
Determined(r) ==
    LET args == Decl(r.id).args
    IN  Names(r.params) \subseteq Reached(r.params, UNION {NamesIn(args[i].t) : i \in DOMAIN args})

\* What is always refused: a type behind a & or a ? in which !{} has bound a
\* parameter, for it is validated before that one is replaced; T over U, with U
\* a parameter; and T of fn (..)-> .., which is matched and leaves T unbound.
NeverMatched(r) ==
    LET args == Decl(r.id).args
    IN  \/ \E i \in DOMAIN args : args[i].t.k \in {"addr", "try"} /\ NamesIn(args[i].t) \cap DOMAIN r.map # {}
        \/ \E i \in DOMAIN r.params :
               \/ r.params[i].k = "over" /\ NamesIn(r.params[i].in[1]) \cap Names(r.params) # {}
               \/ r.params[i].k = "of" /\ r.params[i].in[1].k \in {"func", "dg"}

Fitting(r, types) ==
    LET f == Decl(r.id)
        Total(map) == map @@ r.map
    IN  {map \in [Names(r.params) -> Bindings(types)] :
            /\ \A i \in DOMAIN r.params : Asks(r.params[i], Total(map))
            /\ Asked(f, Total(map)) = types
            /\ FinalValidation(f, r.prev, Total(map)) = "ok"}

\* The template that the validator looks at, and the arguments in their order.
Looks      == In("rank") /\ Top.wait = <<>> /\ Top.todo # <<>> /\ Top.todo[1].kind = "ref"
Ordered(f) ==
    LET found == Arguments(CallArgs, f.args, [i \in DOMAIN f.args |-> 1])
    IN  IF found.ok THEN found.got \o [i \in DOMAIN found.list |-> found.list[i].t] ELSE <<>>

Accepted(r) ==
    \E a \in {Inference(r, CallArgs)} :
        a.st = "halt" \/ (a.st = "ok" /\ FrameScore(Decl(r.id), BindingsOf(a), CallArgs) >= 0)

\* When some bindings of its parameters give the parameters of the function the
\* types of the arguments, a template takes the call: the order in which the
\* arguments are matched, and what each one leaves to the next ones, lose none.
TypableIsAccepted ==
    Looks => LET r == Top.todo[1]
             IN  Determined(r) /\ ~NeverMatched(r) /\ Fitting(r, Ordered(Decl(r.id))) # {} => Accepted(r)

\* What the body of from says of the operands of the call at.
OperandsOf(from, at) ==
    LET steps == Decl(from.id).body[at].steps
        As(e) == LET x == replaceAll(e, MapOf(from)) IN IF x.k = "wrap" THEN x.ts[1] ELSE ValidateType(x)
    IN  UNION {{As(steps[i][j]) : j \in DOMAIN steps[i]} : i \in DOMAIN steps}

\* The bindings of a solution that a call has chosen are what its parameters
\* ask for, and have the operands that the call has written, even when another
\* call has made the solution.  After three !{} they may not: a solution is
\* found by the parameters of the last two.
AcceptedIsTyped ==
    \A r \in refs : Known(r.to) =>
        LET f == Decl(r.to.id)
            map == MapOf(r.to)
            Bound(p) == [p EXCEPT !.in = [i \in DOMAIN p.in |-> replaceAll(p.in[i], map)]]
        IN  /\ \A i \in DOMAIN f.params :
                   f.params[i].n \in DOMAIN map /\ (Asks(f.params[i], map) \/ Asks(Bound(f.params[i]), map))
            /\ Len(Decl(r.from.id).body[r.at].steps) <= 2 =>
                   OperandsOf(r.from, r.at) \subseteq UNION {ToSet(map[n].ts) : n \in DOMAIN map}

\* A template takes the calls that some bindings fit, and no others.
CallsAreTyped == TypableIsAccepted /\ AcceptedIsTyped

\* The templates that stop the compiler: one that uses a variadic parameter
\* twice; T impl E behind a &; T of fn (..)-> .., that looks for parameters in a
\* delegate; an expression with two names, the second of which is of the first.
Stopping(f) ==
    LET args  == {f.args[i].t : i \in DOMAIN f.args}
        texts == args \cup {f.params[i].in[1] : i \in {j \in DOMAIN f.params : f.params[j].in # <<>>}}
        Has(n, kinds) == \E i \in DOMAIN f.params : f.params[i].n = n /\ f.params[i].k \in kinds
    IN  \/ \E i, j \in DOMAIN f.args :
               i # j /\ \E n \in NamesIn(f.args[i].t) \cap NamesIn(f.args[j].t) : Has(n, {"variadic"})
        \/ \E e \in args : e.k = "addr" /\ e.in[1].k = "name" /\ Has(e.in[1].n, {"impl"})
        \/ \E i \in DOMAIN f.params : f.params[i].k = "of" /\ f.params[i].in[1].k \in {"func", "dg"}
        \/ \E e \in texts : \E m, n \in NamesIn(e) : m # n /\ m \in Reached(f.params, {n})

\* The compiler never stops in the middle of a specialisation, whatever calls
\* what, unless a template has one of these forms.
StopsOnlyWhen == halted => \E i \in DOMAIN prog : Stopping(prog[i])

\* A solution of a template that needs nothing to be bound is left to the
\* module, which makes the one that it infers, and this is another one.
LeftToTheModule(sym) ==
    /\ Known(sym) /\ Inferred(Solution(sym).templs).st = "ok"
    /\ Inferred(Decl(sym.id).params).map # MapOf(sym)

RECURSIVE CalledFrom(_)
CalledFrom(syms) ==
    LET more == syms \cup {r.to : r \in {x \in refs : x.from \in syms}}
    IN  IF more = syms THEN syms ELSE CalledFrom(more)

\* When no error is reported, every function of the module is emitted, and what
\* is emitted calls what is emitted: a solution is taken while its body is being
\* validated, and may turn out to be wrong.  Two cases escape: the solution that
\* is left to the module, and the one whose own body has led to the caller.
UsedIsEmitted ==
    Done /\ ~wrong /\ ~halted =>
        /\ \A i \in DOMAIN prog : prog[i].params = <<>> => Declared(prog[i]) \in emitted
        /\ \A r \in refs : r.from \in emitted =>
               \/ r.to \in emitted
               \/ LeftToTheModule(r.to)
               \/ r.to \in failed /\ r.from \in CalledFrom({r.to})

\* A compilation of templates stops in the middle only for the forms that the
\* compiler does not take, and one that ends without an error emits what it uses.
EndsRight == StopsOnlyWhen /\ UsedIsEmitted

=============================================================================
