-------------------------- MODULE TemplateMappers --------------------------
(***************************************************************************)
(* How the parameters of a template are bound: TemplateVisitor.  A parameter *)
(* is bound explicitly (f!{i32}), from the types of the arguments of a call  *)
(* (implicitly), or from nothing at all, when its text says what it is       *)
(* (T of &Base, n : i32 = 3).                                                *)
(*                                                                          *)
(* A mapper is [st, map, score, used].  st is "ok", "fail" (the mapper of    *)
(* the code is not succeed), "throw" (an error is thrown) or "halt" (the     *)
(* compiler stops on an impossible case, or reads past the end of a vector); *)
(* used counts the types it has consumed.  Decorated expressions, values     *)
(* that are lambdas and traits that are templates are left out.              *)
(***************************************************************************)
EXTENDS Integers, Sequences, FiniteSets, SequencesExt, FiniteSetsExt

-----------------------------------------------------------------------------
(* The types that a template is specialised with, the expressions that      *)
(* stand for them in the text of the template, and the two functions that   *)
(* go from one to the other: replaceAll and validateType.                   *)
(*                                                                          *)
(* A type is [k, n, a]: a kind, a name and the types it is made of.         *)
(* An expression is [k, n, in, ts]: a kind, a name, the expressions it is   *)
(* made of, and, once a parameter is replaced, the generators in its place. *)
(* The parameters of a template are expressions too: T is a name, T of P,   *)
(* T impl P, T..., struct T, class T, alias T, n : P and literals.          *)

CONSTANTS
    Ancestor,     \* of each class: the class it extends, or ""
    Impl,         \* of each class: the traits that its own text implements
    Alias         \* of each alias (aka) of the module: its type

Generator(k, n, a) == [k |-> k, n |-> n, a |-> a]
Prim(n)      == Generator("prim", n, <<>>)
Void         == Generator("void", "void", <<>>)
ClassRef(c)  == Generator("classref", c, <<>>)
ClassPtr(c)  == Generator("class", "", <<ClassRef(c)>>)
Trait(t)     == Generator("trait", t, <<>>)
Pointer(t)   == Generator("ptr", "", <<t>>)
Slice(t)     == Generator("slice", "", <<t>>)
Tuple(ts)    == Generator("tuple", "", ts)
Array(t, n)  == Generator("array", n, <<t>>)
Option(t)    == Generator("option", "", <<t, ClassPtr("Exception")>>)
FuncPtr(ts)  == Generator("func", "", ts)          \* the type of the result comes first
Delegate(ts) == Generator("delegate", "", <<FuncPtr(ts)>>)
StructRef(n, ts) == Generator("struct", n, ts)      \* a solution of the structure n
RangeOf(t)   == Generator("range", "", <<t>>)
Fixed(n, t)  == Generator("val", n, <<t>>)
Bad          == Generator("bad", "", <<>>)

IsType(g)    == g.k \notin {"val", "bad"}
IsClass(g)   == g.k \in {"class", "classref"}
IsComplex(g) == g.k \in {"ptr", "slice", "tuple", "array", "option", "func", "delegate", "class", "range"}
ClassOf(g)   == IF g.k = "class" THEN g.a[1].n ELSE g.n

RECURSIVE ContainPointers(_)
ContainPointers(g) ==
    \/ g.k \in {"ptr", "slice", "class", "delegate", "func"}
    \/ g.k \in {"tuple", "struct"} /\ \E i \in DOMAIN g.a : IsType(g.a[i]) /\ ContainPointers(g.a[i])
    \/ g.k \in {"option", "array"} /\ ContainPointers(g.a[1])

RECURSIVE Ancestors(_)
Ancestors(c) == IF Ancestor[c] = "" THEN {} ELSE {Ancestor[c]} \cup Ancestors(Ancestor[c])

IsAncestor(l, r) == IsClass(l) /\ IsClass(r) /\ ClassOf(l) \in Ancestors(ClassOf(r))

Implements(c) == UNION {Impl[d] : d \in {c} \cup Ancestors(c)}

\* The two errors of an option are not compared; two options are equal, or
\* compatible, when their contents are.
RECURSIVE Compatible(_, _)
Compatible(l, r) ==
    \/ l = r
    \/ l.k = "class" /\ IsAncestor(l, r)
    \/ l.k = "slice" /\ r.k \in {"slice", "array"} /\ (Compatible(l.a[1], r.a[1]) \/ r.a[1].k = "void")
    \/ /\ l.k \in {"tuple", "array", "option", "ptr"}
       /\ r.k = l.k /\ r.n = l.n /\ Len(l.a) = Len(r.a)
       /\ \A i \in DOMAIN l.a : Compatible(l.a[i], r.a[i])

-----------------------------------------------------------------------------

Expression(k, n, in, ts) == [k |-> k, n |-> n, in |-> in, ts |-> ts]
Nothing  == Expression("none", "", <<>>, <<>>)
Var(n)   == Expression("name", n, <<>>, <<>>)
Wrap(g)  == Expression("wrap", "", <<>>, <<g>>)          \* TemplateSyntaxWrapper
List(ts) == Expression("list", "", <<>>, ts)             \* TemplateSyntaxList

\* The contents of a list that is an operand of a type are operands one by one.
Spread(exprs) ==
    FlattenSeq([i \in DOMAIN exprs |->
        IF exprs[i].k = "list" THEN [j \in DOMAIN exprs[i].ts |-> Wrap(exprs[i].ts[j])] ELSE <<exprs[i]>>])

RECURSIVE replaceAll(_, _)
replaceAll(e, map) ==
    LET inner == [i \in DOMAIN e.in |-> replaceAll(e.in[i], map)] IN
    IF DOMAIN map = {} THEN e
    ELSE IF e.k \in {"name", "variadic"} THEN IF e.n \in DOMAIN map THEN map[e.n] ELSE e
    ELSE IF e.k \in {"slice", "tuple", "tcall"} THEN [e EXCEPT !.in = Spread(inner)]
    ELSE IF e.k \in {"func", "dg"} THEN [e EXCEPT !.in = <<inner[1]>> \o Spread(Tail(inner))]
    ELSE [e EXCEPT !.in = inner]

\* What a name means in the module, when it is no parameter of a template.
Global(n) ==
    IF n \in DOMAIN Alias THEN Alias[n]
    ELSE IF n \in DOMAIN Ancestor THEN ClassRef(n)
    ELSE IF n \in UNION {Impl[c] : c \in DOMAIN Impl} THEN Trait(n)
    ELSE IF n = "void" THEN Void
    ELSE IF n \in {"i32", "u64", "bool", "c8"} THEN Prim(n)
    ELSE Bad

\* The type of an expression, given those of the expressions it is made of.
\* A class is a type behind a & only.
TypeFrom(e, in) ==
    LET All == \A i \in DOMAIN in : in[i] # Bad
        behind == IF e.in[1].k = "wrap" THEN e.in[1].ts[1] ELSE Global(e.in[1].n)
    IN  CASE e.k = "name" -> Global(e.n)
          [] e.k = "wrap" -> e.ts[1]
          [] e.k = "list" /\ (\A i \in DOMAIN e.ts : IsType(e.ts[i]) /\ e.ts[i].k # "classref") -> Tuple(e.ts)
          [] e.k = "addr" /\ All                -> Pointer(in[1])
          [] e.k = "addr" /\ e.in[1].k \in {"wrap", "name"} /\ behind.k = "classref" -> ClassPtr(behind.n)
          [] e.k = "try" /\ All                 -> Option(in[1])
          [] e.k = "slice" /\ All /\ Len(in) = 1 -> Slice(in[1])
          [] e.k = "tuple" /\ All               -> Tuple(in)
          [] e.k = "arr" /\ in[1] # Bad /\ e.in[2].k = "wrap" /\ e.in[2].ts[1].k = "val" -> Array(in[1], e.in[2].ts[1].n)
          [] e.k = "func" /\ All                -> FuncPtr(in)
          [] e.k = "dg" /\ All                  -> Delegate(in)
          [] e.k = "tcall" /\ All /\ e.n # "Range" -> StructRef(e.n, in)
          [] e.k = "tcall" /\ All /\ e.n = "Range" /\ Len(in) = 1 -> RangeOf(in[1])
          [] OTHER -> Bad
AType(g) == IF IsType(g) /\ g.k # "classref" THEN g ELSE Bad

\* validateType: the type, or Bad when it throws.
RECURSIVE ValidateType(_)
ValidateType(e) == AType(TypeFrom(e, [i \in DOMAIN e.in |-> ValidateType(e.in[i])]))

-----------------------------------------------------------------------------
ScoreVar  == 1
ScoreType == 2

Mapper(st, map, score, used) == [st |-> st, map |-> map, score |-> score, used |-> used]
NoBinding == [n \in {} |-> Nothing]
Ok(score, used) == Mapper("ok", NoBinding, score, used)
Fail  == Mapper("fail", NoBinding, 0, 0)
Throw == Mapper("throw", NoBinding, 0, 0)
Halt  == Mapper("halt", NoBinding, 0, 0)
Stops(m) == m.st \in {"throw", "halt"}

\* mergeMappers succeeds whatever its operands are, and stops the compiler
\* when a parameter is bound twice.
Merge(l, r) ==
    IF Stops(l) THEN l ELSE IF Stops(r) THEN r
    ELSE IF DOMAIN l.map \cap DOMAIN r.map # {} THEN Halt
    ELSE Mapper("ok", l.map @@ r.map, l.score + r.score, l.used + r.used)

\* One mapper, then the next, which is not made when the first one has failed.
Then(m, next) == IF m.st # "ok" THEN m ELSE IF next.st = "fail" THEN next ELSE Merge(m, next)

\* mapping.emplace: the first binding stays.
Bind(m, n, g) == IF Stops(m) THEN m ELSE [m EXCEPT !.map = @ @@ (n :> Wrap(g))]
Scored(m, k)  == [m EXCEPT !.score = @ + k]
Used(m, k)    == [m EXCEPT !.used = k]

\* A variadic parameter is one type when it takes one, a list otherwise.
BindAll(n, gs) ==
    Mapper("ok", n :> (IF Len(gs) = 1 THEN Wrap(gs[1]) ELSE List(gs)), ScoreType, Len(gs))

TypeParameters == {"name", "of", "over", "impl", "variadic", "struct", "class", "alias"}

Find(kinds, n, params) ==
    LET at == {i \in DOMAIN params : params[i].k \in kinds /\ params[i].n = n}
    IN  IF at = {} THEN Nothing ELSE params[Min(at)]
FindExpression(n, params)      == Find(TypeParameters, n, params)
FindExpressionValue(n, params) == Find({"value"}, n, params)

\* The parameters that a mapping has not bound, with what it has bound in them.
ReplaceSyntaxTempl(params, map) ==
    LET Kept(p) == p.n \notin DOMAIN map
        left == SelectSeq(params, Kept)
    IN  [i \in DOMAIN left |->
            IF left[i].k \in {"name", "variadic", "lit"} THEN left[i] ELSE replaceAll(left[i], map)]

-----------------------------------------------------------------------------

\* The three functions that call one another, through the next definitions:
\* what an expression says of the parameters (implicit), and what a parameter
\* makes of types (explicit) or of types and values (param).
RECURSIVE Mapping(_, _, _, _), MatchEach(_, _, _, _, _)
MatchType(params, e, types)     == Mapping("implicit", params, e, types)
Explicit(params, p, types)      == Mapping("explicit", params, p, types)
ParamExplicit(params, p, types) == Mapping("param", params, p, types)

\* Each operand of a type takes what the next ones can spare: the last
\* variadic one takes all the rest.
MatchEach(params, exprs, i, types, m) ==
    IF i > Len(exprs) \/ m.st # "ok" THEN m
    ELSE LET right == Len(types) - m.used - (Len(exprs) - i)
             next  == MatchType(params, replaceAll(exprs[i], m.map), SubSeq(types, m.used + 1, m.used + right))
         IN  MatchEach(params, exprs, i + 1, types, Then(m, next))

\* All of the operands, and all of the types.
Whole(m, types) == IF m.st = "ok" /\ m.used < Len(types) THEN Throw ELSE m
MatchAll(params, exprs, types) == Whole(MatchEach(params, exprs, 1, types, Ok(0, 0)), types)

MatchArray(params, e, g) ==
    LET left == MatchType(params, e.in[1], g.a)
        size == IF e.in[2].k = "name" THEN FindExpressionValue(e.in[2].n, params) ELSE Nothing
    IN  IF size = Nothing THEN left ELSE Then(left, ParamExplicit(params, size, <<Fixed(g.n, Prim("u64"))>>))

\* The parameters first, then the type of the result.
WithResult(params, e, ret, m) == Then(m, MatchType(params, replaceAll(e.in[1], m.map), <<ret>>))
MatchFunc(params, e, types, ret) == WithResult(params, e, ret, MatchAll(params, Tail(e.in), types))

\* The type that the mapper makes of the expression is the type of the argument.
Verified(m, e, g) ==
    IF Stops(m) THEN m ELSE IF ValidateType(replaceAll(e, m.map)) = g THEN m ELSE Throw

\* What is behind a & or a ?.
HasOne(e, g) == IF e.k = "try" THEN g.k = "option" ELSE IsComplex(g) /\ Len(g.a) = 1

\* validateTypeFromTemplCall: the arguments of the solution that the type is.
FromTemplCall(params, e, g) ==
    LET Each[i \in 0 .. Len(e.in)] ==
            IF i = 0 THEN Ok(0, 0)
            ELSE Then(Each[i - 1], MatchType(params, replaceAll(e.in[i], Each[i - 1].map), <<g.a[i]>>))
    IN  IF g.k = "struct" THEN IF Len(g.a) # Len(e.in) THEN Fail ELSE Each[Len(e.in)]
        ELSE IF g.k = "range" /\ e.n = "Range" /\ Len(e.in) = 1 THEN MatchType(params, e.in[1], g.a)
        ELSE Ok(0, 0)

\* validateTypeFromImplicit: what an expression in the type of a parameter of
\* the function says of the parameters of the template.
ImplicitType(params, e, types) ==
    LET g     == types[1]
        inner == IF e.k = "name" THEN FindExpression(e.n, params) ELSE Nothing
        Unmatched == IF ValidateType(e) = Bad THEN Throw ELSE Fail
        Behind(m) == IF m.st = "fail" THEN Unmatched ELSE Used(Scored(Verified(m, e, g), ScoreType), 1)
        at == IF e.k = "try" THEN <<g.a[1]>> ELSE g.a
        func  == IF g.k = "delegate" THEN g.a[1] ELSE g
    IN  IF e.k = "name" THEN IF inner = Nothing THEN Ok(0, 1) ELSE Explicit(params, inner, types)
        ELSE IF e.k = "list" THEN
            IF Len(e.ts) > Len(types) THEN Halt
            ELSE IF \E i \in DOMAIN e.ts : e.ts[i] # types[i] THEN Throw ELSE Ok(0, Len(e.ts))
        ELSE IF e.k = "wrap" THEN Ok(0, 1)
        ELSE IF types = <<>> THEN Halt
        ELSE CASE e.k \in {"addr", "try"} -> IF HasOne(e, g) THEN Behind(MatchType(params, e.in[1], at)) ELSE Throw
               [] e.k \in {"slice", "tuple"} ->
                      IF IsComplex(g) /\ g.k # "class" /\ Len(g.a) >= Len(e.in)
                      THEN Used(MatchAll(params, e.in, g.a), 1)
                      ELSE IF g.k = "void" THEN Ok(0, 1) ELSE Throw
               [] e.k = "arr" -> IF g.k = "array" THEN Used(MatchArray(params, e, g), 1) ELSE Fail
               [] e.k = "tcall" -> Used(FromTemplCall(params, e, g), 1)
               [] e.k \in {"func", "dg"} ->
                      IF IsComplex(func) /\ Len(func.a) >= Len(e.in)
                      THEN Used(MatchFunc(params, e, Tail(func.a), func.a[1]), 1) ELSE Throw
               [] OTHER -> Unmatched

-----------------------------------------------------------------------------

\* The default case of T of E: a class may be a heir of the one that is named.
OfType(p, g) ==
    LET left == ValidateType(p.in[1])
        fits == IF g.k # "class" THEN left = g
                ELSE IF p.k = "over" THEN IsAncestor(left, g) ELSE Compatible(left, g)
    IN  IF left = Bad \/ ~fits THEN Throw
        ELSE Bind(Ok(IF g.k = "class" /\ left # g THEN ScoreVar ELSE ScoreType, 1), p.n, g)

\* Mutant: the type that E makes is not compared with that of the argument.
OfMatchedUnverified(m, p, g) ==
    LET real == ValidateType(replaceAll(p.in[1], m.map))
    IN  IF Stops(m) THEN m ELSE IF real = Bad THEN Throw ELSE Scored(Bind(m, p.n, g), ScoreType)

\* T of E, or T over E, once the parameters in E are matched.
OfMatched(m, p, g) ==
    LET real == ValidateType(replaceAll(p.in[1], m.map))
    IN  IF Stops(m) THEN m
        ELSE IF real = Bad \/ (IF p.k = "over" THEN ~IsAncestor(real, g) ELSE real # g) THEN Throw
        ELSE Scored(Bind(m, p.n, g), ScoreType)

\* T of U: what U is bound to is bound to T; T over U is never right, for U
\* is bound to the type itself.
Meaning(m, p, g, real) ==
    IF Stops(m) THEN m
    ELSE IF real = Bad \/ (p.k = "over" /\ g.k # "classref" /\ ~IsAncestor(real, g)) THEN Throw
    ELSE Bind(m, p.n, real)
Meant(m, e, g) == IF g.k = "classref" THEN g ELSE ValidateType(replaceAll(e, m.map))
OfName(params, p, inner, g) ==
    LET m == Explicit(params, inner, <<g>>) IN Meaning(m, p, g, Meant(m, p.in[1], g))

\* The name of T of fn (U)-> V is not bound.  A delegate is one type, the
\* function behind it: the code looks in that list for its parameters.
OfFunc(params, p, g) ==
    LET e    == p.in[1]
        func == IF g.k = "delegate" THEN g.a[1] ELSE g
        rest == IF g.a = <<>> THEN <<>> ELSE Tail(g.a)
    IN  IF p.k = "over" \/ ~IsComplex(func) \/ Len(func.a) < Len(e.in) THEN Throw
        ELSE Scored(MatchFunc(params, e, rest, func.a[1]), ScoreType)

OfVar(params, p, g) ==
    LET e     == p.in[1]
        inner == IF e.k = "name" THEN FindExpression(e.n, params) ELSE Nothing
        at    == IF e.k = "try" THEN <<g.a[1]>> ELSE g.a
        Or(m, other) == IF m.st = "fail" THEN other ELSE OfMatched(m, p, g)
    IN  Used(CASE inner # Nothing -> OfName(params, p, inner, g)
               [] e.k \in {"addr", "try"} -> IF HasOne(e, g) THEN Or(MatchType(params, e.in[1], at), OfType(p, g)) ELSE Throw
               [] e.k \in {"slice", "tuple"} ->
                      IF IsComplex(g) /\ g.k # "class" /\ Len(g.a) >= Len(e.in)
                      THEN Or(MatchAll(params, e.in, g.a), Fail)
                      ELSE IF g.k = "void" THEN Ok(0, 1) ELSE Throw
               [] e.k \in {"func", "dg"} -> OfFunc(params, p, g)
               [] e.k = "arr"   -> IF g.k = "array" THEN OfMatched(MatchArray(params, e, g), p, g) ELSE Throw
               [] e.k = "tcall" -> OfMatched(FromTemplCall(params, e, g), p, g)
               [] OTHER -> OfType(p, g),
             1)

\* T impl E. The cast of a class that is not behind a & stops the compiler.
ImplVar(params, p, g) ==
    LET e     == p.in[1]
        inner == IF e.k = "name" THEN FindExpression(e.n, params) ELSE Nothing
        trait == ValidateType(e)
    IN  IF ~IsClass(g) THEN Throw
        ELSE IF inner # Nothing THEN IF Explicit(params, inner, <<g>>).st = "halt" THEN Halt ELSE Throw
        ELSE IF e.k \in {"slice", "tuple", "func", "dg", "arr", "tcall"} THEN Throw
        ELSE IF g.k = "classref" THEN Halt
        ELSE IF trait.k = "trait" /\ trait.n \in Implements(ClassOf(g)) THEN Bind(Ok(ScoreType, 1), p.n, g)
        ELSE Throw

\* validateTypeFromExplicit: a parameter takes the first type, or all of them.
ExplicitType(params, p, types) ==
    LET g == types[1]
    IN  IF p.k = "variadic" THEN BindAll(p.n, types)
        ELSE IF types = <<>> THEN Halt
        ELSE CASE p.k = "name" -> Bind(Ok(ScoreVar, 1), p.n, g)
               [] p.k \in {"of", "over"} -> OfVar(params, p, g)
               [] p.k = "impl"   -> ImplVar(params, p, g)
               [] p.k = "struct" -> IF g.k = "struct" THEN Bind(Ok(ScoreType, 1), p.n, g) ELSE Throw
               [] p.k = "class"  -> IF IsClass(g) THEN Bind(Ok(ScoreType, 1), p.n, g) ELSE Throw
               [] p.k = "alias"  -> IF ContainPointers(g) THEN Bind(Ok(ScoreType, 1), p.n, g) ELSE Throw

\* n : E = v, given a value: the type of the value matches E.
ValueExplicit(params, p, v) ==
    LET Real(m)  == IF p.in = <<>> THEN v.a[1] ELSE ValidateType(replaceAll(p.in[1], m.map))
        After(m) == IF Stops(m) THEN m
                    ELSE IF Real(m) \notin {Bad, v.a[1]} THEN Throw
                    ELSE IF m.st = "fail" THEN m
                    ELSE Used(Scored(Bind(m, p.n, v), ScoreVar), 1)
    IN  IF v.k # "val" \/ (p.ts # <<>> /\ p.ts[1] # v) THEN Throw
        ELSE After(IF p.in # <<>> THEN MatchType(params, p.in[1], v.a) ELSE IF p.ts = <<>> THEN Fail ELSE Ok(0, 1))

\* validateParamTemplFromExplicit: types and values, from !{}.
ExplicitParam(params, p, values) ==
    CASE p.k = "value"    -> ValueExplicit(params, p, values[1])
      [] p.k = "lit"      -> IF values[1] = p.ts[1] THEN Bind(Ok(ScoreType, 1), p.n, values[1]) ELSE Throw
      [] p.k = "variadic" -> IF \A i \in DOMAIN values : IsType(values[i]) THEN BindAll(p.n, values) ELSE Throw
      [] OTHER            -> IF IsType(values[1]) THEN Explicit(params, p, values) ELSE Throw

Mapping(how, params, e, types) ==
    CASE how = "implicit" -> ImplicitType(params, e, types)
      [] how = "explicit" -> ExplicitType(params, e, types)
      [] how = "param"    -> ExplicitParam(params, e, types)

\* Mutant: only the parameter itself leaves the text of the template.
RECURSIVE FromExplicitTail(_, _)
FromExplicitTail(params, values) ==
    LET Rest(m) == FromExplicitTail(Tail(params), SubSeq(values, m.used + 1, Len(values)))
        First(m) == Then(m, Rest(m))
    IN  IF values = <<>> \/ params = <<>> THEN Ok(0, 0) ELSE First(ParamExplicit(Tail(params), params[1], values))

RECURSIVE FromExplicit(_, _)
FromExplicit(params, values) ==
    LET Rest(m) == FromExplicit(ReplaceSyntaxTempl(params, m.map), SubSeq(values, m.used + 1, Len(values)))
        First(m) == Then(m, Rest(m))
    IN  IF values = <<>> \/ params = <<>> THEN Ok(0, 0) ELSE First(ParamExplicit(Tail(params), params[1], values))

\* The parameters of the function, one after the other; the map that one
\* leaves replaces the parameters of the template in the next ones.
RECURSIVE FromImplicit(_, _, _)
FromImplicit(params, exprs, types) ==
    LET window  == SubSeq(types, 1, Len(types) - (Len(exprs) - 1))
        Rest(m) == FromImplicit(ReplaceSyntaxTempl(params, m.map),
                                [i \in DOMAIN Tail(exprs) |-> replaceAll(exprs[i + 1], m.map)],
                                SubSeq(types, m.used + 1, Len(types)))
        First(m) == Then(m, Rest(m))
    IN  IF exprs = <<>> THEN Ok(0, 0)
        ELSE First(IF exprs[1] = Nothing THEN Ok(0, 1) ELSE MatchType(params, exprs[1], window))

-----------------------------------------------------------------------------

RECURSIVE InferParam(_, _), InferInner(_, _), InferEach(_, _, _)

\* inferArgumentInner: a name that is no parameter needs nothing. What the
\* type of an array lacks is forgotten when it is merged with the size.
InferInner(rest, e) ==
    IF e.k = "name" THEN LET p == FindExpression(e.n, rest)
                         IN  IF p = Nothing THEN Ok(0, 0) ELSE InferParam(rest, p)
    ELSE IF e.k = "arr" THEN Merge(InferInner(rest, e.in[1]), InferInner(rest, e.in[2]))
    ELSE IF e.k \in {"func", "dg"} THEN InferEach(rest, Append(Tail(e.in), e.in[1]), Ok(0, 0))
    ELSE InferEach(rest, e.in, Ok(0, 0))

InferEach(rest, exprs, m) ==
    IF exprs = <<>> \/ m.st # "ok" THEN m
    ELSE InferEach(rest, Tail(exprs), Then(m, InferInner(rest, replaceAll(exprs[1], m.map))))

InferOf(rest, p) ==
    LET e == p.in[1]
        Typed(m, t) == IF m.st # "ok" THEN m ELSE IF t = Bad THEN Throw
                       ELSE Scored(Bind(m, p.n, t), IF e.k = "name" THEN 0 ELSE ScoreType)
        After(m)    == Typed(m, ValidateType(replaceAll(e, m.map)))
        inferred    == {"name", "addr", "try", "slice", "tuple", "func", "dg", "tcall"}
    IN  After(IF e.k \in inferred THEN InferInner(rest, e) ELSE Ok(0, 0))

\* The type of a default value is validated before what it is made of is known.
InferValue(rest, p) ==
    LET After(m) == IF m.st # "ok" THEN m
                    ELSE IF p.in # <<>> /\ ValidateType(p.in[1]) # p.ts[1].a[1] THEN Throw
                    ELSE Scored(Bind(m, p.n, p.ts[1]), ScoreVar)
    IN  IF p.ts = <<>> THEN Fail ELSE After(IF p.in = <<>> THEN Ok(0, 0) ELSE InferInner(rest, p.in[1]))

InferParam(rest, p) ==
    CASE p.k = "of"    -> InferOf(rest, p)
      [] p.k = "value" -> InferValue(rest, p)
      [] p.k = "lit"   -> Bind(Ok(ScoreType, 1), p.n, p.ts[1])
      [] OTHER         -> Fail

\* inferArguments: an error that is thrown is a failure.
RECURSIVE Inferred(_)
Inferred(params) ==
    LET Rest(m)  == Then(m, Inferred(ReplaceSyntaxTempl(params, m.map)))
        Caught(m) == IF m.st = "throw" THEN Fail ELSE m
    IN  IF params = <<>> THEN Ok(0, 0) ELSE Caught(Rest(InferParam(Tail(params), params[1])))
=============================================================================
