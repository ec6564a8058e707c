---------------------------- MODULE SharedMemory ----------------------------
(* A program declares variables and writes them: each statement that the     *)
(* validator accepts is executed as the generator translates it, on a memory *)
(* where variables, slices, pointers and objects share places.               *)
(*                                                                           *)
(* A place is a sequence: the block of memory, and the way inside it.        *)
EXTENDS MutableValues

CONSTANTS
    Statements      \* what each statement of a program may be: sets of [op, n, deco, t, es]

VARIABLES
    code,   \* of each function and constructor that is accepted: the values of its body
    locals, \* of each variable: its type and its place
    heap,   \* the blocks of memory
    done    \* the statements that were executed

vars == <<code, locals, heap, done>>

Local(t, at) == [t |-> t, at |-> at]
Parameters   == <<"p1", "p2">>

RECURSIVE Validate(_, _, _)
Validate(e, vs, accepted) ==
    LET gs == [i \in DOMAIN e.es |-> Validate(e.es[i], vs, accepted)]
        g  == gs[1]
    IN IF \E h \in Range(gs) : h.k = "bad" THEN Rejected
       ELSE CASE e.op = "var" -> IF e.n \in DOMAIN vs THEN Value("var", e.n, vs[e.n].t, TRUE, <<>>) ELSE Rejected
              [] e.op = "int"    -> Value("fixed", "", Integer, FALSE, <<>>)
              [] e.op = "part"   -> IF Has(g, e.i) THEN Access(g, e.i) ELSE Rejected
              [] e.op = "ptr"    -> ValidateSlicePtr(g)
              [] e.op = "alias"  -> ValidateAlias(g)
              [] e.op = "copy"   -> ValidateCopy(g)
              [] e.op = "ref"    -> ValidateRef(g)
              [] e.op = "const"  -> [g EXCEPT !.t = WithMut(g.t, FALSE)]
              [] e.op = "&"      -> ValidateAddress(g)
              [] e.op = "array"  -> ValidateArrayLiteral(gs)
              [] e.op = "tuple"  -> ValidateTupleLiteral(gs)
              [] e.op = "alloc"  -> ValidateArrayAlloc(g, e.n = "new")
              [] e.op = "struct" -> ValidateStructCst(e.n, gs)
              [] e.op = "cast"   -> ValidateCast(e.t, g)
              [] e.op = "if"     -> ValidateIf(e.n, gs)
              [] e.op = "block"  -> ValidateBlock(g)
              [] e.op = "call"   -> IF e.n \in accepted /\ ValidateTypeParameterList(Functions[e.n].params, gs)
                                    THEN Value("call", e.n, Functions[e.n].ret, FALSE, gs) ELSE Rejected
              [] e.op = "object" -> IF e.n \in accepted /\ ValidateTypeParameterList(Constructors[e.n].params, gs)
                                    THEN Value("object", e.n, WithMut(ClassPtr(WithMut(ClassRef(e.n), TRUE)), TRUE), FALSE, gs)
                                    ELSE Rejected

\* The body of a function or of a constructor, and when it is accepted.
Routine(n) == IF n \in DOMAIN Functions THEN Functions[n] ELSE Constructors[n]

InFunction(types) == [p \in {Parameters[i] : i \in DOMAIN types} |->
                        Local(types[CHOOSE i \in DOMAIN types : Parameters[i] = p], <<>>)]

Body(f) == [i \in DOMAIN f.body |-> Validate(f.body[i], InFunction(f.params), {})]

AcceptedFunction(f, gs) == Owns(f.ret, gs[1], TRUE)
AcceptedConstructor(c, gs) ==
    \A i \in DOMAIN gs : Owns(WithMut(AllFields(c)[i], AllFields(c)[i].m), gs[i], TRUE)

Accepted(n) ==
    LET gs == Body(Routine(n))
    IN  /\ \A t \in Range(Routine(n).params) : VerifyMutabilityRefParam(t)
        /\ \A g \in Range(gs) : g.k # "bad"
        /\ IF n \in DOMAIN Functions THEN AcceptedFunction(Functions[n], gs) ELSE AcceptedConstructor(n, gs)

(***************************************************************************)
(* The values in memory, and the code of each expression.                  *)
(***************************************************************************)
Cell(k, to, in) == [k |-> k, to |-> to, in |-> in]
Scalar     == Cell("int", <<>>, <<>>)
Laid(cs)   == Cell("laid", <<>>, cs)        \* a tuple, a structure, a static array
To(k, at)  == Cell(k, at, <<>>)             \* a slice, a pointer, an object

Read(h, at) == FoldLeft(LAMBDA c, i : c.in[i], h[at[1]], Tail(at))

RECURSIVE PutIn(_, _, _)
PutIn(c, path, v) ==
    IF path = <<>> THEN v ELSE [c EXCEPT !.in[path[1]] = PutIn(c.in[path[1]], Tail(path), v)]
Write(h, at, v) == [h EXCEPT ![at[1]] = PutIn(h[at[1]], Tail(at), v)]

\* What an expression gives: the memory after it, its place or <<>>, its value.
Gives(h, at, v) == [h |-> h, at |-> at, v |-> v]
Placed(h, at)   == Gives(h, at, Read(h, at))
ValueOf(r)      == Gives(r.h, <<>>, r.v)
New(r)          == Gives(Append(r.h, r.v), <<Len(r.h) + 1>>, r.v)
NewBlock(k, h, c) == Gives(Append(h, c), <<>>, To(k, <<Len(h) + 1>>))

\* A value that is in no place is in a temporary.
InPlace(r) == IF r.at = <<>> THEN New(r) ELSE r

\* The place of a part of a value of type t.
PartOf(t, r, i) ==
    Placed(r.h, CASE t.k \in {"tuple", "struct", "array"} -> r.at \o <<i>>
                  [] t.k = "ptr" -> r.v.to
                  [] OTHER -> r.v.to \o <<i>>)

RECURSIVE Run(_, _, _), RunAll(_, _, _, _)

\* A static array becomes a slice on its elements; the rest stays as it is.
AsSlice(r) == Gives(r.h, <<>>, To("slice", r.at))
Converted(t, g, r)   == IF t.k = "slice" /\ g.t.k = "array" THEN AsSlice(InPlace(r)) ELSE r
CastTo(t, g, vs, h)  == Converted(t, g, Run(g, vs, h))

\* The values of several expressions, one after the other, each for its type.
Added(so, t, r) == [h |-> r.h, vs |-> Append(so.vs, IF t.r THEN To("ref", r.at) ELSE r.v)]
RunAll(types, gs, vs, h) ==
    FoldLeft(LAMBDA so, i : Added(so, types[i], CastTo(types[i], gs[i], vs, so.h)),
             [h |-> h, vs |-> <<>>], [i \in DOMAIN gs |-> i])

\* Each parameter has a place of its own, a reference that of its argument.
EnterOne(in, n, t, c) ==
    IF t.r THEN [in EXCEPT !.vs = (n :> Local(t, c.to)) @@ @]
    ELSE [h |-> Append(in.h, c), vs |-> (n :> Local(t, <<Len(in.h) + 1>>)) @@ in.vs]
Enter(types, args) ==
    FoldLeft(LAMBDA in, i : EnterOne(in, Parameters[i], types[i], args.vs[i]),
             [h |-> args.h, vs |-> <<>>], [i \in DOMAIN types |-> i])
RunIn(types, gs, in) == RunAll(types, gs, in.vs, in.h)
Arguments(n, gs, vs, h) == Enter(Routine(n).params, RunAll(Routine(n).params, gs, vs, h))

\* The result of a function is in no place of the caller.
GenerateCall(parts) == Gives(parts.h, <<>>, parts.vs[1])

\* A constructor sets each field of a new object, that knows its class.
GenerateClassCst(c, parts) == NewBlock("object", parts.h, Cell(c, <<>>, parts.vs))

GenerateArrayAlloc(t, r) ==
    IF t.k = "slice" THEN NewBlock("slice", r.h, Laid(<<r.v>>)) ELSE Gives(r.h, <<>>, Laid(<<r.v>>))
GenerateSlicePtr(r)  == Gives(r.h, <<>>, To("ptr", r.v.to \o <<1>>))
GenerateAddress(r)   == Gives(r.h, <<>>, To("ptr", r.at))
GenerateCopier(r)    == NewBlock("slice", r.h, Read(r.h, r.v.to))
GenerateParts(parts) == Gives(parts.h, <<>>, Laid(parts.vs))

Run(g, vs, h) ==
    LET in == g.in[1]
    IN CASE g.k = "var"   -> Placed(h, vs[g.n].at)
         [] g.k = "fixed" -> Gives(h, <<>>, Scalar)
         [] g.k = "part"  -> PartOf(in.t, InPlace(Run(in, vs, h)), g.i)
         [] g.k = "ptr"   -> GenerateSlicePtr(Run(in, vs, h))
         [] g.k = "ref"   -> InPlace(CastTo(g.t, in, vs, h))
         [] g.k = "address" -> GenerateAddress(InPlace(CastTo(g.t, in, vs, h)))
         [] g.k \in {"alias", "block"} -> CastTo(g.t, in, vs, h)
         [] g.k = "cast"  -> Run(in, vs, h)
         [] g.k = "if"    -> ValueOf(CastTo(g.t, g.in[IF g.n = "then" THEN 1 ELSE 2], vs, h))
         [] g.k = "copy"  -> GenerateCopier(Run(in, vs, h))
         [] g.k = "alloc" -> GenerateArrayAlloc(g.t, Run(in, vs, h))
         [] g.k = "array value" -> GenerateParts(RunAll([i \in DOMAIN g.in |-> g.t.in[1]], g.in, vs, h))
         [] g.k = "tuple value" -> GenerateParts(RunAll(g.t.in, g.in, vs, h))
         [] g.k = "struct" -> GenerateParts(RunAll(Fields[g.n], g.in, vs, h))
         [] g.k = "call"   -> GenerateCall(RunIn(<<Functions[g.n].ret>>, code[g.n], Arguments(g.n, g.in, vs, h)))
         [] g.k = "object" -> GenerateClassCst(g.n, RunIn(AllFields(g.n), code[g.n], Arguments(g.n, g.in, vs, h)))

(***************************************************************************)
(* Statements.                                                             *)
(***************************************************************************)
Init ==
    /\ code = [n \in {m \in DOMAIN Functions \cup DOMAIN Constructors : Accepted(m)} |-> Body(Routine(n))]
    /\ locals = <<>> /\ heap = <<>> /\ done = <<>>

Valued(s) == [i \in DOMAIN s.es |-> Validate(s.es[i], locals, DOMAIN code)]

\* The place of a new variable: that of its value when it is a reference.
Declared(t, r) == IF t.r THEN r ELSE New(r)
Declare(t, g, vs, h) == Declared(t, CastTo(t, g, vs, h))
Binds(n, t, r) == n :> Local(t, r.at)

\* let deco n [: t] = e.
Let(s, g) ==
    \E t \in {ApplyDecorator(s.deco, IF s.t.k = "bad" THEN WithMutRef(g.t, FALSE, FALSE) ELSE s.t)} :
        /\ s.n \notin DOMAIN locals
        /\ Owns(t, g, TRUE)
        /\ \E r \in {Declare(t, g, locals, heap)} :
              heap' = r.h /\ locals' = Binds(s.n, t, r) @@ locals

\* let (deco n, m) = e: the parts of a copy of a tuple.
Destruct(s, g) ==
    LET Tuple_ == Value("var", "uniq", g.t, TRUE, <<>>)
        t1 == ApplyDecorator(s.deco, WithMutRef(ValidateTuple(Tuple_, 1).t, FALSE, FALSE))
        t2 == WithMutRef(ValidateTuple(Tuple_, 2).t, FALSE, FALSE)
    IN  /\ DOMAIN locals \cap {s.n, "m"} = {}
        /\ g.t.k = "tuple" /\ Len(g.t.in) = 2
        /\ Owns(t1, ValidateTuple(Tuple_, 1), TRUE) /\ Owns(t2, ValidateTuple(Tuple_, 2), TRUE)
        /\ \E r0 \in {New(Run(g, locals, heap))} :
           \E r1 \in {Declare(t1, ValidateTuple(Tuple_, 1), Binds("uniq", g.t, r0), r0.h)} :
           \E r2 \in {Declare(t2, ValidateTuple(Tuple_, 2), Binds("uniq", g.t, r0), r1.h)} :
              heap' = r2.h /\ locals' = Binds(s.n, t1, r1) @@ Binds("m", t2, r2) @@ locals

\* es[1] = es[2].
Affect(left, right) ==
    /\ left.lv /\ left.t.m
    /\ Owns(left.t, right, FALSE)
    /\ \E l \in {Run(left, locals, heap)} : \E r \in {CastTo(left.t, right, locals, l.h)} :
          heap' = IF l.at = <<>> THEN r.h ELSE Write(r.h, l.at, r.v)
    /\ UNCHANGED locals

\* for deco n in e: the variable is an element of a slice.
ForValue(s, g) ==
    LET each == PartValue(1, g.t.in[1], g)
        t    == ApplyDecorator(s.deco, WithMut(g.t.in[1], FALSE))
    IN  /\ s.n \notin DOMAIN locals
        /\ g.t.k = "slice"
        /\ VerifyMutabilityRefParam(t)
        /\ Owns(t, each, TRUE)
        /\ \E r \in {Declare(t, each, locals, heap)} :
              heap' = r.h /\ locals' = Binds(s.n, t, r) @@ locals

Next ==
    /\ Len(done) < Len(Statements)
    /\ \E s \in Statements[Len(done) + 1] : \E gs \in {Valued(s)} :
        /\ \A g \in Range(gs) : g.k # "bad"
        /\ \/ s.op = "let" /\ Let(s, gs[1])
           \/ s.op = "destruct" /\ Destruct(s, gs[1])
           \/ s.op = "set" /\ Affect(gs[1], gs[2])
           \/ s.op = "for" /\ ForValue(s, gs[1])
        /\ done' = Append(done, s)
    /\ UNCHANGED code

Spec == Init /\ [][Next]_vars

(***************************************************************************)
(* Who may write what: the properties.                                     *)
(***************************************************************************)
RECURSIVE PlacesOf(_), Shares(_), Lays(_, _), Inside(_), Words(_), Fits(_, _, _), Widens(_, _)

\* A value, and everything that is read through it.
PlacesOf(g) == {g} \cup UNION {PlacesOf(Access(g, i)) : i \in {j \in 1 .. 2 : Has(g, j)}}
PlacesOfVar(n, vs) == PlacesOf(Value("var", n, vs[n].t, TRUE, <<>>))

\* What a variable reads and writes, in the state (vs, h), and who writes a place.
Views(n, vs, h)   == {[n |-> n, at |-> Run(g, vs, h).at, t |-> g.t, writes |-> g.lv /\ g.t.m] : g \in PlacesOfVar(n, vs)}
Written(n, vs, h) == {v.at : v \in {w \in Views(n, vs, h) : w.writes}}
WrittenByAny(vs, h) == UNION {Written(n, vs, h) : n \in DOMAIN vs}
Under(at, places) == \E i \in DOMAIN at : SubSeq(at, 1, i) \in places
Writers(at, vs, h) == {n \in DOMAIN vs : Under(at, Written(n, vs, h))}

\* The value of a variable is of its type, down to the last object.
Fits(t, c, h) ==
    LET AllIn(types, cells) == \A i \in DOMAIN types : Fits(types[i], cells[i], h)
        EachIn(cells)       == \A e \in Range(cells) : Fits(t.in[1], e, h)
    IN CASE t.k = "int"    -> c = Scalar
         [] t.k = "class"  -> /\ c.k = "object" /\ IsAncestor(t.in[1].n, h[c.to[1]].k)
                              /\ AllIn(AllFields(t.in[1].n), h[c.to[1]].in)
         [] t.k = "slice"  -> c.k = "slice" /\ EachIn(Read(h, c.to).in)
         [] t.k = "ptr"    -> c.k = "ptr" /\ Fits(t.in[1], Read(h, c.to), h)
         [] t.k = "tuple"  -> c.k = "laid" /\ AllIn(t.in, c.in)
         [] t.k = "struct" -> c.k = "laid" /\ AllIn(Fields[t.n], c.in)
         [] t.k = "array"  -> c.k = "laid" /\ EachIn(c.in)
AllFit(vs, h) == \A n \in DOMAIN vs : Fits(vs[n].t, Read(h, vs[n].at), h)

\* What was in memory before the last statement, and is written after it.
Statement == done'[Len(done')]
WrittenNow == {at \in WrittenByAny(locals', heap') : at[1] <= Len(heap)}

\* The forms that are accepted whatever they share, looked for in the values of
\* the last statement.
Inside(g)  == {g} \cup UNION {Inside(g.in[i]) : i \in DOMAIN g.in}
Said        == Valued(Statement)
AllSaid     == UNION {Inside(h) : h \in Range(Said)}
Holds(F(_)) == \E g \in AllSaid : F(g)

Shares(t) == \/ t.k \in {"slice", "ptr", "class"}
             \/ \E u \in Range(t.in) : Shares(u)
             \/ t.k = "struct" /\ \E u \in Range(Fields[t.n]) : Shares(u)
Lays(t, kinds) == \/ t.k \in kinds /\ Shares(t)
                  \/ t.k \in {"tuple", "array"} /\ \E u \in Range(t.in) : Lays(u, kinds)

\* [a ; n] and new [a ; n] may be written at every depth, whatever a is.
Filled(g)     == g.k = "alloc" /\ Shares(g.in[1].t) /\ g.in[1].k \notin Fresh
\* The first level of a reference is compared for slices, options, scalars and the
\* structures with a complex field only.
ConstRef(g)   == /\ g.k = "ref" /\ ~g.t.m /\ g.t.k \notin {"slice", "option", "int"}
                 /\ g.t.k = "struct" => ~HasComplexField(g.t.n)
\* The levels of a structure with a complex field are compared when a reference
\* is bound to it, and nowhere else: not inside a tuple, nor for what is copied.
Bound(g)      == g.k = "ref" /\ g.t.k = "struct" /\ Statement.op = "let" /\ locals'[Statement.n].t.r
Structured(g) == g.k # "part" /\ ~Bound(g) /\ \E h \in Range(g.in) : h.lv /\ Lays(h.t, {"struct"})
\* The elements of [a, b] have no owner.
Listed(g)     == g.k = "array value" /\ \E h \in Range(g.in) : NeedExplicitAlias(h.t) /\ ~CanImplicitAlias(h)
\* Nor do the branches of a condition, unless they are blocks.
Branches(g)   == g.k = "if" /\ \E h \in Range(g.in) : ~CanImplicitAlias(h)
\* The copy of a static array of slices is that of its elements.
Copied(g)     == Lays(g.t, {"struct", "array"}) \/ (g.k # "part" /\ \E h \in Range(g.in) : h.lv /\ Lays(h.t, {"struct", "array"}))

Unverified == Holds(Filled) \/ Holds(ConstRef) \/ Holds(Structured)

\* What is not written through any variable is not written later: whatever is
\* declared, aliased, referenced, passed or assigned, a statement gives write
\* access to nothing that no variable could write already.
NoWriteGained ==
    [][\/ ~AllFit(locals', heap')
       \/ \A at \in WrittenNow : Under(at, WrittenByAny(locals, heap))
       \/ Unverified]_vars

Words(e) == {e.op} \cup UNION {Words(e.es[i]) : i \in DOMAIN e.es}

\* Two variables come to write the same memory only by a statement where the
\* program says so: alias, ref or &.
SharingIsExplicit ==
    [][\/ ~AllFit(locals', heap')
       \/ \A at \in WrittenNow :
              LET now == Writers(at, locals', heap')
              IN  Cardinality(now) > 1 => now \subseteq Writers(at, locals, heap)
       \/ \E i \in DOMAIN Statement.es : Words(Statement.es[i]) \cap {"alias", "ref", "&"} # {}
       \/ Holds(Filled) \/ Holds(Listed) \/ Holds(Branches) \/ Holds(Copied)]_vars

\* What is put in a place through a variable is what the others may read there.
Agree(vs, h) ==
    /\ AllFit(vs, h)
    /\ \E views \in {UNION {Views(n, vs, h) : n \in DOMAIN vs}} :
          \A v, u \in views : (v.n # u.n /\ v.at = u.at /\ v.writes) => IsCompatible(u.t, v.t)

\* The types that the last statement expects, with those of the values it has.
Expects(types, gs) == {<<types[i], gs[i].t>> : i \in DOMAIN types}
Expected(g) ==
    CASE g.k = "if" -> Expects(<<g.t, g.t>>, g.in)
      [] g.k = "array value" -> Expects([i \in DOMAIN g.in |-> g.t.in[1]], g.in)
      [] g.k = "call"   -> Expects(Functions[g.n].params, g.in)
      [] g.k = "object" -> Expects(Constructors[g.n].params, g.in)
      [] g.k = "struct" -> Expects(Fields[g.n], g.in)
      [] OTHER -> {}
Now == UNION {Expected(g) : g \in AllSaid}
       \cup CASE Statement.op = "set" -> {<<Said[1].t, Said[2].t>>}
              [] Statement.op = "let" -> {<<locals'[Statement.n].t, Said[1].t>>}
              [] OTHER -> {}

\* A slice or a pointer through which one may put what the value does not
\* admit, and one whose elements are laid out in another way.
Widens(t, u) ==
    \/ t.k \in {"slice", "ptr"} /\ t.m /\ t.in[1].m /\ ~Equals(t.in[1], u.in[1])
    \/ \E i \in DOMAIN t.in : t.in[i].k # u.in[i].k \/ Widens(t.in[i], u.in[i])

\* A statement never gives a variable a value that is not of its type, nor two
\* variables views of the same memory through which one may put what the other
\* may not read, unless it takes slices or pointers for wider ones, or gains access to one.
TypesAgree ==
    [][\/ Agree(locals, heap) => Agree(locals', heap')
       \/ \E e \in Now : Widens(e[1], e[2])
       \/ Unverified]_vars
=============================================================================
