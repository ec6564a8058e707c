---------------------------- MODULE MutableValues ----------------------------
(***************************************************************************)
(* What the validator accepts of a program, for the memory it reads and    *)
(* writes: the type of each expression, with the levels of it that may be  *)
(* written, and the verifications made where a value gets an owner.        *)
(*                                                                         *)
(* A type is [k, n, in, m, r]: a kind, a name, the types it is made of, and *)
(* two flags, mutable and reference.  A class pointer is made of the type  *)
(* of its class, whose flag counts too.  The flags of the fields of        *)
(* structures and classes are in the declaration of the fields.            *)
(*                                                                         *)
(* An expression is [op, n, i, es, t]; the value the validator makes of it *)
(* is [k, n, i, t, lv, in], where lv says that it is a place of the memory. *)
(***************************************************************************)
EXTENDS Integers, Sequences, SequencesExt, FiniteSetsExt

CONSTANTS
    Fields,         \* of each structure and class: the types of its own fields
    Ancestor,       \* of each class: the class it extends, or ""
    Functions,      \* [params, ret, body] of each function: types, and <<an expression over "p1", "p2">>
    Constructors    \* of each class: [params, body], the types, and an expression for each field

Type(k, n, in)  == [k |-> k, n |-> n, in |-> in, m |-> FALSE, r |-> FALSE]
Bad             == Type("bad", "", <<>>)    \* of what is rejected
Integer         == Type("int", "i32", <<>>)
StructRef(n)    == Type("struct", n, <<>>)
ClassRef(n)     == Type("classref", n, <<>>)

\* Types whose inner types their own flag governs.
IsComplex(t) == t.k \in {"slice", "array", "tuple", "ptr", "option", "class", "func"}

\* A copy of a type: the copy constructor leaves out the mutability.
Clone(t) == [t EXCEPT !.m = FALSE]

\* Type::createMutable: what is not mutable has nothing mutable inside, except
\* for function pointers, whose inner types are a prototype.
RECURSIVE CreateMutable(_, _)
CreateMutable(t, is) ==
    [t EXCEPT !.m = is,
              !.in = IF IsComplex(t) /\ ~is /\ t.k # "func"
                     THEN [i \in DOMAIN t.in |-> [CreateMutable(t.in[i], FALSE) EXCEPT !.r = FALSE]]
                     ELSE t.in]

WithMut(t, is)          == CreateMutable(t, is)
WithMutRef(t, is, ref)  == [CreateMutable(t, is) EXCEPT !.r = ref]
Inner(t)                == WithMutRef(t, t.m, FALSE)   \* as the constructors keep their inner types

Slice(t)     == Type("slice", "", <<Inner(t)>>)
Array(t, n)  == Type("array", ToString(n), <<Inner(t)>>)
Pointer(t)   == Type("ptr", "", <<Inner(t)>>)
Tuple(ts)    == Type("tuple", "", [i \in DOMAIN ts |-> Inner(ts[i])])
Option(t)    == Type("option", "", <<Inner(t)>>)
ClassPtr(c)  == Type("class", "", <<Inner(c)>>)

RECURSIVE ToDeeplyMutable(_)
ToDeeplyMutable(t) ==
    [t EXCEPT !.m = TRUE, !.in = [i \in DOMAIN t.in |-> ToDeeplyMutable(t.in[i])]]

\* toMutable gives one more mutable level, and takes the deeper ones off.
RECURSIVE ToMutable(_), ToLevelMinusOne(_, _)
ToMutable(t) ==
    [t EXCEPT !.m = TRUE, !.in = [i \in DOMAIN t.in |-> ToLevelMinusOne(t.in[i], t.m)]]

ToLevelMinusOne(t, fatherMut) ==
    IF t.m /\ fatherMut THEN Clone(t)
    ELSE IF ~IsComplex(t) THEN ToMutable(t)
    ELSE [t EXCEPT !.m = TRUE, !.in = [i \in DOMAIN t.in |-> [t.in[i] EXCEPT !.m = FALSE]]]

\* The fields of a structure that make it complex.
RECURSIVE MutabilityLevel(_, _)
HasComplexField(n) == \E f \in Range(Fields[n]) : IsComplex(f) /\ MutabilityLevel(f, 0) # 0

\* How deep the mutability goes: the deepest of the parts.
Deepest(ts, level) == Max({level} \union {MutabilityLevel(ts[i], level) : i \in DOMAIN ts})

MutabilityLevel(t, level) ==
    IF ~t.m THEN level
    ELSE CASE t.k = "option" -> MutabilityLevel(t.in[1], level + 1)
           [] t.k = "struct" /\ HasComplexField(t.n) -> Deepest(Fields[t.n], level)
           [] OTHER -> Deepest(t.in, level + 1)

Level(t) == MutabilityLevel(t, 0)

\* Copying a value of this type shares memory that may be written.
RECURSIVE NeedExplicitAlias(_)
NeedExplicitAlias(t) ==
    CASE t.k \in {"slice", "ptr", "class"} -> TRUE
      [] t.k \in {"tuple", "option"} -> \E u \in Range(t.in) : u.m /\ NeedExplicitAlias(u)
      [] t.k = "struct" -> \E u \in Range(Fields[t.n]) : u.m /\ NeedExplicitAlias(u)
      [] OTHER -> FALSE

\* The same types, whatever is mutable, except in the prototypes of functions.
RECURSIVE Equals(_, _)
Equals(t, u) ==
    /\ t.k = u.k
    /\ t.n = u.n
    /\ Len(t.in) = Len(u.in)
    /\ \A i \in DOMAIN t.in :
        /\ Equals(t.in[i], u.in[i])
        /\ t.k = "func" => Level(t.in[i]) = Level(u.in[i]) /\ t.in[i].r = u.in[i].r

RECURSIVE IsAncestor(_, _)
IsAncestor(c, d) == c = d \/ (Ancestor[d] # "" /\ IsAncestor(c, Ancestor[d]))

\* A value of type u is what a variable of type t may hold.
RECURSIVE IsCompatible(_, _)
IsCompatible(t, u) ==
    CASE t.k = "slice" -> /\ u.k \in {"slice", "array"}
                          /\ IsCompatible(t.in[1], u.in[1])
      [] t.k = "array" -> u.k = "array" /\ u.n = t.n /\ IsCompatible(t.in[1], u.in[1])
      [] t.k \in {"ptr", "option"} -> u.k = t.k /\ IsCompatible(t.in[1], u.in[1])
      [] t.k = "tuple" -> /\ u.k = "tuple"
                          /\ Len(u.in) = Len(t.in)
                          /\ \A i \in DOMAIN t.in : IsCompatible(t.in[i], u.in[i])
      [] t.k = "class" -> u.k = "class" /\ IsAncestor(t.in[1].n, u.in[1].n)
      [] OTHER -> Equals(t, u)

\* The first ancestor of c that is a proper one of d, or "".
RECURSIVE CommonAncestor(_, _)
CommonAncestor(c, d) == IF c = "" \/ (c # d /\ IsAncestor(c, d)) THEN c ELSE CommonAncestor(Ancestor[c], d)

\* The type of both branches of a condition: the one that allows less.
RECURSIVE InferTypeBranching(_, _)
InferTypeBranching(t, u) ==
    LET less == IF Level(t) < Level(u) THEN t ELSE u
    IN CASE IsCompatible(t, u) -> less
         [] t.k = "slice" /\ u.k = "slice" ->
              LET in == InferTypeBranching(t.in[1], u.in[1])
              IN IF in.k = "bad" THEN in ELSE WithMut(Slice(in), less.m)
         [] t.k = "class" /\ u.k = "class" ->
              LET c == IF IsAncestor(u.in[1].n, t.in[1].n) THEN u.in[1].n ELSE CommonAncestor(t.in[1].n, u.in[1].n)
              IN IF c = "" THEN Bad
                 ELSE WithMut(ClassPtr(WithMut(ClassRef(c), less.in[1].m)), less.m)
         [] t.k = "tuple" /\ u.k = "tuple" /\ Len(t.in) = Len(u.in) ->
              LET in == [i \in DOMAIN t.in |-> InferTypeBranching(t.in[i], u.in[i])]
              IN IF \E x \in Range(in) : x.k = "bad" THEN Bad
                 ELSE WithMut(Tuple(in), t.m /\ u.m)
         [] OTHER -> Bad

-----------------------------------------------------------------------------
(* Expressions.                                                            *)

Expression(op, n, i, es, t) == [op |-> op, n |-> n, i |-> i, es |-> es, t |-> t]
Value(k, n, t, lv, in) == [k |-> k, n |-> n, i |-> 0, t |-> t, lv |-> lv, in |-> in]
PartValue(i, t, g)     == [Value("part", "", t, TRUE, <<g>>) EXCEPT !.i = i]
Rejected               == Value("bad", "", Bad, FALSE, <<>>)

\* Mutant: one level more is allowed.
AtMostNext(level, rlevel) == level <= Max({1, rlevel}) + 1
AtMost(level, rlevel) == level <= Max({1, rlevel})

\* The levels of the left type that may be written are levels of the right one,
\* the first excepted: it is the memory of the left operand itself, but for the
\* construction of a reference to a type of the last case.
RECURSIVE VerifyMutabilityLevel(_, _, _)
VerifyMutabilityLevel(t, u, construct) ==
    CASE u.k = "tuple" -> \A i \in DOMAIN t.in : VerifyMutabilityLevel(t.in[i], u.in[i], FALSE)
      [] u.k # "tuple" /\ t.k = "struct" /\ ~HasComplexField(t.n) -> AtMost(Level(t), Level(u))
      [] u.k # "tuple" /\ t.k = "func" -> TRUE
      [] u.k # "tuple" /\ t.k \in {"array", "ptr", "class", "classref"} -> AtMost(Level(t), Level(u))
      [] OTHER -> /\ IsComplex(t) \/ t.r => AtMost(Level(t), Level(u))
                  /\ t.r /\ construct => Level(t) <= Level(u)

Fresh    == {"array value", "struct", "object", "alloc", "tuple value", "option"}
Explicit == {"copy", "alias", "ref"}
CanImplicitAlias(g) == g.k \in Fresh \cup Explicit

\* Mutant: the level of any value is trusted.
VerifyImplicitAliasOfAll(t, g) ==
    ~NeedExplicitAlias(t) \/ CanImplicitAlias(g) \/ AtMost(Level(t), Level(g.t))

\* A type that shares its memory takes it from a value that says so, or that no
\* one else owns, unless it writes nothing of it.
VerifyImplicitAlias(t, g) ==
    \/ ~NeedExplicitAlias(t)
    \/ CanImplicitAlias(g)
    \/ AtMost(Level(t), IF g.k \in {"if", "call"} \/ (g.k = "block" /\ ~g.lv) THEN Level(g.t) ELSE 1)

\* Mutant: a reference to an heir.
VerifyReferenceToHeir(t, g, construct) ==
    construct /\ t.r => (Equals(t, g.t) \/ (t.k = "class" /\ IsCompatible(t, g.t))) /\ g.k = "ref"

VerifyReference(t, g, construct) ==
    construct /\ t.r => Equals(t, g.t) /\ g.k = "ref"

VerifyMemoryOwner(t, g, construct) ==
    /\ VerifyImplicitAlias(t, g)
    /\ VerifyReference(t, g, construct)
    /\ IF t.k = "ptr" THEN AtMost(Level(t), Level(g.t)) ELSE VerifyMutabilityLevel(t, g.t, construct)

\* The verification with that of the types, as it is most often made.
Owns(t, g, construct) == IsCompatible(t, g.t) /\ VerifyMemoryOwner(t, g, construct)

VerifyMutabilityRefParam(t) == t.m => t.r \/ NeedExplicitAlias(t)

\* let, and the parameters: what is written before the name of a variable.
ApplyDecorator(deco, t) ==
    LET u == WithMutRef(t, deco \in {"mut", "ref mut"}, deco \in {"ref", "ref mut", "ref dmut"})
    IN IF deco \in {"dmut", "ref dmut"} THEN ToDeeplyMutable(u) ELSE u

\* Parts of a value: written through it when it and the part are mutable.
Part(g, t, also) == WithMut(t, g.lv /\ g.t.m /\ t.m /\ also)

RECURSIVE AllFields(_)
AllFields(c) == (IF Ancestor[c] = "" THEN <<>> ELSE AllFields(Ancestor[c])) \o Fields[c]

ValidateTuple(g, i)  == PartValue(i, Part(g, g.t.in[i], TRUE), g)
ValidateStruct(g, i) == PartValue(i, Part(g, Fields[g.t.n][i], TRUE), g)
ValidateClassFieldAccess(g, i) ==
    PartValue(i, Part(g, AllFields(g.t.in[1].n)[i], g.t.in[1].m), g)
\* An index known at compile time: the type of the elements is kept.
ValidateArray(g)     == PartValue(1, g.t.in[1], g)
ValidateSlice(g)     == PartValue(1, Part(g, g.t.in[1], TRUE), g)
ValidatePointer(g)   == PartValue(1, IF g.t.m THEN g.t.in[1] ELSE WithMut(g.t.in[1], FALSE), g)

Has(g, i) == CASE g.t.k = "tuple" -> i \in DOMAIN g.t.in
               [] g.t.k = "struct" -> i \in DOMAIN Fields[g.t.n]
               [] g.t.k = "class" -> i \in DOMAIN AllFields(g.t.in[1].n)
               [] OTHER -> g.t.k \in {"slice", "array", "ptr"} /\ i = 1

Access(g, i) == CASE g.t.k = "tuple" -> ValidateTuple(g, i)
                  [] g.t.k = "struct" -> ValidateStruct(g, i)
                  [] g.t.k = "class" -> ValidateClassFieldAccess(g, i)
                  [] g.t.k = "array" -> ValidateArray(g)
                  [] g.t.k = "slice" -> ValidateSlice(g)
                  [] g.t.k = "ptr" -> ValidatePointer(g)

\* alias: a view on a static array, or a value that may be written.
ValidateAlias(g) ==
    IF g.t.k \in {"array", "slice"}
    THEN Value("alias", "", IF g.t.k = "array" THEN WithMut(Slice(g.t.in[1]), g.t.m) ELSE g.t, FALSE, <<g>>)
    ELSE IF g.t.m THEN Value("alias", "", g.t, FALSE, <<g>>) ELSE Rejected

\* copy: a new slice, whose elements are as they were.
ValidateCopy(g) ==
    LET t == ToMutable(WithMut(g.t, FALSE))
        u == WithMut(Slice(t.in[1]), TRUE)
    IN IF g.t.k = "array" THEN Value("copy", "", u, FALSE, <<Value("alias", "", u, FALSE, <<g>>)>>)
       ELSE IF g.t.k = "slice" THEN Value("copy", "", t, FALSE, <<g>>)
       ELSE Rejected

ValidateRef(g) ==
    IF ~g.lv THEN Rejected
    ELSE IF g.k = "ref" THEN g
    ELSE Value("ref", "", WithMutRef(g.t, g.t.m, TRUE), TRUE, <<g>>)

ValidateAddress(g) ==
    IF g.lv THEN Value("address", "", WithMut(Pointer(Inner(g.t)), TRUE), FALSE, <<g>>) ELSE Rejected

\* [e, ...]: a copy of a static array, every level of which may be written.
ValidateArrayLiteral(gs) ==
    LET types == [i \in DOMAIN gs |-> gs[i].t]
        inner == FoldLeft(LAMBDA t, u : IF t.k = "bad" THEN t ELSE InferTypeBranching(t, u), types[1], Tail(types))
        array == ToDeeplyMutable(WithMut(Array(Inner(inner), Len(gs)), TRUE))
        slice == WithMut(Slice(WithMutRef(inner, TRUE, FALSE)), TRUE)
    IN IF inner.k = "bad" THEN Rejected
       ELSE Value("copy", "", slice, FALSE,
                  <<Value("alias", "", slice, FALSE, <<Value("array value", "", array, FALSE, gs)>>)>>)

\* (e, ...): what is not aliased is a constant of the tuple.
ValidateTupleLiteral(gs) ==
    LET Of(g) == IF VerifyMemoryOwner(g.t, g, FALSE) /\ IsCompatible(g.t, g.t) THEN g.t ELSE WithMut(g.t, FALSE)
    IN IF \A i \in DOMAIN gs : VerifyMemoryOwner(Of(gs[i]), gs[i], FALSE)
       THEN Value("tuple value", "", WithMut(Tuple([i \in DOMAIN gs |-> Inner(Of(gs[i]))]), TRUE), FALSE, gs)
       ELSE Rejected

\* [e ; n] and new [e ; n].
ValidateArrayAlloc(g, dynamic) ==
    LET t == IF dynamic THEN Slice(g.t) ELSE Array(g.t, 1)
    IN IF VerifyMemoryOwner(g.t, g, FALSE)
       THEN Value("alloc", "", ToDeeplyMutable(WithMut(t, TRUE)), FALSE, <<g>>)
       ELSE Rejected

ValidateStructCst(n, gs) ==
    IF Len(gs) = Len(Fields[n]) /\ \A i \in DOMAIN gs : Owns(Fields[n][i], gs[i], TRUE)
    THEN Value("struct", n, WithMut(StructRef(n), TRUE), FALSE, gs)
    ELSE Rejected

\* The pointer to the elements of a slice.
ValidateSlicePtr(g) ==
    IF g.t.k = "slice" THEN Value("ptr", "", WithMut(Pointer(g.t.in[1]), g.t.m), TRUE, <<g>>) ELSE Rejected

\* A class seen as one of its ancestors; what may be written is kept.
ValidateCast(t, g) ==
    IF t.k = "class" /\ g.t.k = "class" /\ t.in[1].n # g.t.in[1].n /\ IsAncestor(t.in[1].n, g.t.in[1].n)
    THEN Value("cast", "", WithMut(ClassPtr(WithMut(t.in[1], g.t.in[1].m)), g.t.m), FALSE, <<g>>)
    ELSE Rejected

\* if c then es[1] else es[2]: n is the branch that is taken.
ValidateIf(n, gs) ==
    LET t    == gs[1].t
        u    == gs[2].t
        Seen == IF ~IsCompatible(u, t) /\ t.k = "class" /\ u.k = "class"
                THEN CommonAncestor(u.in[1].n, t.in[1].n) ELSE ""
        type == InferTypeBranching(IF Seen = "" THEN t ELSE ClassPtr(ClassRef(Seen)), u)
    IN IF type.k = "bad" THEN Rejected ELSE Value("if", n, type, FALSE, gs)

\* A block may be written if its last value may be aliased.
ValidateBlock(g) ==
    LET t == WithMutRef(g.t, g.t.m /\ CanImplicitAlias(g), FALSE)
    IN IF Owns(t, g, FALSE) THEN Value("block", "", t, FALSE, <<g>>) ELSE Rejected

ValidateTypeParameterList(types, gs) ==
    Len(types) = Len(gs) /\ \A i \in DOMAIN types : Owns(types[i], gs[i], TRUE)

\* A type the program writes: const, mut and dmut over a type.
ValidateTypeDecorated(deco, t) ==
    IF deco = "dmut" THEN ToDeeplyMutable(t) ELSE WithMut(t, deco = "mut")
=============================================================================
