---------------------------- MODULE OperatorCalls ----------------------------
(***************************************************************************)
(* What the validator makes of the operators (BinaryVisitor, UnaryVisitor, *)
(* BracketVisitor): an operation of the machine, or a call of the method,  *)
(* or for a structure of the function, that overloads the operator; what   *)
(* it makes of an assignment and of a loop (ForVisitor); and what the code  *)
(* that is generated of them computes, how often and until when.           *)
(*                                                                         *)
(* An overload is [name, by, method, final, takes, gives]: "by" is the     *)
(* operator that a template is called with, or "", and takes are the types  *)
(* of the parameters, the object first.  TemplateCalls chooses between the  *)
(* candidates of a call; a call here has one candidate or it is refused.    *)
(***************************************************************************)
EXTENDS Patterns

\* What a visitor answers: a generator, nothing, or a list of errors.
Code(g)        == [is |-> "code", g |-> g]
NoCode         == [is |-> "nothing"]
Raises(errors) == [is |-> "raises", errors |-> errors]

ErrorsOf(answer)         == IF answer.is = "raises" THEN answer.errors ELSE <<>>
Then(answer, Follows(_)) == IF answer.is = "code" THEN Follows(answer.g) ELSE answer
OneGen(gens) == IF gens = {} THEN Raises(<<"undefined">>) ELSE Code(CHOOSE g \in gens : TRUE)

\* Mutant: the error of the left operand ends the search.
LeftOnly(left, right) == IF left.is = "nothing" THEN right ELSE left

\* The errors of the left operand are kept until the right one has been tried.
FirstOf(left, right) ==
    CASE left.is = "code" -> left
      [] right.is = "code" -> right
      [] OTHER -> LET errors == ErrorsOf(left) \o ErrorsOf(right)
                  IN  Raises(IF errors = <<>> THEN <<"undefined">> ELSE errors)

-----------------------------------------------------------------------------
(* Calls of overloads.                                                     *)

Candidates(overloads, method, name, by, args) ==
    {o \in overloads :
        /\ o.method = method /\ o.name = name /\ o.by = by
        /\ Len(o.takes) = Len(args)
        /\ \A i \in DOMAIN args : IsCompatible(o.takes[i], args[i].type)}

Invoke(o, args) == [op |-> "invoke", type |-> o.gives, by |-> o, args |-> args]

ValidateCall(overloads, method, name, by, args) ==
    LET found == Candidates(overloads, method, name, by, args)
    IN  IF Cardinality(found) = 1 THEN Code(Invoke(CHOOSE o \in found : TRUE, args))
        ELSE Raises(<<name>>)

\* A method of the class of this operand, or a function for a structure.
CallFor(overloads, of, name, by, args) ==
    ValidateCall(overloads, of.type.is = "class", name, by, args)

IsOverloaded(g) == g.type.is \in {"class", "struct"}

-----------------------------------------------------------------------------
(* Unary operators, and accesses to an object.                             *)

UnaryGens(by, g) ==
    CASE g.type = Bool /\ by = "!" -> {Not(g)}
      [] g.type.is = "int" /\ by = "-" -> {Negative(g)}
      [] g.type.is = "float" /\ by = "-" -> {[op |-> "unafloat", type |-> g.type, who |-> g]}
      [] g.type.is = "pointer" /\ by = "*" -> {[op |-> "unaptr", type |-> g.type.inner, who |-> g]}
      [] OTHER -> {}

\* Only a class overloads them: for a structure there is no function to call.
ValidateUnary(overloads, by, g) ==
    IF g.type.is = "class" THEN CallFor(overloads, g, "opUnary", by, <<g>>)
    ELSE OneGen(UnaryGens(by, g))

ValidateIndex(overloads, g, at) == CallFor(overloads, g, "opIndex", "", <<g>> \o at)

-----------------------------------------------------------------------------
(* Arithmetic.                                                             *)

MathOps == MathInt \cup {"^^", "~"}

\* ^^ is accepted on integers, and no code is written for it: the compiler ends.
IntGens(by, l, r) ==
    IF by = "^^" /\ r.type.is = "int" /\ r.type.signed = l.type.signed
    THEN {Binary("binint", by, l, r, Integer(Larger(l.type, r.type), l.type.signed))}
    ELSE Validate(by, l, r)

FloatGens(by, l, r) ==
    IF r.type.is # "float" THEN {}
    ELSE {Binary("binfloat", by, l, r, Bool) : b \in {by} \cap Logical}
         \cup {Binary("binfloat", by, l, r, Float(Larger(l.type, r.type))) :
                 b \in {by} \cap {"+", "-", "*", "/"}}

PtrGens(by, l, r) ==
    {g \in {Binary("binptr", by, l, r, l.type)} :
        r.type.is = "int" /\ ~r.type.signed /\ by \in {"+", "-"}}

\* An array is taken for a slice of it.  The level is how deep it can be modified.
Sliced(g) ==
    IF g.type.is = "slice" THEN g
    ELSE [op |-> "alias", type |-> SliceOf(g.type.inner), who |-> g, level |-> g.level]

IsRow(g) == g.type.is \in {"array", "slice"}

ConcatLevel(l, r) == IF l.level < r.level THEN l.level ELSE r.level

Concatenation(l, r) ==
    IF l.type # r.type THEN Raises(<<"types">>)
    ELSE Code([level |-> ConcatLevel(l, r)] @@ Binary("concat", "~", l, r, l.type))

MathRow(by, l, r) ==
    IF by = "~" /\ IsRow(r) THEN Concatenation(Sliced(l), Sliced(r)) ELSE NoCode

MathLeft(overloads, by, l, r) ==
    CASE l.type.is = "int"     -> OneGen(IntGens(by, l, r))
      [] l.type.is = "char"    -> OneGen(Validate(by, l, r))
      [] l.type.is = "float"   -> OneGen(FloatGens(by, l, r))
      [] l.type.is = "pointer" -> OneGen(PtrGens(by, l, r))
      [] IsRow(l)              -> MathRow(by, l, r)
      [] IsOverloaded(l)       -> CallFor(overloads, l, "opBinary", by, <<l, r>>)
      [] OTHER -> NoCode

MathRight(overloads, by, l, r) ==
    IF IsOverloaded(r) THEN CallFor(overloads, r, "opBinaryRight", by, <<r, l>>) ELSE NoCode

ValidateMathOperation(overloads, by, l, r) ==
    FirstOf(MathLeft(overloads, by, l, r), MathRight(overloads, by, l, r))

-----------------------------------------------------------------------------
(* Comparisons.                                                            *)

InverseOperator ==
    [by \in Logical |->
        CASE by = "<" -> ">" [] by = "<=" -> ">=" [] by = ">" -> "<" [] by = ">=" -> "<=" [] OTHER -> by]

\* The result of opCmp is compared with 0, that no other type than an integer has.
FinalTest(by, call) ==
    IF call.type.is # "int" THEN Raises(<<"cast">>)
    ELSE OneGen(Validate(by, call, FixedValue(call.type, 0)))

Inverted(overloads, negative, call) ==
    IF negative THEN Then(call, LAMBDA g : ValidateUnary(overloads, "!", g)) ELSE call

ValidateEqual(overloads, by, of, args) ==
    IF by \in {"==", "!="}
    THEN Inverted(overloads, by = "!=", CallFor(overloads, of, "opEquals", "", args)) ELSE NoCode

\* The final test keeps nothing of what opEquals has said.
Ordered(test, equal, call) ==
    CASE equal.is = "code" -> equal
      [] call.is = "raises" -> Raises(ErrorsOf(equal) \o call.errors)
      [] OTHER -> FinalTest(test, call.g)

ValidateOrder(overloads, by, test, of, args) ==
    Ordered(test, ValidateEqual(overloads, by, of, args), CallFor(overloads, of, "opCmp", "", args))

ValidateLogicalRow(overloads, by, l, r) ==
    IF ~IsRow(r) THEN NoCode
    ELSE Then(ValidateCall(overloads, FALSE, "core::array::opCmp", "", <<Sliced(l), Sliced(r)>>),
              LAMBDA call : FinalTest(by, call))

LogicalLeft(overloads, by, l, r) ==
    CASE l.type.is = "int" \/ l.type = Bool \/ l.type.is = "char" -> OneGen(Validate(by, l, r))
      [] l.type.is = "float" -> OneGen(FloatGens(by, l, r))
      [] IsRow(l) -> ValidateLogicalRow(overloads, by, l, r)
      [] IsOverloaded(l) /\ by \in Logical -> ValidateOrder(overloads, by, by, l, <<l, r>>)
      [] OTHER -> NoCode

LogicalRight(overloads, by, l, r) ==
    IF IsOverloaded(r) /\ by \in Logical
    THEN ValidateOrder(overloads, by, InverseOperator[by], r, <<r, l>>) ELSE NoCode

ValidateLogicalOperation(overloads, by, l, r) ==
    FirstOf(LogicalLeft(overloads, by, l, r), LogicalRight(overloads, by, l, r))

ValidatePointerOperation(by, l, r) ==
    OneGen({g \in {Binary("binptr", by, l, r, Bool)} :
        \/ l.type.is \in {"pointer", "class"} /\ IsCompatible(l.type, r.type)
        \/ l.type.is = "pointer" /\ r.op = "null"})

ValidateContain(overloads, by, l, r) ==
    IF r.type.is # "class" THEN Raises(<<"undefined">>)
    ELSE Inverted(overloads, by = "!in", CallFor(overloads, r, "opContain", "", <<r, l>>))

\* The ends of a range are kept in variables: each of them is computed once.
ValidateRangeOperation(by, l, r) ==
    OneGen({g \in {Binary("range", by, l, r, RangeType(l.type))} :
        l.type.is \in {"int", "char", "float"} /\ IsCompatible(l.type, r.type)})

ValidateBinary(overloads, by, l, r) ==
    CASE by \in MathOps       -> ValidateMathOperation(overloads, by, l, r)
      [] by \in {"..", "..."} -> ValidateRangeOperation(by, l, r)
      [] by \in {"is", "!is"} -> ValidatePointerOperation(by, l, r)
      [] by \in {"in", "!in"} -> ValidateContain(overloads, by, l, r)
      [] OTHER                -> ValidateLogicalOperation(overloads, by, l, r)

-----------------------------------------------------------------------------
(* Assignments.  A target is a value, an element or what is pointed to:    *)
(* [form, of, at, type, place], where place is "mutable", "const", "self"   *)
(* or "none" for what has no place in the memory.                          *)

LeftValue(overloads, target) ==
    CASE target.form = "index" /\ target.of.type.is = "class" ->
            ValidateIndex(overloads, target.of, target.at)
      [] target.form = "index" ->
            Code([op |-> "element", type |-> target.type, of |-> target.of, at |-> target.at])
      [] target.form = "deref" -> ValidateUnary(overloads, "*", target.of)
      [] OTHER -> Code(target.of)

\* The value that is written: with a compound operator, that of the operation.
Written(overloads, by, target, r) ==
    IF by = "=" THEN Code(r)
    ELSE Then(LeftValue(overloads, target), LAMBDA l : ValidateMathOperation(overloads, by, l, r))

ValidateIndexAssign(overloads, by, target, r) ==
    Then(Written(overloads, by, target, r), LAMBDA v :
        CallFor(overloads, target.of, "opIndexAssign", "", <<target.of>> \o target.at \o <<v>>))

ValidateUnaryAssign(overloads, by, target, r) ==
    Then(Written(overloads, by, target, r), LAMBDA v :
        CallFor(overloads, target.of, "opUnaryAssign", "*", <<target.of, v>>))

Affect(target, l, v) ==
    CASE target.place \in {"none", "self"} -> Raises(<<"not a lvalue">>)
      [] target.place = "const" -> Raises(<<"immutable">>)
      [] ~IsCompatible(l.type, v.type) -> Raises(<<"types">>)
      [] OTHER -> Code([op |-> "affect", type |-> l.type, left |-> l, right |-> v])

ValidateAffectation(overloads, by, target, r) ==
    CASE target.form = "index" /\ target.of.type.is = "class" ->
            ValidateIndexAssign(overloads, by, target, r)
      [] target.form = "deref" /\ target.of.type.is = "class" ->
            ValidateUnaryAssign(overloads, by, target, r)
      [] OTHER ->
            Then(LeftValue(overloads, target), LAMBDA l :
                Then(Written(overloads, by, target, r), LAMBDA v : Affect(target, l, v)))

-----------------------------------------------------------------------------
(* Loops.  A range is iterated when the code runs, or by the compiler, which *)
(* computes with the long or the ulong of its machine; a tuple by copying the *)
(* content for each of its fields; an object by calls of its methods.      *)

StepOf(l, r) == IF l < r THEN 1 ELSE -1

Goes(step, full, iter, right) ==
    CASE step < 0 -> IF full THEN iter >= right ELSE iter > right
      [] OTHER    -> IF full THEN iter <= right ELSE iter < right

\* The values of the variable.  After the last value of its type it starts again
\* from the first one, or is undefined, and the loop does not end.
RECURSIVE Visits(_, _, _, _, _)
Visits(type, step, full, iter, right) ==
    CASE ~Goes(step, full, iter, right) -> [seen |-> <<>>, ends |-> TRUE]
      [] ~Fits(type, iter + step)       -> [seen |-> <<iter>>, ends |-> FALSE]
      [] OTHER -> LET after == Visits(type, step, full, iter + step, right)
                  IN  [after EXCEPT !.seen = <<iter>> \o @]

IterateRange(type, l, r, full)    == Visits(type, StepOf(l, r), full, l, r)
IterateRangeCte(type, l, r, full) ==
    Visits(IF type.signed THEN Long ELSE ULong, StepOf(l, r), full, l, r)

\* The values, or the indices, for which the content of a loop is run: "of" has
\* the ends of a range, or how many elements there are.
IterateSlice(len) == Visits(ULong, 1, FALSE, 0, len)
IterateTuple(len) == [seen |-> [i \in 1 .. len |-> i - 1], ends |-> TRUE]

\* The compiler only turns for a range of integers.
ValidateFor(type, vars, cte, of) ==
    LET loops ==
            CASE type.is = "range" /\ cte ->
                    {IterateRangeCte(type.inner, of.left, of.right, of.full) :
                        v \in {vars} \cap {1}, is \in {type.inner.is} \cap {"int"}}
              [] cte -> {}
              [] type.is = "range" /\ vars = 1 -> {IterateRange(type.inner, of.left, of.right, of.full)}
              [] IsRow([type |-> type]) /\ vars <= 2 -> {IterateSlice(of.len)}
              [] type.is = "tuple" /\ vars = 1 -> {IterateTuple(of.len)}
              [] OTHER -> {}
    IN  OneGen(loops)

\* A variable: [type, deco], type the set of the types that it is declared with,
\* which it has when they are verified.
Given(decl, type) == IF decl.type = {} THEN type ELSE CHOOSE t \in decl.type : TRUE

CheckedType(decl, type) ==
    CASE decl.deco # "" -> Raises(<<"decorator">>)
      [] \E t \in decl.type : ~IsCompatible(t, type) -> Raises(<<"types">>)
      [] OTHER -> Code(Given(decl, type))

CreateIndexVar(decl) == CheckedType(decl, ULong)

\* The variable of a range keeps the type inside of the range.
CreateIndexVarRange(decl, inner) == Then(CheckedType(decl, inner), LAMBDA t : Code(inner))

\* The declared type of the variable of a tuple is verified by nothing.
CreateIndexVarTuple(decl, inner) ==
    IF decl.deco # "" THEN Raises(<<"decorator">>) ELSE Code(Given(decl, inner))

NeedExplicitAlias(type) == type.is \in {"slice", "pointer", "class"}

\* An element is taken by value, and written when its type shares its memory
\* anyway.  By reference it is always refused: for its level, or because the
\* alias that is made of it is no Referencer (verifyMemoryOwner).
ArrayByValueIterator(decl, inner, level) ==
    CASE \E t \in decl.type : ~IsCompatible(t, inner) -> Raises(<<"types">>)
      [] decl.deco = "mut" /\ ~NeedExplicitAlias(Given(decl, inner)) -> Raises(<<"mutable">>)
      [] decl.deco = "ref" -> Raises(IF level < 2 THEN <<"level">> ELSE <<"owner">>)
      [] OTHER -> Code(Given(decl, inner))

IndexVarClass(overloads, iter, decl, i) ==
    Then(CallFor(overloads, iter, "get", i, <<iter>>), LAMBDA g : CheckedType(decl, g.type))

\* The loop of an object: what is called, in order, for n turns with k variables.
Step(do, of) == [do |-> do, of |-> of]

LoopContent(n, k) ==
    FlattenSeq([i \in 1 .. n |->
        <<Step("test", i)>> \o [j \in 1 .. k |-> Step("get", i)]
        \o <<Step("content", i), Step("next", i)>>])
    \o <<Step("test", n + 1)>>

Held(name, type) == [op |-> "operand", type |-> type, id |-> name, level |-> 0]

\* The calls that the loop is made of, and what is held while it runs.
LoopCalls(overloads, decls, iter, end) ==
    <<ValidateBinary(overloads, "!=", iter, end)>>
    \o [i \in DOMAIN decls |-> IndexVarClass(overloads, iter, decls[i], <<"0", "1">>[i])]
    \o <<CallFor(overloads, iter, "next", "", <<iter>>)>>

ClassPreLoop == <<"end", "iter">>

\* Each of them is declared around what comes before, inside of an exit scope
\* when its class has the trait and the call of dispose is accepted.
Enclosed(overloads, disposable, loop, g) ==
    [is |-> "held", var |-> g.id, loop |-> loop,
     exit |-> g.type \in disposable /\ CallFor(overloads, g, "dispose", "", <<g>>).is = "code"]

Opened(overloads, disposable, content, held) ==
    FoldLeft(LAMBDA loop, var : Enclosed(overloads, disposable, loop, held[var]),
             [is |-> "steps", steps |-> content], ClassPreLoop)

UnlessRefused(calls, loop) ==
    LET refused == SelectSeq(calls, LAMBDA call : call.is # "code")
    IN  IF refused # <<>> THEN Head(refused) ELSE Code(loop)

ClassLoop(overloads, disposable, held, decls, n) ==
    UnlessRefused(LoopCalls(overloads, decls, held.iter, held.end),
                  Opened(overloads, disposable, LoopContent(n, Len(decls)), held))

ValidateClassLoop(overloads, disposable, of, decls, n) ==
    Then(CallFor(overloads, of, "begin", "", <<of>>), LAMBDA begin :
        Then(CallFor(overloads, of, "end", "", <<of>>), LAMBDA last :
            ClassLoop(overloads, disposable,
                      [end |-> Held("end", last.type), iter |-> Held("iter", begin.type)], decls, n)))

\* A run of it where the call number "fails", if there is one, throws.
RECURSIVE RunLoop(_, _)
RunLoop(loop, fails) ==
    CASE loop.is = "steps" ->
            IF fails \in DOMAIN loop.steps THEN SubSeq(loop.steps, 1, fails) ELSE loop.steps
      [] fails = 1 -> <<Step("open", loop.var)>>
      [] OTHER ->
            <<Step("open", loop.var)>> \o RunLoop(loop.loop, fails - 1)
            \o (IF loop.exit THEN <<Step("dispose", loop.var)>> ELSE <<>>)

-----------------------------------------------------------------------------
(* What the code computes.  An object is a number, and its overloads are   *)
(* honest: they compute what the operator means on these numbers.  What    *)
(* nothing has to be known of stays a tuple.                               *)

\* The meaning of `a by b`.
OfOperator(by, a, b) ==
    CASE by \in Logical -> Compared(by, a, b)
      [] by = "&&" -> a /\ b
      [] by = "||" -> a \/ b
      [] by = "is" -> a = b
      [] by = "!is" -> a # b
      [] by = "in" -> a \in Bits(b)
      [] by = "!in" -> a \notin Bits(b)
      [] OTHER -> <<by, a, b>>

Honest(o, v) ==
    CASE o.name = "opBinary" -> OfOperator(o.by, v[1], v[2])
      [] o.name = "opBinaryRight" -> OfOperator(o.by, v[2], v[1])
      [] o.name = "opEquals" -> v[1] = v[2]
      [] o.name \in {"opCmp", "core::array::opCmp"} -> v[1] - v[2]
      [] o.name = "opContain" -> OfOperator("in", v[2], v[1])
      [] o.name = "opUnary" -> <<o.by, v[1]>>
      [] o.name = "opIndex" -> <<"at", v[1], v[2]>>
      [] o.name = "opIndexAssign" -> <<"assign", <<"at", v[1], v[2]>>, v[3]>>
      [] o.name = "opUnaryAssign" -> <<"assign", <<"*", v[1]>>, v[2]>>

RECURSIVE Evaluated(_, _)
Evaluated(g, env) ==
    CASE g.op = "operand" -> env[g.id]
      [] g.op = "null" -> 0
      [] g.op = "fixed" -> g.v
      [] g.op = "alias" -> Evaluated(g.who, env)
      [] g.op = "invoke" -> Honest(g.by, [i \in DOMAIN g.args |-> Evaluated(g.args[i], env)])
      [] g.op = "unabool" -> ~Evaluated(g.who, env)
      [] g.op = "unaptr" -> <<"*", Evaluated(g.who, env)>>
      [] g.op \in {"unaint", "unafloat"} -> <<"-", Evaluated(g.who, env)>>
      [] g.op = "element" -> <<"at", Evaluated(g.of, env), Evaluated(g.at[1], env)>>
      [] g.op = "affect" -> <<"assign", Evaluated(g.left, env), Evaluated(g.right, env)>>
      [] OTHER -> OfOperator(g.by, Evaluated(g.left, env), Evaluated(g.right, env))

\* The method of an object is read from its table, for which it is computed once
\* more; a template has no place in a table, nor has the method of a final class.
IsVirtual(o) == o.method /\ o.by = "" /\ ~o.final

\* How often an operand is computed, at most: && computes its left operand for
\* its test and when it is false, and its right operand for the variable and in
\* the result.
RECURSIVE Times(_, _)
Times(g, id) ==
    CASE g.op \in {"operand", "null"} -> IF g.id = id THEN 1 ELSE 0
      [] g.op = "fixed" -> 0
      [] g.op \in {"alias", "unabool", "unaint", "unafloat", "unaptr"} -> Times(g.who, id)
      [] g.op = "invoke" ->
            MapThenSumSet(LAMBDA i : Times(g.args[i], id), DOMAIN g.args)
            + (IF IsVirtual(g.by) THEN Times(g.args[1], id) ELSE 0)
      [] g.op = "element" -> Times(g.of, id) + Times(g.at[1], id)
      [] g.op = "affect" -> Times(g.left, id) + Times(g.right, id)
      [] g.by = "&&" -> 2 * (Times(g.left, id) + Times(g.right, id))
      [] OTHER -> Times(g.left, id) + Times(g.right, id)

-----------------------------------------------------------------------------
(* What is right.                                                          *)

\* An order that cannot be negative says nothing of which is smaller.
AreHonest(overloads) ==
    \A o \in overloads : o.name = "opCmp" /\ o.gives.is = "int" => o.gives.signed

Environments(gens) ==
    {[id \in {g.id : g \in gens} |->
        LET g == CHOOSE h \in gens : h.id = id
        IN  IF g.op = "null" THEN 0 ELSE IF g.type = Bool THEN env[id] = 1 ELSE env[id]] :
            env \in [{g.id : g \in gens} -> {0, 1}]}

\* The overloads of one side are enough for the operator.
Suffice(overloads, by, of, args, binary) ==
    LET one(name, op, gives) ==
            LET found == Candidates(overloads, of.type.is = "class", name, op, args)
            IN  Cardinality(found) = 1 /\ \A o \in found : o.gives.is \in gives
    IN  /\ IsOverloaded(of)
        /\ \/ by \in MathOps /\ one(binary, by, {"bool", "int", "float", "class", "struct"})
           \/ by \in Logical /\ one("opCmp", "", {"int"})
           \/ by \in {"==", "!="} /\ one("opEquals", "", {"bool"})

\* An operator that is accepted computes what it means, whichever operand has
\* the overload and whatever the operands are; the overload of either operand is
\* enough for it; when it is refused something is said; and each operand is
\* computed once, but for those of && and for an object whose method is virtual.
AnswerOfOperator(answer, overloads, by, l, r) ==
    LET twice(g) == by = "&&" \/ \E o \in overloads : IsVirtual(o) /\ g.type.is = "class"
    IN  /\ Suffice(overloads, by, l, <<l, r>>, "opBinary") => answer.is = "code"
        /\ Suffice(overloads, by, r, <<r, l>>, "opBinaryRight") => answer.is = "code"
        /\ answer.is # "code" => answer.is = "raises" /\ answer.errors # <<>>
        /\ answer.is = "code" =>
              /\ AreHonest(overloads) =>
                    \A env \in Environments({l, r}) :
                        Evaluated(answer.g, env) = OfOperator(by, env[l.id], env[r.id])
              /\ \A g \in {l, r} : Times(answer.g, g.id) \in 1 .. (IF twice(g) THEN 2 ELSE 1)
              /\ answer.g.op = "concat" => answer.g.level <= l.level /\ answer.g.level <= r.level

OperatorIsRight(overloads, by, l, r) ==
    AnswerOfOperator(ValidateBinary(overloads, by, l, r), overloads, by, l, r)

UnaryIsRight(overloads, by, g) ==
    LET answer == ValidateUnary(overloads, by, g)
    IN  answer.is = "code" =>
            /\ Times(answer.g, g.id) = 1
            /\ \A env \in Environments({g}) :
                  Evaluated(answer.g, env) = IF g.type = Bool THEN ~env[g.id] ELSE <<by, env[g.id]>>

\* An assignment writes the value, or that of the operation on what was there,
\* where it says; the value is computed once, and the place once more for a
\* compound operator; what is not a call writes where there is a place that can
\* be modified, a value of the type of the place.
AnswerOfAssignment(answer, overloads, by, target, r) ==
    LET places == {target.of} \cup Range(target.at)
        was(env) ==
            CASE target.form = "index" -> <<"at", env[target.of.id], env[target.at[1].id]>>
              [] target.form = "deref" -> <<"*", env[target.of.id]>>
              [] OTHER -> env[target.of.id]
        value(env) == IF by = "=" THEN env[r.id] ELSE OfOperator(by, was(env), env[r.id])
        turns == IF by = "=" THEN 1 ELSE 2
        virtual == IF target.of.type.is = "class" /\ \E o \in overloads : IsVirtual(o) THEN 2 ELSE 1
    IN  /\ answer.is = "raises" => answer.errors # <<>>
        /\ answer.is = "code" =>
              /\ \A env \in Environments(places \cup {r}) :
                    Evaluated(answer.g, env) = <<"assign", was(env), value(env)>>
              /\ Times(answer.g, r.id) = 1
              /\ \A g \in places : Times(answer.g, g.id) \in turns .. turns * virtual
              /\ answer.g.op = "affect" =>
                    target.place = "mutable" /\ IsCompatible(answer.g.type, answer.g.right.type)

AssignmentIsRight(overloads, by, target, r) ==
    AnswerOfAssignment(ValidateAffectation(overloads, by, target, r), overloads, by, target, r)

\* The variable of a loop on a range takes the values between its ends, in order,
\* when the code runs and when it is the compiler that turns, and the loop ends,
\* but where the full range goes to the last value of its type.
RangeIsRight(type) ==
    \A l, r \in MinOf(type) .. MaxOf(type), full, cte \in BOOLEAN :
        LET step == StepOf(l, r)
            count == Magnitude(r - l) + (IF full THEN 1 ELSE 0)
            counter == IF ~cte THEN type ELSE IF type.signed THEN Long ELSE ULong
            last == full /\ r = IF step = 1 THEN MaxOf(counter) ELSE MinOf(counter)
            answer == ValidateFor(RangeType(type), 1, cte, [left |-> l, right |-> r, full |-> full])
        IN  IF cte /\ type.is # "int" THEN answer.is = "raises"
            ELSE answer = Code([seen |-> [i \in 1 .. count |-> l + (i - 1) * step], ends |-> ~last])

\* A loop on a slice, an array or a tuple runs its content for each of the
\* elements, in order, and ends; and the compiler does not turn on one.
RowIsRight(type) ==
    \A n \in 0 .. MaxOf(ULong), vars \in 1 .. 3, cte \in BOOLEAN :
        LET answer == ValidateFor(type, vars, cte, [len |-> n])
        IN  IF cte \/ vars > (IF type.is = "tuple" THEN 1 ELSE 2) THEN answer.is = "raises"
            ELSE answer = Code([seen |-> [i \in 1 .. n |-> i - 1], ends |-> TRUE])

\* Wherever a loop on an object is left, the iterator and the end that were
\* opened and that can be are disposed of, once, the end first, and not used
\* afterwards; and the content of each turn comes after a test, with its
\* variables read.
RunIsRight(overloads, disposable, k, fails, trace) ==
    LET at(do) == {i \in DOMAIN trace : trace[i].do = do}
        opened == {trace[i].of : i \in at("open") \ {fails}}
        mine == {o.takes[1] : o \in {p \in overloads : p.name = "dispose"}} \cap disposable
    IN  /\ Cardinality(at("dispose")) = Cardinality({trace[i].of : i \in at("dispose")})
        /\ {trace[i].of : i \in at("dispose")} = IF mine = {} THEN {} ELSE opened
        /\ \A i, j \in at("dispose") : i < j => trace[i].of = "end" /\ trace[j].of = "iter"
        /\ \A i \in at("dispose"), j \in at("test") \cup at("get") \cup at("next") : j < i
        /\ \A i \in at("content") :
              /\ trace[i - k - 1].do = "test"
              /\ \A j \in i - k .. i - 1 : trace[j].do = "get"

RunsAreRight(overloads, disposable, k, n, answer) ==
    answer.is = "code" =>
        \A fails \in 0 .. n * (k + 3) + 4 :
            RunIsRight(overloads, disposable, k, fails, RunLoop(answer.g, fails))

ObjectLoopIsRight(overloads, disposable, of, decls, n) ==
    RunsAreRight(overloads, disposable, Len(decls), n,
                 ValidateClassLoop(overloads, disposable, of, decls, n))

\* The variable of a loop has the type that it is declared with, which admits
\* what it is given, but for that of a tuple, that nothing verifies; one that is
\* only named is never refused; and nothing in a slice is changed through its
\* variable, but what the element only points to.
LoopVariablesAreRight(decl, inner, level) ==
    LET named(answer) == answer.is = "code" => \A t \in decl.type : answer.g = t
        given(answer, type) ==
            /\ named(answer)
            /\ answer.is = "code" => IsCompatible(answer.g, type)
            /\ decl.type = {} /\ decl.deco = "" => answer = Code(type)
    IN  /\ given(CreateIndexVar(decl), ULong)
        /\ inner.is = "int" => given(CreateIndexVarRange(decl, inner), inner)
        /\ given(ArrayByValueIterator(decl, inner, level), inner)
        /\ named(CreateIndexVarTuple(decl, inner))
        /\ decl.deco # "" /\ ArrayByValueIterator(decl, inner, level).is = "code" =>
              decl.deco = "mut" /\ inner.is = "class"
=============================================================================
