------------------------------ MODULE Patterns ------------------------------
(***************************************************************************)
(* The patterns of `match` and of `catch` (MatchVisitor): the tests that   *)
(* the validator makes of them, in the order in which they are evaluated,  *)
(* the variables that they declare, and what it says of them: that an arm  *)
(* takes every value, that the arms take every value.                      *)
(*                                                                         *)
(* A subject is the value that a pattern is tried on: its place in the     *)
(* value of the match, its type, and itself when the compiler knows it.    *)
(* Levels of mutability and references are left out.                       *)
(***************************************************************************)
EXTENDS Members

CONSTANTS Object,       \* the class Object of the core library
          Exception     \* what is thrown is one of its heirs

Subject(type, known) == [at |-> <<>>, type |-> type, known |-> known]
PartOf(s, step, type) == [at |-> Append(s.at, step), type |-> type, known |-> {}]

\* Tests.  Empty is the absence of a test, that the generator can not write.
Always           == [t |-> "bool", v |-> TRUE]
Never            == [t |-> "bool", v |-> FALSE]
Empty            == [t |-> "empty"]
Equal(s, v)      == [t |-> "equal", at |-> s.at, v |-> v]
Contained(s, p)  == [t |-> "in", at |-> s.at, low |-> p.low, high |-> p.high]
Tagged(s, ok)    == [t |-> "ok", at |-> s.at, v |-> ok]
NotNull(s)       == [t |-> "notnull", at |-> s.at]
Is(s, type)      == [t |-> "is", at |-> s.at, class |-> type.name]
And(left, right) == [t |-> "and", left |-> left, right |-> right]
Or(left, right)  == [t |-> "or", left |-> left, right |-> right]
Set(declares, test) == [t |-> "set", declares |-> declares, of |-> test]

\* What is found of a pattern: "must" is isMandatory, "scope" the type of the
\* variables that are declared.
Found(test, must, scope) == [is |-> "found", test |-> test, must |-> must, scope |-> scope]

-----------------------------------------------------------------------------
(* Classes.                                                                *)

IsCompatible(left, right) ==
    left = right \/ (left.is = "class" /\ right.is = "class" /\ IsHeir(right.name, left.name))

\* A value of class Object, or of an heir of it, is taken for one of any class.
FromObject(type) == type.is = "class" /\ IsHeir(type.name, Object)

VerifyCompatibleType(left, right) ==
    IsCompatible(left, right) \/ (right.is = "class" /\ FromObject(left))

NeedsTypeTest(s, type) ==
    /\ s.type.is = "class"
    /\ s.type.name = Object \/ (s.type # type /\ IsCompatible(s.type, type))

-----------------------------------------------------------------------------
(* One pattern.                                                            *)

RECURSIVE ValidateMatch(_, _, _)

\* Mutant: what is said of the last part is said of all.
JoinLast(found, part, first) ==
    LET r == ValidateMatch(part.subject, part.pattern, Found(Empty, FALSE, found.scope))
    IN  IF found.is # "found" \/ r.is # "found" THEN Refused
        ELSE [r EXCEPT !.test = IF first THEN @ ELSE And(found.test, @)]

\* The pattern of a part of a value is joined to what was found of the others.
Join(found, part, first) ==
    IF found.is # "found" THEN found
    ELSE LET r == ValidateMatch(part.subject, part.pattern, Found(Empty, FALSE, found.scope))
         IN  IF r.is # "found" THEN r
             ELSE Found(IF first THEN r.test ELSE And(found.test, r.test),
                        found.must /\ r.must, r.scope)

ToPart(subject, pattern) == [subject |-> subject, pattern |-> pattern]

\* The elements of a list, the fields of a class, which has its own test, and
\* those of a structure.
JoinList(found, parts) ==
    FoldLeft(LAMBDA so, i : Join(so, parts[i], i = 1), found, [i \in DOMAIN parts |-> i])
JoinFields(found, parts) == FoldLeft(LAMBDA so, part : Join(so, part, FALSE), found, parts)
JoinParams(found, parts) == FoldLeft(LAMBDA so, part : Join(so, part, so.test = Empty), found, parts)

\* name : type = pattern.  The pattern is tried before the type is tested.
DeclaredType(s, p)   == IF p.types = {} THEN s.type ELSE CHOOSE t \in p.types : TRUE
NewVariable(s, p, type) == IF p.name = "_" THEN {} ELSE {[name |-> p.name, type |-> type, at |-> s.at]}
Declared(new)        == [n \in {v.name : v \in new} |-> (CHOOSE v \in new : v.name = n).type]

FoundVar(s, p, type, inner) ==
    LET test == IF NeedsTypeTest(s, type) THEN And(inner.test, Is(s, type)) ELSE inner.test
        new  == NewVariable(s, p, type)
    IN  IF inner.is # "found" THEN inner
        ELSE Found(Set(new, test), inner.must, Declared(new) @@ inner.scope)

ValidateMatchVarDecl(s, p, so) ==
    LET type == DeclaredType(s, p)
    IN  IF p.name \in DOMAIN so.scope \/ ~VerifyCompatibleType(s.type, type) THEN Refused
        ELSE FoundVar(s, p, type,
                IF p.pattern = {} THEN Found(Always, so.must \/ ~NeedsTypeTest(s, type), so.scope)
                ELSE ValidateMatch(s, CHOOSE q \in p.pattern : TRUE, so))

\* Anything else is an expression, here a scalar, that is compared by ==.
ValidateMatchAnything(s, p, so) ==
    IF p.p # "value" THEN Refused
    ELSE IF s.type # p.type THEN Refused
    ELSE IF s.known = {} THEN Found(Equal(s, p.v), so.must, so.scope)
    ELSE Found(IF s.known = {p.v} THEN Always ELSE Never, s.known = {p.v}, so.scope)

ValidateMatchOr(s, p, so) ==
    LET left  == ValidateMatch(s, p.left, so)
        right == ValidateMatch(s, p.right, left)
    IN  IF left.is # "found" THEN left
        ELSE IF right.is # "found" THEN right
        ELSE [right EXCEPT !.test = Or(left.test, @)]

ValidateMatchRange(s, p, so) ==
    IF s.type # p.type THEN Refused ELSE Found(Contained(s, p), so.must, so.scope)

ValidateMatchTuple(s, p, so) ==
    IF p.in = <<>> THEN Found(Always, TRUE, so.scope)
    ELSE JoinList(Found(Empty, TRUE, so.scope),
                  [i \in DOMAIN p.in |-> ToPart(PartOf(s, i, s.type.inners[i]), p.in[i])])

\* The loop is on the types inside of the array, which has one, and returns.
ValidateMatchArray(s, p, so) ==
    IF p.in = <<>> THEN [is |-> "undefined"]
    ELSE JoinList(Found(Empty, TRUE, so.scope), <<ToPart(PartOf(s, 1, s.type.inner), p.in[1])>>)

ValidateMatchList(s, p, so) ==
    CASE s.type.is = "tuple" /\ p.paren /\ Len(p.in) = Len(s.type.inners) ->
            ValidateMatchTuple(s, p, so)
      [] s.type.is = "array" /\ ~p.paren /\ Len(p.in) = s.type.len -> ValidateMatchArray(s, p, so)
      [] OTHER -> ValidateMatchAnything(s, p, so)

-----------------------------------------------------------------------------
(* Calls: the name of a type, and patterns that may have the name of a      *)
(* field.                                                                  *)

IsNamed(right, n) == right.name = {n}

\* The fields of a class that an access finds from outside of the class.
FieldOf(s, type, right) ==
    LET f == CHOOSE n \in right.name : TRUE
    IN  ValidateClassFieldAccess(type.name, f, GetClassContext(NoClass, type.name))

ValidateFieldPatterns(s, type, rights, found) ==
    IF \E i \in DOMAIN rights : rights[i].name = {} \/ FieldOf(s, type, rights[i]) = <<>> THEN Refused
    ELSE JoinFields(found,
            [i \in DOMAIN rights |->
                LET f == Head(FieldOf(s, type, rights[i]))
                IN  ToPart(PartOf(s, f.name, f.type), rights[i].pattern)])

ValidateMatchCallClass(s, p, so) ==
    LET tests == NeedsTypeTest(s, p.type)
    IN  CASE p.type = Void ->       \* _ (...)
                ValidateFieldPatterns(s, s.type, p.in, Found(Set({}, Empty), so.must, so.scope))
          [] p.type.is # "class" \/ ~VerifyCompatibleType(s.type, p.type) -> Refused
          [] OTHER ->
                ValidateFieldPatterns(s, p.type, p.in,
                    Found(Set({}, IF tests THEN Is(s, p.type) ELSE Always), so.must \/ ~tests, so.scope))

\* A pattern with the name of the field, or the next one that has no name when
\* the field has no value by default.
FindParameterStruct(rights, f) ==
    LET named == SelectInSeq(rights, LAMBDA r : IsNamed(r, f.name))
        next  == SelectInSeq(rights, LAMBDA r : r.name = {})
    IN  IF named # 0 THEN named ELSE IF f.default # {} THEN 0 ELSE next

TakeParameter(taken, f) ==
    LET i == FindParameterStruct(taken.rights, f)
    IN  IF i = 0 THEN [taken EXCEPT !.params = Append(@, {})]
        ELSE [rights |-> RemoveAt(taken.rights, i),
              params |-> Append(taken.params, {taken.rights[i].pattern})]

ValidateMatchCallStruct(s, p, so) ==
    LET fields == Structs[s.type.name]
        taken  == FoldLeft(TakeParameter, [rights |-> p.in, params |-> <<>>], fields)
        tested == SelectSeq([i \in DOMAIN fields |-> i], LAMBDA i : taken.params[i] # {})
    IN  IF p.type \notin {Void, s.type} \/ taken.rights # <<>> THEN Refused
        ELSE JoinParams(Found(Empty, TRUE, so.scope),
                [k \in DOMAIN tested |->
                    LET i == tested[k]
                    IN  ToPart(PartOf(s, i, fields[i].type), CHOOSE q \in taken.params[i] : TRUE)])

Ok  == [is |-> "ok"]
Err == [is |-> "err"]

\* Ok (value -> p) and Err (error -> p): an error that is null has no pattern.
ValidateMatchCallOption(s, p, so) ==
    LET ok    == p.type = Ok
        name  == IF ok THEN "value" ELSE "error"
        inner == PartOf(s, name, IF ok THEN s.type.inner ELSE ClassPtr(Exception))
        test  == IF ok THEN Tagged(s, TRUE) ELSE And(Tagged(s, FALSE), NotNull(inner))
        r     == ValidateMatch(inner, p.in[1].pattern, Found(Empty, FALSE, so.scope))
    IN  IF p.type \notin {Ok, Err} \/ Len(p.in) > 1 THEN Refused
        ELSE IF p.in = <<>> THEN Found(Tagged(s, ok), so.must, so.scope)
        ELSE IF p.in[1].name \notin {{}, {name}} \/ inner.type = Void \/ r.is = "refused" THEN Refused
        ELSE IF r.is = "undefined" THEN r
        ELSE Found(And(test, r.test), r.must /\ so.must, r.scope)

ValidateMatchCall(s, p, so) ==
    CASE s.type.is = "struct" -> ValidateMatchCallStruct(s, p, so)
      [] s.type.is = "class"  -> ValidateMatchCallClass(s, p, so)
      [] s.type.is = "option" -> ValidateMatchCallOption(s, p, so)
      [] OTHER -> Refused

ValidateMatch(s, p, so) ==
    CASE p.p = "any"   -> Found(Always, TRUE, so.scope)
      [] p.p = "or"    -> ValidateMatchOr(s, p, so)
      [] p.p = "range" -> ValidateMatchRange(s, p, so)
      [] p.p = "var"   -> ValidateMatchVarDecl(s, p, so)
      [] p.p = "list"  -> ValidateMatchList(s, p, so)
      [] p.p = "call"  -> ValidateMatchCall(s, p, so)
      [] OTHER         -> ValidateMatchAnything(s, p, so)

-----------------------------------------------------------------------------
(* The arms: [pattern, type, returns], "type" that of the content.         *)

NoScope == [n \in {} |-> Void]

GetCommonAncestor(left, right) ==
    IF left.is # "class" \/ right.is # "class" THEN {}
    ELSE {ClassPtr(c) : c \in
            {a \in Range(Lineage[left.name]) :
                /\ a # right.name /\ IsHeir(right.name, a)
                /\ \A b \in Range(Lineage[left.name]) :
                       (b # right.name /\ IsHeir(right.name, b)) => IsHeir(b, a)}}

\* The type of the match with one more content, {} when there is none yet; the
\* content of an arm that returns has none.
Unify(type, arm) ==
    LET old == CHOOSE t \in type : TRUE
        new == IF IsCompatible(arm.type, old) THEN type
               ELSE LET anc == GetCommonAncestor(arm.type, old) IN IF anc = {} THEN type ELSE anc
    IN  IF arm.returns THEN type
        ELSE IF type = {} THEN {arm.type}
        ELSE IF IsCompatible(CHOOSE t \in new : TRUE, arm.type) THEN new ELSE {Refused}

\* The arms are validated from the last one to the first: an arm without a test
\* is left out.
TakeFound(r, arm, m) ==
    LET type == Unify(m.type, arm)
    IN  IF m.is # "found" THEN m
        ELSE IF r.is # "found" THEN r
        ELSE IF r.test = Empty THEN
                [m EXCEPT !.must = @ \/ r.must, !.type = IF @ = {} THEN {Void} ELSE @]
        ELSE IF type = {Refused} THEN Refused
        ELSE [is |-> "found", must |-> m.must \/ r.must, type |-> type,
              arms |-> <<[test |-> r.test, must |-> r.must, scope |-> r.scope, arm |-> arm]>> \o m.arms]

TakeArm(s, arm, m) ==
    TakeFound(ValidateMatch(s, arm.pattern, Found(Empty, FALSE, NoScope)), arm, m)

NoArms == [is |-> "found", must |-> FALSE, type |-> {}, arms |-> <<>>]

WithType(m) ==
    IF m.is # "found" THEN m
    ELSE [m EXCEPT !.type = IF @ = {} THEN Void ELSE CHOOSE t \in @ : TRUE]

ValidateArms(s, arms) ==
    WithType(FoldRight(LAMBDA arm, so : TakeArm(s, arm, so), arms, NoArms))

Exhausted(m, final) ==
    IF m.is = "found" /\ ~m.must /\ (m.type # Void \/ final) THEN Refused ELSE m

ValidateMatchOf(s, arms, final) == Exhausted(ValidateArms(s, arms), final)

\* That the conditional made of the arms always returns.
RECURSIVE IsReturner(_)
IsReturner(arms) ==
    /\ arms # <<>> /\ Head(arms).arm.returns
    /\ IF Len(arms) = 1 THEN Head(arms).must ELSE IsReturner(Tail(arms))

-----------------------------------------------------------------------------
(* The arms of a catch, of a value of class Exception: which of the types    *)
(* that may be thrown each one takes.                                        *)

Caught(found, catching, all) == [found |-> found, catching |-> catching, all |-> all]
Failed == Caught(Refused, <<>>, FALSE)

Covered(type, types) == SelectSeq(types, LAMBDA t : IsCompatible(type, t))

\* An arm that takes all of its type, or that takes what its inner pattern does;
\* it is useless when nothing that is thrown is of its type.
Catching(type, possible, inner, must, found, all) ==
    LET catching == Covered(type, IF must THEN possible ELSE inner)
    IN  IF catching = <<>> /\ Covered(type, possible) = <<>> THEN Failed
        ELSE Caught(found, catching, all)

RECURSIVE ValidateMatchForCatcher(_, _, _, _)

\* A variable of the type, with what was found of the pattern inside.
CatchingVar(s, p, possible, type, inner) ==
    LET test == IF inner.found.test = Empty THEN Is(s, type) ELSE And(inner.found.test, Is(s, type))
        new  == NewVariable(s, p, type)
    IN  IF inner.found.is # "found" THEN inner
        ELSE Catching(type, possible, inner.catching, inner.all,
                      Found(Set(new, test), FALSE, Declared(new) @@ inner.found.scope), p.types = {})

ValidateMatchVarDeclForCatcher(s, p, possible, scope) ==
    LET type == DeclaredType(s, p)
    IN  IF p.name \in DOMAIN scope \/ ~VerifyCompatibleType(s.type, type) THEN Failed
        ELSE CatchingVar(s, p, possible, type,
                IF p.pattern = {} THEN Caught(Found(Empty, FALSE, scope), <<>>, TRUE)
                ELSE ValidateMatchForCatcher(s, CHOOSE q \in p.pattern : TRUE, possible, scope))

CatchingCall(p, possible, found) ==
    IF found.is # "found" THEN Caught(found, <<>>, FALSE)
    ELSE Catching(p.type, possible, <<>>, found.must, found, FALSE)

\* The type of _ (...) is read although there is none.
ValidateMatchCallForCatcher(s, p, possible, scope) ==
    CASE p.type = Void -> Caught([is |-> "undefined"], <<>>, FALSE)
      [] p.type.is # "class" \/ ~VerifyCompatibleType(s.type, p.type) -> Failed
      [] OTHER ->
            CatchingCall(p, possible,
                ValidateFieldPatterns(s, p.type, p.in, Found(Set({}, Is(s, p.type)), TRUE, scope)))

ValidateMatchForCatcher(s, p, possible, scope) ==
    CASE p.p = "any"  -> Caught(Found(Always, TRUE, scope), <<>>, TRUE)
      [] p.p = "var"  -> ValidateMatchVarDeclForCatcher(s, p, possible, scope)
      [] p.p = "call" -> ValidateMatchCallForCatcher(s, p, possible, scope)
      [] OTHER -> Caught(ValidateMatch(s, p, Found(Empty, FALSE, scope)), <<>>, FALSE)

\* What is used with one type more, unless something used takes it already.
Use(used, type) == IF \E u \in used : IsCompatible(u, type) THEN used ELSE used \cup {type}

\* An arm whose types are all taken by the arms before it is refused.
TakeCaught(c, arm, m) ==
    LET used == FoldLeft(Use, m.used, c.catching)
        type == Unify(m.type, arm)
    IN  IF m.is # "found" THEN m
        ELSE IF c.found.is # "found" THEN c.found
        ELSE IF (c.catching # <<>> /\ used = m.used) \/ type = {Refused} THEN Refused
        ELSE [is |-> "found", used |-> used, must |-> m.must \/ c.all, type |-> type,
              arms |-> Append(m.arms, [test |-> c.found.test, must |-> c.all, scope |-> c.found.scope, arm |-> arm])]

TakeCatch(m, arm, possible) ==
    TakeCaught(ValidateMatchForCatcher(Subject(ClassPtr(Exception), {}), arm.pattern, possible, NoScope),
               arm, m)

\* Everything that may be thrown is taken.
AllUsed(m, possible) ==
    IF m.is = "found" /\ ~m.must
       /\ \E t \in Range(possible) : \A u \in m.used : ~IsCompatible(t, u)
    THEN Refused ELSE m

ValidateCatcher(possible, arms) ==
    AllUsed(FoldLeft(LAMBDA so, arm : TakeCatch(so, arm, possible),
                     NoArms @@ [used |-> {}], arms), possible)

-----------------------------------------------------------------------------
(* Values at run time, and what the tests say of them.                     *)

ScalarValue(v)          == [is |-> "scalar", v |-> v]
PartsValue(in)          == [is |-> "parts", in |-> in]
ObjectValue(c, in)      == [is |-> "object", class |-> c, in |-> in]
OptionValue(ok, v)      == [is |-> "option", ok |-> ok, in |-> (IF ok THEN "value" ELSE "error") :> v]
NullValue               == [is |-> "null"]
Garbage                 == [is |-> "garbage"]

\* What is read at a place: a value that has no such part is read as garbage.
Read(v, at) ==
    FoldLeft(LAMBDA w, step :
                IF w.is \in {"parts", "object", "option"} /\ step \in DOMAIN w.in THEN w.in[step] ELSE Garbage,
             v, at)

\* The function equals of the core library for the type infos of objects.
TypeInfoEquals(v, class) == v.is = "object" /\ IsHeir(v.class, class)

Tried(is, bound) == [is |-> is, bound |-> bound]
YesOrNo(b, bound) == Tried(IF b THEN "yes" ELSE "no", bound)

RECURSIVE RunTest(_, _, _)
RunTest(test, v, bound) ==
    CASE test.t = "empty" -> Tried("stuck", bound)
      [] test.t = "bool"  -> YesOrNo(test.v, bound)
      [] test.t = "set"   ->
            RunTest(test.of, v, [n \in {d.name : d \in test.declares} |->
                                Read(v, (CHOOSE d \in test.declares : d.name = n).at)] @@ bound)
      [] test.t = "and"   ->
            LET l == RunTest(test.left, v, bound) IN IF l.is = "yes" THEN RunTest(test.right, v, l.bound) ELSE l
      [] test.t = "or"    ->
            LET l == RunTest(test.left, v, bound) IN IF l.is = "no" THEN RunTest(test.right, v, l.bound) ELSE l
      [] OTHER ->
            LET w == Read(v, test.at)
            IN  IF w = Garbage THEN Tried("stuck", bound)
                ELSE YesOrNo(CASE test.t = "equal"   -> w.v = test.v
                               [] test.t = "in"      -> w.v \in test.low .. test.high
                               [] test.t = "is"      -> TypeInfoEquals(w, test.class)
                               [] test.t = "ok"      -> w.ok = test.v
                               [] test.t = "notnull" -> w # NullValue, bound)

\* The first arm whose test is true, and what its variables hold.
Taken(arms, v) ==
    LET ends == {i \in DOMAIN arms : RunTest(arms[i].test, v, NoScope).is # "no"}
    IN  IF ends = {} THEN Tried("none", NoScope)
        ELSE [arm |-> arms[Min(ends)].arm, scope |-> arms[Min(ends)].scope]
             @@ RunTest(arms[Min(ends)].test, v, NoScope)

-----------------------------------------------------------------------------
(* What a pattern means: the values it fits, whatever the compiler does.   *)

RECURSIVE Matches(_, _, _)

\* The patterns of the fields of a structure, as a function.
Assigned(fields, rights) ==
    LET taken == FoldLeft(TakeParameter, [rights |-> rights, params |-> <<>>], fields).params
    IN  [i \in {j \in DOMAIN fields : taken[j] # {}} |-> CHOOSE q \in taken[i] : TRUE]

Matches(v, p, t) ==
    CASE p.p = "any"   -> TRUE
      [] p.p = "value" -> v.v = p.v
      [] p.p = "range" -> v.v \in p.low .. p.high
      [] p.p = "or"    -> Matches(v, p.left, t) \/ Matches(v, p.right, t)
      [] p.p = "var"   ->
            /\ \A u \in p.types : u.is = "class" => TypeInfoEquals(v, u.name)
            /\ \A q \in p.pattern : Matches(v, q, t)
      [] p.p = "list"  ->
            \A i \in DOMAIN p.in : Matches(v.in[i], p.in[i], IF t.is = "array" THEN t.inner ELSE t.inners[i])
      [] t.is = "struct" ->
            LET f == Assigned(Structs[t.name], p.in)
            IN  \A i \in DOMAIN f : Matches(v.in[i], f[i], Structs[t.name][i].type)
      [] t.is = "option" ->
            /\ v.ok = (p.type = Ok)
            /\ p.in # <<>> => LET w == v.in[IF v.ok THEN "value" ELSE "error"]
                              IN  w # NullValue /\ Matches(w, p.in[1].pattern, IF v.ok THEN t.inner ELSE ClassPtr(Exception))
      [] OTHER ->
            /\ p.type # Void => TypeInfoEquals(v, p.type.name)
            /\ \A i \in DOMAIN p.in :
                   LET n == CHOOSE n \in p.in[i].name : TRUE
                   IN  Matches(v.in[n], p.in[i].pattern, Bool)

RECURSIVE IsOf(_, _)
IsOf(v, t) ==
    CASE t.is = "class"  -> TypeInfoEquals(v, t.name)
      [] t.is = "option" -> v.is = "option"
      [] t.is = "tuple"  -> v.is = "parts" /\ DOMAIN v.in = DOMAIN t.inners
                            /\ \A i \in DOMAIN v.in : IsOf(v.in[i], t.inners[i])
      [] t.is = "array"  -> v.is = "parts" /\ Len(v.in) = t.len
      [] t.is = "struct" -> v.is = "parts" /\ Len(v.in) = Len(Structs[t.name])
      [] OTHER -> v.is = "scalar"

-----------------------------------------------------------------------------
(* The forms that the validator gets wrong.                                *)

RECURSIVE Subpatterns(_)
Subpatterns(p) ==
    {p} \cup CASE p.p = "or" -> Subpatterns(p.left) \cup Subpatterns(p.right)
               [] p.p = "var" -> UNION {Subpatterns(q) : q \in p.pattern}
               [] p.p = "list" -> UNION {Subpatterns(p.in[i]) : i \in DOMAIN p.in}
               [] p.p = "call" -> UNION {Subpatterns(p.in[i].pattern) : i \in DOMAIN p.in}
               [] OTHER -> {}

\* An array of which the first element only is tested; a structure of which
\* nothing is, and a class that is not named, whose tests are Empty.
Untested(p) ==
    \/ p.p = "list" /\ ~p.paren /\ Len(p.in) # 1
    \/ p.p = "call" /\ p.type = Void
    \/ p.p = "call" /\ p.in = <<>> /\ p.type \notin {Ok, Err} /\ p.type.is = "struct"

\* A class whose pattern takes every value, but whose type is tested.
HalfTested(p) == p.p = "var" /\ p.types # {} /\ p.pattern # {}

Sound(arms, Wrong(_)) ==
    \A i \in DOMAIN arms : \A p \in Subpatterns(arms[i].pattern) : ~Wrong(p)

\* The tests of the arms find, for each value, the first arm that it fits.
TakesTheFirst(taken, arms, t, v) ==
    LET fit == {i \in DOMAIN arms : Matches(v, arms[i].pattern, t)}
    IN  /\ taken.is = (IF fit = {} THEN "none" ELSE "yes")
        /\ taken.is = "yes" =>
              /\ taken.arm = arms[Min(fit)]
              /\ DOMAIN taken.bound = DOMAIN taken.scope
              /\ \A n \in DOMAIN taken.scope : IsOf(taken.bound[n], taken.scope[n])

\* One that ends in an arm, as its type says.
EndsInAnArm(taken, m) ==
    /\ taken.is = "yes"
    /\ IsReturner(m.arms) => taken.arm.returns
    /\ m.type # Void /\ ~taken.arm.returns => IsCompatible(m.type, taken.arm.type)

\* A match that is accepted takes, of every value, the first arm that it fits,
\* with variables that hold what their types say; one that has a value, that is
\* final, or whose arms are said to return, takes one of its arms.
MatchedRight(m, s, arms, final, values) ==
    (m.is = "found" /\ Sound(arms, Untested) /\ ~(FromObject(s.type) /\ s.type.name # Object)) =>
        \A v \in values :
            /\ TakesTheFirst(Taken(m.arms, v), arms, s.type, v)
            /\ (m.type # Void \/ final \/ IsReturner(m.arms)) /\ Sound(arms, HalfTested) =>
                  EndsInAnArm(Taken(m.arms, v), m)

MatchDecides(s, arms, final, values) ==
    MatchedRight(ValidateMatchOf(s, arms, final), s, arms, final, values)

\* A pattern without a type takes everything in a catch, whatever it asks for.
TakesAll(p) == p.p = "var" /\ p.types = {} /\ p.pattern # {}

\* A type that may be thrown counts as taken when one of its heirs is.
HeirThrown(possible) ==
    \E i, j \in DOMAIN possible : possible[i] # possible[j] /\ IsCompatible(possible[i], possible[j])

\* A catch that is accepted takes everything that is thrown, by the first arm
\* that it fits.
CaughtRight(m, possible, arms, values) ==
    (m.is = "found" /\ Sound(arms, Untested)) =>
        \A v \in {w \in values : \E t \in Range(possible) : TypeInfoEquals(w, t.name)} :
            /\ TakesTheFirst(Taken(m.arms, v), arms, ClassPtr(Exception), v)
            /\ (Sound(arms, TakesAll) /\ ~HeirThrown(possible)) => Taken(m.arms, v).is = "yes"

CatchDecides(possible, arms, values) ==
    CaughtRight(ValidateCatcher(possible, arms), possible, arms, values)
=============================================================================
