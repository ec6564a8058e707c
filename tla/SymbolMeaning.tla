---------------------------- MODULE SymbolMeaning ----------------------------
(***************************************************************************)
(* What the symbols of a program are, read in the program alone, and what  *)
(* their validation and the generation of their types promise.             *)
(***************************************************************************)
EXTENDS TypeGeneration, FiniteSets

ItemsOf(n) == prog[n].typ \o prog[n].items
NamedAs(n, forms) == {ItemsOf(n)[i].of : i \in {j \in DOMAIN ItemsOf(n) : ItemsOf(n)[j].form \in forms}}
Named(n) == {ItemsOf(n)[i].of : i \in DOMAIN ItemsOf(n)}

Is(kind, x) == x \in Names /\ Kind(x) = kind

\* The symbols of start, and those that next leads to.
Closure(start, next) ==
    {n \in Names : \A S \in SUBSET Names :
        start \subseteq S /\ (\A x \in S : next[x] \subseteq S) => n \in S}

\* The end of a line of aliases; an alias of itself has none.
AliasOf(n) == prog[n].items[1].of
Aliased    == [n \in Names |-> IF Kind(n) = "aka" THEN {AliasOf(n)} \cap Names ELSE {}]
Ends(x)    == {d \in {AliasOf(n) : n \in {m \in Closure({x}, Aliased) : Kind(m) = "aka"}} : ~Is("aka", d)}
Denotes(x) == IF Is("aka", x) /\ Ends(x) # {} THEN CHOOSE d \in Ends(x) : TRUE ELSE x

\* Which symbols a symbol leads to.
Naming     == [n \in Names |-> Named(n) \cap Names]
Leads(m)   == Closure(Naming[m], Naming)
InCycle(n) == n \in Leads(n)

\* A number that is known from the program: a variable without a type is its value.
Known(x) ==
    LET d == Denotes(x)
    IN  d = Literal \/ (Is("var", d) /\ prog[d].typ = <<>> /\ prog[d].items # <<>>
                         /\ Denotes(prog[d].items[1].of) = Literal)

\* The symbols that are right when those of S are.
TypeIsRight(x, S) == LET d == Denotes(x) IN d = I32 \/ (d \in S /\ Kind(d) \in {"struct", "enum"})
ValueIsRight(x, S) == LET d == Denotes(x) IN d = Literal \/ (d \in S /\ Kind(d) = "var")

ItemIsRight(n, it, S) ==
    CASE it.form \in {"type", "pointer"} -> TypeIsRight(it.of, S)
      [] it.form = "size"    -> ValueIsRight(it.of, S) /\ Known(it.of)
      [] it.form = "value"   -> \/ ValueIsRight(it.of, S)
                                \/ Kind(n) = "func" /\ Is("struct", Denotes(it.of)) /\ TypeIsRight(it.of, S)
      [] it.form = "alias"   -> it.of \in S \cup {I32, Literal}
      [] it.form = "try"     -> ValueIsRight(it.of, S) \/ TypeIsRight(it.of, S)
      [] it.form = "compile" -> TRUE

RightWith(n, S) ==
    /\ \A i \in DOMAIN ItemsOf(n) : ItemIsRight(n, ItemsOf(n)[i], S)
    /\ Kind(n) = "var"  => /\ ~Malformed(n)
                           /\ \A i \in DOMAIN prog[n].items :
                                LET of == prog[n].items[i].of
                                IN  of \in Names => (Kind(of) = "var" => prog[of].extern)
                           /\ prog[n].typ # <<>> /\ prog[n].items # <<>> =>
                                 prog[n].typ[1].form = "type" /\ Denotes(prog[n].typ[1].of) = I32
    /\ Kind(n) = "enum" => prog[n].items # <<>>

\* The structures in a structure, by value.
Holds(m, n) == Kind(m) = "struct" /\ Kind(n) = "struct"
               /\ \E x \in NamedAs(m, {"type"}) : Denotes(x) = n
Held             == [m \in Names |-> {n \in Names : Holds(m, n)}]
SelfContained(n) == n \in Closure(Held[n], Held)

\* The largest set of symbols of this one that are right together.
RightAmong(symbols) ==
    LET s[k \in 0 .. Cardinality(Names)] ==
            IF k = 0 THEN symbols ELSE {n \in s[k - 1] : RightWith(n, s[k - 1])}
    IN  s[Cardinality(Names)]

\* What is right, and what no other error can be told of.
Sound == RightAmong(Names)
Right == RightAmong({n \in Names : ~SelfContained(n)})

\* A variable that has a type and a value.
Both(x) == Is("var", x) /\ prog[x].typ # <<>> /\ prog[x].items # <<>>

\* An item whose verdict may depend on the order: a size that is the value of a typed
\* variable (known once its module validated it), and the value of a variable that is an
\* alias of a variable (the alias hides the dependency).
Unsettling(n, it) ==
    \/ it.form = "size" /\ Both(Denotes(it.of))
    \/ Kind(n) = "var" /\ it.form = "value" /\ Is("aka", it.of) /\ Is("var", Denotes(it.of))

\* A bad alias, whose error is lost where a speculative or compile-time expression
\* names it, or names an alias of it.
Silenced(n) ==
    /\ Kind(n) = "aka" /\ n \notin Right
    /\ \E m \in Names : n \in Closure(NamedAs(m, {"try", "compile"}) \cap Names, Aliased)

\* An alias or an enumeration that names itself through others is doubtful too (the
\* generator None is an answer).
Doubtful(n) ==
    \/ Kind(n) \in {"aka", "enum"} /\ InCycle(n)
    \/ \E i \in DOMAIN ItemsOf(n) : Unsettling(n, ItemsOf(n)[i])
    \/ Silenced(n)

\* What leads to nothing doubtful.
Undoubted(n) == \A m \in {n} \cup Leads(n) : ~Doubtful(m)

\* The variables that a variable is measured by.
Measures == [m \in Names |-> {n \in NamedAs(m, {"size"}) : Is("var", m) /\ Is("var", n)}]

-----------------------------------------------------------------------------
Judged   == Over /\ ModuleEnded
Compiled == Judged /\ Running /\ ~thrown

\* The verdict on a module does not depend on the order in which its symbols are
\* met: an error has a cause, a symbol that is not right or that leads to a doubtful
\* one; and each symbol that leads to none and is not sound is told (validateModule,
\* the generators that stop the recursion).  Nothing is said of the verdict on a
\* structure that contains itself, which StructVisitor.hh:48 wants refused.
VerdictIsRight ==
    Judged =>
        /\ thrown => \E i \in DOMAIN Local : Local[i] \notin Right \/ ~Undoubted(Local[i])
        /\ (\E i \in DOMAIN Local : Undoubted(Local[i]) /\ Local[i] \notin Sound) => thrown

\* The compiler has an answer for every module but those that measure a variable
\* by itself, name a variable for a type, or hold by value a structure that leads
\* back to them (Visitor_symbols.cc:44, Visitor_vars.cc:220, generator/Visitor.cc:133).
StopsOnlyWhen ==
    /\ outcome = "overflow" => \E n \in Names : n \in Closure(Measures[n], Measures)
    /\ outcome = "halted"   => \E n \in Names :
                                 \E x \in NamedAs(n, {"type", "pointer", "try", "alias"}) : Is("var", x)
    /\ outcome = "crashed"  => \E m, n \in Names : Holds(m, n) /\ m \in Leads(n)

\* What the compiler answers on a module, and that it does.
AnswerIsRight == VerdictIsRight /\ StopsOnlyWhen

EntriesOf(n) == {i \in DOMAIN list : list[i].name = n}

\* A global variable is defined once, by its own module, and each of its
\* declarations has the type of its definition; what its value reads is declared
\* before it (the two GlobalVar of a variable that is used and then validated).
DefinedOnce ==
    Compiled =>
        /\ \A n \in Names :
            /\ Cardinality({i \in EntriesOf(n) : ~list[i].external})
                  = IF Kind(n) = "var" /\ prog[n].here /\ ~prog[n].extern THEN 1 ELSE 0
            /\ \A i, j \in EntriesOf(n) : list[i].type = list[j].type
        /\ \A i \in DOMAIN list : \A m \in list[i].reads : \E j \in 1 .. i - 1 : list[j].name = m

ExactTag(n, it, tag) ==
    IF it.form = "pointer"
    THEN tag = "pointer" \/ (tag = "opaque" /\ n \in Leads(Denotes(it.of)))
    ELSE tag = "whole"

\* Whatever was generated before, the layout of a structure is that of its
\* fields; a pointer is to void only if it leads back to the structure; and a
\* structure that contains itself, which no validation refuses, never gets one.
LayoutsAreExact ==
    /\ \A n \in Names : dones[n] # <<>> =>
          IF prog[n].items = <<>> THEN dones[n] = <<"whole">>
          ELSE /\ Len(dones[n]) = Len(prog[n].items)
               /\ \A i \in DOMAIN dones[n] : ExactTag(n, prog[n].items[i], dones[n][i])
    /\ \A n \in Names : dones[n] # <<>> => ~SelfContained(n)
    /\ Compiled => \A i \in DOMAIN list : IsStruct(list[i].type) => dones[list[i].type.base] # <<>>
=============================================================================
