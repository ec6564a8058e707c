--------------------------- MODULE MCSharedMemory ---------------------------
(* Programs of three statements for SharedMemory.                           *)
EXTENDS SharedMemory

Mut(t)     == ValidateTypeDecorated("mut", t)
Dmut(t)    == ValidateTypeDecorated("dmut", t)
Ints       == Slice(Integer)
BaseP      == ClassPtr(ClassRef("Base"))

MCAncestor == [c \in {"Base", "Derived", "Other"} |-> IF c = "Base" THEN "" ELSE "Base"]
MCFields   == [n \in {"Base", "Derived", "Other", "S"} |->
                 CASE n = "Base" -> <<Dmut(Ints)>>
                   [] n = "Derived" -> <<Mut(Integer)>>
                   [] n = "Other" -> <<Dmut(Ints)>>
                   [] n = "S" -> <<Dmut(Ints), Mut(Integer)>>]

X(op, n, es) == Expression(op, n, 0, es, Bad)
Var(n)      == X("var", n, <<>>)
One         == X("int", "", <<>>)
AliasOf(e)  == X("alias", "", <<e>>)
CopyOf(e)   == X("copy", "", <<e>>)
RefOf(e)    == X("ref", "", <<e>>)
At(e, i)    == Expression("part", "", i, <<e>>, Bad)
ListOf(e)   == X("array", "", <<e>>)
PairOf(e)   == X("tuple", "", <<e, One>>)
NewOf(e)    == X("alloc", "new", <<e>>)
StaticOf(e) == X("alloc", "", <<e>>)
Obj(c)      == X("object", c, <<ListOf(One)>>)
If(n, e, f) == X("if", n, <<e, f>>)
Call(n, e)  == X("call", n, <<e>>)

MCFunctions == [n \in {"view", "same", "give", "pick"} |->
    CASE n = "view" -> [params |-> <<Ints>>, ret |-> Ints, body |-> <<Var("p1")>>]
      [] n = "same" -> [params |-> <<Dmut(Ints)>>, ret |-> Dmut(Ints), body |-> <<AliasOf(Var("p1"))>>]
      [] n = "give" -> [params |-> <<Ints>>, ret |-> Dmut(Ints), body |-> <<CopyOf(Var("p1"))>>]
      [] n = "pick" -> [params |-> <<WithMutRef(Dmut(Ints), TRUE, TRUE)>>, ret |-> Ints, body |-> <<Var("p1")>>]]
MCConstructors == [c \in {"Base", "Derived", "Other"} |->
    [params |-> <<Dmut(Ints)>>,
     body |-> CASE c = "Base" -> <<AliasOf(Var("p1"))>>
                [] c = "Derived" -> <<AliasOf(Var("p1")), One>>
                [] c = "Other" -> <<CopyOf(Var("p1")), AliasOf(Var("p1"))>>]]

\* What may be written of an expression over a variable.
Origins == {One, ListOf(One), ListOf(ListOf(One)), PairOf(ListOf(One)), StaticOf(One), StaticOf(ListOf(One)),
            NewOf(ListOf(One)), Obj("Derived"), ListOf(Obj("Derived")), X("struct", "S", <<ListOf(One), One>>),
            X("array", "", <<Obj("Other"), Obj("Derived")>>), If("else", Obj("Other"), Obj("Derived"))}

Forms(e) == {e, AliasOf(e), CopyOf(e), RefOf(e), X("&", "", <<e>>), X("const", "", <<e>>), X("const", "", <<AliasOf(e)>>)}
Around(e) == {ListOf(e), PairOf(e), NewOf(e), StaticOf(e), X("block", "", <<e>>), If("then", e, AliasOf(e)),
              If("else", e, e), If("else", e, ListOf(ListOf(One))), Call("view", e), Call("same", e), Call("give", e), Call("pick", RefOf(e)),
              X("struct", "S", <<e, One>>), X("object", "Base", <<e>>), Expression("cast", "", 0, <<e>>, BaseP),
              If("then", e, Obj("Other")), If("else", Obj("Base"), e)}
Over(x) == LET places == {Var(x), At(Var(x), 1), At(At(Var(x), 1), 1), X("ptr", "", <<Var(x)>>)}
           IN UNION {Forms(e) : e \in places} \cup UNION {Around(e) : e \in {Var(x), AliasOf(Var(x)), X("const", "", <<Var(x)>>)}}

Decos == {"", "mut", "dmut", "ref", "ref mut", "ref dmut"}
Stmt(op, n, deco, es) == [op |-> op, n |-> n, deco |-> deco, t |-> Bad, es |-> es]
Typed(n, deco, t, e) == [Stmt("let", n, deco, <<e>>) EXCEPT !.t = t]
Wider == {Dmut(BaseP), Dmut(Slice(BaseP)), Dmut(Pointer(BaseP)), Slice(BaseP), Mut(Slice(BaseP)), Dmut(Slice(Ints)), Dmut(Ints), Dmut(Tuple(<<BaseP, Integer>>))}

Widened == {Typed("y", d, t, e) : d \in {"", "dmut"}, t \in Wider, e \in {Var("x"), AliasOf(Var("x"))}}
           \cup {Typed("y", "ref dmut", u, RefOf(Var("x"))) : u \in Wider}
Places(x) == {Var(x), At(Var(x), 1), At(At(Var(x),1),1)}
Sets == {Stmt("set", "", "", <<l, r>>) : l \in Places("y"), r \in Places("x") \cup {AliasOf(Var("x")), AliasOf(At(Var("x"),1)), ListOf(One), PairOf(Var("x")), X("const", "", <<Var("x")>>), Obj("Base"), ListOf(Var("x"))}}
MCStatements ==
    <<{Stmt("let", "x", d, <<e>>) : d \in {"", "mut", "dmut"}, e \in Origins},
      {Stmt("let", "y", d, <<e>>) : d \in Decos, e \in Over("x")} \cup Widened
      \cup {Stmt("destruct", "y", d, <<e>>) : d \in Decos, e \in {Var("x"), PairOf(Var("x")), PairOf(AliasOf(Var("x")))}}
      \cup {Stmt("for", "y", d, <<e>>) : d \in Decos, e \in {Var("x"), At(Var("x"), 1)}},
      Sets \cup {Stmt("let", "z", d, <<e>>) : d \in Decos, e \in {Var("y"), AliasOf(Var("y")), RefOf(Var("y")), At(Var("y"), 1), AliasOf(At(Var("y"), 1)), RefOf(At(Var("y"), 1)), PairOf(Var("y"))}}
      >>
=============================================================================
