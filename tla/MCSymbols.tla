------------------------------ MODULE MCSymbols ------------------------------
(***************************************************************************)
(* Modules of three symbols, and what is right for them.                   *)
(***************************************************************************)
EXTENDS SymbolMeaning, TLC

CONSTANTS a, b, c

MCOrder == <<a, b, c>>

It(form, of) == <<[form |-> form, of |-> of]>>
Sym(kind, typ, items) ==
    [kind |-> kind, typ |-> typ, items |-> items, extern |-> FALSE, here |-> TRUE]
Extern(s)    == [s EXCEPT !.extern = TRUE]
Elsewhere(s) == [s EXCEPT !.here = FALSE]

Three == It("value", Literal)

Vars(others) ==
    {Sym("var", <<>>, Three), Elsewhere(Sym("var", <<>>, Three)),
     Extern(Sym("var", It("type", I32), <<>>)), Extern(Sym("var", <<>>, Three))}
    \cup {Sym("var", It("type", o), Three) : o \in others}
    \cup {Sym("var", It("type", o), <<>>) : o \in others}
    \cup {Sym("var", It("size", o), <<>>) : o \in others}
    \cup {Sym("var", <<>>, It("value", o)) : o \in others}

Akas(others) == {Sym("aka", <<>>, It("alias", o)) : o \in others \cup {I32, Literal, Unknown}}

Structs(n, others) ==
    {Sym("struct", <<>>, <<>>)}
    \cup {Sym("struct", <<>>, It("type", o)) : o \in others \cup {n, Unknown}}
    \cup {Sym("struct", <<>>, It("pointer", o)) : o \in others \cup {n}}
    \cup {Sym("struct", <<>>, It("type", o) \o It("pointer", p)) : o, p \in others}
    \cup {Sym("struct", <<>>, It("size", o)) : o \in others}
    \cup {Sym("struct", <<>>, It("pointer", o) \o It("type", Unknown)) : o \in others}

Enums(others) == {Sym("enum", It("type", I32), Three), Sym("enum", <<>>, <<>>)}
                 \cup {Sym("enum", <<>>, It("value", o)) : o \in others}

Funcs(others) ==
    {Sym("func", <<>>, It(form, o)) : form \in {"value", "try"}, o \in others}
    \cup {Sym("func", <<>>, It("compile", o) \o It("value", o)) : o \in others}

\* An enumeration is named as a type, and a function is not named.
Admitted(p) ==
    \A n \in Names : \A i \in DOMAIN (p[n].typ \o p[n].items) :
        LET it == (p[n].typ \o p[n].items)[i]
        IN  it.of \in Names => /\ p[it.of].kind # "func"
                              /\ (p[it.of].kind = "enum" => it.form \in {"type", "pointer"})

Definitions(n, others) == Vars(others) \cup Akas(others) \cup Structs(n, others) \cup Enums(others)

MCPrograms ==
    {p \in {a :> x @@ b :> y @@ c :> z :
              x \in Definitions(a, {b, c}) \cup Funcs({b, c}), y \in Definitions(b, {a, c}),
              z \in Definitions(c, {a, b}) \cup Funcs({a, b})} : Admitted(p)}
=============================================================================
