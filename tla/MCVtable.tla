------------------------------- MODULE MCVtable -------------------------------
(***************************************************************************)
(* Lines of MaxDepth classes of up to MaxMethods methods, of the class or  *)
(* of an impl: the methods have each of the modifiers the rules look at.   *)
(* Of two traits, one has a method with a body and one without, and the    *)
(* other a final method with the signature of the first.                   *)
(***************************************************************************)
EXTENDS Vtable, SequencesExt

CONSTANTS f, g, Exc, T, U,
          MaxMethods,   \* bound: the methods that a class declares
          MaxLine       \* bound: those of the classes of a line together

Open(sig, prot)  == [sig |-> sig, prot |-> prot, over |-> FALSE, final |-> FALSE,
                     body |-> TRUE, throws |-> {}]
Over(m)   == [m EXCEPT !.over = TRUE]
Final(m)  == [m EXCEPT !.final = TRUE]
Empty(m)  == [m EXCEPT !.body = FALSE]
Throws(m) == [m EXCEPT !.throws = {Exc}]

F == Open(f, "pub")
G == Open(g, "prot")

MCTraits == T :> <<Throws(F), Empty(G)>> @@ U :> <<Final(F)>>

OwnMethods == {F, Empty(F), Throws(F), Final(F), Over(F), Over(Throws(F)), Over(Final(F)),
               Open(f, "prv"), Over(Open(f, "prv")), Over(Open(f, "prot")), Over(G), G}
ImplMethods == {Over(F), Over(Throws(F)), Over(Final(F)), Over(G), Empty(Over(G)), F,
                Open(g, "pub"), Over(Open(g, "pub"))}

UpTo(S, n) == UNION {[1 .. k -> S] : k \in 0 .. n}

MCDeclarations ==
    LET one(n) == {<<[trait |-> t, methods |-> ms]>> : t \in {T, U}, ms \in UpTo(ImplMethods, n)}
        impls(n) == {<<>>} \cup one(n)
                    \cup {<<[trait |-> T, methods |-> <<>>], [trait |-> U, methods |-> <<>>]>>}
    IN  UNION {[abs : BOOLEAN, impls : impls(MaxMethods - n), methods : [1 .. n -> OwnMethods]]
               : n \in 0 .. MaxMethods}

Size(d) == Len(d.methods) + FoldSeq(LAMBDA i, n : n + Len(i.methods), 0, d.impls)
Small == Size(decl) + FoldSeq(LAMBDA c, n : n + Size(c.decl), 0, chain) <= MaxLine
=============================================================================
