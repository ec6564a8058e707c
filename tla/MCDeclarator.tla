----------------------------- MODULE MCDeclarator -----------------------------
(* Instances of Declarator for TLC: the source programs of each run.        *)
EXTENDS SymbolTable

M  == <<"m">>             \* the compiled file
X  == <<"x">>
XA == <<"x", "a">>
XB == <<"x", "a", "b">>
C  == <<"core", "c">>     \* two files of the core directory
D  == <<"core", "d">>

MCName    == {"m", "x", "a", "b", "core", "c", "d", "f"}
MCPath    == {M, X, XA, XB, C, D}
MCInclude == {1, 2}
MCCore    == {C, D}

\* Every file declares a function f; x::a::b is in the first include directory
\* and the core in the second.
Base == [imports |-> [p \in Path |-> {}],
         funs |-> [p \in Path |-> {"f"}],
         where |-> [p \in Path |-> {CASE p \in {C, D} -> 2 [] p = XB -> 1 [] OTHER -> 0}],
         faulty |-> {}, local |-> {}]

Reaches(imports, p, q) ==
    LET level[n \in 0 .. 3] ==
            IF n = 0 THEN imports[p]
            ELSE level[n - 1] \cup UNION {imports[r] : r \in level[n - 1]}
    IN  q \in level[3]

\* The compiled file imports any of the others, which import each other, in
\* cycles too; the file of a single name does not import those of its directory.
Imports ==
    {M :> m @@ C :> c @@ D :> {} @@ X :> x @@ XA :> xa @@ XB :> xb :
        m \in SUBSET {X, XA, XB}, c \in {{D}, {XB}}, x \in {{}, {M}},
        xa \in {{}, {X}, {XB}}, xb \in {{}, {X, XA}}}

Layered == {imp \in Imports : ~ Reaches(imp, X, XA) /\ ~ Reaches(imp, X, XB)}

With(imp) == [Base EXCEPT !.imports = imp]

\* One file is missing or erroneous, or none is.
Wrong(pr) ==
    {pr} \cup {[pr EXCEPT !.faulty = {q}] : q \in {X, XA, XB, D}}
         \cup {[pr EXCEPT !.where[q] = {}] : q \in {X, XA, XB}}

\* Imports inside of blocks.
Local(pr) == {[pr EXCEPT !.local = {X, XB}, !.faulty = bad] : bad \in {{}, {XB}}}

LayeredProgram ==
    UNION {Wrong(pr) \cup Local(pr) : pr \in {With(imp) : imp \in Layered}}

\* What the theorems of Declarator_proofs assume of the programs.
ASSUME SettledPrograms == OneFile /\ \A pr \in Program : IsSettled(pr)

-----------------------------------------------------------------------------
(* The texts of the files that were visited.                               *)

Decl(kind, name, id) ==
    [kind |-> kind, name |-> name, id |-> id, path |-> <<>>, private |-> TRUE, in |-> <<>>]
Use(p)                     == [Decl("import", "", <<>>) EXCEPT !.path = p]
Block(id, private, decls)  == [Decl("block", "", id) EXCEPT !.private = private, !.in = decls]
Holder(kind, name, id, in) == [Decl(kind, name, id) EXCEPT !.in = in]

Uses(paths) == [i \in 1 .. Cardinality(paths) |-> Use(SetToSeq(paths)[i])]

\* Blocks in blocks: privates tells which of them are private, the outermost first.
Blocks(id, privates, decls) ==
    FoldRight(LAMBDA private, in : <<Block(id, private, in)>>, privates, decls)

\* Every file declares a function f, next to its imports: exported in the open
\* files, that have them in such blocks.
Plain(p, privates) ==
    LET funs == SetToSeq(prog.funs[p])
    IN  Uses(Core)
        \o Blocks(Append(p, "#b"), privates, Uses(prog.imports[p])
                               \o [i \in DOMAIN funs |-> Decl("function", funs[i], Append(p, "#f"))])

TextsOf(open, privates) == [p \in done |-> Plain(p, IF p \in open THEN privates ELSE <<>>)]

\* Two declarations of a name, in blocks or in what has members, then a function.
Pairs(e, d) ==
    LET one(b, decls) == Blocks(<<"m", "#b">>, b, decls)
        two(b, decls) == Blocks(<<"m", "#c">>, b, decls)
        plain == {<<>>, <<TRUE>>, <<FALSE>>}
    IN  {one(b, <<e>>) \o two(c, <<d>>) : b, c \in plain}
        \cup {one(b, two(c, <<e>>) \o <<d>>) : b \in plain \ {<<>>}, c \in plain}

InHolder(kind, e, d) ==
    LET in(decl) == [decl EXCEPT !.id = <<"m", "#h", Last(decl.id)>>]
    IN  {<<Holder(kind, "h", <<"m", "#h">>, <<in(e), in(d)>>)>>}

Free == {"function", "struct", "template", "class", "enum", "var"}

MembersOf(kind) ==
    CASE kind = "module" -> Free
      [] kind = "enum"   -> {"var"}
      [] kind = "macro"  -> {"rule"}
      [] OTHER           -> {"function", "template"}

ClashTexts ==
    LET some(kinds, mark) == {Decl(k, n, <<"m", mark>>) : k \in kinds, n \in {"f", "m", "h"}}
        user == Decl("function", "u", <<"m", "#u">>)
    IN  {t \o <<user>> : t \in
            UNION {Pairs(e, d) : e \in some(Free, "#e"), d \in some(Free, "#d")}
            \cup UNION {UNION {InHolder(h, e, d) : e \in some(MembersOf(h), "#e"), d \in some(MembersOf(h), "#d")} :
                           h \in {"module", "class", "enum", "impl", "macro"}}}

\* The compiled file imports nothing.
Alone == M :> {} @@ C :> {D} @@ D :> {} @@ X :> {} @@ XA :> {} @@ XB :> {}

\* Nothing has been asked yet, and the imports of the program are all there is.
Settled ==
    /\ phase = "validating" /\ stack = <<>> /\ \A p \in Path : cache[p] = None
    /\ prog = With(prog.imports)

\* In each function, a name and m::name are answered as the texts say.
Agree(heap, meaning, scopes, names) ==
    LET ids(syms) == {heap[s].id : s \in syms}
        modules == {s \in DOMAIN heap : heap[s].id \in {m.id : m \in meaning.modules}}
    IN  \A s \in scopes, name \in names :
            /\ ids(GetAll(heap, s, name)) = Means(meaning, heap[s].id, name)
            /\ \A m \in modules :
                  ids(ValidateModuleAccess(heap, s, m, name)) = Reached(meaning, heap[s].id, heap[m].id, name)

\* A text is refused when one of its declarations may not be where it is; when it
\* is not, the lookups answer what it means.
LooksRight(texts, names) ==
    LET facts == FactsOf(texts)
        world == World(texts)
        scopes == {s \in DOMAIN world.heap : world.heap[s].kind = "function"}
    IN  /\ world.refused = (\E j \in DOMAIN facts : ~ MayBeDeclared(facts, j))
        /\ ~ world.refused => Agree(world.heap, Meaning(facts, InTree), scopes, names)

\* Whatever the tables of the symbols and the order in which files were visited:
\* a declaration is refused exactly when it has a name that it may not have; a
\* name means, in a function, what is declared around it and what the modules
\* that are imported around it export, with what these import for others, in
\* cycles too, and nothing else; and m::name gives nothing that m keeps for
\* itself, but to the code of m.
TablesAreRight ==
    Settled =>
        /\ \A open \in SUBSET {{X}, {XA}, {C, XB}}, privates \in {<<FALSE>>, <<TRUE, FALSE>>, <<FALSE, TRUE>>} :
              LooksRight(TextsOf(UNION open, privates), {"f", "x"})
        /\ prog.imports = Alone =>
              \A text \in ClashTexts : LooksRight((M :> text), {"f", "m", "h"})

\* Every module that was visited is found with all of what it has, whatever was
\* imported, looked up or registered since (getModuleByPath), and every name
\* means what the texts say (Symbol::get, Visitor::visit).
NamesAreRight == LookupAnswers /\ TablesAreRight

=============================================================================
