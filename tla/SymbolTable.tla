----------------------------- MODULE SymbolTable -----------------------------
(***************************************************************************)
(* What a name means where it is written: the symbols that the visits of   *)
(* the declarator insert (semantic/declarator/Visitor.cc, Table.cc) in the *)
(* tree of modules of Declarator, and the lookup of a name through the     *)
(* scopes, the imports and the modules (Symbol.cc, semantic/symbol,        *)
(* validator/SubVisitor.cc).                                               *)
(*                                                                         *)
(* A text is a sequence of declarations [kind, name, id, path, private,    *)
(* in]: in has the content of a block, a module or a class; an id is that  *)
(* of what the declaration is in, the path for a file, and a mark.         *)
(* Symbols are shared by reference: world.heap is the sequence of the      *)
(* symbols, of which the modules of the tree come first, and a symbol is a *)
(* position of it.                                                         *)
(***************************************************************************)
EXTENDS Declarator, FiniteSets, TLC

\* The symbols whose table a lookup asks, and those that admit no other of their
\* name; a class, a trait and a macro keep their members for themselves.
Asked  == {"module", "enum", "impl", "function", "constructor"}
Strict == {"struct", "aka", "var", "enum", "class", "trait", "macro"}

NewSymbol(kind, name, id) ==
    [kind |-> kind, name |-> name, id |-> id, ref |-> None, public |-> FALSE,
     syms |-> <<>>, pubs |-> {}, uses |-> <<>>]

-----------------------------------------------------------------------------
(* The table of a symbol.                                                  *)

\* Table::insert: among the public symbols if it is public by then.
InsertIn(heap, at, s) ==
    [heap EXCEPT ![s].ref = at, ![at].syms = Append(@, s),
                 ![at].pubs = IF heap[s].public THEN @ \cup {s} ELSE @]

\* ISymbol::use: the last import of a path decides whether it is public.
UseIn(heap, at, path, pub) == [heap EXCEPT ![at].uses = (path :> pub) @@ @]

Called(heap, ids, name) == {s \in ids : heap[s].name = name}
Itself(heap, s, name)   == {t \in {s} : heap[t].kind = "module" /\ heap[t].name = name}

\* Module::getLocal, that has the reference of the module too.
GetLocal(heap, s, name) ==
    IF heap[s].kind \in Asked
    THEN Called(heap, ToSet(heap[s].syms), name) \cup Itself(heap, s, name) ELSE {}

GetLocalPublic(heap, s, name) ==
    IF heap[s].kind \in Asked
    THEN Called(heap, heap[s].pubs, name) \cup Itself(heap, s, name) ELSE {}

-----------------------------------------------------------------------------
(* The visits of the declarations.                                         *)

\* SHADOWING_DECL: what there is locally when a symbol is declared.
Shadows(heap, at, d) ==
    LET same == GetLocal(heap, at, d.name)
    IN  CASE d.kind = "function" -> \E s \in same : heap[s].kind \notin {"function", "module", "template"}
          [] d.kind \in Strict -> same # {}
          [] d.kind = "rule" -> \E s \in ToSet(heap[at].syms) : heap[s].kind = "rule" /\ heap[s].name = d.name
          [] OTHER -> FALSE

\* What a public block has becomes public; no symbol is compared with those that
\* are already around the block.
PourOut(heap, block, at, pub) ==
    LET syms == heap[block].syms
        open == [s \in DOMAIN heap |->
                    IF pub /\ s \in ToSet(syms) THEN [heap[s] EXCEPT !.public = TRUE] ELSE heap[s]]
        held == FoldLeft(LAMBDA h, s : InsertIn(h, at, s), open, syms)
    IN  [held EXCEPT ![at].uses = [p \in DOMAIN heap[block].uses |-> pub] @@ @]

Refuse(world) == [world EXCEPT !.refused = TRUE]

RECURSIVE VisitDecl(_, _, _, _)

VisitAll(world, at, decls, pub) ==
    FoldLeft(LAMBDA w, d : IF w.refused THEN w ELSE VisitDecl(w, at, d, pub), world, decls)

\* visitBlock: in a module of its own.
VisitBlock(world, at, d) ==
    LET new   == Len(world.heap) + 1
        inner == VisitAll([world EXCEPT !.heap = Append(@, NewSymbol("module", "", d.id))], new, d.in, ~ d.private)
    IN  IF inner.refused THEN inner ELSE [inner EXCEPT !.heap = PourOut(@, new, at, ~ d.private)]

\* visitClass, visitTrait, visitImpl, visitEnum, visitMacro and a symbol without
\* members, that is inserted after them.  What the members are set afterwards,
\* public or protected, does not change their table.
VisitSymbol(world, at, d) ==
    LET new   == Len(world.heap) + 1
        inner == VisitAll([world EXCEPT !.heap = Append(@, NewSymbol(d.kind, d.name, d.id))], new, d.in, FALSE)
    IN  IF inner.refused THEN inner ELSE [inner EXCEPT !.heap = InsertIn(@, at, new)]

\* Visitor::visit.
VisitDecl(world, at, d, pub) ==
    CASE d.kind = "import" -> [world EXCEPT !.heap = UseIn(@, at, d.path, pub)]
      [] d.kind = "block"  -> VisitBlock(world, at, d)
      [] OTHER -> IF Shadows(world.heap, at, d) THEN Refuse(world) ELSE VisitSymbol(world, at, d)

-----------------------------------------------------------------------------
(* The modules of the tree, and what their files declare.                  *)

Inside(place) == Prefixes(place) \ {<<>>}
InTree        == {p \in UNION {Inside(q) : q \in Path} : Walk(p) # None}

TreeHeap ==
    LET path(i) == {p \in InTree : Walk(p) = i}
        module(p) ==
            [NewSymbol("module", Last(p), p) EXCEPT
                !.ref = IF Len(p) = 1 THEN None ELSE Walk(Front(p)),
                !.syms = SetToSeq({mods[Walk(p)].subs[n] : n \in Name} \ {None})]
    IN  [i \in DOMAIN mods |->
            IF path(i) = {} THEN NewSymbol("forgotten", "", <<>>) ELSE module(CHOOSE p \in path(i) : TRUE)]

\* The symbols once each file has been visited, in any order.
World(texts) ==
    FoldSet(LAMBDA p, w : VisitAll(w, Walk(p), texts[p], FALSE),
            [heap |-> TreeHeap, refused |-> FALSE], DOMAIN texts)

-----------------------------------------------------------------------------
(* The lookups.                                                            *)

ModuleOfRoot(heap, name) ==
    {s \in DOMAIN mods : heap[s].kind = "module" /\ heap[s].ref = None /\ heap[s].name = name}

InnerModules(heap, s) == {t \in ToSet(heap[s].syms) : heap[t].kind = "module"}

\* Symbol::getModuleByPath, from one name to the next: none or one.
InnerCalled(heap, s, name) ==
    LET inner == SelectSeq(heap[s].syms, LAMBDA t : heap[t].kind = "module" /\ heap[t].name = name)
    IN  IF inner = <<>> THEN {} ELSE {Head(inner)}

ModuleOf(heap, path) ==
    FoldLeft(LAMBDA found, name : UNION {InnerCalled(heap, s, name) : s \in found},
             ModuleOfRoot(heap, Head(path)), Tail(path))

\* The modules that a symbol imports, or those that it imports publicly.
Used(heap, s) == UNION {ModuleOf(heap, p) : p \in DOMAIN heap[s].uses}

\* Mutant: what a module imports for itself is seen by those that import it.
AllUsed(heap, s) == Used(heap, s)

PublicUsed(heap, s) ==
    UNION {ModuleOf(heap, p) : p \in {q \in DOMAIN heap[s].uses : heap[s].uses[q]}}

Around(heap, s) == {heap[s].ref} \ {None}

RECURSIVE GetPublic(_, _, _, _), GetUsed(_, _, _, _), GetAll(_, _, _)

\* ISymbol::getPublic as each symbol has it: the scope around, and the table.
OwnPublic(heap, s, name, current) ==
    UNION {GetPublic(heap, t, name, current) : t \in Around(heap, s)} \cup GetLocalPublic(heap, s, name)

\* Symbol::getPublic: current is its static set, of the symbols that are asked.
GetPublic(heap, s, name, current) ==
    IF s \in current THEN {}
    ELSE OwnPublic(heap, s, name, current \cup {s})
         \cup UNION {GetPublic(heap, m, name, current \cup {s}) : m \in PublicUsed(heap, s)}

\* Mutant: what a module imports for itself is seen by those that import it.
FollowAll(heap, s, name, current) ==
    IF s \in current THEN {}
    ELSE OwnPublic(heap, s, name, {})
         \cup UNION {GetUsed(heap, m, name, current \cup {s}) : m \in Used(heap, s)}

\* Symbol::getUsed, asked of the modules that are imported; its set is its own.
GetUsed(heap, s, name, current) ==
    IF s \in current THEN {}
    ELSE OwnPublic(heap, s, name, {})
         \cup UNION {GetUsed(heap, m, name, current \cup {s}) : m \in PublicUsed(heap, s)}

\* Symbol::get: what name means in the scope s.
GetAll(heap, s, name) ==
    UNION {GetAll(heap, t, name) : t \in Around(heap, s)} \cup GetLocal(heap, s, name)
    \cup UNION {GetUsed(heap, m, name, {}) : m \in Used(heap, s)}

-----------------------------------------------------------------------------
(* The symbols that m::name reaches.                                       *)

RECURSIVE ScopesOf(_, _), RealPath(_, _)
ScopesOf(heap, s) == {s} \cup UNION {ScopesOf(heap, t) : t \in Around(heap, s)}

\* ModRef::computeRealName.
RealPath(heap, m) ==
    IF heap[m].ref = None \/ heap[heap[m].ref].kind # "module" THEN <<heap[m].name>>
    ELSE Append(RealPath(heap, heap[m].ref), heap[m].name)

\* getModuleContext: is this code in the module?  A reference to a module that
\* has others below gives no module, and no code is in it.
GetModuleContext(heap, s, m) ==
    /\ InnerModules(heap, m) = {}
    /\ \E t \in ScopesOf(heap, s), at \in ModuleOf(heap, RealPath(heap, m)) :
          heap[t].kind = "module" /\ RealPath(heap, t) = RealPath(heap, at)

\* validateModuleAccess: the references below m, and the symbols of the module of
\* its path; nothing is an error.
ValidateModuleAccess(heap, s, m, name) ==
    Called(heap, InnerModules(heap, m), name)
    \cup UNION {IF GetModuleContext(heap, s, m) THEN GetLocal(heap, at, name) ELSE GetLocalPublic(heap, at, name) :
                  at \in ModuleOf(heap, RealPath(heap, m))}


-----------------------------------------------------------------------------
(* What the texts say, whatever the tables and the order of the visits.    *)

RECURSIVE Facts(_, _, _, _)

\* The declarations of a text in their order, with the blocks around each: one
\* is exported if a block around it is public, an import if the outermost is.
Facts(decls, in, blocks, open) ==
    FlattenSeq([i \in DOMAIN decls |->
        LET d == decls[i]
        IN  IF d.kind = "block" THEN Facts(d.in, in, Append(blocks, d.id), Append(open, ~ d.private))
            ELSE <<[decl |-> d, in |-> in, blocks |-> blocks,
                    exported |-> open # <<>> /\ IF d.kind = "import" THEN Head(open) ELSE TRUE \in ToSet(open)]>>
                 \o Facts(d.in, d, <<>>, <<>>)])

FileModule(p) == [kind |-> "module", name |-> Last(p), id |-> p]

FactsOf(texts) ==
    FoldSet(LAMBDA p, facts : facts \o Facts(texts[p], FileModule(p), <<>>, <<>>), <<>>, DOMAIN texts)

\* A function may have the name of other functions, of modules and of templates;
\* templates, modules, constructors and implementations have any; the others
\* have none that is taken.
MayFollow(kind, after) ==
    CASE after = "function" -> kind \in {"function", "module", "template"}
      [] after = "rule" -> kind # "rule"
      [] OTHER -> after \notin Strict

\* A declaration is compared with those before it that are in the same block, and
\* in the blocks of it, and with the module whose name it would take.
MayBeDeclared(facts, j) ==
    LET d == facts[j]
        before == {facts[i] : i \in 1 .. j - 1}
    IN  \/ d.in.kind \notin Asked /\ d.decl.kind # "rule"
        \/ /\ \A e \in before :
                  e.in.id = d.in.id /\ e.decl.name = d.decl.name /\ IsPrefix(d.blocks, e.blocks)
                      => MayFollow(e.decl.kind, d.decl.kind)
           /\ ~ (d.blocks = <<>> /\ d.in.kind = "module" /\ d.in.name = d.decl.name /\ d.decl.kind \in Strict)

\* The imports of a place, and whether they are for others too.
ImportsAt(facts, place) ==
    LET at == SelectSeq(facts, LAMBDA f : f.decl.kind = "import" /\ f.in.id = place)
    IN  [p \in {at[i].decl.path : i \in DOMAIN at} |->
            at[CHOOSE i \in DOMAIN at : at[i].decl.path = p
                    /\ \A j \in i + 1 .. Len(at) : at[j].decl.path # p].exported]

\* The modules that an import of p lets see: p, those it is in, and those that
\* one of these imports for others.
LetsSee(facts, paths, p) ==
    LET next(m) == Inside(m) \cup {q \in DOMAIN ImportsAt(facts, m) : ImportsAt(facts, m)[q]}
        seen[n \in 0 .. Cardinality(paths)] ==
            IF n = 0 THEN {p}
            ELSE seen[n - 1] \cup (UNION {next(m) : m \in seen[n - 1]} \cap paths)
    IN  seen[Cardinality(paths)]

\* What the texts say, of the modules [id, name], the declarations, the imports of
\* each place and what an import lets see.
Meaning(facts, paths) ==
    [modules |-> {[id |-> p, name |-> Last(p)] : p \in paths}
                 \cup {[id |-> f.decl.id, name |-> f.decl.name] : f \in {g \in ToSet(facts) : g.decl.kind = "module"}},
     declared |-> {f \in ToSet(facts) : f.in.kind \in Asked /\ f.decl.kind # "import"},
     imported |-> {<<f.in.id, f.decl.path>> : f \in {g \in ToSet(facts) : g.decl.kind = "import"}},
     sees |-> UNION {{p} \X LetsSee(facts, paths, p) : p \in paths}]

\* The declarations of a module of that name, those that it exports or all of
\* them, and the module itself; and those of the modules that it is made of.
DeclaredIn(meaning, m, name, all) ==
    {f.decl.id : f \in {g \in meaning.declared : g.in.id = m /\ g.decl.name = name /\ (all \/ g.exported)}}
    \cup {n.id : n \in {o \in meaning.modules : o.id = m /\ o.name = name}}

Below(meaning, m) == {n \in meaning.modules : Len(n.id) > 1 /\ Front(n.id) = m}
BelowCalled(meaning, m, name) == {n.id : n \in {o \in Below(meaning, m) : o.name = name}}

\* What a name means at a place: what the places around declare, and what is
\* exported by the modules that their imports let see.
Means(meaning, place, name) ==
    UNION {DeclaredIn(meaning, t, name, TRUE) \cup BelowCalled(meaning, t, name) : t \in Inside(place)}
    \cup UNION {DeclaredIn(meaning, sees[2], name, FALSE) :
                  sees \in {e \in meaning.sees : \E i \in meaning.imported : i[1] \in Inside(place) /\ i[2] = e[1]}}

\* What m::name means there: from inside of a module that has no other, anything.
Reached(meaning, place, m, name) ==
    BelowCalled(meaning, m, name)
    \cup DeclaredIn(meaning, m, name, m \in Inside(place) /\ Below(meaning, m) = {})
=============================================================================
