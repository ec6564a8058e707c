---------------------------- MODULE TemplateCalls ----------------------------
(* Calls of functions that are templates: the candidates of a call are       *)
(* specialised and ranked, and the body of a solution is validated when it   *)
(* is first met, in the middle of the body that calls it.  The validator     *)
(* keeps two lists of solutions, those it has begun to validate and those    *)
(* that are wrong, and inserts the frame of a function when its body has no  *)
(* error.  CallVisitor, Visitor_templates, and the parts of Visitor,         *)
(* Visitor_vars and FunctionVisitor that they go through.                    *)
(*                                                                          *)
(* A function is [id, nm, params, test, args, body, wrong]: where it is      *)
(* written, its name, the parameters of its template (none when it is no     *)
(* template), [vals, params] of its test or <<>>, its own parameters         *)
(* [n, t, def], the calls of its body, and whether the rest of the body has  *)
(* an error.  A call is [nm, steps, args]: the operands of each !{} that     *)
(* follows the name, and the arguments [n, t], n = "" when it has no name.   *)
(* Methods, the template parameters of a class, the levels of mutability and *)
(* arguments that are lambdas are left out.                                  *)
EXTENDS TemplateMappers

CONSTANTS
    Programs,      \* sets of functions
    Limit          \* LIMIT_TEMPLATE_RECUR
ASSUME LimitAssumption == Limit \in Nat \ {0}

VARIABLES
    prog,          \* the functions of the module, in the order of its text
    pass,          \* the number of the one that the module validates next
    stack,         \* the bodies that are being validated
    made,          \* the solutions that are declared: [sym, map, templs]
    begun,         \* _templateSolutions
    failed,        \* _errorTemplateSolutions
    emitted,       \* the functions and solutions whose frames are inserted
    refs,          \* what the body of each one calls
    wrong,         \* an error is reported
    halted         \* the compiler has stopped on an impossible case
vars == <<prog, pass, stack, made, begun, failed, emitted, refs, wrong, halted>>

CallScore == 3     \* CallVisitor::SCORE_TYPE, and one for the level of mutability

Decl(id) == prog[CHOOSE i \in DOMAIN prog : prog[i].id = id]
Names(params) == {params[i].n : i \in DOMAIN params}

\* A symbol: a template, whole or in part (kind "ref"), or a function, that is
\* a solution when its template has parameters.
Ref(f, params, prev, map)  == [kind |-> "ref", id |-> f.id, params |-> params, prev |-> prev, map |-> map]
Func(id, key) == [kind |-> "func", id |-> id, key |-> key]
Declared(f) == IF f.params = <<>> THEN Func(f.id, NoBinding) ELSE Ref(f, f.params, f.params, NoBinding)

\* Two solutions are the same when they have the place of the template and
\* the bindings of the names that sortNames lists: those of the parameters
\* the template had one step earlier.
Key(prev, map) == Restrict(map, Names(prev) \cap DOMAIN map)

\* getTemplateSolution: the solution that is declared first has the bindings,
\* and the parameters, that the others use.
Known(sym)     == \E m \in made : m.sym = sym
Solution(sym)  == CHOOSE m \in made : m.sym = sym
MapOf(sym)     == IF Known(sym) THEN Solution(sym).map ELSE NoBinding
Declare(new)   == made' = made \cup {m \in new : ~Known(m.sym)}

-----------------------------------------------------------------------------
\* Arguments.

\* findSingleParameter: the argument that has the name of the parameter; the
\* default value, when there is one; the first argument that has no name.
FindSingle(list, par) ==
    LET named == {i \in DOMAIN list : list[i].n = par.n}
        plain == {i \in DOMAIN list : list[i].n = ""}
    IN  IF named # {} THEN [got |-> <<list[Min(named)].t>>, list |-> RemoveAt(list, Min(named))]
        ELSE IF par.def # <<>> THEN [got |-> par.def, list |-> list]
        ELSE IF plain # {} THEN [got |-> <<list[Min(plain)].t>>, list |-> RemoveAt(list, Min(plain))]
        ELSE [got |-> <<>>, list |-> list]

\* findParameter: a parameter of several types takes as many arguments that
\* have no name, and drops what is written after the last one.
FindParameter(list, par, n) ==
    LET plain  == {i \in DOMAIN list : list[i].n = ""}
        Unnamed(a) == a.n = ""
        Named(a)   == a.n # ""
        firsts == SubSeq(SelectSeq(list, Unnamed), 1, n)
        last   == CHOOSE i \in plain : Cardinality({j \in plain : j <= i}) = n
    IN  IF n = 1 THEN FindSingle(list, par)
        ELSE IF Cardinality(plain) < n THEN [got |-> <<>>, list |-> SelectSeq(list, Named)]
        ELSE [got |-> <<Tuple([i \in 1 .. n |-> firsts[i].t])>>, list |-> SelectSeq(SubSeq(list, 1, last), Named)]

\* The argument of each parameter, and the arguments that are left.
RECURSIVE Arguments(_, _, _)
Arguments(list, pars, counts) ==
    IF pars = <<>> THEN [ok |-> TRUE, got |-> <<>>, list |-> list]
    ELSE LET one  == FindParameter(list, pars[1], counts[1])
             rest == Arguments(one.list, Tail(pars), Tail(counts))
         IN  IF one.got = <<>> THEN [ok |-> FALSE, got |-> <<>>, list |-> list]
             ELSE [rest EXCEPT !.got = one.got \o @]

\* validatePrototypeForFrame: the types of the parameters.
Prototype(f, map) == [i \in DOMAIN f.args |-> ValidateType(replaceAll(f.args[i].t, map))]
IsPrototype(types) == \A i \in DOMAIN types : types[i].k \notin {"bad", "void", "trait"}

\* validateFrameProto: the prototype of the function, with its bindings, takes
\* these arguments.  Its score, or -1.
FrameScore(f, map, args) ==
    LET exprs  == [i \in DOMAIN f.args |-> replaceAll(f.args[i].t, map)]
        types  == Prototype(f, map)
        counts == [i \in DOMAIN f.args |-> IF exprs[i].k = "list" THEN Len(exprs[i].ts) ELSE 1]
        found  == Arguments(args, f.args, counts)
    IN  IF /\ IsPrototype(types)
           /\ found.ok /\ found.list = <<>>
           /\ \A i \in DOMAIN types : Compatible(types[i], found.got[i])
        THEN Len(types) * (CallScore + 1) ELSE -1

-----------------------------------------------------------------------------
\* Specialisation: what a template makes of the operands of a !{}, or of the
\* arguments of a call: "no", "halt", or "ok", and then a symbol, its score and,
\* when it is a solution, what it declares.

Answer(st, sym, score, new) == [st |-> st, sym |-> sym, score |-> score, new |-> new]
No      == Answer("no", <<>>, -1, {})
Stopped == Answer("halt", <<>>, -1, {})
Solved(id, prev, templs, m) ==
    LET sym == Func(id, Key(prev, m.map))
    IN  Answer("ok", sym, m.score, {[sym |-> sym, map |-> m.map, templs |-> templs]})
BindingsOf(a) == IF Known(a.sym) \/ a.new = {} THEN MapOf(a.sym) ELSE (CHOOSE m \in a.new : TRUE).map

\* finalValidation: the types of the values, then the test (validateTemplateChecker).
Tested(vals, check) ==
    IF \E i \in DOMAIN vals : vals[i] = Bad THEN "no"
    ELSE IF check.st = "halt" THEN "halt"
    ELSE IF check.st = "ok" /\ check.used = Len(vals) THEN "ok" ELSE "no"
FinalValidation(f, prev, map) ==
    LET Replaced(es) == [i \in DOMAIN es |-> replaceAll(es[i], map)]
        types == [i \in DOMAIN f.test[1].vals |-> ValidateType(Replaced(f.test[1].vals)[i])]
        Test(vals) == Tested(vals, FromExplicit(Replaced(f.test[1].params), vals))
    IN  IF \E i \in DOMAIN prev :
               /\ prev[i].k = "value" /\ prev[i].in # <<>>
               /\ ValidateType(replaceAll(prev[i].in[1], map)) # map[prev[i].n].ts[1].a[1] THEN "no"
        ELSE IF f.test = <<>> THEN "ok" ELSE Test(types)

\* All of the bindings, and the parameters that are left.
All(r, m)    == Merge(Mapper("ok", r.map, 0, 0), m)
Left(r, all) == ReplaceSyntaxTempl(r.params, all.map)
Judged(fin, a) == IF fin = "ok" THEN a ELSE IF fin = "halt" THEN Stopped ELSE No
Final(r, templs, all) == Judged(FinalValidation(Decl(r.id), r.prev, all.map), Solved(r.id, r.prev, templs, all))

\* applyMapperOnTemplate: a template in part when some parameters are left.
Applied(r, m) ==
    LET Part(all) ==
            IF all.st = "halt" THEN Stopped
            ELSE IF Left(r, all) = <<>> THEN Final(r, r.params, all)
            ELSE Answer("ok", Ref(Decl(r.id), Left(r, all), r.params, all.map), all.score, {})
    IN  Part(All(r, m))

\* validateFromExplicit
Specialised(r, values) ==
    LET Took(m) == IF m.st = "halt" THEN Stopped
                   ELSE IF m.st = "ok" /\ m.used = Len(values) THEN Applied(r, m) ELSE No
    IN  IF r.kind # "ref" THEN No ELSE Took(FromExplicit(r.params, values))

\* validateTemplateRef, with validateFromImplicit: the arguments that no
\* parameter takes are left to the last variadic one.
Inference(r, args) ==
    LET f     == Decl(r.id)
        found == Arguments(args, f.args, [i \in DOMAIN f.args |-> 1])
        types == found.got \o [i \in DOMAIN found.list |-> found.list[i].t]
        exprs == [i \in DOMAIN f.args |-> f.args[i].t]
        Took(m, all) == IF m.st = "halt" \/ all.st = "halt" THEN Stopped
                        ELSE IF m.st # "ok" \/ Left(r, all) # <<>> THEN No
                        ELSE Final(r, r.prev, all)
        Try(m) == Took(m, All(r, m))
    IN  IF ~found.ok THEN No ELSE Try(FromImplicit(r.params, exprs, types))

-----------------------------------------------------------------------------
(* The body of a function, or of a solution: sym, whether it has an error,   *)
(* the number of its call, and what is known of that call: its phase, how    *)
(* many !{} are done, the candidates, those still to look at, the solution   *)
(* that waits for its body, and the candidates that are kept.                *)

Body(sym, map) ==
    [sym |-> sym, at |-> 1, phase |-> "next", step |-> 0, cands |-> <<>>, todo |-> <<>>, wait |-> <<>>,
     kept |-> <<>>, bad |-> Decl(sym.id).wrong \/ ~IsPrototype(Prototype(Decl(sym.id), map))]
Top       == stack[Len(stack)]
Call      == Decl(Top.sym.id).body[Top.at]
In(phase) == stack # <<>> /\ ~halted /\ Top.phase = phase
SetTop(b) == stack' = [stack EXCEPT ![Len(stack)] = b]
Depth     == Cardinality({i \in DOMAIN stack : Known(stack[i].sym)})

NextCall(b) == [b EXCEPT !.at = @ + 1, !.phase = "next", !.step = 0, !.cands = <<>>, !.todo = <<>>, !.kept = <<>>]
CallFails   == SetTop([NextCall(Top) EXCEPT !.bad = TRUE])
Halts       == halted' = TRUE /\ UNCHANGED stack

InBody(e) == replaceAll(e, MapOf(Top.sym))
\* An operand of !{} is a type, or else a value.
Operand(e) == IF InBody(e).k = "wrap" THEN InBody(e).ts[1] ELSE ValidateType(InBody(e))
Operands   == [i \in DOMAIN Call.steps[Top.step + 1] |-> Operand(Call.steps[Top.step + 1][i])]
CallArgs   == [i \in DOMAIN Call.args |-> [n |-> Call.args[i].n, t |-> ValidateType(InBody(Call.args[i].t))]]

Begin ==
    /\ In("next") /\ Top.at <= Len(Decl(Top.sym.id).body)
    /\ LET SameName(f) == f.nm = Call.nm
           fs == SelectSeq(prog, SameName)
       IN  SetTop([Top EXCEPT !.phase = "cands", !.cands = [i \in DOMAIN fs |-> Declared(fs[i])]])
    /\ UNCHANGED <<prog, pass, made, begun, failed, emitted, refs, wrong, halted>>

\* validateTemplateCall: the candidates that the operands fit best.
Specialise ==
    /\ In("cands") /\ Top.step < Len(Call.steps)
    /\ \E all \in {[i \in DOMAIN Top.cands |-> Specialised(Top.cands[i], Operands)]} :
       LET best == Max({all[i].score : i \in DOMAIN all})
           IsBest(a) == a.st = "ok" /\ a.score = best
           kept == SelectSeq(all, IsBest)
       IN  IF \E i \in DOMAIN Operands : Operands[i] = Bad THEN CallFails /\ UNCHANGED halted
           ELSE IF \E i \in DOMAIN all : all[i].st = "halt" THEN Halts
           ELSE /\ IF kept = <<>> THEN CallFails ELSE SetTop([Top EXCEPT !.phase = "special", !.todo = kept])
                /\ UNCHANGED halted
    /\ UNCHANGED <<prog, pass, made, begun, failed, emitted, refs, wrong>>

\* A template in part is kept; a solution is validated first.
TakeSpecialised ==
    /\ In("special") /\ Top.wait = <<>> /\ Top.todo # <<>>
    /\ LET a == Top.todo[1]
           b == [Top EXCEPT !.todo = Tail(@)]
       IN  /\ Declare(a.new)
           /\ SetTop(IF a.sym.kind = "ref" THEN [b EXCEPT !.kept = Append(@, [sym |-> a.sym])]
                      ELSE [b EXCEPT !.wait = <<[sym |-> a.sym]>>])
    /\ UNCHANGED <<prog, pass, begun, failed, emitted, refs, wrong, halted>>

EndSpecialise ==
    /\ In("special") /\ Top.wait = <<>> /\ Top.todo = <<>>
    /\ IF Top.kept = <<>> THEN CallFails
       ELSE SetTop([Top EXCEPT !.phase = "cands", !.step = @ + 1, !.kept = <<>>,
                               !.cands = [i \in DOMAIN Top.kept |-> Top.kept[i].sym]])
    /\ UNCHANGED <<prog, pass, made, begun, failed, emitted, refs, wrong, halted>>

\* validateTemplateSymbol, on a solution that is in none of the lists: it is
\* begun; its body is validated now, unless its parameters need nothing to be
\* bound, which leaves it to the module, or the recursion is too deep.
Enter ==
    /\ stack # <<>> /\ ~halted /\ Top.wait # <<>>
    /\ LET sym == Top.wait[1].sym
       IN  \E inferred \in {Inferred(Solution(sym).templs)} :
           /\ sym \notin begun \cup failed
           /\ IF Depth + 1 >= Limit THEN failed' = failed \cup {sym} /\ UNCHANGED <<stack, begun, halted>>
              ELSE IF inferred.st = "halt" THEN Halts /\ UNCHANGED <<begun, failed>>
              ELSE /\ begun' = begun \cup {sym}
                   /\ stack' = IF inferred.st = "ok" THEN stack ELSE Append(stack, Body(sym, MapOf(sym)))
                   /\ UNCHANGED <<failed, halted>>
    /\ UNCHANGED <<prog, pass, made, emitted, refs, wrong>>

\* A solution that is begun is taken as it is, one that is wrong is no candidate.
Settle ==
    /\ stack # <<>> /\ ~halted /\ Top.wait # <<>>
    /\ LET sym == Top.wait[1].sym
       IN  /\ sym \in begun \cup failed
           /\ SetTop([Top EXCEPT !.wait = <<>>, !.kept = IF sym \in begun THEN @ \o Top.wait ELSE @])
    /\ UNCHANGED <<prog, pass, made, begun, failed, emitted, refs, wrong, halted>>

Rank ==
    /\ In("cands") /\ Top.step = Len(Call.steps)
    /\ IF \E i \in DOMAIN CallArgs : CallArgs[i].t = Bad THEN CallFails
       ELSE SetTop([Top EXCEPT !.phase = "rank", !.todo = Top.cands])
    /\ UNCHANGED <<prog, pass, made, begun, failed, emitted, refs, wrong, halted>>

\* computeScoreOfMultSym: the score of a function is that of its frame; a
\* template adds what it has bound, and its solution must be right.
Score ==
    /\ In("rank") /\ Top.wait = <<>> /\ Top.todo # <<>>
    /\ \E c \in {Top.todo[1]} : \E a \in {IF c.kind = "ref" THEN Inference(c, CallArgs) ELSE Answer("ok", c, 0, {})} :
       LET b    == [Top EXCEPT !.todo = Tail(@)]
           own  == FrameScore(Decl(c.id), BindingsOf(a), CallArgs)
           kept == [sym |-> a.sym, templ |-> c.kind = "ref", score |-> a.score + own]
       IN  IF a.st = "halt" THEN Halts /\ UNCHANGED made
           ELSE /\ Declare(a.new)
                /\ SetTop(IF a.st = "no" THEN b ELSE IF own = -1 THEN b
                           ELSE IF kept.templ THEN [b EXCEPT !.wait = <<kept>>]
                           ELSE [b EXCEPT !.kept = Append(@, kept)])
                /\ UNCHANGED halted
    /\ UNCHANGED <<prog, pass, begun, failed, emitted, refs, wrong>>

\* validateScoreOfMultSym: the best function, and the best template when there
\* is no function; the call is wrong when there are two of them.
Choose ==
    /\ In("rank") /\ Top.wait = <<>> /\ Top.todo = <<>>
    /\ LET IsFunction(k) == ~k.templ
           pool == IF SelectSeq(Top.kept, IsFunction) # <<>> THEN SelectSeq(Top.kept, IsFunction) ELSE Top.kept
           best == {i \in DOMAIN pool : \A j \in DOMAIN pool : pool[j].score <= pool[i].score}
       IN  IF Cardinality(best) # 1 THEN CallFails /\ UNCHANGED refs
           ELSE /\ SetTop(NextCall(Top))
                /\ refs' = refs \cup {[from |-> Top.sym, at |-> Top.at, to |-> pool[Min(best)].sym]}
    /\ UNCHANGED <<prog, pass, made, begun, failed, emitted, wrong, halted>>

\* Mutant: a solution whose body is wrong stays in the list of those that are begun.
ReturnStaysBegun ==
    /\ In("next") /\ Top.at > Len(Decl(Top.sym.id).body)
    /\ stack' = Front(stack)
    /\ emitted' = IF Top.bad THEN emitted ELSE emitted \cup {Top.sym}
    /\ failed'  = IF Top.bad /\ Known(Top.sym) THEN failed \cup {Top.sym} ELSE failed
    /\ wrong'   = (wrong \/ (Top.bad /\ Len(stack) = 1))
    /\ UNCHANGED <<prog, pass, made, begun, refs, halted>>

\* FunctionVisitor::validate inserts a frame when there is no error. A
\* solution whose body is wrong leaves one list for the other.
Return ==
    /\ In("next") /\ Top.at > Len(Decl(Top.sym.id).body)
    /\ stack' = Front(stack)
    /\ emitted' = IF Top.bad THEN emitted ELSE emitted \cup {Top.sym}
    /\ begun'   = IF Top.bad THEN begun \ {Top.sym} ELSE begun
    /\ failed'  = IF Top.bad /\ Known(Top.sym) THEN failed \cup {Top.sym} ELSE failed
    /\ wrong'   = (wrong \/ (Top.bad /\ Len(stack) = 1))
    /\ UNCHANGED <<prog, pass, made, refs, halted>>

-----------------------------------------------------------------------------
\* The module validates its functions, and the templates that need nothing to
\* be bound, once each.

ValidateFunction ==
    /\ stack = <<>> /\ ~halted /\ pass <= Len(prog) /\ prog[pass].params = <<>>
    /\ stack' = <<Body(Func(prog[pass].id, NoBinding), NoBinding)>>
    /\ pass' = pass + 1
    /\ UNCHANGED <<prog, made, begun, failed, emitted, refs, wrong, halted>>

\* validateTemplateNoSpecialization
ValidateTemplate ==
    /\ stack = <<>> /\ ~halted /\ pass <= Len(prog) /\ prog[pass].params # <<>>
    /\ \E m \in {Inferred(prog[pass].params)} :
       \E a \in {IF m.st = "ok" THEN Applied(Declared(prog[pass]), m) ELSE Answer(m.st, <<>>, -1, {})} :
       LET isSolution == a.st = "ok" /\ a.new # {}
           isNew == isSolution /\ a.sym \notin failed \ begun
       IN  /\ Declare(a.new)
           /\ begun'  = IF isNew THEN begun \cup {a.sym} ELSE begun
           /\ wrong'  = (wrong \/ a.st = "no" \/ (isSolution /\ ~isNew))
           /\ halted' = (a.st = "halt")
           /\ stack'  = IF isNew THEN <<Body(a.sym, BindingsOf(a))>> ELSE stack
    /\ pass' = pass + 1
    /\ UNCHANGED <<prog, failed, emitted, refs>>

Init ==
    /\ \E p \in Programs : prog \in SetToSeqs(p)
    /\ pass = 1 /\ stack = <<>> /\ refs = {}
    /\ made = {} /\ begun = {} /\ failed = {} /\ emitted = {}
    /\ wrong = FALSE /\ halted = FALSE

Done == stack = <<>> /\ pass > Len(prog)

\* The validation may stop here, and nowhere else.
End == (Done \/ halted) /\ UNCHANGED vars

Next == \/ Begin \/ Specialise \/ TakeSpecialised \/ EndSpecialise \/ Enter \/ Settle
        \/ Rank \/ Score \/ Choose \/ Return
        \/ ValidateFunction \/ ValidateTemplate
        \/ End

Spec == Init /\ [][Next]_vars

=============================================================================
