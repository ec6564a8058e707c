--------------------------- MODULE ClassValidation ---------------------------
(***************************************************************************)
(* The validation of classes by semantic/validator/ClassVisitor.cc, driven *)
(* by Parser::semanticTime.                                                *)
(*                                                                         *)
(* A class symbol holds one generator, empty until the class is validated. *)
(* Validating a class can reach other classes (its ancestor, the types of  *)
(* its methods and of its fields), which are validated by nested calls of  *)
(* the same visitor, and any of these calls can throw.  The C++ call stack *)
(* is the variable stack, one frame per active call of                     *)
(* ClassVisitor::validate or ClassVisitor::postValidate; what the topmost  *)
(* call that ended gave to its caller is the variable ret.                 *)
(***************************************************************************)
EXTENDS Integers, Sequences, FiniteSets

CONSTANTS
    Class,      \* the class symbols
    NoClass,    \* "no ancestor"
    Program,    \* the declarations to compile, one record per source program
    MaxUse      \* bound on the uses of a class outside of class declarations

ASSUME NoClassAssumption == NoClass \notin Class
ASSUME MaxUseAssumption  == MaxUse \in Nat

Declarations ==
    [ancestor   : [Class -> Class \cup {NoClass}],
     sigs       : [Class -> SUBSET Class],  \* classes its methods mention
     defaults   : [Class -> SUBSET Class],  \* and the default values of those
     fieldTypes : [Class -> SUBSET Class],  \* classes its fields mention
     module     : SUBSET Class,  \* declared by the compiled module
     instances  : SUBSET Class,  \* solutions of class templates
     final      : SUBSET Class,  \* marked final
     badAssert  : SUBSET Class,  \* one of its assertions fails
     badVtable  : SUBSET Class,  \* one of its methods is erroneous
     clash      : SUBSET Class,  \* redeclares a field of its ancestor
     bodyUses   : 0 .. MaxUse]   \* uses of a class in the bodies of functions

\* A class of the module is declared once, a solution whenever a use needs it.
ProgramType == {p \in Declarations : p.module \cap p.instances = {}}

ASSUME ProgramAssumption == Program \subseteq ProgramType

VARIABLES
    prog,        \* the program being compiled
    gen,         \* semantic::Class::_gen of every class symbol
    stack,       \* the active calls of ClassVisitor
    ret,         \* outcome of the call that just ended, not yet consumed
    validation,  \* ClassVisitor::__validation__
    post,        \* ClassVisitor::__post_validation__
    toValidate,  \* Visitor::_classToValidate
    solution,    \* Visitor::_templateSolutions and _errorTemplateSolutions
    list,        \* the classes in Visitor::_list (insertNewGenerator)
    work,        \* symbols validateModule has still to visit
    queue,       \* "classes", the list validateAllClasses iterates over
    mode,        \* how the root call was made (see UseClass)
    uses,        \* number of UseClass steps taken
    errors,      \* an ErrorList reached validateModule or validateAllClasses
    dropped,     \* history: a caller of the visitor has dropped an ErrorList
    compile      \* where Parser::semanticTime stands

visitor == <<gen, stack, ret, validation, post, toValidate, solution>>
driver  == <<list, work, queue, mode, uses, errors, dropped>>
vars    == <<prog, visitor, driver, compile>>

-----------------------------------------------------------------------------
(* Generators.  A Class generator is abstracted to the classes whose        *)
(* methods are in its vtable, those of them whose default values were       *)
(* validated, and the classes whose fields are in its field list.           *)

Kinds     == {"empty", "class", "none", "error"}
Generator == [kind : Kinds, vtable : SUBSET Class, values : SUBSET Class,
              fields : SUBSET Class, asserted : BOOLEAN]

OfKind(k) == [kind |-> k, vtable |-> {}, values |-> {}, fields |-> {},
              asserted |-> FALSE]

(* Frames.  "errs" is the local list errors of validateClassContent and     *)
(* postValidate, "vtErr" the one of validateClassDeclarations, "base" the   *)
(* generator of the ancestor when validateClassDeclarations copied its      *)
(* vtable, "aux" the local list of postValidateAll, "level" the size of     *)
(* __validation__ once the call has pushed its class there.                 *)

Pcs   == {"ancestor", "inherit", "begin", "vtable", "fields", "finish",
          "postAll", "end"}
Frame == [cls : Class, inModule : BOOLEAN, isPost : BOOLEAN, pc : Pcs,
          todo : SUBSET Class, errs : BOOLEAN, vtErr : BOOLEAN,
          base : Generator, aux : Seq(Class), level : Nat]

NewFrame(c, m, p, pc) ==
    [cls |-> c, inModule |-> m, isPost |-> p, pc |-> pc, todo |-> {},
     errs |-> FALSE, vtErr |-> FALSE, base |-> OfKind("empty"), aux |-> <<>>,
     level |-> 0]

\* Mutant: a class that failed is validated again by its next use.
ValidateCallAgain(c, m) ==
    NewFrame(c, m, FALSE,
             IF gen[c].kind # "class" \/ m THEN "ancestor" ELSE "finish")

\* ClassVisitor::validate: the content is validated when the symbol has no
\* generator, and again, whatever it has, when its module asks for it.
ValidateCall(c, m) ==
    NewFrame(c, m, FALSE,
             IF gen[c].kind = "empty" \/ m THEN "ancestor" ELSE "finish")

Depth      == Len(stack)
Top        == stack[Depth]
Callers    == SubSeq(stack, 1, Depth - 1)
Running    == compile \in {"module", "classes"}
Active     == Running /\ stack # <<>>
At(p)      == Active /\ Top.pc = p
SetTop(f)  == stack' = [stack EXCEPT ![Depth] = f] /\ UNCHANGED solution
Invoke(f, callee) == stack' = Append([stack EXCEPT ![Depth] = f], callee)

\* The solution of a template whose class failed is filed as erroneous.
Filed(r) ==
    IF r = "throw" /\ Top.inModule /\ Top.cls \in prog.instances
    THEN [solution EXCEPT ![Top.cls] = "failed"] ELSE solution

Return(r)  == stack' = Callers /\ ret' = r /\ solution' = Filed(r)

\* The solutions that no use needed yet.
New == {c \in prog.instances : solution[c] = "none"}

Registered(c) ==
    IF c \in New THEN [solution EXCEPT ![c] = "registered"] ELSE solution

\* A class is named.  The first use of a template solution asks for the
\* content of its class, as its module would; the errors of a solution that
\* failed are thrown again.
Refer(f, c) ==
    IF solution[c] = "failed"
    THEN SetTop(f) /\ ret' = "throw"
    ELSE /\ Invoke(f, ValidateCall(c, c \in New))
         /\ solution' = Registered(c)
         /\ UNCHANGED ret

\* The classes whose content is being validated: in the code, those between
\* the push_back and the pop_back of __validation__.
Pushed(f) == f.pc \in {"vtable", "fields"}

\* throwErrors: the errors of a __pragma!compile are kept for a later retry.
\* It always ends with a throw.
ThrowErrors(c) ==
    /\ gen' = [gen EXCEPT ![c] =
                 OfKind(IF mode = "pragma" THEN "error" ELSE "none")]
    /\ Return("throw")

\* Mutant: throwErrors leaves before the pop_back.
PopUnlessErrors ==
    IF Top.errs THEN validation ELSE SubSeq(validation, 1, Len(validation) - 1)

PopValidation == SubSeq(validation, 1, Len(validation) - 1)

-----------------------------------------------------------------------------
(* validateAncestor *)

Ancestor(c) == prog.ancestor[c]

ResolveAncestor ==
    /\ At("ancestor") /\ ret = "none"
    /\ IF Ancestor(Top.cls) = NoClass
       THEN SetTop([Top EXCEPT !.pc = "begin"]) /\ UNCHANGED ret
       ELSE Refer([Top EXCEPT !.pc = "inherit"], Ancestor(Top.cls))
    /\ UNCHANGED <<prog, gen, validation, post, toValidate, driver, compile>>

AncestorAccepted == ret = "ok" /\ Ancestor(Top.cls) \notin prog.final

\* A final ancestor is refused.  validateClassContent lets the ErrorList
\* through, postValidate catches it.
AncestorResolved ==
    /\ At("inherit") /\ ret # "none"
    /\ IF AncestorAccepted
       THEN SetTop([Top EXCEPT !.pc = "begin"]) /\ ret' = "none"
       ELSE IF Top.isPost
            THEN SetTop([Top EXCEPT !.pc = "end", !.errs = TRUE]) /\ ret' = "none"
            ELSE Return("throw")
    /\ UNCHANGED <<prog, gen, validation, post, toValidate, driver, compile>>

-----------------------------------------------------------------------------
(* validateClassContent: a fresh Class generator "to avoid recursive        *)
(* validation", the assertions, then the vtable and the fields.             *)

VtableOf(c) == IF Ancestor(c) = NoClass THEN OfKind("empty") ELSE gen[Ancestor(c)]

\* Default values are only validated by the outermost content, the last
\* argument of validateMethodProto.
MethodMentions(c) ==
    prog.sigs[c] \cup (IF validation = <<>> THEN prog.defaults[c] ELSE {})

\* Mutant: the generator of the symbol is only set at the end.
GeneratorSetLate(c) == gen[c]

BeginGenerator(c) ==
    [OfKind("class") EXCEPT !.asserted = validation = <<>> /\ c \notin prog.badAssert]

\* The assertions are evaluated by the outermost content only.  When one
\* fails, the ErrorList leaves validateClassContent: the pop_back is skipped.
BeginContent ==
    /\ At("begin") /\ ~Top.isPost /\ ret = "none"
    /\ validation' = Append(validation, Top.cls)
    /\ LET c == Top.cls
       IN  /\ gen' = [gen EXCEPT ![c] = BeginGenerator(c)]
           /\ IF validation = <<>> /\ c \in prog.badAssert
              THEN Return("throw")
              ELSE /\ SetTop([Top EXCEPT !.pc = "vtable", !.todo = MethodMentions(c),
                                         !.base = VtableOf(c),
                                         !.level = Len(validation')])
                   /\ UNCHANGED ret
    /\ UNCHANGED <<prog, post, toValidate, driver, compile>>

\* A method prototype or a field declaration names a class.
ReferClass ==
    /\ Active /\ Pushed(Top) /\ ret = "none"
    /\ \E d \in Top.todo : Refer([Top EXCEPT !.todo = @ \ {d}], d)
    /\ UNCHANGED <<prog, gen, validation, post, toValidate, driver, compile>>

\* The loops over methods and fields collect the errors and go on.
ReferenceResolved ==
    /\ Active /\ Pushed(Top) /\ ret # "none"
    /\ LET failed == ret = "throw"
       IN  IF Top.pc = "vtable"
           THEN SetTop([Top EXCEPT !.vtErr = @ \/ failed])
           ELSE SetTop([Top EXCEPT !.errs = @ \/ failed])
    /\ ret' = "none"
    /\ UNCHANGED <<prog, gen, validation, post, toValidate, driver, compile>>

\* End of validateVtable: initVtable on the generator of the symbol, unless
\* an error occurred.
WithVtable(f) ==
    [gen[f.cls] EXCEPT
        !.vtable = f.base.vtable \cup {f.cls},
        !.values = f.base.values \cup
                      (IF Len(validation) = 1 THEN {f.cls} ELSE {})]

\* Mutant: the errors of the class's own methods are dropped.
VtableFailedByUse(f) == f.vtErr

VtableFailed(f) == f.vtErr \/ f.cls \in prog.badVtable

EndVtable ==
    /\ At("vtable") /\ ~Top.isPost /\ Top.todo = {} /\ ret = "none"
    /\ gen' = IF VtableFailed(Top) THEN gen
              ELSE [gen EXCEPT ![Top.cls] = WithVtable(Top)]
    /\ SetTop([Top EXCEPT !.pc = "fields", !.errs = @ \/ VtableFailed(Top),
                          !.todo = prog.fieldTypes[Top.cls]])
    /\ UNCHANGED <<prog, ret, validation, post, toValidate, driver, compile>>

\* End of validateFields and of validateClassContent.  The fields are those
\* the ancestor has now, followed by the local ones.
\* Mutant: the inherited fields are compared with themselves.
AllFieldsCollide(c) == Ancestor(c) \in VtableOf(c).fields

FieldsCollide(c) == c \in prog.clash /\ Ancestor(c) \in VtableOf(c).fields

\* Mutants: the ancestor is queued in the place of the class;
\* a nested call queues the class for the generation phase.
QueueAncestor(c) == IF Len(validation) > 1 THEN Append(post, Ancestor(c)) ELSE post
QueueNested(c)   == Append(toValidate, c)

WithPost(c)       == IF Len(validation) > 1 THEN Append(post, c) ELSE post
WithToValidate(c) == IF Top.inModule THEN Append(toValidate, c) ELSE toValidate

EndContent ==
    /\ At("fields") /\ ~Top.isPost /\ Top.todo = {} /\ ret = "none"
    /\ validation' = PopValidation
    /\ LET c == Top.cls
       IN  IF Top.errs \/ FieldsCollide(c)
           THEN ThrowErrors(c) /\ UNCHANGED <<post, toValidate>>
           ELSE /\ gen' = [gen EXCEPT ![c].fields = VtableOf(c).fields \cup {c}]
                /\ toValidate' = WithToValidate(c)
                /\ post' = WithPost(c)
                /\ SetTop([Top EXCEPT !.pc = "finish"])
                /\ UNCHANGED ret
    /\ UNCHANGED <<prog, driver, compile>>

-----------------------------------------------------------------------------
(* The end of ClassVisitor::validate: the answer depends on the generator   *)
(* the symbol holds now.                                                    *)

TakePost == SetTop([Top EXCEPT !.pc = "postAll", !.aux = post]) /\ post' = <<>>

\* An outermost validation runs postValidateAll before it answers.
FinishClass ==
    /\ At("finish") /\ ret = "none" /\ gen[Top.cls].kind = "class"
    /\ IF validation = <<>>
       THEN TakePost /\ UNCHANGED ret
       ELSE Return("ok") /\ UNCHANGED post
    /\ UNCHANGED <<prog, gen, validation, toValidate, driver, compile>>

\* A class whose validation failed; the errors kept by a __pragma!compile
\* are dropped by the first use outside of one.
FinishInvalid ==
    /\ At("finish") /\ ret = "none" /\ gen[Top.cls].kind # "class"
    /\ gen' = IF gen[Top.cls].kind = "error" /\ mode # "pragma"
              THEN [gen EXCEPT ![Top.cls] = OfKind("none")] ELSE gen
    /\ Return("throw")
    /\ UNCHANGED <<prog, validation, post, toValidate, driver, compile>>

-----------------------------------------------------------------------------
(* postValidateAll and postValidate *)

PostNext ==
    /\ At("postAll") /\ ret # "throw" /\ Top.aux # <<>>
    /\ Invoke([Top EXCEPT !.aux = Tail(@)],
              NewFrame(Head(Top.aux), FALSE, TRUE, "ancestor"))
    /\ ret' = "none"
    /\ UNCHANGED <<prog, gen, validation, post, toValidate, solution, driver, compile>>

\* The list is empty: take the classes queued meanwhile, or answer.
PostDone ==
    /\ At("postAll") /\ ret # "throw" /\ Top.aux = <<>>
    /\ IF post # <<>>
       THEN TakePost /\ ret' = "none"
       ELSE Return("ok") /\ UNCHANGED post
    /\ UNCHANGED <<prog, gen, validation, toValidate, driver, compile>>

\* An ErrorList goes through postValidateAll: the rest of its list is lost.
PostAbandoned ==
    /\ At("postAll") /\ ret = "throw"
    /\ Return("throw")
    /\ UNCHANGED <<prog, gen, validation, post, toValidate, driver, compile>>

\* A failed assertion skips the pop_back here too.
BeginPost ==
    /\ At("begin") /\ Top.isPost /\ ret = "none"
    /\ validation' = Append(validation, Top.cls)
    /\ LET c == Top.cls
       IN  IF c \in prog.badAssert
           THEN /\ SetTop([Top EXCEPT !.pc = "end", !.errs = TRUE])
                /\ UNCHANGED gen
           ELSE /\ SetTop([Top EXCEPT !.pc = "vtable", !.todo = MethodMentions(c),
                                      !.base = VtableOf(c),
                                      !.level = Len(validation')])
                /\ gen' = [gen EXCEPT ![c].asserted = gen[c].kind = "class"]
    /\ UNCHANGED <<prog, ret, post, toValidate, driver, compile>>

\* initVtable casts the generator of the symbol to a Class generator: an
\* internal error ends the compilation when it is something else.
EndPostVtable ==
    /\ At("vtable") /\ Top.isPost /\ Top.todo = {} /\ ret = "none"
    /\ LET c == Top.cls
       IN  IF VtableFailed(Top)
           THEN UNCHANGED <<gen, compile>>
           ELSE IF gen[c].kind = "class"
                THEN gen' = [gen EXCEPT ![c] = WithVtable(Top)] /\ UNCHANGED compile
                ELSE compile' = "halted" /\ UNCHANGED gen
    /\ validation' = PopValidation
    /\ SetTop([Top EXCEPT !.pc = "end", !.errs = VtableFailed(Top)])
    /\ UNCHANGED <<prog, ret, post, toValidate, driver>>

EndPost ==
    /\ At("end") /\ Top.isPost /\ ret = "none"
    /\ IF Top.errs THEN ThrowErrors(Top.cls) ELSE Return("ok") /\ UNCHANGED gen
    /\ UNCHANGED <<prog, validation, post, toValidate, driver, compile>>

-----------------------------------------------------------------------------
(* The callers of the visitor *)

Idle == stack = <<>> /\ ret = "none"

\* validateModule visits a class symbol of the module.
ValidateModuleClass ==
    /\ compile = "module" /\ Idle
    /\ \E c \in work :
          /\ work' = work \ {c}
          /\ stack' = <<ValidateCall(c, TRUE)>>
    /\ mode' = "strict"
    /\ UNCHANGED <<prog, gen, ret, validation, post, toValidate, solution, list,
                   queue, uses, errors, dropped, compile>>

\* The body of a function or of a method names a class.  In "strict" mode the
\* ErrorList reaches validateModule or validateAllClasses; in "try" mode a
\* speculative caller drops it (validateTemplateCall, validateAka); in
\* "pragma" mode PragmaVisitor::validateCompile does.
UseClass ==
    /\ Running /\ Idle /\ uses < prog.bodyUses
    /\ uses' = uses + 1
    /\ \E c \in Class :
          IF solution[c] = "failed"
          THEN ret' = "throw" /\ UNCHANGED <<stack, solution>>
          ELSE /\ stack' = <<ValidateCall(c, c \in New)>>
               /\ solution' = Registered(c)
               /\ UNCHANGED ret
    /\ mode' \in {"strict", "try", "pragma"}
    /\ UNCHANGED <<prog, gen, validation, post, toValidate, list, work,
                   queue, errors, dropped, compile>>

RootReturned ==
    /\ Running /\ stack = <<>> /\ ret # "none"
    /\ ret' = "none"
    /\ errors'  = (errors \/ (ret = "throw" /\ mode = "strict"))
    /\ dropped' = (dropped \/ (ret = "throw" /\ mode # "strict"))
    /\ UNCHANGED <<prog, gen, stack, validation, post, toValidate, solution, list,
                   work, queue, mode, uses, compile>>

\* semanticTime goes from validate to validateAllClasses, if nothing was thrown.
EndModule ==
    /\ compile = "module" /\ Idle /\ work = {}
    /\ IF errors
       THEN compile' = "failed" /\ UNCHANGED <<queue, toValidate>>
       ELSE compile' = "classes" /\ queue' = toValidate /\ toValidate' = <<>>
    /\ UNCHANGED <<prog, gen, stack, ret, validation, post, solution, list, work,
                   mode, uses, errors, dropped>>

\* validateClassFull casts the generators of the class and of its ancestor.
IsClass(c) == gen[c].kind = "class"

ValidateClassFull ==
    /\ compile = "classes" /\ Idle /\ queue # <<>>
    /\ LET c == Head(queue)
       IN  IF IsClass(c) /\ (Ancestor(c) = NoClass \/ IsClass(Ancestor(c)))
           THEN list' = Append(list, c) /\ UNCHANGED compile
           ELSE compile' = "halted" /\ UNCHANGED list
    /\ queue' = Tail(queue)
    /\ UNCHANGED <<prog, visitor, work, mode, uses, errors, dropped>>

EndClasses ==
    /\ compile = "classes" /\ Idle /\ queue = <<>>
    /\ IF errors
       THEN compile' = "failed" /\ UNCHANGED <<queue, toValidate>>
       ELSE IF toValidate # <<>>
            THEN queue' = toValidate /\ toValidate' = <<>> /\ UNCHANGED compile
            ELSE compile' = "done" /\ UNCHANGED <<queue, toValidate>>
    /\ UNCHANGED <<prog, gen, stack, ret, validation, post, solution, list, work,
                   mode, uses, errors, dropped>>

-----------------------------------------------------------------------------
Init ==
    /\ prog \in Program
    /\ gen = [c \in Class |-> OfKind("empty")]
    /\ stack = <<>> /\ ret = "none"
    /\ validation = <<>> /\ post = <<>> /\ toValidate = <<>>
    /\ solution = [c \in Class |-> "none"]
    /\ list = <<>> /\ work = prog.module /\ queue = <<>>
    /\ mode = "strict" /\ uses = 0 /\ errors = FALSE /\ dropped = FALSE
    /\ compile = "module"

Visit ==
    \/ ResolveAncestor \/ AncestorResolved
    \/ BeginContent \/ ReferClass \/ ReferenceResolved \/ EndVtable \/ EndContent
    \/ FinishClass \/ FinishInvalid
    \/ PostNext \/ PostDone \/ PostAbandoned
    \/ BeginPost \/ EndPostVtable \/ EndPost

Drive ==
    \/ ValidateModuleClass \/ UseClass \/ RootReturned
    \/ EndModule \/ ValidateClassFull \/ EndClasses

Next == Visit \/ Drive

Spec == Init /\ [][Next]_vars

\* The compiler is one sequential program: it never stops between two steps.
FairSpec == Spec /\ WF_vars(Next)

-----------------------------------------------------------------------------
(* Reference definitions *)

\* The class and its ancestors: the least set with the class in it and, with
\* each class, its ancestor.
Lineage(c) ==
    {x \in Class : \A S \in SUBSET Class :
        c \in S /\ (\A y \in S : Ancestor(y) \in S \cup {NoClass}) => x \in S}

\* What the declaration of a class refers to, directly or through others.
DirectMentions(c) ==
    prog.sigs[c] \cup prog.defaults[c] \cup prog.fieldTypes[c] \cup ({Ancestor(c)} \ {NoClass})

Mentions(c) ==
    {x \in Class : \A S \in SUBSET Class :
        (\A y \in S \cup {c} : DirectMentions(y) \subseteq S) => x \in S}

\* No class mentions, through others or not, a class that inherits from it.
Layered == \A c \in Class : \A d \in Mentions(c) \ {c} : c \notin Lineage(d)

Elements(s) == {s[i] : i \in DOMAIN s}

Rebuilding(f) == f.pc \in {"ancestor", "inherit", "begin", "vtable", "fields"}

-----------------------------------------------------------------------------
(* Properties *)

\* The variables stay in their domains, those of the C++ declarations.
TypeOK ==
    /\ prog \in ProgramType
    /\ gen \in [Class -> Generator]
    /\ stack \in Seq(Frame)
    /\ ret \in {"none", "ok", "throw"}
    /\ validation \in Seq(Class) /\ post \in Seq(Class) /\ toValidate \in Seq(Class)
    /\ solution \in [Class -> {"none", "registered", "failed"}]
    /\ list \in Seq(Class) /\ queue \in Seq(Class)
    /\ work \subseteq prog.module
    /\ mode \in {"strict", "try", "pragma"}
    /\ uses \in 0 .. MaxUse
    /\ errors \in BOOLEAN /\ dropped \in BOOLEAN
    /\ compile \in {"module", "classes", "done", "failed", "halted"}

\* The active contents among the calls up to the n-th of a stack.
ContentsTo(s, n) == {i \in 1 .. n : Pushed(s[i])}

\* __validation__ lists, one entry for each, the classes whose content is being
\* validated by an active call, in the order of the calls.
Matches(s, v) ==
    /\ Len(v) = Cardinality(ContentsTo(s, Len(s)))
    /\ \A i \in DOMAIN s : Pushed(s[i]) => v[Cardinality(ContentsTo(s, i))] = s[i].cls

\* __validation__ holds exactly the classes whose content is being validated
\* by an active call, whatever was thrown through the calls above them, a
\* failed assertion excepted: validateCtes and postValidateAll are gated on
\* its size.
ValidationMatchesCalls == prog.badAssert = {} => Matches(stack, validation)

\* "To avoid recursive validation": while the content of a class is being
\* validated its symbol holds a Class generator, and no nested call starts
\* the content of the same class again.
ActiveContent ==
    \A i \in DOMAIN stack :
        Pushed(stack[i]) /\ ~stack[i].isPost =>
            /\ gen[stack[i].cls].kind = "class"
            /\ \A j \in DOMAIN stack :
                  i < j /\ Rebuilding(stack[j]) => stack[j].cls # stack[i].cls

\* What makes ActiveContent inductive: the sizes __validation__ had when the
\* active contents were pushed grow along the stack, and the post validation
\* only runs when no content is active.
LevelsGrow ==
    \A i \in DOMAIN stack :
        Pushed(stack[i]) =>
            /\ 1 <= stack[i].level /\ stack[i].level <= Len(validation)
            /\ \A j \in DOMAIN stack :
                  i < j /\ Pushed(stack[j]) => stack[i].level < stack[j].level

IsPostFrame(f) == f.isPost \/ f.pc \in {"postAll", "end"}

PostIsOutermost ==
    \A i, j \in DOMAIN stack :
        i < j /\ Pushed(stack[i]) => ~IsPostFrame(stack[j])

\* A solution is registered before its class is validated.
NoNewCall == \A i \in DOMAIN stack : ~stack[i].isPost => stack[i].cls \notin New

StackInv == ActiveContent /\ LevelsGrow /\ PostIsOutermost /\ NoNewCall

\* What the generation phase receives when no error was reported: every class
\* of the module and every solution a use needed, be it the body of a method of
\* another class, once.  A solution filed as erroneous can be among them: its
\* content was valid, but not that of a class completed after it, and the
\* caller dropped the error.
RegisteredClasses == {c \in Class : solution[c] = "registered"}

EmittedOnce ==
    compile = "done" =>
        /\ prog.module \cup RegisteredClasses \subseteq Elements(list)
        /\ Elements(list) \subseteq prog.module \cup {c \in Class : solution[c] # "none"}
        /\ \A i, j \in DOMAIN list : list[i] = list[j] => i = j

\* When no caller has dropped an error, these classes are complete: their
\* assertions are verified and the default values of their methods validated,
\* also for those reached while another class was being validated.
EmittedComplete ==
    compile = "done" /\ ~dropped =>
        \A c \in Elements(list) : IsClass(c) /\ gen[c].asserted /\ c \in gen[c].values

\* What is wrong with a class: an erroneous method or a final class among its
\* ancestors, or a field declared twice in its lineage.
Erroneous(c) ==
    \/ Lineage(c) \cap prog.badVtable # {}
    \/ \E x \in Lineage(c) : Ancestor(x) \in prog.final

Collides(c) == \E x \in Lineage(c) \cap prog.clash : Ancestor(x) # NoClass

Invalid(c) == Erroneous(c) \/ Collides(c)

\* An erroneous class is reported: the generation phase receives none, nor one
\* with an erroneous ancestor, unless a caller has dropped an error.  A field
\* declared twice is reported too when no class mentions one of its heirs.  A
\* failed assertion is not always: README, findings.
ErrorsReported ==
    compile = "done" /\ ~dropped =>
        \A c \in Elements(list) : ~Erroneous(c) /\ (Layered => ~Collides(c))

\* The layout the generation phase receives: the methods and the fields of a
\* class and of all its ancestors.  It holds of the programs in which no class
\* mentions one of its heirs.
EmittedLayout ==
    compile = "done" /\ ~dropped /\ Layered =>
        \A c \in Elements(list) :
            gen[c].vtable = Lineage(c) /\ gen[c].fields = Lineage(c)

\* The generation phase receives each class once and, unless an assertion has
\* failed, which is not reported, complete.
Generated == EmittedOnce /\ (prog.badAssert = {} => EmittedComplete)

\* The classes it receives are valid and have the layout of their lineage.
WellFormed == ErrorsReported /\ EmittedLayout

\* "set an error symbol to Sym to avoid multiple validation of an invalid
\* class type": a failed class becomes valid again only when its own module
\* asks for its content (inModule), never through a mere use.
FailureIsSticky ==
    [][\A c \in Class :
          gen[c].kind \in {"none", "error"} /\ gen'[c].kind = "class" =>
              Top.cls = c /\ Top.inModule]_vars

\* A program without any erroneous declaration is accepted: its classes reach
\* the generation phase, whatever mentions what and in whatever order the
\* module is visited.
ValidIsAccepted ==
    (prog.badAssert = {} /\ \A c \in Class : ~Invalid(c)) => <>(compile = "done")

\* The validation of a program always ends, with generators or with errors.
Termination == <>(compile \in {"done", "failed", "halted"})

\* A compilation always ends, and that of a program without error is accepted.
Ends == Termination /\ ValidIsAccepted

\* "Those fields contains all the fields of the class including ancestor": so
\* do the fields of every class that is generated.
FieldsIncludeAncestors ==
    compile = "done" => \A c \in prog.module : gen[c].fields = Lineage(c)

=============================================================================
