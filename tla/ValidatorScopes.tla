--------------------------- MODULE ValidatorScopes ---------------------------
(***************************************************************************)
(* What the functions of semantic/validator do to the scopes, one          *)
(* definition per C++ function, in the notation of ScopeCode.              *)
(*                                                                         *)
(* Invoke stands for every call whose errors the function does not tell    *)
(* apart.  A function that only fills the list errors of its caller is     *)
(* inlined as Try(<<Invoke>>).  discardAllLocals leaves nothing for        *)
(* quitBlock to report: the block is then left by a plain Quit.            *)
(***************************************************************************)
EXTENDS ScopeCode

(* Visitor.cc: one branch per kind of symbol, all alike but TemplateSolution*)

\* "x = list.errors; pop; if (errors.size () != 0) throw": the usual end.
GuardedBy(k) == Inside(k, <<Invoke>>) \o <<ThrowErrors>>

GuardedForeign(k) == Inside(k, Inside("foreign", <<Invoke>>)) \o <<ThrowErrors>>

ValidateSymbol ==
    Either(GuardedBy("referent"),
           Optional(Optional(<<Occur>>) \o GuardedBy("referent")))

\* enterBlock; try { body } catch; try { quitBlock (errors.size () == 0) } catch
InBlock(body) == <<Enter("block")>> \o Try(body) \o Try(<<QuitBlock>>)

(* Visitor_blocks.cc *)

\* The declarator, which visits the declarations of the block, is called
\* outside of the try block.
ValidateInnerModule ==
    Optional(Optional(<<Occur>>)
               \o <<Enter("foreign")>> \o Swallow(<<Invoke>>) \o <<Quit("foreign")>>)

ValidateInnerBlock == Loop(Try(<<Invoke>>)) \o Try(<<Invoke>>)

ValidateCatcher ==
    <<Enter("block")>> \o Try(<<Invoke>>) \o <<Quit("block")>>

ValidateScopes == Try(<<Invoke>>)

ValidateBlock ==
    <<Enter("block")>> \o ValidateInnerModule
      \o Either(<<Enter("referent")>> \o ValidateInnerBlock \o <<Quit("referent")>>,
                ValidateInnerBlock)
      \o Try(<<QuitBlock>>)
      \o IfClean(Optional(ValidateCatcher)) \o ValidateScopes
      \o <<ThrowErrors>> \o Optional(<<Invoke>>)

(* Visitor_statements.cc *)

ValidateWith ==
    <<Enter("block")>>
      \o Loop(Try(<<Invoke>>)) \o Loop(Try(<<Invoke>>)) \o Try(<<Invoke>>)
      \o Try(<<QuitBlock>>) \o <<ThrowErrors, Invoke>>

ValidateAtomic ==
    Either(<<Invoke, Enter("block"), Invoke>>, <<Invoke>>)

\* Mutant: the errors of the content are not caught to quit the loop.
WhileUncaught ==
    Optional(<<Invoke>>) \o <<Enter("loop"), Invoke, Quit("loop"), Invoke>>

ValidateWhileExpression ==
    Optional(<<Invoke>>) \o GuardedBy("loop") \o <<Invoke>>

(* Visitor_vars.cc *)

ValidateMultSym == Loop(GuardedBy("referent"))

\* The errors of a candidate count only when no candidate is a type; two
\* types are an error.
ValidateMultSymType ==
    Loop(Either(Inside("referent", <<Invoke>>),
                <<Enter("referent")>> \o Swallow(<<Invoke>>) \o <<Quit("referent")>>)
         \o Optional(<<Occur>>))
      \o <<ThrowErrors>>

(* Visitor_symbols.cc *)

ValidateVarDecl ==
    Optional(<<Occur>>)
      \o Optional(Optional(<<Occur>>) \o <<Invoke>>
                    \o Optional(<<Enter("names")>>
                         \o TryCatch(<<Invoke>>, <<Quit("names"), Occur>>)
                         \o <<Quit("names")>>)
                    \o <<Invoke>>)

ValidateTrait ==
    Optional(Inside("referent", Inside("foreign", Loop(Try(<<Invoke>>)))))
      \o <<ThrowErrors>>

ValidateEnum ==
    Optional(<<Enter("foreign"), Enter("referent"), Enter("block")>>
               \o Try(<<Invoke>> \o Optional(<<Occur>>) \o Loop(Try(<<Invoke>>)))
               \o <<Quit("block"), Quit("referent"), Quit("foreign"), ThrowErrors>>)

(* Visitor_templates.cc *)

\* Mutant: the errors of the template are printed but not thrown.
TemplateSymbolSilent == Inside("referent", Inside("foreign", <<Invoke>>))

ValidateTemplateSymbol == GuardedForeign("referent")

ValidateTemplateSolution ==
    Inside("template", <<CheckLimit>> \o Optional(<<Invoke>>)) \o <<ThrowErrors>>

ValidateTemplateSolutionMethod ==
    Optional(Optional(<<Occur>>)
               \o Inside("referent", Inside("foreign",
                     Inside("template", <<CheckLimit, Invoke>>)))
               \o <<ThrowErrors>>)
      \o Optional(<<Occur>>) \o GuardedBy("referent")

ValidateTemplateTest == GuardedForeign("referent")

\* The errors of the candidates are thrown unless one of them can be used.
ValidateTemplateCall ==
    <<Invoke>> \o Loop(Swallow(<<Invoke>>)) \o Optional(<<Occur>>)
      \o Optional(Loop(Swallow(<<Invoke>>))
                    \o Loop(<<Enter("call")>> \o Swallow(<<Invoke>>) \o <<Quit("call")>>)
                    \o Optional(<<Invoke, Leave>>))
      \o <<Occur>>

ValidateTypeClassContext == GuardedBy("referent")   \* Visitor_types.cc

\* Visitor_macros.cc: counted as a template, in the scopes of the caller.
ValidateMacroExpression ==
    Inside("template", <<CheckLimit, Invoke>>) \o <<ThrowErrors>>

\* Visitor_verifications.cc.  With thr an error of an impl is thrown, without
\* it the answer is no.
VerifyClassImpl ==
    Optional(<<Occur>>)
      \o Loop(Either(GuardedForeign("referent") \o Optional(<<Leave>>),
                     <<Enter("referent"), Enter("foreign")>> \o Swallow(<<Invoke>>)
                       \o <<Quit("foreign"), Quit("referent")>> \o Optional(<<Leave>>)))
      \o Optional(<<Occur>>)

\* Visitor_getters.cc
GetAllImplClass == Optional(<<Invoke>>) \o Loop(GuardedForeign("referent"))

(* Visitor_literals.cc *)

ValidateLambda ==
    Optional(<<Leave>>)
      \o Inside("foreign", Inside("block", <<Invoke>>)) \o <<ThrowErrors, Invoke>>

\* The foreign is quit before the context that was entered after it.  The
\* Optional Try is the error of a body that throws.
ValidateLambdaProto ==
    <<Enter("foreign"), Enter("context"), Enter("block")>>
      \o Try(<<Invoke>>) \o Try(<<Invoke>>)
      \o Optional(Try(<<Occur>>)) \o Try(<<QuitBlock>>)
      \o <<Quit("foreign"), Quit("context"), ThrowErrors, Invoke>>

(* BracketVisitor.cc, PragmaVisitor.cc *)

ValidateBracket ==
    <<Invoke>> \o GuardedBy("dollar") \o Either(<<Invoke>>, <<Occur>>)

\* Mutant: the context is popped in the try block and after the handler.
CompileTwice ==
    <<Enter("context")>>
      \o Swallow(<<Invoke>> \o <<Quit("context")>>) \o <<Quit("context")>>

\* The errors of a "compile" pragma are its value.
ValidateCompile ==
    <<Enter("context")>>
      \o Swallow(<<Invoke>> \o <<Quit("context"), Leave>>) \o <<Quit("context")>>

(* CallVisitor.cc: a candidate that cannot be called is not an error. *)

\* A parameter's default value, in a foreign of its own.
ParameterValue ==
    <<Enter("foreign")>>
      \o Swallow(<<Enter("block")>> \o Swallow(<<Invoke>>) \o <<QuitBlock, Invoke>>)
      \o <<Quit("foreign")>> \o Optional(<<Leave>>)

CountedCall == <<Enter("call")>> \o Swallow(<<Invoke>>) \o <<Quit("call")>>

ValidateScoreOfMultSym ==
    Either(Optional(<<Invoke, Occur>>) \o CountedCall, Optional(<<Occur>>))

ValidateTemplate == <<Invoke>> \o Optional(CountedCall)

ValidateTemplateRef ==
    Optional(<<Leave>>) \o Loop(ParameterValue)
      \o Swallow(<<Invoke>>) \o Optional(<<Invoke>>)

ValidateTemplateClassCst == Loop(ParameterValue) \o Swallow(<<Invoke>>)

(* ClassVisitor.cc *)

PostValidate == GuardedBy("referent")

\* The errors go to the list of the caller.
ValidateLocalFields ==
    <<Enter("referent"), Enter("foreign"), Enter("block")>>
      \o Loop(Swallow(<<Invoke>>))
      \o <<Quit("block"), Quit("foreign"), Quit("referent")>>

ValidateCtes ==
    Optional(Inside("referent", Inside("foreign", Loop(Try(<<Invoke>>))))
               \o <<ThrowErrors>>)

ValidateVtableTrait ==
    <<Invoke>> \o Optional(<<Occur>>)
      \o Loop(Inside("referent", Either(<<Invoke>>, <<Occur>>))) \o <<ThrowErrors>>

\* validateInnerClass, which fills its list errors except for what
\* validateDestructor throws.
ValidateClassFull ==
    <<Enter("referent")>>
      \o Loop(Inside("referent", <<Invoke>>)) \o Optional(<<Invoke>>)
      \o <<Quit("referent"), ThrowErrors>>

(* ForVisitor.cc *)

\* Also iterateRange.
IterateSlice == InBlock(<<Invoke>>) \o <<ThrowErrors>>

\* The dispose calls of the variables declared before the loop may fail.
ForClass ==
    <<Invoke>> \o InBlock(<<Invoke>>) \o <<ThrowErrors, Invoke>>
      \o Loop(<<Invoke>> \o Optional(Swallow(<<Invoke>>)))

\* The inner block of an iteration is quit before its errors are thrown, the
\* outer one is not.
IterateRangeCte ==
    <<Enter("block"), Invoke>> \o Optional(<<Occur>>)
      \o Loop(InBlock(<<Invoke>>) \o <<ThrowErrors>>)
      \o Try(<<QuitBlock>>) \o <<ThrowErrors>>

IterateTuple ==
    <<Enter("block")>> \o Loop(InBlock(<<Invoke>>) \o <<ThrowErrors>>)
      \o Try(<<QuitBlock>>) \o <<ThrowErrors>>

ValidateLoopContent ==
    <<Enter("loop")>> \o TryCatch(<<Invoke>>, <<Quit("loop"), Occur>>)
      \o <<Quit("loop"), Invoke>>

(* FunctionVisitor.cc.  validateParameters and the validation of a body put *)
(* their errors in the list of the caller.                                  *)

\* A prototype: its parameters are validated in a block, then forgotten.
Parameters == <<Enter("block")>> \o Try(<<Invoke>>) \o <<Quit("block")>>

\* A body is not validated when the prototype has errors.
ValidateBody == IfClean(Try(<<Invoke>>))

FunctionValidate ==
    Try(<<Invoke>>) \o <<Enter("context"), Enter("block")>>
      \o Try(<<Invoke>>) \o ValidateBody \o Try(<<QuitBlock>>)
      \o <<Quit("context"), ThrowErrors>>

\* __validating__ is pushed first and popped first.
ProtoOnce ==
    <<Enter("validating"), Enter("foreign")>> \o Parameters
      \o <<Quit("validating"), Quit("foreign"), ThrowErrors>>

ValidateFunctionProto == Optional(ProtoOnce)

ValidateConstructorProto ==
    Optional(Inside("referent", Inside("foreign",
               <<Invoke>> \o Optional(<<Enter("validating")>> \o Parameters
                                        \o <<Quit("validating")>>)))
               \o <<ThrowErrors>>)

ValidateMethodProto == ProtoOnce

\* The scopes of the body of a constructor, a method or a destructor.
InMember(body) ==
    <<Enter("classdef"), Enter("context"), Enter("foreign")>> \o body
      \o <<Quit("foreign"), Quit("context"), Quit("classdef"), ThrowErrors>>

ValidateConstructor == <<Invoke>> \o InMember(Try(<<Invoke>>) \o InBlock(<<Invoke>>))

ValidateMethod ==
    InMember(Try(<<Invoke>>) \o <<Enter("block")>> \o Try(Either(<<Invoke>>, <<Occur>>))
               \o ValidateBody \o Try(<<QuitBlock>>))

\* The call of the ancestor's destructor is built outside of the try block.
ValidateDestructor ==
    InMember(Try(<<Invoke>>) \o <<Enter("block")>> \o Try(Either(<<Invoke>>, <<Occur>>))
               \o ValidateBody \o Optional(<<Invoke>>) \o Try(<<QuitBlock>>))

\* "protos" stands for the three static lists.  The errors of the parameters
\* are thrown, and the handler of getClassConstructors returns, in the scopes.
VerifyConstructionLoop ==
    Optional(<<Leave>>) \o Optional(<<Occur>>)
      \o <<Enter("referent"), Enter("protos"),
           Enter("classdef"), Enter("foreign"), Enter("block")>>
      \o Try(<<Invoke>>) \o <<ThrowErrors>>
      \o Try(Optional(Optional(<<Leave>>) \o <<Invoke>>) \o <<Invoke>>)
      \o <<Quit("block"), Quit("foreign"), Quit("classdef"),
           Quit("protos"), Quit("referent"), ThrowErrors>>

(* MacroVisitor.cc *)

\* The errors of the constructors go to the list of the caller.
ValidateMacroRef ==
    <<Invoke>> \o Loop(<<Enter("classdef")>> \o Swallow(<<Invoke>>) \o <<Quit("classdef")>>)

MacroConstructor ==
    <<Invoke>> \o GuardedForeign("referent") \o Optional(Either(<<Occur>>, <<Invoke>>))

\* A rule that matches returns from the middle of two try blocks.
ValidateRule ==
    Optional(<<Invoke, Leave>>)
      \o <<Enter("call")>>
      \o Try(<<Invoke, Enter("classdef")>> \o Try(<<Invoke>> \o Optional(<<Leave>>))
               \o <<Quit("classdef"), ThrowErrors>>)
      \o <<Quit("call"), ThrowErrors>>

(* MatchVisitor.cc, StructVisitor.cc, TemplateVisitor.cc *)

ValidateMatch ==
    <<Invoke>> \o Loop(InBlock(<<Invoke>>)) \o <<ThrowErrors>> \o Optional(<<Occur>>)

ValidateMatchCatcher ==
    Loop(<<Enter("block")>> \o Try(<<Invoke>>) \o Try(<<Invoke>>) \o Try(<<QuitBlock>>))
      \o <<ThrowErrors>>

ValidateStructContent ==
    Inside("referent", Inside("foreign", Inside("block", Loop(Try(<<Invoke>>)))))
      \o <<ThrowErrors, Invoke>>

ValidateFromImplicit == <<Invoke>> \o Optional(GuardedBy("referent"))

-----------------------------------------------------------------------------
\* The functions that leave every scope as they found it ...
Disciplines ==
    [validate |-> ValidateSymbol,
     validateWith |-> ValidateWith, validateWhile |-> ValidateWhileExpression,
     validateMultSym |-> ValidateMultSym, validateMultSymType |-> ValidateMultSymType,
     validateVarDecl |-> ValidateVarDecl, validateTrait |-> ValidateTrait,
     validateEnum |-> ValidateEnum, validateTemplateSymbol |-> ValidateTemplateSymbol,
     validateTemplateSolution |-> ValidateTemplateSolution,
     validateTemplateSolutionMethod |-> ValidateTemplateSolutionMethod,
     validateTemplateTest |-> ValidateTemplateTest,
     validateTemplateCall |-> ValidateTemplateCall,
     validateTypeClassContext |-> ValidateTypeClassContext,
     validateMacroExpression |-> ValidateMacroExpression,
     verifyClassImpl |-> VerifyClassImpl, getAllImplClass |-> GetAllImplClass,
     validateLambda |-> ValidateLambda, validateLambdaProto |-> ValidateLambdaProto,
     validateBracket |-> ValidateBracket, validateCompile |-> ValidateCompile,
     validateScoreOfMultSym |-> ValidateScoreOfMultSym,
     validateTemplate |-> ValidateTemplate, validateTemplateRef |-> ValidateTemplateRef,
     validateTemplateClassCst |-> ValidateTemplateClassCst,
     postValidate |-> PostValidate, validateLocalFields |-> ValidateLocalFields,
     validateCtes |-> ValidateCtes, validateVtableTrait |-> ValidateVtableTrait,
     iterateSlice |-> IterateSlice, forClass |-> ForClass,
     validateLoopContent |-> ValidateLoopContent,
     functionValidate |-> FunctionValidate,
     validateFunctionProto |-> ValidateFunctionProto,
     validateConstructorProto |-> ValidateConstructorProto,
     validateMethodProto |-> ValidateMethodProto,
     validateConstructor |-> ValidateConstructor, validateMethod |-> ValidateMethod,
     validateMacroRef |-> ValidateMacroRef, macroConstructor |-> MacroConstructor,
     validateMatch |-> ValidateMatch, validateMatchCatcher |-> ValidateMatchCatcher,
     validateStructContent |-> ValidateStructContent,
     validateFromImplicit |-> ValidateFromImplicit]

\* ... and those that do not.
Leaks ==
    [validateAtomic |-> ValidateAtomic, validateBlock |-> ValidateBlock,
     validateClassFull |-> ValidateClassFull,
     iterateRangeCte |-> IterateRangeCte, iterateTuple |-> IterateTuple,
     validateDestructor |-> ValidateDestructor,
     verifyConstructionLoop |-> VerifyConstructionLoop, validateRule |-> ValidateRule]
=============================================================================
