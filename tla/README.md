# Verification of the Ymir front end (gymir)

TLA+ modules that model the parser, the module imports, the semantic validator and the parts of the generator that its
promises rest on, configurations that model-check them with TLC, and
theorems about them whose proofs TLAPS checks. Paths are relative to the root of the repository
(`src/semantic/...`); "the validator" is `src/semantic/validator`.

Contents: [the system](#the-system), [modules](#modules), [runs](#runs), [bounds](#bounds),
[fairness](#fairness), [proofs](#proofs), [findings](#findings), [not modelled](#what-is-not-modelled),
[plan](#plan).

## The system

gymir is a GCC front end for the Ymir language: one sequential C++ program that compiles one module.
`Parser::semanticTime` (src/parsing/Parser.cc:71-110) runs the passes one after the other: the syntax visitor,
the declarator, the validator (`validate`, then `validateAllClasses`), the documentation dump, the generator.
There are no threads and nothing is persisted. What is hard is **re-entrance**: the validator is one object, its
functions call each other without a static bound (a body names a class, whose method prototypes name a template,
whose solution has a body...), they share stacks, static lists and half-built generators, and any call can end
with an `ErrorList` exception that is caught somewhere up, reported, kept, or dropped. `Error::halt` aborts the
compiler with an internal error.

| part | state it keeps | operations | interacts with | correct when |
|---|---|---|---|---|
| lexing (`lexing/`) | buffer, position, filters | next, rewind | syntax visitor | tokens tile the file; a rewind gives the same tokens |
| syntax visitor (`syntax/visitor`) | the lexer | recursive descent, precedence climbing | lexer | the tree respects the precedences |
| declarator (`semantic/declarator`) | referent stack, `__imported__` | visit of each declaration, import of a module file | symbol table, syntax visitor (recursively, one file per import) | every file is read once; every symbol is in the table of its module; an import cycle ends |
| symbol table (`Table.cc`, `Symbol.cc`, `symbol/Module.cc`, `symbol/ModRef.cc`) | tree of symbols, caches `__fast_mod_access__`, public map | insert, get, registerModule, use | declarator, validator | a lookup answers as the tree does, caches included |
| validator scopes (`Visitor_management.cc`, `Visitor_blocks.cc`, ...) | `_referent`, `_contextCas`, `_classContext`, `_symbols`, loops, `_dollars`, the recursion counters, three static lists | enter / quit pairs | every function of the validator | each function gives the scopes back as it found them, errors included |
| class validation (`ClassVisitor.cc`) | generator of each class, `__validation__`, `__post_validation__`, `_classToValidate` | validate, validateClassContent, postValidate(All), validateClassFull | templates, driver, every use of a class | no class is entered twice; every class is generated once, complete; errors are reported |
| template specialisation (`TemplateVisitor.cc`, `Visitor_templates.cc`) | `_templateSolutions`, `_errorTemplateSolutions`, `__TEMPLATE_NB_RECURS__` | infer, register, validate a solution | class and function validation | a solution is validated once; the recursion is bounded |
| function, call, operator, loop, match, macro, pragma validation | the scopes, `protos` | one function per construct | scopes | typing rules; scopes restored |
| struct, enum, trait, global variables | generator of each symbol, `__names__`, `__validating__` | validateVarDecl, validateEnum, ... | scopes | no cyclic definition is accepted |
| compile time evaluation, UTF | none | pure functions | validator | agree with the run-time semantics |
| generator (`semantic/generator`, `tree`) | static memo tables | one function per value | validator's list | types have the layout that the validator computed |
| errors, utilities, documentation, global state, driver | constant or output only | | | |

`PROJECT.json` lists every component with its status, and under `hazards` the places of this code where
something can go wrong that a test would hardly reach. (The repository has no tests of the validator.)

## Modules

### ClassValidation: `ClassVisitor.cc` and its callers

| TLA+ | C++ |
|---|---|
| `prog` | the declarations: ancestors, the classes that prototypes, default values and fields mention, the faults, which classes the module declares and which are solutions of templates |
| `gen` | the generator of each class symbol: empty, a `Class` (whose methods, default values and fields it has), `NoneType` or `ErrorType` |
| `stack`, `ret` | the C++ call stack of `ClassVisitor` and what the last call gave back |
| `validation`, `post` | the static lists `__validation__` and `__post_validation__` |
| `toValidate`, `queue`, `list` | `_classToValidate`, the list `validateAllClasses` iterates over, `Visitor::_list` |
| `solution` | `_templateSolutions` and `_errorTemplateSolutions` |
| `mode` | how the call made from a body treats an error: reported, dropped by a speculative caller, or kept by `__pragma!compile` |
| `dropped` | history: a caller of the last two kinds has dropped an error |

A frame of `stack` has a program counter; a call that leaves `ClassVisitor` to resolve a name and comes back to
it for another class is a push. Each action is one segment of code between two such calls: `BeginContent` sets the
fresh generator and evaluates the assertions, `ReferClass` names one of the classes still to be mentioned,
`EndVtable`, `EndContent` and the `Post*` actions end the loops and act on the errors. The order in which a
module is visited and a class mentions others is free, which covers every order of declarations.
`UseClass` is a body of a function or of a method that names a class, at any moment at which no content is active:
between the visits of `validateModule` and between the classes of `validateAllClasses`.
`ValidateClassFull` keeps what the validation of the bodies needs (the generators it casts, the list it appends to).
Its halt is a defensive branch of the code that none of the instances reaches: `FinishClass` and the errors stop
such a class earlier.

`MCClassValidation` gives the source programs of each run.

### ScopeCode, ScopeProtocol, ValidatorScopes, MCScopes: the scopes of the Visitor

- `ScopeCode` is a notation: a function is a sequence of instructions (enter and quit a scope, call, try, branch,
  raise, return).
- `ValidatorScopes` writes 52 functions of the validator in it, each translated from its own text: which scopes it
  enters and quits in which order, which calls are inside which `try`, what is rethrown. 44 are in `Disciplines`;
  the 8 in `Leaks` do not give the scopes back (see [findings](#findings)).
- `ScopeProtocol` runs them: the scopes of the Visitor, a C++ call stack, calls from any function to any other, an
  error at any call, `Error::halt` as `crashed`. It is parameterised by the code and by three annotations of each
  place of it: `Held`, the scopes held there; `Clean`, the places that are reached with no error collected;
  `Tested`, those reached with a template level below the limit. `Disciplined`, `Reports` and `TestsLevel` say, of a
  function read on its own, that its code agrees with its annotations; the abstract promise,
  `Extend(entry, Held)`, says what the scopes are during nested calls.
- `MCScopes` puts the two together and computes the annotations.

The annotations and the field `entry` of an activation are specification only: nothing in the code has them.

### Declarator, ModuleRegistry, MCDeclarator: the import of modules

| TLA+ | C++ |
|---|---|
| `prog` | the source files: what each imports and declares, the directories it is in, the erroneous ones, the imports inside of blocks |
| `stack` | the active calls of `declarator::Visitor::visitModule` for a file: each import is visited in the middle of the module that imports it |
| `marked` | `declarator::Visitor::__imported__`, a directory and a path |
| `mods` | the heap of modules: their submodules and functions by name (`Table::_syms`) |
| `roots`, `cache` | `Symbol::__imported__` and `Symbol::__fast_mod_access__` |
| `done` | history: the modules whose file was visited to its end |

`Enter` is the first half of `visitModule` and `EndModule` the second, which places the module in the tree
(`CreateSubModules`, with the merge of an older module of the same path). `ImportCore`, `ImportKnown`, `ImportFile` and
`ImportMissing` are the outcomes of an import, `Fault` an erroneous declaration; both errors go up through every
visit (`Throw`). `Lookup` and `LocalImport` happen once the validator runs. The order of the declarations of a file is
free. A function stands for any declaration of a module: it is known by the module that declares it and its name.

`ModuleRegistry` is the promise: a set of modules that a lookup finds, which ends as exactly the modules the program
needs, or a refusal when one of these is missing or erroneous. `RegistrySpec` says that `Declarator` implements it, with
`found` mapped to the modules visited that a lookup by path answers with everything they declared.

### SymbolTable, MCDeclarator: what a name means

| TLA+ | C++ |
|---|---|
| a text | the declarations of a file, with their blocks, inner modules, classes and imports |
| `World (texts).heap` | the symbols: the modules of the tree of `Declarator`, then those that the visits of the files insert |
| `syms`, `pubs`, `uses`, `ref` | `Table::_syms`, its public symbols, `ISymbol::_used`, `ISymbol::_referent` |
| `VisitDecl`, `VisitBlock`, `VisitSymbol`, `PourOut`, `Shadows` | declarator/Visitor.cc: the visit of each declaration, what a block gives to what is around it, and the names that are refused |
| `GetAll`, `GetUsed`, `GetPublic`, `GetLocal`... | Symbol.cc, Module.cc: the lookups of a name in a scope, in what it imports, in what is around that |
| `ValidateModuleAccess` | SubVisitor.cc: the symbols of `m::name` |

The order of the visits is the one of the texts, and the tables are computed in the states of `Declarator` in which every file has
been visited and none looked up. `Meaning`, `Means` and `Reached` are the reference: they read the texts, as a set of declarations with
their places, and a relation between a module and those that an import of it lets see, and know nothing of tables, of heaps nor
of recursion through imports. `NamesAreRight` compares the two from every function, for every name and every module.

A module in an answer stands for its reference (`ModRef`); an import is resolved by its path at each lookup (the code keeps what
it found in `_used`). What the model takes from the code and a reader may not expect: nothing in a block is compared with what is
declared around the block, before it or after; a macro only compares its rules; a module that has others below it is no context
for `getModuleContext` (ModRef.cc:117), so that its own code cannot write `m::name` of what it keeps for itself.

### SyntaxCode, SyntaxVisitor, SyntaxSession, MCSyntax: the parser

| TLA+ | C++ |
|---|---|
| `SyntaxCode`, first part | `lexing::Lexer`: the words of a file, which are skipped, comments, and the cursor; the modes that a function of the visitor turns on and off |
| `SyntaxCode` | a notation: which words a function asks for (`Want`, `Take`, `On`, `Loop`), where it moves the cursor back (`Back`, `ToMark`), which `try` it opens (`Attempt`), and the evaluator of these terms |
| `SyntaxVisitor` | one term for each `visitXxx` of `syntax::Visitor` (src/syntax/visitor/Visitor.cc) |
| `SyntaxSession` | `text`: a file; `tmp`: the static variable `inTmpCall` of `visitTemplateCall`; `verdict`: how the visit ended |

Trees are left out: what is kept is the control of the recursive descent, that is which text is accepted, where the
cursor is, and what the modes and the static variable are when a function ends by an error. `Init` writes a file, one of
the corpus or one that is an edit away from it; `SyntaxicTime` (Parser.cc) visits it; `Relayout` writes the same words
with a comment where there was a space, and the file is visited again.

### GuardedBlocks, ExitScopes, MCExitScopes: guarded blocks from source to execution

A function body with `scope exit`, `success`, `failure`, `catch`, `with`, `atomic` and `try` goes through three
parts, in the order of the compiler:

| module | C++ | what it does |
|---|---|---|
| `GuardedBlocks` | validator/Visitor_blocks.cc, Visitor_statements.cc, MatchVisitor.cc, generator/value/*.cc | source terms to values, with what each value knows: whether it breaks, returns, and what it throws |
| `GuardedBlocks`, second part | generator/Visitor.cc | values to labels, jumps, `setjmp` buffers; `exceptionDeclChain` and `_loopLabels` decide which buffers a `return`, a `break` or a `throw` pops |
| `ExitScopes` | the generated program and the runtime functions it calls | one action for each kind of instruction; calls and tests answer anything, a call may throw; `IsNested` is the shape of the code that keeps the buffers right |

`ExitScopes` knows nothing of the source: it runs the instructions of any code (`Codes`), and `GuardedBlocks`, which extends it,
generates the codes. The trace of a run (`trace`) is read against `Replay`, the meaning of the source term on its own, written
without labels or buffers. The runtime library is not in the repository: what its functions do is read off the calls
the generator makes, and is marked `external`.

### IntegerFolding, CompileTime, RunTime, MCConstants: compile time and run time

| module | C++ | what it does |
|---|---|---|
| `IntegerFolding` | Visitor_literals.cc, BinaryVisitor.cc, UnaryVisitor.cc, CompileTime.cc | the types of literals and operations, the arithmetic of the compiler on its own `long` and `ulong` (`Host` bits, wrapped), the overflow tests |
| `CompileTime` | CompileTime.cc | `calls`: the stack of `executeFrame` with what each has left to do; `nbRecurse`: its static counter; one action per kind of generator, `Fail` for the errors |
| `RunTime` | generator/Visitor.cc, Tree.cc | what the generated code computes for the same generator, `Undefined` where it promises nothing |
| `RunTime`, last part | BracketVisitor.cc | which index of an array, slice or literal is tested, by the compiler or by the code |

### Members, Patterns: what a type has inside, and what takes it apart

`Members` has the fields, the methods and the constructors of a class that an access from some class finds
(`GetClassContext`, `ValidateClassFieldAccess`, `ValidateMethod`, `GetClassConstructors`), the parts of a type
(`T::init`, `T::len`, ...: `ValidateSub` and one operator per type), and the pragmas that list them
(`__pragma!field_names`, `tuple_of`, `field_type`, ...). The reference is what the class declares: a member is seen by its own
class, by the heirs when it is protected, by all when it is public. `type::init` is compared with the simple types that a first value is
made of (`MadeOf`), an array of no element included, whose inner type is asked for its `init` all the same (SubVisitor.cc:323).

`Patterns` has the arms of `match` and `catch`: one operator per function of `MatchVisitor`, which makes of a pattern a test, the
variables it declares and whether it takes every value (`must` is `isMandatory`); `RunTest` and `Taken` are what the generated
conditionals do with a value, `Matches` what the pattern means.

### OperatorCalls: operators, assignments and loops

`OperatorCalls` makes of an operator an operation of the machine or the call of an overload, of the left operand or of the right one
(BinaryVisitor.cc, UnaryVisitor.cc, BracketVisitor.cc: one operator per function, `FirstOf` is their order); of an assignment the code
that writes a place, or a call of `opIndexAssign` or `opUnaryAssign`; of a `for` (ForVisitor.cc) the values its variable takes, at
run time (`IterateRange`) and in the compiler (`IterateRangeCte`), or the calls of an iterator (`ValidateClassLoop`) inside of the
exit scopes that dispose of it. `Evaluated` and `Times` say what the generated code computes, and how often: overloads
that compute what their operator means are taken for given (`Honest`), and the operator must mean the same whichever was called.

`Members`, `Patterns` and `OperatorCalls` are asked by requests of `CompileTime`, as programs of the run `constants_all`.

### MacroExpansion, MCMacros: macros

The first part of `MacroExpansion` has one operator per function of `MacroVisitor` that matches a rule (`Mult`, `Or`, `Var`, `MatchToken`,
`Rule`, `MatchRule`...): ordered choice, greedy repetition, nothing tried again. Each gives a match or a failure, the
place after it, the class contexts it leaves, and the reason why the compiler would never return. Its second part is the
text made of a match (`#{...}`, `for`, `::`, `[]`). The last part holds the state of the calls of one function:
`CallMacro`, `TryConstructor`, `EndMacro`, `Answer` and `EndCall` are the loops of `MacroVisitor::validate`;
`classContext` is `_classContext`. The reference definition of `MCMacros` is a derivation: a relation between items and
texts that knows neither order nor greed.

### Vtable, MCVtable: the virtual tables

| TLA+ | C++ |
|---|---|
| `chain` | the classes of a line of descent that were accepted: their `vtable`, `protection` and the methods they emit |
| `decl`, `phase`, `at`, `nth` | where `validateVtable` (ClassVisitor.cc:297-605) is in the class it validates |
| `vtable`, `protection`, `base`, `added` | the slots being built, `implVtable`, the methods a trait brings |

`Declare` takes one more class, `TraitMethod`, `OwnMethod` and `ImplMethod` are one turn of each loop, and `EndClass`
accepts the class or refuses it; a class refused has no child. Each rule of overriding is a conjunct of `BrokenRule`.

### GlobalSymbols, TypeGeneration, SymbolMeaning, MCSymbols: symbols that are not functions

| TLA+ | C++ |
|---|---|
| `prog` | global variables, aliases, structures, enumerations and functions: the expressions each holds, and what these name and how |
| `gen`, `fields` | the generator of each symbol: empty, partial, `NoneType`, `ErrorType` or complete, and the fields of a structure |
| `stack`, `answer` | the calls of `validateVarDecl`, `validateAka`, `validateStruct`, `validateEnum`: each names others in its middle |
| `names` | `__names__`, the static list of the variables whose value is being validated |
| `list`, `done`, `outcome` | the globals inserted for the generator, how far the module is, how the validation ended |
| `emitted`, `current`, `dones` | `TypeGeneration`: the static memo tables of `generator::Visitor` for the layouts of structures |

`SymbolMeaning` reads the same programs without an order: which are right, what an alias denotes, which symbols lead to
themselves, what the layout of a structure is. The properties compare the two.

The verdict is read twice, for the structures that contain themselves (`SelfContained`), which the code accepts and a comment wants
refused: `Right` is what is right without them, `Sound` what is right with them. An error needs a symbol that is not `Right`, and a
symbol that is not even `Sound` must give one, so that no side is taken. An item whose meaning depends on the order of the
module is named where it stands (`Unsettling`: the size that a typed variable gives, a value that is an alias of a variable), and so
is an alias whose error a speculative or compile-time expression loses (`Silenced`); only a symbol that leads to one of these, or an
alias or enumeration that leads back to itself, is not `Undoubted`.

### TemplateMappers, TemplateCalls, MCTemplates: the specialisation of functions

| TLA+ | C++ |
|---|---|
| `Generator`, `Expression` | the types and values of a specialisation, the text of the template, and the `TemplateSyntaxWrapper` or `List` that replaces a parameter in it |
| `replaceAll`, `ValidateType`, `Compatible` | `TemplateVisitor::replaceAll`, `Visitor::validateType`, `verifyCompatibleType` |
| `Mapper` | `TemplateVisitor::Mapper`: succeeded, failed, thrown, or halted; the bindings, the score, the types consumed |
| `FromExplicit`, `FromImplicit`, `Inferred` | `validateFromExplicit` (`!{}`), `validateFromImplicit` (the arguments of a call), `inferArguments` (nothing) |
| `stack` | the bodies being validated, each with the call it is at and the candidates of that call |
| `made`, `begun`, `failed`, `emitted` | the solutions declared, `_templateSolutions`, `_errorTemplateSolutions`, `Visitor::_list` |
| `refs` | history: which body calls which function |

`TemplateMappers` has one operator for each form of parameter (`T`, `T of E`, `T over E`, `T impl E`, `struct T`, `class T`,
`alias T`, `T...`, `n : E`, a literal) and each form of expression that a type is matched against; the three functions that
call each other go through `Mapping`. `TemplateCalls` is a call from its `!{}` to its answer: `Begin`, `Specialise` and
`TakeSpecialised` for the operands, `Rank` and `Choose` for the candidates, `Enter` and `Settle` when the body of a solution
is validated in the middle of the body that calls it. `MCTemplates` has the reference: a set of bindings `Fitting` that
a call admits, in no order.

### MutableValues, SharedMemory, MCSharedMemory: who may write the memory

| TLA+ | C++ |
|---|---|
| `Type`, `CreateMutable`, `MutabilityLevel`, `ToMutable`, ... | generator/Type.cc, generator/type/*.cc: a type with the levels of it that may be written |
| `VerifyMemoryOwner`, `VerifyMutabilityLevel`, `VerifyImplicitAlias`, `CanImplicitAlias` | Visitor_verifications.cc, Visitor_tests.cc: what is asked of a value that gets an owner |
| `Validate` and the operators `ValidateXxx` | the type of each form of expression, with the owners it verifies |
| `locals`, `heap` | the variables of the generated code and its memory; a place is a block and a way inside it |
| `code` | the bodies of the functions and constructors that are accepted |
| `Run`, `CastTo`, `GenerateXxx` | generator/Visitor.cc: what the code of a value reads, copies, allocates or takes the address of |

`Let`, `Destruct`, `Affect` and `ForValue` are statements: each is taken when the validator accepts it, and executes the code
generated for it. The properties look at the memory alone: the places that each variable reads and writes, and the values that are
there.

## Runs

| run | expects | what it shows |
|---|---|---|
| `classes_all` | pass | Programs without an error, on three classes: any acyclic inheritance and any class mentioned by each class; several mentions per class when no class mentions its heirs; template solutions; default values. Programs with one fault on a hierarchy of three classes, any faults on two, or erroneous solutions of templates, and one more use of a class in any mode, which may drop the error. No content is entered twice (`ActiveContent`); each class is generated once and, when no assertion fails and no error was dropped, complete (`Generated`); when no error was dropped it is valid, as its ancestors are, and when no class mentions its heirs it has the layout of its lineage (`WellFormed`); `__validation__` agrees with the call stack however calls end (`ValidationMatchesCalls`); no erroneous class comes back to life (`FailureIsSticky`); the validation ends, and accepts a program without error (`Ends`). |
| `classes_fields` | violation | Finding 1: `FieldsIncludeAncestors`. |
| `scopes_all` | pass | The 44 functions, nested two deep, for two symbols: each gives back the scopes of its caller (`Restored`), no halt, the recursion limit at every call, and the code of each disciplined (`ScopesAreSafe`), errors that were collected are thrown (`ErrorsReported`), and the promise used by the proof is exact (`HeldIsExact`). |
| `imports_layered` | pass | A module, modules `x`, `x::a`, `x::a::b`, two core files, imports in cycles, one missing or erroneous file, or imports inside of blocks: no file is visited twice (`VisitedOnce`), a module visited stays reachable through the tree and the cache, and with the texts of the files in public, private and nested blocks, and 5274 texts of two declarations of one name, a declaration is refused exactly when its name is taken, and every name, alone or after `m::`, means what the texts say (`NamesAreRight`, the conjunction of `LookupAnswers` and `TablesAreRight`); the abstract registry is implemented (`RegistrySpec`) and the declaration ends (`DeclarationEnds`). |
| `syntax_corpus` | pass | Twenty-two files that use every production, and the 9000 files that are one edit away: every file of the corpus is accepted, and so are its layouts unless the comment is after a string or a character (`CorpusAccepted`), and the visitor ends on all of them (`NeverStuck`; the two are `EveryTextIsDecided`); after a file that is accepted the modes of the lexer and `inTmpCall` are as they were, and its brackets match, but for the cases the property names (`AcceptedIsClean`). |
| `guards_all` | pass | Eight contents under every set of guards and in every context, and a few bodies with the other statements: the code generated does what the source says, whatever calls answer and throw (`MeaningKept`); a throw lands in a block that encloses it and is still running, and no buffer is left at the end, because the code is nested (`OnlyEnclosingCatch`); every body ends (`EveryBodyEnds`). |
| `constants_all` | pass | Every operation on the scalars next to the ends of their types, frames that call each other, fail and recurse, and every index next to the ends: what the compiler computes is what the code would compute (`FoldAgrees`), an access that is not tested is in bounds (`AccessesAreGuarded`), the frames executed at once are bounded (`RecursionBounded`). Every access, part and pragma of eleven classes, structures, enumerations and composed types: they agree, and reach nothing that is hidden (`MembersAreRight`). Every match of one or two arms over thirteen types, and every catch: the tests find the first arm that a value fits, and there is one where the validator says so (`PatternsDecide`). Every operator and assignment on operands of fifteen types, with five sets of overloads, and every loop: an operator computes what it means whoever overloads it, an overload of either operand is enough, each operand is computed once but for those of `&&` and the object of a virtual method, a range stops where it says, and what an iterator opened is disposed of once, wherever the loop is left (`OperationsAreRight`). |
| `macros_all` | pass | Two calls at most of a corpus of macros, with every short text: an expansion is the text of a derivation (`ExpansionIsADerivation`), a text with one derivation only is expanded, with the exceptions that are named, and the compiler never returns only for rules that are empty or left recursive (`RefusalsAreRight`). |
| `vtables_all` | pass | Lines of three classes of up to three methods in all: a slot never moves or changes its signature (`LayoutIsKept`), nothing final, private, or with more exceptions is overridden, in an impl either: a slot that a trait takes back holds the trait's method or an override of it under the same rules (`OverridesAreAllowed`), and each method that a class or its traits promise is in its table, in the class that declares it last (`DispatchIsComplete`). |
| `symbols_all` | pass | 52000 modules of three symbols: the list of the values under validation is exact (`OneValueAtATime`), the verdict is the one of the program whatever the order, and only the cycles that the property names make the compiler stop (`AnswerIsRight`, the conjunction of `VerdictIsRight` and `StopsOnlyWhen`; it takes no side on a structure that contains itself), a variable is generated once (`DefinedOnce`) and the layouts are exact, a structure that contains itself having none (`LayoutsAreExact`). |
| `templates_all` | pass | 678 programs: each form of a parameter called with each form of type, two parameters and two arguments in every order, values and types in one to three `!{}`, tests, defaults and named arguments, overloads, bodies that call one another without end. `CallsAreTyped`: a call that some bindings fit is accepted (`TypableIsAccepted`), and the bindings chosen are what the parameters ask for, with the operands the call has written (`AcceptedIsTyped`); the compiler stops in the middle of a specialisation for the forms that the property names only, and when no error is reported, what is used is emitted, with two exceptions (`EndsRight`); and a compilation is never stuck (deadlock is checked). |
| `memory_all` | pass | 72000 states of programs of three statements over ten kinds of values, two classes with an ancestor, a structure and four functions: no statement gives write access to memory that no variable could write (`NoWriteGained`), two variables come to write the same memory only where the program says `alias`, `ref` or `&` (`SharingIsExplicit`), and every variable has a value of its type, whatever was put in it through another one (`TypesAgree`), but for the forms that the properties name. |

Every property of a passing run has a mutant: a plausible bug of the code under which the same run fails.

## Bounds

- *Classes: three.* The hazards need a class, one reached while it is validated, and one reached while that one is
  (the queue of the post validations is then filled by a call nested in another), or a lineage of three.
  `Inheritance` lists the acyclic hierarchies up to a renaming of the classes: mentions and faults range over all
  assignments, so no generality is lost by it. With several mentions per class and heirs mentioned the layouts
  differ (finding `classes_fields`); there one mention per class is enumerated.
- *`MaxUse`: one.* Each program says how many uses it makes (`bodyUses`, 0 or 1). A use validates a class, and only
  what it leaves in the lists and in the generators matters later; one use after a failure is what the retries need.
- *Scopes: `MaxDepth` is 2 and `Limit` 2.* A caller with one callee exercises each pair of functions, and the theorem
  of `ScopeProtocol_proofs` lifts it to any depth. The limit is 300 in the code; the template functions count one
  level each, so two reaches it at the second call.
- *Symbols: two.* The class context compares a symbol with another; the symmetry is sound, the properties do not
  name a symbol. `Restored` and `ErrorsReported` are action properties, for which symmetry is sound too.
- *Imports: six files.* Three nested paths give a module placed before, between and after its neighbours; two core files
  give a core file that is met before its turn. `Imports` enumerates what each file imports (cycles through the
  compiled module and between `x::a` and `x::a::b` included). Four kinds of programs are left out of the passing run
  because the code does not keep its promise for them: a module of one name that imports, directly or not, one of its
  submodules (`ImportsNoneBelow`, see [findings](#findings)); an import inside of a block of a module that was looked up
  before as the parent of another one, which does not import it (`BlocksImportLast`; the cache keeps the old one, Symbol.cc:601); a function
  named as a submodule imported later (`NamesDiffer`; `replace` erases it, Table.cc:67); a path with a file in two
  include directories (`OneFile`; both are read, declarator Visitor.cc:684). The model has all four behaviours. Only the
  first has a run. The other programs are the ones of the theorems; the assumption `SettledPrograms`, which TLC
  evaluates, says that the 1200 of the run are among them.
- *Texts: two declarations of a name.* A name is taken by one declaration and refused to another one, in any of the places
  around them; a third one only repeats this, and the function `u` after them is where the lookups start. In
  the programs with imports `TablesAreRight` chooses which of `x`, of `x::a` and of the files below them export what they have, by
  blocks of three forms: a line of imports, or a cycle, has public ones next to private ones.
- *Files: a corpus and one edit.* An edit cuts the file, leaves out, replaces or adds one word of `Put`. The functions of the
  visitor look at most three words ahead, so one wrong word next to each right one reaches each of their branches.
- *Guards: `MaxTrace` is 6.* From the sixth event on the tests answer no, so that loops end; a body has at most two
  calls per turn, and a scope entered twice by a loop is what a stale buffer needs.
- *Numbers: `Host` is 4, `Sizes` {0, 2, 4}.* A type narrower than the host, one as wide, and the one of the platform:
  each comparison in the code is between these. `LIMIT_RECURSE_CALL` is 4 instead of 300 and `Depth` 6, past it.
- *Macros: texts of four characters, five for some.* Each rule of the corpus has at most three items. `MaxCalls` is 2: what
  a call leaves behind bites at the next.
- *Tables: `MaxDepth` 3, `MaxMethods` 2 and `MaxLine` 3.* A slot declared, inherited and overridden again needs three
  classes; the constraint `Small` bounds the methods of the line.
- *Symbols: three.* Each cycle of one kind of mention has length two, and the third symbol reaches it from outside, before
  or after. `Depth` 8 is past every line of validations that ends.
- *Templates: `Limit` is 4* instead of 300, past the deepest nesting of bodies that ends. Two parameters and two arguments
  are what an order needs; one type of each kind is what the forms are told apart by, with a class, its heir and an
  alias of it. Levels of mutability, which only break ties in the scores, are left out.
- *Memory: three statements.* A declaration makes memory, a second one takes a part of it in any of the forms, the third
  writes it, or declares another variable from the second: a write that was not allowed needs no more, since every accepted step is
  compared with the one before. Slices of slices and pairs of slices give two levels, which is where levels are lost.

## Fairness

`WF_vars(Next)` is assumed in `ClassValidation` (`Ends`), `Declarator` (`DeclarationEnds`),
`ExitScopes` (`EveryBodyEnds`) and `MacroExpansion`: the compiler, and the program it generates, are one sequential program that never
stops between two steps. No other run assumes any fairness. `CHECK_DEADLOCK FALSE` is set where the system really
stops, at the end of a compilation or of a body.

## Proofs

Every theorem is about all values of the constants, under the assumptions of its module (`NoClassAssumption`,
`ProgramAssumption`, ...: sentinels, natural numbers and the types of the declarations; erroneous, cyclic and self-mentioning
programs are included). TLC evaluates the assumptions in each run, and checked each inductive invariant on the instance of its
run before it was proved.

| module | theorem | proves | from the invariant |
|---|---|---|---|
| `ClassValidation_proofs` | `TypeCorrect` | `TypeOK` | itself |
| | `NoRecursiveContent` | `ActiveContent` | `StackInv` |
| | `FailuresStay` | `FailureIsSticky` | `StickyInv` |
| | `ListFollowsCalls` | `ValidationMatchesCalls` | `MatchInv` |
| `ClassEmission_proofs` | `ClassesAreGenerated` | `Generated`: `GeneratedOnce` and `GeneratedComplete` | `OnceInv`, `WholeInv` |
| | `ClassesAreWellFormed` | `WellFormed` | `SoundInv` |
| `ScopeProtocol_proofs` | `ScopesAreExact`, `ScopesAreRestored` | `HeldIsExact`, `Restored` | `Inv` |
| | `ErrorsAreThrown` | `ErrorsReported` | `ErrsKnown` |
| | `ScopesStaySafe` | `ScopesAreSafe` | `LevelKnown` |
| `Declarator_proofs` | `FilesVisitedOnce` | `VisitedOnce` | `IInv` |
| | `LookupsAnswer` | `LookupAnswers`, a part of `NamesAreRight` | `AllOk`: `IInv`, `FilesOk`, `FoundOk` |
| | `RegistryImplemented` | `RegistrySpec`, the refinement | `AllOk` |
| `CompileTime_proofs` | `DepthIsBounded` | `RecursionBounded` | `Counted` |
| `Vtable_proofs` | `SlotsNeverMove` | `LayoutIsKept` | `IInv` |
| | `OverridesKeepTheRules` | `OverridesAreAllowed` | `FInv` |
| | `EveryCallIsDispatched` | `DispatchIsComplete` | `DInv` |
| `ExitScopes_proofs` | `ThrowsAreCaughtInside` | `OnlyEnclosingCatch` | `Inv` |
| `SymbolMeaning_proofs` | `OneValue`, `OneValueInAll` | `OneValueAtATime` | `IInv` |
| | `VariablesDefinedOnce` | `DefinedOnce` | `MeaningInv` |
| | `LayoutsExact` | `LayoutsAreExact` | `LayoutInv`, `ContainInv` |

### Classes

None of the properties is inductive.

- `ActiveContent`. That a nested call finds a `Class` generator (and so does not enter the content again) could be undone by
  three things, one conjunct of `StackInv` for each: a post validation run while a content is active would throw away
  generators (`PostIsOutermost`, from `__validation__` not being empty, which needs `LevelsGrow`: active contents sit at
  increasing positions of `__validation__`, even when failed assertions leave others in between); and a template solution
  would be asked for its content although it is active (`NoNewCall`: a solution is registered before it is called). The
  proof states `StackInv` over arbitrary values (`CallsOK`) and shows that it survives the three shapes of stack step, a
  return, a change of the top frame and a call; each action is then one of the shapes.
- `FailureIsSticky`. A call made by a mere use found the symbol of its class empty, and gives it a generator some calls later.
  The class may have failed in between, in a call above. `StickyInv` says that then the error is on its way up: it is
  being thrown, or a call in between has recorded it and will throw (`Doomed`), so the content is not begun.
- `ValidationMatchesCalls` speaks of the whole of `__validation__`, failed assertions included: `Matches` says it over the
  stack and the list, and again the three shapes of step keep it.
- `EmittedOnce`. A class is in `_classToValidate`, in the list `validateAllClasses` iterates over, or in `_list`; `Line` is the
  three in a row, and only grows by the class whose content has just ended. `OnceInv`: nothing is twice in `Line`, and what is
  there was taken by the module or by a use (`InLine`); a call that will append a class is the only one to do so and the
  class is not in `Line` yet (`InCalls`); what is due is in `Line` or in such a call, unless an error has been or is going
  to be recorded (`NoneLost`); the queues are empty when a phase begins (`Phases`). It holds until an internal error.
- `EmittedComplete`. A class reached in the middle of the validation of another one has a `Class` generator and no verified
  assertion. `Whole`: each such class is complete, or somebody will see to it: it is in `__post_validation__`, in the local list
  of a `postValidateAll`, or a call is at it (`Covers`). The content that is not queued there is the outermost one, which
  is complete by itself (`Outermost`, which needs `ListFollowsCalls` and `StackInv`). All this is only true as long as nothing
  goes wrong: an error can leave a class half done. `StillWhole` is therefore stated under `~Trouble`, and the proof
  shows that trouble is never forgotten (`VisitTrouble`, `DriveTrouble`): a thrown error is recorded by a call below, and in
  the end by the driver or as dropped.
- `WellFormed`. A class with a `Class` generator that no content is building is sound (`SoundClass`), and its ancestor was
  accepted (`Accepted`: it has a generator too, and is not final), which is closed under ancestors: the whole lineage
  of what is generated is sound. What an heir copies is right if its ancestor is not being built at that moment. `Linked` says why
  in a layered program: whatever is called while a class is being built is mentioned by it, and an ancestor never mentions
  its heirs (`AncestorSound`). `SoundFrame` carries what was copied to the end of the content. Again under `~Trouble`.
  `Lineage` and `Mentions` are defined as least closed sets, so that they need no induction: `LineageLeast` is the principle, by
  which the recursive equation is a lemma (`LineageStep`).

  The property was stronger before its proof was attempted, and false for more classes than the run has. It said that no
  erroneous class of the module is accepted even when an error was dropped, and that a field declared twice is always
  reported. Let a class A name two heirs of it, B and X, in its methods, and C inherit from X. If A is erroneous and a speculative
  caller uses it first, X stays in the queue of post validations; a second such caller uses X, the post validation of B throws
  first, and that of X is lost: C is accepted by its module. And if B redeclares a field of A, and a body uses A before B, B is
  completed before the fields of A are known, and the collision goes unseen.

### Scopes

The theorems are about any functions, any depth of calls and any limit, from hypotheses on each function read on its own:
`Disciplined` (`ScopesAreExact`, `ScopesAreRestored`), with `Reports` (`ErrorsAreThrown`) or with `TestsLevel` (`ScopesStaySafe`).
These are discharged for the 44 functions by the run `scopes_all` (`CodeIsDisciplined`, in `ScopesAreSafe`, evaluates
them for each function that is called), so that the run and the theorems together say that no call tree of these
functions, of any depth, loses a scope or an error.

- `Inv` says where each activation is (`Placed`), that every caller is at a call instruction (`Calling`), that the first
  call started from no scope at all (`FromRest`), and that the scopes are `Extend(entry, held)`; the lemmas are the algebra
  of `Extend` (it commutes with entering and quitting what is held). `Restored` follows: a function ends only where it holds
  nothing.
- `ErrsKnown`: an activation at a place of `Clean` has collected no error. A `catch` leaves such places, and a
  function may only return from one.
- `LevelKnown`: the level with which each activation was entered is below the limit, and so is the present one at a place
  of `Tested`. A function calls from there, or from where it holds no level of its own.

### The other components

- `VisitedOnce` is proved for programs whose modules have one file each (`OneFile`; with two the code reads both). That the
  file entered is of a module not yet visited comes from the marks: `IInv` adds that the files of every module being
  visited or visited are marked. The heap of modules plays no part in it.
- *Modules.* `LookupAnswers` and `RegistrySpec` are proved for settled programs (`IsSettled`), in three parts.
  `FilesOk` is about the files: as long as no error was thrown, every file marked is done or being visited; a visit is at a file that
  the files below it in the stack import; a program is accepted with everything it needs done, which is the induction
  that makes `Accept` the step of the registry. `FoundOk` is about the tree: each module of the heap has its place
  (`IsTree`), the tables lead to it or to another module of that place, and a module that is not found yet has no
  submodule; what is done is found (`DoneFound`), what is found is done or above what is done (`FoundDone`), and the cache holds what the
  tables lead to, but for modules whose file no block will import (`CachedOk`). The step that matters is the end of a visit.
  `EndAttached` says what it leaves: the module is at its path, everything else is where it was, and only places
  above it have new modules. It follows the names of the path with two facts about a change of the tables, that it makes one place
  lead elsewhere (`GraftFollow`, `GraftTree`) and that such changes compose (`KeepsOn`, `AttachedOn`). The inductions over numbers
  and over paths, which the library has with operators as parameters, are lemmas about sets (`Numbers`, `AllPaths`), from
  the library's theorem that the finite sets of numbers are well-founded by inclusion.
- `RecursionBounded`: the static counter is not the number of open frames, since an error unwinds them and leaves it;
  `Counted` says that it never counts less, with the shape of `calls` that makes this meaningful. It may count more, and refuse a
  program before the limit: the property does not exclude that.
- *Tables.* `IInv` has `ChainTables` and `ChainKeeps` for the classes accepted (each keeps the slots of the one before it; `ChainKeeps`
  is closed by transitivity) and `Current`, `KeepsAncestor` and `KeepsBase` for the one being validated, whose table only grows,
  and whose slots below the ancestor's length are replaced by methods of the same signature. `FInv` says by which
  methods: the traits only took slots that the ancestor got from a trait, and left in them what the trait declares (`GivenBy`); a
  method was compared with the slot it takes, the ancestor's or the one that its trait has taken back.
  `DInv` says that each slot the class has taken holds a function that the class emits, and that a method put in a slot stays in it.
- `OnlyEnclosingCatch` is proved of any code, from a hypothesis on its text alone, `IsNested`: a buffer is filled by a `setjmp` two
  instructions before it is pushed, and no label is in between; a jump that leaves the instructions that a push guards is
  right behind a pop of its buffer; what is popped is the innermost buffer that may be there; what throws is in the content of
  the scopes around it, and nothing is around a return. The property has `IsNested` of each code of the corpus as a conjunct,
  so that the run discharges the hypothesis. `Inv` says that the buffers are among those that the text has around the
  instruction (not all of them: a `break` out of a success scope has popped the buffer that the guards of the scope still expect, and
  pops it again), the outer ones first (`HandlersAreHeld`); that a buffer holds where its `setjmp` is (`FramesAreFilled`);
  and that it was filled before it is pushed (`Ready`). No bound on the trace plays a part.
- *Symbols.* `IInv` adds to `OneValueAtATime` the types, that a frame has to do what its symbol says and is in its value only when it is
  a variable with one (`FramesAreRight`), and that no frame of a variable with a value is above one whose value is being
  validated (`NoneAbove`).
- `DefinedOnce` is about a module that compiles, and `MeaningInv` about the way there. A variable enters the list when it is used, when
  the module comes to it, or both; its type is computed each time, from generators that have changed since. `TypesFit` says that a
  type once read is the one that the declaration gives for ever: what a name stands for (`Denoted`) is settled when an answer is
  accepted, and the lemma `TypesStay` that no step changes what is settled; `AnswersFit` relates the answer to the name it was
  asked of, through `Chained`, which says that each symbol on the stack was named by the one below, and the first one by the
  module. `Defined` says which symbol of the module each definition is of. The two assumptions on the programs are what the
  grammar and the symbol table give: a variable has one type and one value, and a module has each of its symbols once.
- `LayoutsAreExact` relates the layouts to the program, which the generation of types does not read: it sees the fields that the
  validation left. `ShapesFit` follows these from the program: the fields of a frame, of a generator and of a complete
  structure are those of its items so far, each a type that the item `Denotes` or leads on to. What an alias denotes
  is the same along its line (`AliasDenotes`), which is what lets an answer be handed down a stack of aliases. `Settles` says that
  nothing is validated any more once a type is generated. `Nested` is the heart: each structure being laid out leads to those
  that are opened above it, so that one met again, which is made void, leads back to all the structures in between; and the fields
  of an open structure have their tags so far. `Generated` says the same of what is kept for the rest of the compilation, whichever
  structure was laid out first. What a symbol leads to is a least closed set (`Closure`), so that nothing is an
  induction: `ClosureHolds` and `ClosureIsLeast` are the principles. That a structure that contains itself gets no layout is
  `ContainInv`: the layout of a structure comes after those of the structures it holds by value (`PartsAreDone`), so that those
  laid out hold only each other, and one being laid out, which is not one of them yet (`Apart`), is held by none. The assumption on the programs (`ShapeAssumption`) is the
  grammar's: a structure has fields and no type of its own, an alias is for one thing.

### Left to TLC

- Liveness (`Ends`, `DeclarationEnds`, `EveryBodyEnds`), which the prover does not handle.
- Inductions over data: `AnswerIsRight` (the reference is a largest fixed point, computed by a recursion), and `TablesAreRight`
  (the lookups of `SymbolTable` recurse through the imports); that the 44 functions are disciplined, and that
  the code of a body is nested, is a computation.
- The modules whose operators are recursive, where the prover has no arithmetic and no set theory: `SyntaxCode`, `GuardedBlocks`,
  `RunTime`, `SymbolTable`, `Members`, `Patterns`, `OperatorCalls`, `MacroExpansion`, the templates, `MutableValues`.

## Findings

1. **Fields of an ancestor under validation are lost** (run `classes_fields`, ClassVisitor.cc:165). A class reached from a
   method of its own ancestor copies the field list that the ancestor has so far, which is empty; `postValidate`
   rebuilds the vtable but not the fields. The vtable has a smaller version of the same: `postValidateAll`
   (ClassVisitor.cc:131) follows the order of the queue, so an heir queued before its ancestor copies the vtable that
   is not yet complete.
2. **Functions that do not give the scopes back** (no run of its own: with `Routine <- Leaking` in `scopes_all.cfg` instead of `Names`,
   TLC finds `Restored` violated, for each of the eight functions alone too):
   - `validateAtomic` (Visitor_statements.cc:215) never quits its block;
   - `validateBlock` (Visitor_blocks.cc:181, called at line 47) lets a declarator visit the declarations of the block
     outside any `try`, with the block entered: a declaration that shadows another leaves it entered;
   - `iterateRangeCte` (ForVisitor.cc:533 and 591) and `iterateTuple` (ForVisitor.cc:710) throw the errors of an
     iteration while the block of the whole loop is entered;
   - `validateDestructor` (FunctionVisitor.cc:1023) resolves the jump buffer type and `self` outside any `try`, with the
     block, the foreign, the context and the class entered;
   - `validateClassFull` (ClassVisitor.cc:634) calls `validateInnerClass`, whose destructor is validated outside any `try`, between `pushReferent` and
     `popReferent`;
   - `verifyConstructionLoop` (FunctionVisitor.cc:801) throws the errors of the parameters, and (line 823) returns, with
     everything entered: the static lists `protos`, `gen_protos` and `locs` keep the constructor;
   - `validateRule` (MacroVisitor.cc:468): a macro rule that matches keeps its class context, and one unit of
     `__CALL_NB_RECURS__`; the next `exitClassDef` halts. `MacroExpansion` has the consequence: a second call whose rule
     belongs to another macro halts the compiler.

The models have the following behaviours too, and the properties name them as exceptions or the corpora leave them out.

*Classes and imports.*
- `initVtable` casts the generator of a queued class that has failed since: internal error instead of the messages
  (ClassVisitor.cc:283). The throw of a failed assertion skips the `pop_back` of `__validation__`, and silences the following
  ones (:84). Cyclic inheritance recurses without end (:76).
- A speculative caller, or `__pragma!compile`, drops the error of a class, and the compilation goes on. `EmittedOnce` and
  `EmittedComplete` name what is then generated: a solution filed as erroneous after its class was queued, when it is a class
  completed after it that fails (Visitor_templates.cc:443); and one whose default values nobody validated, since the rest
  of the list `postValidateAll` has moved is lost (ClassVisitor.cc:132). `validateClassFull` looks at the direct ancestor only: a
  class whose grand-ancestor is erroneous is generated too (`ErrorsReported` excepts it). TLC finds each of the three violated when
  the property does not except it.
- A module that imports its submodules loses them (Symbol.cc:608): the file of `x` imports `x::a`, which makes a module `x`
  to hold `a`; at its end the file of `x` is registered over it. Imported in the other order, the same files work.

*Parser.*
- The name of a macro is not checked to be an identifier (Visitor.hh:155); `pub }` and `extern }` swallow a brace; `catch`
  without braces needs a closing one; `visitMacroCall` counts the brackets of its own kind only; `1 .5` is a float
  although the comment at Visitor.cc:2082 says that it is not; a local `mod m {...}` that is first in a file is taken for
  the header; `is !of` halts; a comment after a string or a character is a syntax error (Visitor.cc:2207 looks for the
  closing token that the lexer has moved past, Lexer.hh:114), and one at the end of the file is not closed;
  `inTmpCall` (Visitor.cc:1824) stays true after an error in `visitOperand3`.

*Guards.*
- `return`, `break` or `throw` in the arm of a catch or in a failure guard leaves without the exit guards
  (generator/Visitor.cc:2004, validator Visitor_blocks.cc:75 and :159). A `break` or `return` that leaves a success scope
  pops the buffer of the enclosing scope before the success guards run. The arms of a catcher are validated against what
  the content throws only (Visitor_blocks.cc:66): the exception of a success guard is swallowed.

*Compile time.*
- A literal of `i64` or `isize` above the maximum becomes the maximum (Visitor_literals.cc:101-108); an operation of `usize`
  with a sized operand has the sized type (BinaryVisitor.cc:132); the arithmetic on characters is not reduced
  (CompileTime.cc:513-517); a division by zero, or of the minimum by -1, kills the compiler (:260-261); the element of an
  array is read without a test (:206). `executeBlock` ignores a return, a throw or an assertion before the last value
  (:596). An error leaves `nb_recurse` as it was (:637): after enough of them every evaluation is refused.
- The test of the index of an array lets the length itself through, and computes the index twice (BracketVisitor.cc:75).
  The range of a string literal ignores whether it is full, and its step.

*Members.* The first three are cases of `MembersAreRight`:
- A class reaches the private methods of its ancestors through its own table, once it is finalized (DotVisitor.cc:273).
- The index of a tuple type may be its length (SubVisitor.cc:530, `>` for `>=`), which reads past its types.
- The `init` of a field of an enumerated type is 0, which may be no member.
- `isize::min` and `usize::max` halt (SubVisitor.cc:463-488), as does the `typeinfo` of a type that holds an option, a range or a
  delegate (Visitor_types.cc:378).

*Patterns.* `PatternsDecide` names each form:
- In an array pattern only the first element is tested: the loop of MatchVisitor.cc:261 is over the inner types, and returns. `[]` reads
  an element that is not there.
- `S ()` on a structure has no test: its arm is left out, and yet makes the match complete. `_ (...)` on a class makes a test without
  content, which halts the generator; in a catch it reads a type that is not there (:882).
- `x : B = pattern` is mandatory when the pattern inside is, although the type is tested too (:180-192).
- A value whose type is an heir of `Object` is compatible with every class, and its type is not tested (Visitor_verifications.cc:359).
- `x = pattern` without a type in a catch takes all, whatever the pattern says (:763); a type that may be thrown counts as caught when
  one of its heirs is, the operands of the comparison at :695 being swapped, and is refused as not caught when its ancestor is.

*Macros.*
- `x::len` of a capture with one match is refused; the variable of a `for` named as a capture keeps the capture
  (MacroVisitor.cc:827); `__word` accepts the end of the text, so that its repetition never ends (:281); left recursive
  rules recurse without limit; captures inside of `*` without a variable are dropped.

*Tables.*
- A child that implements a trait again takes back the method of the trait over the override of its ancestor, even a
  final one, or one with fewer exceptions (ClassVisitor.cc:486, where :481 compares names only); two `over` of one method in a class are
  accepted; `PRV_PARENT` is never tested by DotVisitor.cc:273.

*Symbols.*
- StructVisitor.hh:48 says "Verify that the struct is not self contained". Nothing enforces it (StructVisitor.cc:84-111): a
  structure with a field of its own type is accepted, and has no size in the generator. `struct A {b : &B}` with
  `struct B {a : A}` stops it too, when `A` is laid out first. `AnswerIsRight` neither asks for the error nor for its absence, so
  that it holds of the code as of one that refuses them; `StopsOnlyWhen` says where the generator may crash, and `LayoutsAreExact` that
  none of these structures gets a layout.
- A bad alias that is first named in `G?` or in `__pragma!compile` is never reported (Visitor_symbols.cc:115-120: its
  `NoneType` stays: `Silenced`). `G?` on a global variable, or an alias of a variable that fails, aborts the compiler
  (Visitor_vars.cc:219-221). `x : [i32;y]` with `y : [i32;x]` recurses without end. The size of a variable is known only
  after its module has validated it, so that a program depends on its order. An alias of a variable validated earlier
  is not seen as a dependency.

*Templates.*
- After three `!{}` the template keeps, as the parameters of the step before, those of the second (TemplateVisitor.cc:347), and
  two solutions are compared by these: `foo!{A}!{B}(v)` and `foo!{C}!{B}(v)` of a `{T, U, V}` get the same solution, with
  the first operand of whichever is met first. `AcceptedIsTyped` is stated of calls of two `!{}` at most.
- `{T, U} (a : &T, b : U)` called `foo!{i32} (&x, y)` is always refused: the type behind the `&` is validated before
  the parameter bound by `!{}` is replaced. `T over U` with `U` a parameter never matches. `T of fn (..)-> ..` matches and
  leaves `T` unbound. `TypableIsAccepted` names the three (`NeverMatched`).
- `T of &Base` takes exactly `&Base`; only a named type, an alias say, takes its heirs. `{T of P}`, with `P` an alias of
  `&Base`, called with a `&Derived`, is left to its module since it needs nothing to be bound
  (Visitor_templates.cc:100-104), but the module makes the solution of `&Base`: the one that is called is never emitted,
  although CallVisitor.cc:211-212 says that it will be. The same goes for `foo!{&Base}!{&Derived}` of `{U, T of U}`.
- A solution is taken for valid while its body is validated: when the body fails, a function that it calls, and that
  calls it back, has been emitted with a call of what is not (the error is reported when nothing speculative is around).
- A variadic parameter that is not last drops the arguments after it (CallVisitor.cc:880-922).
- The compiler stops on a variadic parameter used twice, on `T impl E` behind a `&`, on `T of fn` or `dg` given a delegate, and
  on an expression with two names, the second of which is in the text of the first (`Stopping`).

*Memory.* The forms that `NoWriteGained`, `SharingIsExplicit` and `TypesAgree` name, each by an operator of `SharedMemory`:
- `[a ; n]` and `new [a ; n]` may be written at every depth, whatever `a` is (Visitor_literals.cc:344 and :366, `Filled`).
- Only the last branch of `verifyMutabilityLevel` has the stricter comparison of references (Visitor_verifications.cc:160): a
  reference to a constant tuple, array, pointer, object or structure without a complex field binds to `ref mut` (`ConstRef`), although the comments at :105 and
  :113 say that the left operand "can't modify inner right operand values". A structure with a complex field comes to that last branch
  (:111 skips the others), which compares its levels when a reference is built from it, and nowhere else: not when the
  structure is copied, nor inside of a tuple (`Structured`).
- The elements of `[a, b]` have no owner, the verification is commented out (Visitor_literals.cc:234, :243, `Listed`); nor have the branches of a
  condition that are not blocks (Visitor_verifications.cc:202, `Branches`); a static array of slices needs no explicit alias
  (`Copied`).
- Slices and pointers are covariant and writable: a `&Base` can be put in a `[&Derived]` seen as a `[&Base]` (Slice.cc:50). A `[[T ; n]]` is taken for a
  `[[T]]`, while `castTo` (generator Visitor.cc:2544) converts the outermost level only: arrays are read as slices (`Widens`).
- `for ref v in` a slice is always refused, for its level or because what it iterates over is an `Aliaser` and no `Referencer`
  (ForVisitor.cc:82-102; `ArrayByValueIterator` of `OperatorCalls` has both).

*Operators.* What `OperationsAreRight` excepts, by name:
- `a () += b` and `*f () += b` compute the place twice, once to read it and once to write it (BinaryVisitor.cc:1012-1016); the object whose
  method is virtual is computed once for the table and once as an argument (generator Visitor.cc:2315); `&&` computes its left operand
  for the test and when it is false, its right operand for the variable and in the result (:1120).
- A full range that ends with the last value of its type never ends, at run time (ForVisitor.cc:333) as in the compiler (:444).
- `^^` is accepted on integers, and the compiler stops when it generates it (generator Visitor.cc:1105).
- The declared type of the variable of a tuple is not compared with that of its elements (ForVisitor.cc:629).
- A `opCmp` that returns an unsigned integer is accepted, and says that nothing is smaller (`AreHonest`).

## What is not modelled

- *In the classes and scopes.* The typing rules, and so which programs have which errors: an error is a choice at every call
  in the scopes, and a fault of the program for the classes. Which symbols a scope holds. Closures (`enterClosure`). The
  validation of method bodies, except that they use classes. `Vtable`: destructors, template methods, an impl of what is
  not a trait, method access.
- *In the declarator.* `extern` declarations, the parameters of a template that have one name, the fields and the
  destructor of a class, the standalone mode, the name of a file that differs from its path.
- *In the lookups.* `getPrivate`, weak symbols, the templates of a table as such; inner modules that have the name of another one or
  of a submodule; what is done with the symbols that are found. `m::name` is the case where `m` names one thing, the
  module: when it names several, `SubVisitor::validateMultSym` notes that a private symbol is private and takes it all the
  same (SubVisitor.cc:109-115).
- *In the parser.* The trees, and so precedences; the characters of a word; string literals are one word between quotes.
- *In the templates.* Decorated parameters (`mut`, `ref`, ...), operands that are lambdas (`validateLambdaProtos`), `verifyNotIsType`,
  methods, templates of classes, traits and structures, the levels of mutability in the scores, `T over U` given a class that
  is not behind a `&`. No liveness: the enabledness of an action that evaluates a whole specialisation costs more than
  the run; that nothing but the end stops a compilation is checked by deadlock.
- *In the operators.* `&` and the delegates made by it, ranges that are not iterated or whose step is neither 1 nor -1, and the choice between several overloads that fit, which is a call like any other (`TemplateCalls`).
- *In the memory.* Options, ranges, unions, delegates, closures, lambdas, `dcopy`, patterns, the lock of the aliases, pointers made from
  integers; functions have a body of one expression, over their parameters.
- *At compile time.* Floats, arrays, `MultSym`, aliases, `sizeof`, casts. *In the macros*: nested calls in an expansion, and
  `__expr`, which is a line of words joined by `+`.
- *Other components*: listed as `not_modelled` in `PROJECT.json` with the reason. Errors, documentation, options and the
  wrappers over GCC's trees have no behaviour of their own to check.

## Plan

Done: classes, scopes, imports, lookups, parser, guarded blocks, compile time, macros, tables, symbols, specialisation of functions, memory, members, patterns, operators and loops. To do, in order of importance:

1. The other templates: structures, classes with their methods, traits.
2. What is done with the symbols that a lookup finds (`validateMultSym`), and `getPrivate`.

Proofs to add: that the typing of `IntegerFolding` keeps a constant in the range of its type.
