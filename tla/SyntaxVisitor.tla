---------------------------- MODULE SyntaxVisitor ----------------------------
(***************************************************************************)
(* syntax::Visitor, the parser of the sources: one definition per C++      *)
(* function visitX, in the notation of SyntaxCode.                         *)
(*                                                                         *)
(* visitExpression (10) is visitOperand0, visitExpression () is E0.  The   *)
(* numerals are split in Decimal, Prefixed (hexadecimal, octal, or with a  *)
(* suffix) and the Malformed ones that verifNumeric refuses.               *)
(***************************************************************************)
EXTENDS SyntaxCode, TLC

CONSTANTS Decimal, Prefixed, Malformed,   \* the numerals
          ActiveVersions                  \* the names of the active versions

Numerals   == Decimal \cup Prefixed \cup Malformed
Decorating == {"ref", "const", "mut", "dmut", "static", "cte"}

Ident   == P("Identifier")
Expr    == P("E0")
Operand == P("Operand0")
Semi    == Take({";"})
Again   == S(<<Back(1), Advance>>)             \* rewind ().next ()
Named   == S(<<Ident, Again>>)             \* last is the identifier

\* The optional test of a template, its name, its parameters and the rest; a
\* test without parameters is an error, found at the end.
Tested(name, rest) ==
    OptElse({"if"}, S(<<Operand, name, Consumes("TemplateParameters"),
                        On({EOF}, S(<<rest, Raise>>), rest)>>),
            S(<<name, P("TemplateParameters"), rest>>))

\* The active branch of a version is visited, the other one ignored.
VersionOf(block) ==
    S(<<Named,
        On(ActiveVersions, S(<<block, Opt({"else"}, P("IgnoreBlock"))>>),
           S(<<P("IgnoreBlock"), Opt({"else"}, block)>>))>>)

(* Declarations *)

VisitModGlobal ==
    S(<<Attempt(S(<<Want({"mod"}), P("Namespace"), Semi>>)),
        DoUntil({EOF},
            OptElse({"pub", "prv", "__version"},
                On({"__version"}, P("VersionGlob"), P("ProtectionBlock")),
                OptElse({"aka", "class", "enum", "def", "static", "import", "macro",
                         "mod", "struct", "trait", "extern"},
                    S(<<Back(1), P("Declaration")>>),
                    S(<<Advance, On({EOF}, Nop, Raise)>>))))>>)

VisitProtectionBlock ==
    S(<<Again, OptElse({"{"}, DoUntil({"}"}, OptElse({"}"}, Nop, P("Declaration"))),
                       S(<<Take({"}"}), P("Declaration")>>))>>)

GlobBlock ==
    S(<<Want({"{"}),
        DoUntil({"}"},
            OptElse({"pub", "prv", "__version", "}"},
                Switch("__version" :> "VersionGlob" @@ "pub" :> "ProtectionBlock"
                         @@ "prv" :> "ProtectionBlock", Nop),
                P("Declaration")))>>)

VisitVersionGlobBlock == S(<<Again, VersionOf(GlobBlock)>>)

VisitExtern ==
    S(<<Again,
        Opt({"("}, S(<<Want({"C", "C++", "D", "Y"}), Want({",", ")"}),
                       On({","}, S(<<P("Namespace"), Want({")"})>>), Nop)>>)),
        P("ProtectionBlock")>>)

VisitMacro == S(<<Again, Advance, P("MacroBlock")>>)

VisitMacroBlock ==
    S(<<Want({"{"}),
        DoUntil({"}"},
            OptElse({"pub", "__version", "}"},
                Switch("pub" :> "PublicMacroBlock" @@ "__version" :> "VersionMacro", Nop),
                P("MacroContent")))>>)

VisitPublicMacroBlock ==
    S(<<Again, OptElse({"{"}, DoUntil({"}"}, OptElse({"}"}, Nop, P("MacroContent"))),
                       OptElse({"}"}, Nop, P("MacroContent")))>>)

VisitVersionMacro == S(<<Again, VersionOf(P("MacroBlock"))>>)

MacroItem == Can("MacroExpression", P("MacroExpression"), Operand)

\* The parts of a macro rule up to the parenthesis; "|" only after the first.
MacroItems ==
    LET Alternative == S(<<MacroItem, Want({")", "|"})>>)
    IN S(<<MacroItem,
           OptElse({"|"}, S(<<Alternative, While({"|"}, Alternative)>>),
                   S(<<Take({")"}), WhileNot({")"}, S(<<MacroItem, Take({")"})>>))>>))>>)

VisitMacroContent ==
    LET Body == S(<<Want({"{"}), Raw, Balance({"{", "#{"}, "}"), Cooked>>)
        Rule(end) ==
            S(<<Want({"("}), MacroItems,
                Opt({"skips"}, S(<<Want({"("}),
                                   DoUntil({")"}, S(<<P("String"), Want({")", "|"})>>))>>)),
                end>>)
    IN S(<<Want({"self", "def", "import"}),
           On({"import"}, P("Import"),
              S(<<On({"def"}, Named, Nop),
                  On({"self"}, Rule(Body), Rule(OptElse({";"}, Nop, Body)))>>))>>)

VisitMacroExpression ==
    OptElse({"("}, S(<<MacroItems, Take({"*", "+", "?"})>>),
            IfIdent(S(<<Ident, Want({"="}), MacroItem>>), P("String")))

DeclarationOf ==
    "aka" :> "Aka" @@ "class" :> "Class" @@ "enum" :> "Enum" @@ "def" :> "Function"
      @@ "static" :> "Global" @@ "import" :> "Import" @@ "extern" :> "Extern"
      @@ "macro" :> "Macro" @@ "mod" :> "LocalMod" @@ "struct" :> "Struct"
      @@ "trait" :> "Trait"

VisitDeclaration == S(<<Want(DOMAIN DeclarationOf), Switch(DeclarationOf, Nop)>>)

VisitAka == S(<<Again, Tested(Ident, S(<<Want({"="}), Expr, Semi>>))>>)

VisitClass ==
    S(<<Again, Tested(S(<<P("Attributes"), Ident>>),
                      S(<<Opt({"over"}, Expr), P("ClassBlock")>>))>>)

VisitClassBlock(prot, version, cond, content) ==
    S(<<Want({"{"}),
        DoUntil({"}"},
            OptElse({"prv", "pub", "prot", "__version", "}", ";", "cte"},
                Switch("prv" :> prot @@ "pub" :> prot @@ "prot" :> prot
                         @@ "__version" :> version @@ "cte" :> cond, Nop),
                P(content)))>>)

VisitProtectionClassBlock(content) ==
    S(<<Again,
        OptElse({"{"}, DoUntil({"}"}, OptElse({"}", ";"}, Nop, P(content))),
                OptElse({";"}, Nop, S(<<Take({"}"}), P(content)>>)))>>)

VisitIgnoreBlock == S(<<Want({"{"}), Balance({"{", "#{"}, "}")>>)

VisitVersionClass(block) == S(<<Again, VersionOf(P(block))>>)

\* A condition and perhaps a message, the parentheses being optional.
AssertRest ==
    OptElse({"("}, S(<<Expr, Want({")", ","}),
                       On({","}, S(<<Expr, Want({")"})>>), Nop)>>), Expr)

VisitIfClass(self, block) ==
    S(<<Want({"if", "assert"}),
        On({"if"}, S(<<Expr, P(block),
                       Opt({"else"}, OptElse({"if"}, S(<<Back(1), P(self)>>), P(block)))>>),
           AssertRest)>>)

\* impl, import and __dtor are refused under a protection.
VisitClassContent(guarded) ==
    LET Free == "impl" :> "ClassMixin" @@ "import" :> "Import" @@ "__dtor" :> "ClassDestructor"
        Member == "def" :> "Method" @@ "over" :> "Method" @@ "self" :> "ClassConstructor"
    IN S(<<Want({"def", "over", "let", "self", "impl", "import", "__dtor"}),
           On({"let"}, S(<<Back(1), P("VarDeclaration")>>),
              On(DOMAIN Free, IF guarded THEN Raise ELSE Switch(Free, Nop),
                 Switch(Member, Nop)))>>)

VisitTraitContent == S(<<Want({"def", "over"}), P("Method")>>)

VisitClassMixin ==
    S(<<Back(1), Want({"impl"}), Operand,
        OptElse({";", ","},
            On({","}, S(<<While({","}, S(<<Operand, Take({";", ","})>>)), Semi>>), Nop),
            P("TraitBlock"))>>)

VisitClassDestructor ==
    S(<<Again, Want({"("}), P("SelfVarDecl"), Want({")"}), Expr>>)

\* The flag is supers.size () != 0.
VisitClassConstructor ==
    LET Delegate == S(<<OnFlag(Raise, Nop), Want({"("}), Consumes("NamedParams"),
                        On({EOF}, Nop, SetFlag(TRUE)), Want({")"})>>)
        Item     == S(<<Named, On({"super", "self"}, Delegate, S(<<Want({"="}), Expr>>)),
                        Want({"{", ",", "throws"})>>)
    IN S(<<Again,
           Tested(S(<<P("Attributes"), IfIdent(Ident, Nop)>>),
                  S(<<P("Prototype"),
                      Opt({"with"}, S(<<SetFlag(FALSE),
                                        WhileNot({"{", "throws"}, Item), Back(1)>>)),
                      Opt({"throws"}, P("Throwers")), Expr>>))>>)

VisitThrowers == DoUntil({EOF}, S(<<Expr, Take({","})>>))

VisitEnum ==
    LET Value == S(<<Ident, Opt({"="}, Operand)>>)
    IN S(<<Back(1), Want({"enum"}),
           Tested(S(<<Opt({":"}, Operand),
                      DoUntil({"->"}, S(<<Want({"->", "|"}), On({"->"}, Nop, Value)>>)),
                      Ident>>), Semi)>>)

VisitFunction(proto, reserved) ==
    S(<<Again,
        Tested(S(<<P("Attributes"), Named, On(reserved, Raise, Nop)>>),
               S(<<P(proto), Opt({"throws"}, P("Throwers")), P("FunctionBody")>>))>>)

\* A method has a first parameter, self, that cannot be left out.
VisitFunctionPrototype(isClass) ==
    LET Sep  == Want({")", ",", "..."})
        Rest == OptElse({")", "..."}, On({"..."}, Want({")"}), Nop),
                        S(<<P("ParamDecl"), Sep>>))
    IN S(<<Want({"("}),
           IF isClass THEN S(<<P("SelfVarDecl"), Sep, WhileNot({")"}, Rest)>>)
           ELSE DoUntil({")"}, Rest),
           Opt({"->"}, Expr)>>)

VisitClosurePrototype ==
    S(<<Want({"|", "||"}),
        On({"||"}, Nop,
           DoUntil({"|"}, OptElse({"|"}, Nop, S(<<P("BareVarDecl"), Want({"|", ","})>>)))),
        Opt({"->"}, Expr)>>)

VisitFunctionBody == OptElse({";"}, Nop, Expr)

VisitAttributes ==
    S(<<Advance, On({"@"}, S(<<Advance, On({"{"}, DoUntil({"}"}, S(<<Ident, Want({",", "}"})>>)),
                                   S(<<Back(1), Ident>>))>>),
                Back(1))>>)

VisitGlobal == S(<<Again, P("VarDecl"), Semi>>)

VisitImport == S(<<Again, DoUntil({EOF}, S(<<P("Namespace"), Take({","})>>)), Semi>>)

VisitLocalMod == S(<<Back(1), Want({"mod"}), Tested(Ident, GlobBlock)>>)

VisitStruct ==
    LET Field == S(<<P("FieldDecl"), Opt({"="}, Operand)>>)
    IN S(<<Back(1), Want({"struct"}),
           Tested(S(<<P("Attributes"),
                      DoUntil({"->"}, S(<<Want({"->", "|"}), On({"->"}, Nop, Field)>>)),
                      Ident>>), Semi)>>)

VisitTrait == S(<<Back(1), Want({"trait"}), Tested(Ident, P("TraitBlock"))>>)

VisitTemplateParameters ==
    LET Typed == S(<<Advance,
                     On({"..."}, Nop, S(<<Back(1), Operand, Opt({"="}, Expr)>>))>>)
        Declared == S(<<Ident, Advance,
                        On({":"}, Typed,
                           On({"=", "over", "of", "impl"}, Expr,
                              On({"..."}, Nop, S(<<Back(2), Operand>>))))>>)
        Other == S(<<Advance, On({"struct", "class", "alias"}, Ident,
                                 S(<<Back(1), Operand>>))>>)
    IN Attempt(Opt({"{"}, DoUntil({"}"}, S(<<IfIdent(Declared, Other),
                                             Want({"}", ","})>>))))

(* Expressions *)

\* The operators of visitExpression (0), visitExpression (1), ...
Operators == <<
    {"=", "/=", "-=", "+=", "*=", "%=", "~=", "<<=", ">>="}, {"||"}, {"&&"},
    {"<", ">", "<=", ">=", "!=", "==", "of", "is", "in"}, {"...", ".."},
    {"<<", ">>"}, {"|", "^", "&"}, {"+", "~", "-"}, {"*", "%", "/"}, {"^^"}>>

Special == {"of", "is", "in"}     \* at the level of the comparisons only

\* An operand of the next level, then operators of this level and operands.
VisitExpression(level, next) ==
    S(<<P(next),
        DoUntil({EOF},
            S(<<Advance,
                On(Operators[level], S(<<P(next), Build>>),
                   On({"!"},
                      S(<<Advance, On(IF level = 4 THEN Special ELSE {},
                                      S(<<P(next), Build>>),
                                      S(<<Back(1), Back(1), Done>>))>>),
                      S(<<Back(1), Done>>)))>>))>>)

VisitOperand0 ==
    S(<<OptElse({"-", "&", "*", "!"}, S(<<P("Operand1"), Build>>), P("Operand1")),
        Opt({"?"}, Build)>>)

Statement ==
    "{" :> "Block" @@ "if" :> "If" @@ "while" :> "While" @@ "assert" :> "Assert"
      @@ "break" :> "Break" @@ "do" :> "DoWhile" @@ "for" :> "For" @@ "match" :> "Match"
      @@ "let" :> "VarDeclaration" @@ "return" :> "Return" @@ "fn" :> "FunctionType"
      @@ "dg" :> "FunctionType" @@ "loop" :> "While" @@ "throw" :> "Throw"
      @@ "__version" :> "Version" @@ "__pragma" :> "Pragma" @@ "with" :> "With"
      @@ "atomic" :> "Atomic"

\* Mutant: the template arguments after a dot are not looked for.
Operand1NoTemplate ==
    S(<<Peek,
        Switch(Statement,
            S(<<P("Operand2"),
                DoUntil({EOF},
                    S(<<Advance,
                        On({"("}, S(<<P("NamedParams"), Want({")"}), Build>>),
                        On({"["}, S(<<P("IndexParams"), Want({"]"}), Build>>),
                        On({"#{", "#[", "#("}, S(<<P("MacroCall"), Done>>),
                        On({".", ":."}, S(<<P("FieldOperand"), Build>>),
                           S(<<Back(1), Done>>)))))>>))>>))>>)

VisitOperand1 ==
    S(<<Peek,
        Switch(Statement,
            S(<<P("Operand2"),
                DoUntil({EOF},
                    S(<<Advance,
                        On({"("}, S(<<P("NamedParams"), Want({")"}), Build>>),
                        On({"["}, S(<<P("IndexParams"), Want({"]"}), Build>>),
                        On({"#{", "#[", "#("}, S(<<P("MacroCall"), Done>>),
                        On({".", ":."}, S(<<P("FieldOperand"), P("TemplateCall"), Build>>),
                           S(<<Back(1), Done>>)))))>>))>>))>>)

VisitOperand2 ==
    S(<<P("Operand3"),
        DoUntil({EOF},
            S(<<Advance, On({"::"}, S(<<P("NameOperand"), P("TemplateCall"), Build>>),
                            S(<<Back(1), Done>>))>>))>>)

Intrinsics == {"copy", "expand", "typeof", "sizeof", "alias", "move", "dcopy"}

VisitOperand3(var, literal) ==
    S(<<Peek,
        Switch("cast" :> "Cast" @@ "is" :> "TemplateChecker" @@ "[" :> "Array"
                 @@ "(" :> "Tuple" @@ "|" :> "Lambda" @@ "||" :> "Lambda",
            On(Intrinsics,
               S(<<Advance, OptElse({"("}, S(<<Expr, Want({")"})>>), Operand), Build>>),
               On(Decorating, P("DecoratedExpression"),
                  Can(literal, P(literal), P(var)))))>>)

VisitArray ==
    S(<<Want({"["}),
        OptElse({"]"}, Nop,
            S(<<Expr, Want({";", "]", ","}),
                On({";"}, S(<<Advance, On({"new"}, Nop, Back(1)), Expr, Want({"]"})>>),
                   While({","}, S(<<Expr, Want({",", "]"})>>)))>>))>>)

Guards == {"exit", "success", "failure"}

\* The statements of a block; the scopes after it, with one catch.
BlockContent ==
    S(<<Want({"{"}),
        DoUntil({"}"},
            OptElse({"}", ";"}, Nop,
                OptElse({"class", "enum", "def", "import", "struct", "trait"},
                        S(<<Back(1), P("Declaration")>>), Expr)))>>)

VisitBlock ==
    S(<<BlockContent,
        DoUntil({EOF, "catch"},
            S(<<Take(Guards \cup {"catch"}),
                On({"catch"}, P("Catch"), On(Guards, P("ScopeGuard"), Nop))>>)),
        On({"catch"}, DoUntil({EOF}, Opt(Guards, P("ScopeGuard"))), Nop),
        IsBlock>>)

ScopeGuard == S(<<Take({"=>"}), P("ScopeBlock")>>)

\* content.is <Block> ()
EndOfContent == IfBlock(Nop, Semi)

VisitIf ==
    S(<<Want({"if"}), Expr, Expr, EndOfContent,
        Opt({"else"}, S(<<Peek, On({"if"}, P("If"), S(<<Expr, EndOfContent>>))>>))>>)

VisitWhile ==
    S(<<Want({"while", "loop"}), On({"loop"}, Nop, Expr), Expr, EndOfContent>>)

VisitDoWhile ==
    LET Test == S(<<Want({"while"}), Expr>>)
    IN S(<<Want({"do"}), Expr, IfBlock(Test, S(<<Test, Semi>>))>>)

VisitFor ==
    LET Iterated == S(<<DoUntil({"in"}, S(<<P("BareVarDecl"), Want({",", "in"})>>)), Expr>>)
    IN S(<<Want({"for"}), OptElse({"("}, S(<<Iterated, Want({")"})>>), Iterated),
           Expr, EndOfContent>>)

Arms ==
    DoUntil({"}"}, S(<<P("MatchExpression"), Want({"=>"}), Operand, Semi, Take({"}"})>>))

VisitMatch == S(<<Advance, Expr, Want({"{"}), Arms>>)

VisitMatchExpression ==
    LET Items(close) == WhileNot({close}, S(<<P("MatchExpression"), Want({",", close})>>))
        Args    == S(<<Take({")", ","}), Items(")")>>)
        Under   == S(<<Advance, On({"("}, Args, On({"->"}, P("MatchExpression"), Back(1)))>>)
        Path    == S(<<While({"::"}, S(<<Ident, Advance>>)),
                       On({"!"}, S(<<Back(1), P("TemplateCall"), Advance>>), Nop),
                       On({"("}, Args, S(<<ToMark, Expr>>))>>)
        Variable == S(<<Advance, On({"->"}, P("MatchExpression"), Path)>>)
        Name    == Mark(S(<<Advance, On({"_"}, Under, Variable)>>))
    IN S(<<Peek,
           Can("MatchVarDecl", P("MatchVarDecl"),
               IfIdent(Name,
                   On({"_"}, Name,
                      On({"("}, S(<<Advance, Args>>),
                         On({"["}, S(<<Advance, Take({"]"}), Items("]")>>), Expr)))))>>)

VisitBreak == S(<<Want({"break"}), Expr>>)

VisitAssert == S(<<Advance, AssertRest>>)

VisitThrow == S(<<Advance, Expr>>)

VisitReturn == S(<<Advance, Expr>>)

VisitPragma ==
    S(<<Advance, Want({"!"}), Ident, Want({"("}), P("PlainParams"), Want({")"})>>)

VisitWith ==
    LET Vars == DoUntil({EOF}, S(<<P("VarDecl"), Take({","})>>))
    IN S(<<Want({"with"}), OptElse({"("}, S(<<Vars, Want({")"})>>), Vars), P("Block")>>)

VisitCatch == S(<<Again, Take({"{"}), Arms>>)

VisitVersion ==
    S(<<Want({"__version"}), Named,
        On(ActiveVersions,
           S(<<P("Block"), Opt({"else"}, P("IgnoreBlock")), IsBlock>>),
           S(<<P("IgnoreBlock"), OptElse({"else"}, P("Block"), Build)>>))>>)

VisitCast ==
    S(<<Advance, Want({"!"}),
        OptElse({"{"}, S(<<Expr, Want({"}"})>>), P("Operand3")),
        Want({"("}), Expr, Want({")"})>>)

VisitAtomic ==
    S(<<Advance,
        OptElse({"{"}, S(<<Back(1), Expr>>),
            S(<<OptElse({"("}, S(<<Expr, Want({")"})>>), Expr), Expr>>))>>)

\* call.to <TemplateCall> () halts when visitTemplateCall gave back its operand.
VisitTemplateChecker ==
    S(<<Advance, Want({"!"}), Back(1), Consumes("TemplateCall"), On({EOF}, Halt, Nop),
        P("TemplateParameters")>>)

VisitDecoratedExpression == S(<<Decorators(Decorating), Operand>>)

VisitVar == S(<<Ident, P("TemplateCall")>>)

\* Mutant: inTmpCall stays true after the argument.
TemplateCallKept ==
    S(<<Advance,
        On({"!"},
           InTmp(Raise,
              S(<<Advance,
                  On(Special, S(<<Back(1), Back(1)>>),
                     On({"{"}, S(<<SetTmp(FALSE), P("BraceParams"), Want({"}"})>>),
                        S(<<SetTmp(TRUE), Back(1), P("Operand3")>>)))>>)),
           Back(1))>>)

VisitTemplateCall ==
    S(<<Advance,
        On({"!"},
           InTmp(Raise,
              S(<<Advance,
                  On(Special, S(<<Back(1), Back(1)>>),
                     On({"{"}, S(<<SetTmp(FALSE), P("BraceParams"), Want({"}"})>>),
                        S(<<SetTmp(TRUE), Back(1), P("Operand3"), SetTmp(FALSE)>>)))>>)),
           Back(1))>>)

\* Only the open bracket itself is counted, not the one of a nested call.
VisitMacroCall ==
    S(<<Again, Raw,
        On({"#{"}, Balance({"{"}, "}"),
           On({"#["}, Balance({"["}, "]"), Balance({"("}, ")"))),
        Cooked>>)

VisitParamList(close, named) ==
    LET Maybe == Mark(IfIdent(S(<<Ident, OptElse({"->"}, Expr, S(<<ToMark, Expr>>))>>),
                              Expr))
    IN S(<<Take({close}),
           WhileNot({close}, S(<<IF named THEN Maybe ELSE Expr, Want({close, ","})>>)),
           Back(1)>>)

VisitTuple ==
    S(<<Want({"("}),
        OptElse({")"}, Build,
            S(<<Expr, Want({",", ")"}),
                On({","},
                   S(<<Advance,
                       On({")"}, Nop,
                          S(<<Back(1), DoUntil({")"}, S(<<Expr, Want({",", ")"})>>))>>)),
                       Build>>), Nop)>>))>>)

VisitLambda == S(<<Peek, P("ClosurePrototype"), Take({"=>"}), Expr>>)

VisitFunctionType ==
    LET Types(close) ==
            DoUntil({close}, OptElse({close}, Nop, S(<<Operand, Want({close, ","})>>)))
    IN S(<<Advance, Want({"(", "|"}), On({"|"}, Types("|"), Types(")")),
           Want({"->"}), Expr>>)

(* Literals *)

VisitLiteral(float) ==
    S(<<Peek,
        On(Numerals, P(IF float THEN "Numeric" ELSE "Integer"),
        On(IF float THEN {"."} ELSE {}, P("DotFloat"),
        On({"'"}, P("Char"),
        On({"\""}, P("String"),
        On({"true", "false", "null", "$"}, Advance, Raise)))))>>)

VisitNumeric(float) ==
    S(<<Advance,
        On(Malformed, Raise,
           On(IF float THEN Decimal ELSE {},
              Opt({"."}, S(<<Back(1), P("Float")>>)), Nop))>>)

\* "No space inside a floating point value".
VisitFloat(begins) ==
    S(<<Skips(Spaces, FALSE), Want({"."}), Advance, Skips(Spaces, TRUE),
        On(Decimal, Nop,
           IF ~begins THEN Raise
           ELSE On({"f"}, Nop, Back(1)))>>)

VisitChar ==
    S(<<Advance, Raw, Quoted("'", {"\t", "\n", "\r"}),
        Take({"c8", "c32", "_c8", "_c32"}), Cooked>>)

\* _strRetIgnore is true in a file: only the space belongs to the string.
VisitString ==
    S(<<Want({"\""}), Skips({" "}, FALSE), Comments(FALSE), Quoted("\"", {}),
        Take({"s8", "s32", "_s8", "_s32"}), Skips({" "}, TRUE), Comments(TRUE)>>)

(* Declarations of variables *)

VisitVarDeclaration ==
    S(<<Want({"let"}),
        DoUntil({EOF},
            OptElse({"("}, S(<<P("DestructVarDecl"), Advance, Done>>),
                           S(<<P("VarDecl"), Advance, On({","}, Nop, Done)>>))),
        Back(1)>>)

DecoratedName == S(<<Decorators(Decorating),
                     OptElse({"_"}, Nop, S(<<Named, On({"self"}, Raise, Nop)>>))>>)

VisitSingleVarDeclaration(mandType, withValue) ==
    S(<<DecoratedName, IF mandType THEN Want({":"}) ELSE Advance,
        On({":"}, S(<<Operand, Advance>>), Nop),
        IF withValue THEN On({"="}, Expr, Back(1)) ELSE Back(1)>>)

VisitSelfVarDeclaration ==
    S(<<Decorators(Decorating), Opt({"_"}, Raise), Named, On({"self"}, Nop, Raise)>>)

VisitSingleVarDeclarationForMatch ==
    S(<<DecoratedName, Want({":"}), OptElse({"_"}, Nop, Operand), Advance,
        On({"="}, P("MatchExpression"), Back(1))>>)

VisitDestructVarDeclaration ==
    LET Part == S(<<Decorators(Decorating), OptElse({"_"}, Nop, Ident), Advance,
                    On({":"}, Operand, Back(1))>>)
    IN S(<<Again, Part, Want({",", ")"}),
           While({","}, S(<<Part, Want({"...", ",", ")"}), On({"..."}, Want({")"}), Nop)>>)),
           Want({"="}), Expr>>)

VisitNamespace ==
    S(<<Peek,
        DoUntil({EOF},
            S(<<Advance,
                On({"_"}, Done,
                   S(<<Back(1), Ident, Advance, On({"::"}, Nop, S(<<Back(1), Done>>))>>))>>))>>)

VisitIdentifier == IfIdent(Advance, S(<<Advance, Raise>>))

-----------------------------------------------------------------------------
(* The functions, by name. *)

Levels == [l \in 1..10 |-> <<"E0", "E1", "E2", "E3", "E4", "E5", "E6", "E7", "E8", "E9">>[l]]

Grammar ==
    [l \in {Levels[i] : i \in 1..10} |->
        LET i == CHOOSE j \in 1..10 : Levels[j] = l
        IN VisitExpression(i, IF i = 10 THEN "Operand0" ELSE Levels[i + 1])]
    @@
    [ModGlobal |-> VisitModGlobal, ProtectionBlock |-> VisitProtectionBlock,
     VersionGlob |-> VisitVersionGlobBlock, Extern |-> VisitExtern,
     Macro |-> VisitMacro, MacroBlock |-> VisitMacroBlock,
     PublicMacroBlock |-> VisitPublicMacroBlock, VersionMacro |-> VisitVersionMacro,
     MacroContent |-> VisitMacroContent, MacroExpression |-> VisitMacroExpression,
     Declaration |-> VisitDeclaration, Aka |-> VisitAka, Class |-> VisitClass,
     ClassBlock |-> VisitClassBlock("ClassProtection", "ClassVersion", "ClassCond",
                                    "ClassContent"),
     TraitBlock |-> VisitClassBlock("TraitProtection", "TraitVersion", "TraitCond",
                                    "TraitContent"),
     ClassProtection |-> VisitProtectionClassBlock("GuardedContent"),
     TraitProtection |-> VisitProtectionClassBlock("TraitContent"),
     ClassVersion |-> VisitVersionClass("ClassBlock"),
     TraitVersion |-> VisitVersionClass("TraitBlock"),
     ClassCond |-> VisitIfClass("ClassCond", "ClassBlock"),
     TraitCond |-> VisitIfClass("TraitCond", "TraitBlock"),
     ClassContent |-> VisitClassContent(FALSE), GuardedContent |-> VisitClassContent(TRUE),
     TraitContent |-> VisitTraitContent, IgnoreBlock |-> VisitIgnoreBlock,
     ClassMixin |-> VisitClassMixin, ClassDestructor |-> VisitClassDestructor,
     ClassConstructor |-> VisitClassConstructor, Throwers |-> VisitThrowers,
     Enum |-> VisitEnum, Function |-> VisitFunction("Prototype", {"self"}),
     Method |-> VisitFunction("MethodPrototype", {"self", "__dtor"}),
     Prototype |-> VisitFunctionPrototype(FALSE),
     MethodPrototype |-> VisitFunctionPrototype(TRUE),
     ClosurePrototype |-> VisitClosurePrototype, FunctionBody |-> VisitFunctionBody,
     Attributes |-> VisitAttributes, Global |-> VisitGlobal, Import |-> VisitImport,
     LocalMod |-> VisitLocalMod, Struct |-> VisitStruct, Trait |-> VisitTrait,
     TemplateParameters |-> VisitTemplateParameters,
     Operand0 |-> VisitOperand0, Operand1 |-> VisitOperand1, Operand2 |-> VisitOperand2,
     Operand3 |-> VisitOperand3("Var", "Literal"),
     NameOperand |-> VisitOperand3("Identifier", "Literal"),
     FieldOperand |-> VisitOperand3("Identifier", "FieldLiteral"),
     Array |-> VisitArray, Block |-> VisitBlock, ScopeBlock |-> BlockContent,
     ScopeGuard |-> ScopeGuard, If |-> VisitIf, While |-> VisitWhile,
     DoWhile |-> VisitDoWhile, For |-> VisitFor, Match |-> VisitMatch,
     MatchExpression |-> VisitMatchExpression, Break |-> VisitBreak,
     Assert |-> VisitAssert, Throw |-> VisitThrow, Return |-> VisitReturn,
     Pragma |-> VisitPragma, With |-> VisitWith, Catch |-> VisitCatch,
     Version |-> VisitVersion, Cast |-> VisitCast, Atomic |-> VisitAtomic,
     TemplateChecker |-> VisitTemplateChecker,
     DecoratedExpression |-> VisitDecoratedExpression, Var |-> VisitVar,
     TemplateCall |-> VisitTemplateCall, MacroCall |-> VisitMacroCall,
     NamedParams |-> VisitParamList(")", TRUE), PlainParams |-> VisitParamList(")", FALSE),
     IndexParams |-> VisitParamList("]", FALSE), BraceParams |-> VisitParamList("}", FALSE),
     Tuple |-> VisitTuple, Lambda |-> VisitLambda, FunctionType |-> VisitFunctionType,
     Literal |-> VisitLiteral(TRUE), FieldLiteral |-> VisitLiteral(FALSE),
     Numeric |-> VisitNumeric(TRUE), Integer |-> VisitNumeric(FALSE),
     Float |-> VisitFloat(TRUE), DotFloat |-> VisitFloat(FALSE),
     Char |-> VisitChar, String |-> VisitString,
     VarDeclaration |-> VisitVarDeclaration,
     VarDecl |-> VisitSingleVarDeclaration(FALSE, TRUE),
     BareVarDecl |-> VisitSingleVarDeclaration(FALSE, FALSE),
     ParamDecl |-> VisitSingleVarDeclaration(TRUE, TRUE),
     FieldDecl |-> VisitSingleVarDeclaration(TRUE, FALSE),
     SelfVarDecl |-> VisitSelfVarDeclaration,
     MatchVarDecl |-> VisitSingleVarDeclarationForMatch,
     DestructVarDecl |-> VisitDestructVarDeclaration,
     Namespace |-> VisitNamespace, Identifier |-> VisitIdentifier]

\* The parser of a file, inTmpCall being what the previous file left.
Parse(words, tmp) == Eval(Grammar, NewParser(words, tmp, P("ModGlobal")))
=============================================================================
