----------------------------- MODULE GlobalSymbols -----------------------------
(***************************************************************************)
(* The validation of the symbols of a module that are not functions: the   *)
(* global variables, aliases, structures and enumerations                  *)
(* (Visitor_symbols.cc, StructVisitor.cc).  Each is validated when it is   *)
(* first named, in the middle of another, or when the module comes to it;  *)
(* what it is then stays in its generator.                                 *)
(*                                                                         *)
(* A symbol is the expressions it holds, and those are names: of another   *)
(* symbol, of i32, of a literal or of nothing that is declared.  Functions *)
(* are their statements, and are not named.                                *)
(***************************************************************************)
EXTENDS Sequences, Integers

CONSTANTS Names,     \* the symbols
          Order,     \* in which the module validates them
          Programs,  \* what they are
          I32, Array, Literal, Unknown,
          Depth      \* bound: the frames the compiler has room for

TypeItem == [form : {"type", "pointer", "size"}, of : Names \cup {I32, Literal, Unknown}]
Item     == [form : {"type", "pointer", "size", "value", "alias", "try", "compile"},
             of : Names \cup {I32, Literal, Unknown}]
Symbol   == [kind : {"var", "aka", "struct", "enum", "func"}, typ : Seq(TypeItem),
             items : Seq(Item), extern : BOOLEAN, here : BOOLEAN]

\* The symbols that the module itself declares.
LocalOf(p) == SelectSeq(Order, LAMBDA n : p[n].here)
IsEnumeration(s, S) ==
    /\ s \in Seq(S)
    /\ \A n \in S : \E i \in DOMAIN s : s[i] = n
    /\ \A i, j \in DOMAIN s : s[i] = s[j] => i = j

ASSUME OrderAssumption    == Order \in Seq(Names)
ASSUME ProgramsAssumption == Programs \subseteq [Names -> Symbol]
ASSUME DepthAssumption    == Depth \in Nat
\* A module has each of its symbols once; a variable has one type and one value.
ASSUME LocalAssumption    ==
    \A p \in Programs : IsEnumeration(LocalOf(p), {n \in Names : p[n].here})
ASSUME VariableAssumption ==
    \A p \in Programs, n \in Names : p[n].kind = "var" =>
        /\ Len(p[n].typ) <= 1 /\ Len(p[n].items) <= 1
        /\ \A i \in DOMAIN p[n].items : p[n].items[i].form = "value"
\* A structure has its fields, an alias what it is for.
ASSUME ShapeAssumption ==
    \A p \in Programs, n \in Names :
        /\ p[n].kind = "struct" =>
              /\ p[n].typ = <<>>
              /\ \A i \in DOMAIN p[n].items : p[n].items[i].form \in {"type", "pointer", "size"}
        /\ p[n].kind = "aka" => p[n].typ = <<>> /\ Len(p[n].items) = 1 /\ p[n].items[1].form = "alias"
ASSUME NotNames           == {I32, Literal, Unknown, Array} \cap Names = {}

VARIABLES prog,    \* the program
          gen,     \* the generator of each symbol
          fields,  \* of each structure that is complete, the types of its fields
          list,    \* the global variables that are emitted
          names,   \* __names__: the variables whose value is being validated
          stack,   \* the symbols that are being validated, the last one on top
          answer,  \* what the one that was asked for has become
          thrown,  \* the module has an error
          done,    \* how many symbols of the module are validated
          outcome  \* "running", or why the compiler stopped

vars == <<prog, gen, fields, list, names, stack, answer, thrown, done, outcome>>

-----------------------------------------------------------------------------
(* Generators, and what an expression becomes. *)

Result(is, base, ptr) == [is |-> is, base |-> base, ptr |-> ptr, known |-> FALSE, reads |-> {}]

Empty   == Result("empty", I32, FALSE)
Failure == Result("failure", I32, FALSE)
None    == Result("none", I32, FALSE)        \* a value of type void
NoneType == Result("noneType", I32, FALSE)
Errors   == Result("errors", I32, FALSE)     \* ErrorType
Partial  == Result("partial", I32, FALSE)
Type(base, ptr) == Result("type", base, ptr)
Number   == [Result("value", I32, FALSE) EXCEPT !.known = TRUE]
Struct(n, complete) == [Result("struct", n, FALSE) EXCEPT !.known = complete]

Kind(n) == prog[n].kind
Local   == LocalOf(prog)

\* The expressions of a symbol: a variable that has a type is asked for its value
\* by the module only.
Todo(n, inModule) ==
    IF Kind(n) = "var" /\ prog[n].typ # <<>> /\ ~inModule THEN prog[n].typ
    ELSE prog[n].typ \o prog[n].items

Frame(n, inModule) ==
    [sym |-> n, in |-> inModule, todo |-> Todo(n, inModule), at |-> 1, try |-> 1,
     entered |-> FALSE, type |-> Empty, value |-> Empty, fields |-> <<>>, bad |-> FALSE]

Running == outcome = "running"
Top     == stack[Len(stack)]
Below   == SubSeq(stack, 1, Len(stack) - 1)
Active  == Running /\ stack # <<>>
Ended(f)   == f.at > Len(f.todo)
Current(f) == f.todo[f.at]
IsValue(f) == Kind(f.sym) = "var" /\ ~Ended(f) /\ Current(f).form = "value"

\* How an expression is looked at, one way after the other.
Attempts(form) ==
    CASE form \in {"type", "pointer"}             -> <<"type">>
      [] form \in {"value", "size", "compile"}    -> <<"value">>
      [] form = "alias"                           -> <<"value", "type", "type">>
      [] form = "try"                             -> <<"type", "value">>
Position(f) == Attempts(Current(f).form)[f.try]

\* In a pragma compile, errors are not printed.
Compiling == \E i \in DOMAIN stack :
                ~Ended(stack[i]) /\ Current(stack[i]).form = "compile"

-----------------------------------------------------------------------------
Init ==
    /\ prog \in Programs
    /\ gen = [n \in Names |-> Empty]
    /\ fields = [n \in Names |-> <<>>]
    /\ list = <<>> /\ names = <<>> /\ stack = <<>>
    /\ answer = Empty
    /\ thrown = FALSE /\ done = 0
    /\ outcome = "running"

\* Mutant: the value of a variable may name any other.
AnyDependency(n) == FALSE

\* A variable is not initialized from the value of another one.
Dependent(n) == Kind(n) = "var" /\ names # <<>> /\ ~prog[n].extern

Validated(n, inModule) == gen[n] # Empty /\ (Kind(n) = "var" => ~inModule)

\* A variable with neither type nor value, or an extern one with a value.
Malformed(n) ==
    Kind(n) = "var" /\ (prog[n].typ \o prog[n].items = <<>> \/ (prog[n].extern /\ prog[n].items # <<>>))

Refused(n, inModule) == Dependent(n) \/ (~Validated(n, inModule) /\ Malformed(n))

\* What a symbol that was validated is for the one who names it.
Stored(n) ==
    CASE Kind(n) = "struct" -> IF gen[n] \in {NoneType, Errors} THEN Failure ELSE Type(n, FALSE)
      [] Kind(n) = "enum"   -> IF gen[n].is = "type" THEN Type(n, FALSE) ELSE Failure
      [] OTHER              -> gen[n]

\* The errors that a pragma has kept are reported once.
Reported(n) == IF gen[n] = Errors /\ ~Compiling THEN [gen EXCEPT ![n] = NoneType] ELSE gen

\* What stops a symbol that names itself.
Started(n) ==
    CASE Kind(n) \in {"struct", "enum"} -> Partial
      [] Kind(n) = "aka"                -> None
      [] OTHER                          -> gen[n]

Refuse(n, inModule) ==
    /\ Refused(n, inModule)
    /\ answer' = Failure
    /\ UNCHANGED <<gen, stack, outcome>>
Answer(n, inModule) ==
    /\ ~Refused(n, inModule) /\ Validated(n, inModule)
    /\ answer' = Stored(n) /\ gen' = Reported(n)
    /\ UNCHANGED <<stack, outcome>>
Open(n, inModule) ==
    /\ ~Refused(n, inModule) /\ ~Validated(n, inModule)
    /\ Len(stack) < Depth
    /\ stack' = Append(stack, Frame(n, inModule))
    /\ gen' = [gen EXCEPT ![n] = Started(n)]
    /\ UNCHANGED <<answer, outcome>>
Overflow(n, inModule) ==
    /\ ~Refused(n, inModule) /\ ~Validated(n, inModule)
    /\ Len(stack) = Depth
    /\ outcome' = "overflow"
    /\ UNCHANGED <<stack, gen, answer>>

Require(n, inModule) ==
    Refuse(n, inModule) \/ Answer(n, inModule) \/ Open(n, inModule) \/ Overflow(n, inModule)

\* validateModule: the next symbol.
Begin ==
    /\ Running /\ stack = <<>> /\ answer = Empty /\ done < Len(Local)
    /\ \E n \in Names : Local[done + 1] = n /\ Require(n, TRUE)
    /\ UNCHANGED <<prog, fields, list, names, thrown, done>>

\* Its errors are kept, and the module goes on.
Collect ==
    /\ Running /\ stack = <<>> /\ answer # Empty
    /\ thrown' = (thrown \/ answer = Failure)
    /\ answer' = Empty /\ done' = done + 1
    /\ UNCHANGED <<prog, gen, fields, list, names, stack, outcome>>

-----------------------------------------------------------------------------
(* The expressions of the symbol on top of the stack. *)

Asking == Active /\ ~Ended(Top) /\ answer = Empty
Replace(f) == stack' = Append(Below, f)

EnterValue ==
    /\ Asking /\ IsValue(Top) /\ ~Top.entered
    /\ names' = Append(names, Top.sym)
    /\ Replace([Top EXCEPT !.entered = TRUE])
    /\ UNCHANGED <<prog, gen, fields, list, answer, thrown, done, outcome>>

Ready == Asking /\ (IsValue(Top) => Top.entered)

\* What is not a symbol of the program.
Builtin(of, position) ==
    CASE of = I32 /\ position = "type"      -> Type(I32, FALSE)
      [] of = Literal /\ position = "value" -> Number
      [] OTHER                              -> Failure

AskBuiltin ==
    /\ Ready /\ Current(Top).of \notin Names
    /\ answer' = Builtin(Current(Top).of, Position(Top))
    /\ UNCHANGED <<prog, gen, fields, list, names, stack, thrown, done, outcome>>

\* validateMultSymType has no case for a variable.
Impossible == Kind(Current(Top).of) = "var" /\ Position(Top) = "type"

AskSymbol ==
    /\ Ready /\ Current(Top).of \in Names /\ ~Impossible
    /\ Require(Current(Top).of, FALSE)
    /\ UNCHANGED <<prog, fields, list, names, thrown, done>>

Halt ==
    /\ Ready /\ Current(Top).of \in Names /\ Impossible
    /\ outcome' = "halted"
    /\ UNCHANGED <<prog, gen, fields, list, names, stack, answer, thrown, done>>

\* validateMultSym gives a structure as it is by now, and an enumeration.
Seen(of, position) ==
    IF position = "value" /\ answer.is = "type" /\ of \in Names /\ Kind(of) = "struct"
    THEN Struct(of, gen[of].is = "struct")
    ELSE IF position = "value" /\ answer.is = "type" /\ of \in Names /\ Kind(of) = "enum"
    THEN Result("value", of, FALSE)
    ELSE answer

\* A value whose type is the one of the others of an enumeration.
Initial(f, r) ==
    r.is = "value" /\ (Kind(f.sym) = "enum" /\ f.type # Empty => Type(r.base, r.ptr) = f.type)

Accepted(f, form, position, r) ==
    IF position = "type" THEN r.is \in {"type", "struct"}
    ELSE CASE form = "alias" -> r # Failure
           [] form = "size"  -> r.is = "value" /\ r.known
           [] OTHER          -> IF Kind(f.sym) = "func" THEN r.is \in {"value", "struct", "none"}
                                ELSE Initial(f, r)

\* The type that an expression stands for.
TypeOf(form, r) ==
    CASE form = "pointer" -> Type(r.base, TRUE)
      [] form = "size"    -> Type(Array, FALSE)
      [] OTHER            -> Type(r.base, r.ptr)

\* Mutant: a variable whose value is refused is not forgotten.
NamesKept(f) == names

NamesAfter(f) == IF f.entered THEN SubSeq(names, 1, Len(names) - 1) ELSE names

Answered == Active /\ ~Ended(Top) /\ answer # Empty
TopSeen  == Seen(Current(Top).of, Position(Top))
TopAccepted == Accepted(Top, Current(Top).form, Position(Top), TopSeen)

Following(f) == [f EXCEPT !.at = @ + 1, !.try = 1, !.entered = FALSE]

\* The result is the type of the symbol, the one of a field, or its value.
With(f, form, r) ==
    IF Kind(f.sym) = "struct" THEN [f EXCEPT !.fields = Append(@, TypeOf(form, r))]
    ELSE IF form \in {"type", "pointer", "size"} THEN [f EXCEPT !.type = TypeOf(form, r)]
    ELSE IF Kind(f.sym) = "enum" THEN [f EXCEPT !.type = Type(r.base, r.ptr)]
    ELSE [f EXCEPT !.value = r]

Accept ==
    /\ Answered /\ TopAccepted
    /\ names' = NamesAfter(Top)
    /\ Replace(With(Following(Top), Current(Top).form, TopSeen))
    /\ answer' = Empty
    /\ UNCHANGED <<prog, gen, fields, list, thrown, done, outcome>>

Retry ==
    /\ Answered /\ ~TopAccepted
    /\ Top.try < Len(Attempts(Current(Top).form))
    /\ Replace([Top EXCEPT !.try = @ + 1])
    /\ answer' = Empty
    /\ UNCHANGED <<prog, gen, fields, list, names, thrown, done, outcome>>

Rejected == Answered /\ ~TopAccepted /\ Top.try = Len(Attempts(Current(Top).form))

\* The errors of a field or of a statement are kept, and the next one is
\* validated; those of the type of an enumeration end it.
Keeps(f) == Kind(f.sym) \in {"struct", "enum", "func"}
Continued(f) ==
    IF Current(f).form = "compile" THEN Following(f)
    ELSE IF Kind(f.sym) = "enum" /\ Current(f).form = "type"
    THEN [f EXCEPT !.at = Len(f.todo) + 1, !.bad = TRUE]
    ELSE [Following(f) EXCEPT !.bad = TRUE]

Continue ==
    /\ Rejected /\ Keeps(Top)
    /\ Replace(Continued(Top))
    /\ answer' = Empty
    /\ UNCHANGED <<prog, gen, fields, list, names, thrown, done, outcome>>

\* Those of a variable or of an alias are thrown.
Throw ==
    /\ Rejected /\ ~Keeps(Top)
    /\ names' = NamesAfter(Top)
    /\ stack' = Below
    /\ answer' = Failure
    /\ UNCHANGED <<prog, gen, fields, list, thrown, done, outcome>>

-----------------------------------------------------------------------------
(* The end of a symbol. *)

Ending(kind) == Active /\ Ended(Top) /\ Kind(Top.sym) = kind

Becomes(r) == gen' = [gen EXCEPT ![Top.sym] = r]

\* The type of a variable is the one it has, or the one of its value.
VarType(f) == IF f.type # Empty THEN f.type ELSE Type(f.value.base, f.value.ptr)
Compatible(f) == f.value # Empty => VarType(f) = Type(f.value.base, f.value.ptr)

\* Mutant: what is used is defined.
ExternalIfDeclared(f) == prog[f.sym].extern

External(f) == ~f.in \/ prog[f.sym].extern

Global(f) ==
    [name |-> f.sym, external |-> External(f), type |-> VarType(f),
     valued |-> f.value # Empty, reads |-> f.value.reads]
VarRef(f) == [Result("value", VarType(f).base, VarType(f).ptr)
                 EXCEPT !.known = f.value.known, !.reads = {f.sym}]

EndVar ==
    /\ Ending("var") /\ Compatible(Top)
    /\ list' = Append(list, Global(Top))
    /\ Becomes(VarRef(Top)) /\ answer' = VarRef(Top)
    /\ stack' = Below
    /\ UNCHANGED <<prog, fields, names, thrown, done, outcome>>

EndVarRefused ==
    /\ Ending("var") /\ ~Compatible(Top)
    /\ answer' = Failure
    /\ stack' = Below
    /\ UNCHANGED <<prog, gen, fields, list, names, thrown, done, outcome>>

EndAka ==
    /\ Ending("aka")
    /\ Becomes(Top.value) /\ answer' = Top.value
    /\ stack' = Below
    /\ UNCHANGED <<prog, fields, list, names, thrown, done, outcome>>

\* In a pragma the errors are kept, for the one who asks again.
Incomplete == IF Kind(Top.sym) = "struct" /\ Compiling THEN Errors ELSE NoneType

EndStruct ==
    /\ Ending("struct")
    /\ IF Top.bad
       THEN Becomes(Incomplete) /\ answer' = Failure /\ UNCHANGED fields
       ELSE /\ Becomes(Struct(Top.sym, TRUE)) /\ answer' = Type(Top.sym, FALSE)
            /\ fields' = [fields EXCEPT ![Top.sym] = Top.fields]
    /\ stack' = Below
    /\ UNCHANGED <<prog, list, names, thrown, done, outcome>>

\* An enumeration without a field is refused.
EndEnum ==
    /\ Ending("enum")
    /\ IF Top.bad \/ prog[Top.sym].items = <<>>
       THEN Becomes(Incomplete) /\ answer' = Failure
       ELSE Becomes(Top.type) /\ answer' = Type(Top.sym, FALSE)
    /\ stack' = Below
    /\ UNCHANGED <<prog, fields, list, names, thrown, done, outcome>>

EndFunc ==
    /\ Ending("func")
    /\ answer' = IF Top.bad THEN Failure ELSE None
    /\ stack' = Below
    /\ UNCHANGED <<prog, gen, fields, list, names, thrown, done, outcome>>

-----------------------------------------------------------------------------
Next ==
    \/ Begin \/ Collect
    \/ EnterValue \/ AskBuiltin \/ AskSymbol \/ Halt
    \/ Accept \/ Retry \/ Continue \/ Throw
    \/ EndVar \/ EndVarRefused \/ EndAka \/ EndStruct \/ EndEnum \/ EndFunc

Spec == Init /\ [][Next]_vars

ModuleEnded == done = Len(Local)

-----------------------------------------------------------------------------
\* __names__ is pushed and popped by hand around a validation that may throw and
\* may come back to other variables: it holds the variable whose value is being
\* validated and nothing else, so that the next one is not refused for the last
\* (Visitor_symbols.cc:46).
OneValueAtATime ==
    /\ Len(names) <= 1
    /\ \A i \in DOMAIN names :
          \E j \in DOMAIN stack : stack[j].sym = names[i] /\ stack[j].entered
    /\ \A j \in DOMAIN stack : stack[j].entered => names = <<stack[j].sym>>
=============================================================================
