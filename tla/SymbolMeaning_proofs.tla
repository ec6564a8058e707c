------------------------ MODULE SymbolMeaning_proofs -------------------------
(***************************************************************************)
(* What holds of the symbols of every program, in three parts.             *)
(*                                                                         *)
(* One value of a global variable is validated at a time: __names__ is     *)
(* exact although it is pushed and popped by hand (IInv).                  *)
(*                                                                         *)
(* A module that compiles has defined each of its global variables once,   *)
(* with the type that all of its declarations have.  A variable is listed  *)
(* when it is used, when the module comes to it, or both, in any order,    *)
(* and its type is read again from generators that change in between.  The *)
(* invariant says what a generator that has settled gives from then on     *)
(* (TypesFit), what an answer may be (AnswersFit), and which symbol of the *)
(* module each definition is of (Defined); Chained relates the stack to    *)
(* the module that started it.                                             *)
(*                                                                         *)
(* The structures are laid out exactly.  The third part follows the types  *)
(* of the fields from the program to the generators (ShapesFit), and from  *)
(* those to the layouts, where the structures that are open lead to each   *)
(* other (Nested).  A structure gets its layout after those of its fields  *)
(* by value (ContainInv), so that one that contains itself gets none.      *)
(***************************************************************************)
EXTENDS SymbolMeaning, SequenceTheorems, FiniteSetTheorems, TLAPS

-----------------------------------------------------------------------------
(* The values under validation. *)

Results == [is : {"empty", "failure", "none", "noneType", "errors", "partial", "type", "value", "struct"},
            base : Names \cup {I32, Array}, ptr : BOOLEAN, known : BOOLEAN, reads : SUBSET Names]

Frames == [sym : Names, in : BOOLEAN, todo : Seq(Item), at : Nat, try : Nat,
           entered : BOOLEAN, type : Results, value : Results, fields : Seq(Results),
           bad : BOOLEAN]

Typed ==
    /\ prog \in [Names -> Symbol]
    /\ gen \in [Names -> Results]
    /\ names \in Seq(Names)
    /\ stack \in Seq(Frames)
    /\ answer \in Results
    /\ done \in Nat

\* A variable that may still have a value to validate.
Valued(f) == Kind(f.sym) = "var" /\ prog[f.sym].items # <<>>

FramesAreRight ==
    \A i \in DOMAIN stack :
        /\ stack[i].todo = Todo(stack[i].sym, stack[i].in)
        /\ stack[i].at > 0
        /\ stack[i].entered => IsValue(stack[i])

\* No variable with a value is above one whose value is being validated.
NoneAbove ==
    \A i \in DOMAIN stack : stack[i].entered =>
        \A j \in DOMAIN stack : j > i => ~Valued(stack[j])

Shape == FramesAreRight /\ NoneAbove /\ OneValueAtATime
IInv  == Typed /\ Shape

-----------------------------------------------------------------------------
(* The stack. *)

LEMMA FrontOf ==
    ASSUME NEW S, NEW s \in Seq(S), s # <<>>
    PROVE  /\ Len(s) \in Nat \ {0}
           /\ s[Len(s)] \in S
           /\ SubSeq(s, 1, Len(s) - 1) \in Seq(S)
           /\ Len(SubSeq(s, 1, Len(s) - 1)) = Len(s) - 1
           /\ \A i \in 1 .. Len(s) - 1 : SubSeq(s, 1, Len(s) - 1)[i] = s[i]
<1>1. Len(s) \in Nat \ {0} /\ DOMAIN s = 1 .. Len(s)
  OBVIOUS
<1>2. s[Len(s)] \in S
  BY <1>1
<1>3. \A i \in 1 .. Len(s) - 1 : s[i] \in S
  BY <1>1
<1>4. /\ SubSeq(s, 1, Len(s) - 1) \in Seq(S)
      /\ Len(SubSeq(s, 1, Len(s) - 1)) = Len(s) - 1
      /\ \A i \in 1 .. Len(s) - 1 : SubSeq(s, 1, Len(s) - 1)[i] = s[i]
  BY <1>1, <1>3
<1> QED BY <1>1, <1>2, <1>4

LEMMA TopTyped ==
    ASSUME Typed, stack # <<>>
    PROVE  /\ Len(stack) \in Nat \ {0}
           /\ Top \in Frames
           /\ Below \in Seq(Frames)
           /\ Len(Below) = Len(stack) - 1
           /\ \A i \in 1 .. Len(stack) - 1 : Below[i] = stack[i]
           /\ DOMAIN stack = 1 .. Len(stack)
           /\ DOMAIN Below = 1 .. Len(stack) - 1
<1>1. stack \in Seq(Frames)
  BY DEF Typed
<1>2. /\ Len(stack) \in Nat \ {0}
      /\ Top \in Frames
      /\ Below \in Seq(Frames)
      /\ Len(Below) = Len(stack) - 1
      /\ \A i \in 1 .. Len(stack) - 1 : Below[i] = stack[i]
  BY <1>1, FrontOf DEF Top, Below
<1>3. \A s \in Seq(Frames) : DOMAIN s = 1 .. Len(s)
  OBVIOUS
<1> QED BY <1>1, <1>2, <1>3

LEMMA Replaced ==
    ASSUME Typed, stack # <<>>, NEW f \in Frames
    PROVE  /\ Append(Below, f) \in Seq(Frames)
           /\ DOMAIN Append(Below, f) = DOMAIN stack
           /\ Append(Below, f)[Len(stack)] = f
           /\ \A i \in DOMAIN stack : i # Len(stack) => Append(Below, f)[i] = stack[i]
<1>1. Len(Append(Below, f)) = Len(stack) /\ Append(Below, f) \in Seq(Frames)
  BY TopTyped
<1>2. Append(Below, f)[Len(stack)] = f
  BY TopTyped
<1>3. ASSUME NEW i \in DOMAIN stack, i # Len(stack)
      PROVE  Append(Below, f)[i] = stack[i]
  <2>1. i \in 1 .. Len(Below)
    BY <1>3, TopTyped
  <2>2. Append(Below, f)[i] = Below[i]
    BY <2>1, TopTyped
  <2> QED BY <2>1, <2>2, TopTyped
<1> QED BY <1>1, <1>2, <1>3, TopTyped

LEMMA Pushed ==
    ASSUME Typed, NEW f \in Frames
    PROVE  /\ Append(stack, f) \in Seq(Frames)
           /\ DOMAIN Append(stack, f) = 1 .. Len(stack) + 1
           /\ Append(stack, f)[Len(stack) + 1] = f
           /\ \A i \in 1 .. Len(stack) : Append(stack, f)[i] = stack[i]
           /\ Len(stack) \in Nat
           /\ DOMAIN stack = 1 .. Len(stack)
BY DEF Typed

\* The type of a variable is not a value.
LEMMA TypesHaveNoValue ==
    ASSUME Typed, NEW n \in Names, NEW b \in BOOLEAN, prog[n].items = <<>>,
           NEW i \in DOMAIN Todo(n, b)
    PROVE  Todo(n, b)[i].form # "value"
<1>1. prog[n] \in Symbol
  BY DEF Typed
<1>2. prog[n].typ \in Seq(TypeItem) /\ prog[n].typ \o <<>> = prog[n].typ
  BY <1>1 DEF Symbol
<1>3. Todo(n, b) = prog[n].typ
  BY <1>2 DEF Todo
<1>4. Todo(n, b)[i] \in TypeItem
  BY <1>2, <1>3
<1> QED BY <1>4 DEF TypeItem

LEMMA EnteredIsValued ==
    ASSUME Typed, NEW f \in Frames, IsValue(f), f.todo = Todo(f.sym, f.in), f.at > 0
    PROVE  Valued(f)
<1>1. f.sym \in Names /\ f.in \in BOOLEAN /\ f.todo \in Seq(Item) /\ f.at \in Nat
  BY DEF Frames
<1>2. f.at \in DOMAIN Todo(f.sym, f.in) /\ Todo(f.sym, f.in)[f.at].form = "value"
  BY <1>1 DEF IsValue, Ended, Current
<1> QED BY <1>1, <1>2, TypesHaveNoValue DEF Valued, IsValue

\* The one frame that is entered.
LEMMA OneEntered ==
    ASSUME IInv, NEW i \in DOMAIN stack, NEW j \in DOMAIN stack,
           stack[i].entered, stack[j].entered
    PROVE  i = j
<1>1. Valued(stack[i]) /\ Valued(stack[j])
  <2>1. \A k \in DOMAIN stack : stack[k] \in Frames
    BY DEF IInv, Typed
  <2> QED BY <2>1, EnteredIsValued DEF IInv, Shape, FramesAreRight
<1>2. ~(j > i) /\ ~(i > j)
  BY <1>1 DEF IInv, Shape, NoneAbove
<1>3. i \in Nat /\ j \in Nat
  <2>1. stack \in Seq(Frames)
    BY DEF IInv, Typed
  <2> QED BY <2>1
<1> QED BY <1>2, <1>3

-----------------------------------------------------------------------------
(* What a step does to the stack keeps it right. *)

LEMMA ReplacingKeeps ==
    ASSUME IInv, stack # <<>>, NEW f \in Frames,
           f.sym = Top.sym, f.in = Top.in, f.todo = Top.todo, f.at > 0,
           f.entered => IsValue(f),
           f.entered /\ ~Top.entered => names = <<>>,
           stack' = Append(Below, f), prog' = prog,
           names' = IF f.entered THEN <<f.sym>> ELSE IF Top.entered THEN <<>> ELSE names
    PROVE  Shape'
<1> DEFINE n == Len(stack)
<1>1. /\ n \in DOMAIN stack /\ stack[n] = Top /\ DOMAIN stack' = DOMAIN stack
      /\ stack'[n] = f
      /\ \A i \in DOMAIN stack : i # n => stack'[i] = stack[i]
      /\ \A i \in DOMAIN stack : i \in Nat /\ i <= n
      /\ n \in Nat
  BY TopTyped, Replaced DEF IInv, Top
<1> HIDE DEF n
<1>2. FramesAreRight'
  <2> SUFFICES ASSUME NEW i \in DOMAIN stack
               PROVE  (/\ stack[i].todo = Todo(stack[i].sym, stack[i].in)
                       /\ stack[i].at > 0
                       /\ stack[i].entered => IsValue(stack[i]))'
    BY <1>1 DEF FramesAreRight
  <2>1. /\ stack[i].todo = Todo(stack[i].sym, stack[i].in) /\ stack[i].at > 0
        /\ stack[i].entered => IsValue(stack[i])
        /\ Top.todo = Todo(Top.sym, Top.in)
    BY <1>1 DEF IInv, Shape, FramesAreRight
  <2>2. CASE i = n
    BY <2>1, <2>2, <1>1 DEF Todo, IsValue, Kind, Ended, Current
  <2>3. CASE i # n
    BY <2>1, <2>3, <1>1 DEF Todo, IsValue, Kind, Ended, Current
  <2> QED BY <2>2, <2>3
<1>3. NoneAbove'
  <2> SUFFICES ASSUME NEW i \in DOMAIN stack, stack'[i].entered,
                      NEW j \in DOMAIN stack, j > i
               PROVE  ~Valued(stack[j])'
    BY <1>1 DEF NoneAbove
  <2>1. i # n /\ stack'[i] = stack[i]
    BY <1>1
  <2>2. ~Valued(stack[j])
    BY <2>1 DEF IInv, Shape, NoneAbove
  <2>3. Valued(stack[j])' <=> Valued(stack[j])
    BY <1>1 DEF Valued, Kind
  <2> QED BY <2>2, <2>3
<1>4. \A i \in DOMAIN stack : stack[i].entered => names = <<stack[i].sym>>
  BY DEF IInv, Shape, OneValueAtATime
<1>5. OneValueAtATime'
  <2>1. CASE f.entered
    <3>1. \A i \in DOMAIN stack : i # n => ~stack[i].entered
      <4>1. CASE Top.entered
        BY <4>1, <1>1, OneEntered
      <4>2. CASE ~Top.entered
        <5>1. names = <<>>
          BY <2>1, <4>2
        <5>2. \A i \in DOMAIN stack : <<stack[i].sym>> # <<>>
          OBVIOUS
        <5> QED BY <5>1, <5>2, <1>4
      <4> QED BY <4>1, <4>2
    <3>2. names' = <<f.sym>>
      BY <2>1
    <3> QED BY <2>1, <3>1, <3>2, <1>1 DEF OneValueAtATime
  <2>2. CASE ~f.entered /\ Top.entered
    <3>1. \A i \in DOMAIN stack : i # n => ~stack[i].entered
      BY <2>2, <1>1, OneEntered
    <3>2. names' = <<>>
      BY <2>2
    <3> QED BY <2>2, <3>1, <3>2, <1>1 DEF OneValueAtATime
  <2>3. CASE ~f.entered /\ ~Top.entered
    <3>1. names' = names
      BY <2>3
    <3> QED BY <2>3, <3>1, <1>1 DEF OneValueAtATime, IInv, Shape
  <2> QED BY <2>1, <2>2, <2>3
<1> QED BY <1>2, <1>3, <1>5 DEF Shape

LEMMA PoppingKeeps ==
    ASSUME IInv, stack # <<>>, stack' = Below, prog' = prog,
           names' = IF Top.entered THEN <<>> ELSE names
    PROVE  Shape'
<1> DEFINE n == Len(stack)
<1>1. /\ n \in DOMAIN stack /\ stack[n] = Top /\ DOMAIN stack' = DOMAIN stack \ {n}
      /\ \A i \in DOMAIN stack' : i \in DOMAIN stack /\ i # n /\ stack'[i] = stack[i]
      /\ \A i \in DOMAIN stack : i # n => i \in DOMAIN stack'
  BY TopTyped DEF IInv, Top
<1> HIDE DEF n
<1>2. FramesAreRight'
  BY <1>1 DEF IInv, Shape, FramesAreRight, Todo, IsValue, Kind, Ended, Current
<1>3. NoneAbove'
  BY <1>1 DEF IInv, Shape, NoneAbove, Valued, Kind
<1>4. OneValueAtATime'
  <2>1. CASE Top.entered
    <3>1. \A i \in DOMAIN stack : i # n => ~stack[i].entered
      BY <2>1, <1>1, OneEntered
    <3> QED BY <2>1, <3>1, <1>1 DEF OneValueAtATime
  <2>2. CASE ~Top.entered
    BY <2>2, <1>1 DEF OneValueAtATime, IInv, Shape
  <2> QED BY <2>1, <2>2
<1> QED BY <1>2, <1>3, <1>4 DEF Shape

LEMMA PushingKeeps ==
    ASSUME IInv, NEW f \in Frames,
           f.todo = Todo(f.sym, f.in), f.at > 0, ~f.entered, names # <<>> => ~Valued(f),
           stack' = Append(stack, f), prog' = prog, names' = names
    PROVE  Shape'
<1> DEFINE n == Len(stack) + 1
<1>1. /\ DOMAIN stack' = DOMAIN stack \cup {n} /\ n \notin DOMAIN stack
      /\ stack'[n] = f
      /\ \A i \in DOMAIN stack : stack'[i] = stack[i]
  BY Pushed DEF IInv
<1>2. \A i \in DOMAIN stack' : i \in Nat /\ i <= n
  BY Pushed DEF IInv
<1> HIDE DEF n
<1>3. FramesAreRight'
  BY <1>1 DEF IInv, Shape, FramesAreRight, Todo, IsValue, Kind, Ended, Current
<1>4. NoneAbove'
  <2> SUFFICES ASSUME NEW i \in DOMAIN stack', stack'[i].entered,
                      NEW j \in DOMAIN stack', j > i
               PROVE  ~Valued(stack[j])'
    BY DEF NoneAbove
  <2>1. i \in DOMAIN stack /\ stack'[i] = stack[i] /\ names # <<>>
    BY <1>1 DEF IInv, Shape, OneValueAtATime
  <2>2. Valued(stack[j])' <=> IF j \in DOMAIN stack THEN Valued(stack[j]) ELSE Valued(f)
    BY <1>1 DEF Valued, Kind
  <2> QED BY <2>1, <2>2, <1>1 DEF IInv, Shape, NoneAbove
<1>5. OneValueAtATime'
  BY <1>1 DEF IInv, Shape, OneValueAtATime
<1> QED BY <1>3, <1>4, <1>5 DEF Shape

-----------------------------------------------------------------------------
(* The types of what the actions compute. *)

LEMMA ResultsAreTyped ==
    /\ Empty \in Results /\ Failure \in Results /\ None \in Results /\ NoneType \in Results
    /\ Errors \in Results /\ Partial \in Results /\ Number \in Results
    /\ \A n \in Names \cup {I32, Array} : \A p \in BOOLEAN :
          Type(n, p) \in Results /\ Result("value", n, p) \in Results /\ Struct(n, p) \in Results
BY DEF Results, Result, Empty, Failure, None, NoneType, Errors, Partial, Number, Type, Struct

LEMMA FrameTyped ==
    ASSUME Typed, NEW n \in Names, NEW b \in BOOLEAN
    PROVE  /\ Frame(n, b) \in Frames
           /\ Frame(n, b).sym = n /\ Frame(n, b).in = b
           /\ Frame(n, b).todo = Todo(n, b) /\ Frame(n, b).at = 1 /\ ~Frame(n, b).entered
<1>1. prog[n] \in Symbol
  BY DEF Typed
<1>2. prog[n].typ \in Seq(TypeItem) /\ prog[n].items \in Seq(Item) /\ TypeItem \subseteq Item
  BY <1>1 DEF Symbol, TypeItem, Item
<1>3. prog[n].typ \in Seq(Item) /\ prog[n].typ \o prog[n].items \in Seq(Item)
  BY <1>2
<1>4. Todo(n, b) \in Seq(Item)
  BY <1>3 DEF Todo
<1> QED BY <1>4, ResultsAreTyped DEF Frame, Frames

LEMMA SeenTyped ==
    ASSUME Typed, NEW of, NEW position
    PROVE  Seen(of, position) \in Results
BY ResultsAreTyped DEF Typed, Seen

LEMMA BuiltinTyped == \A of, position : Builtin(of, position) \in Results
BY ResultsAreTyped DEF Builtin

LEMMA StoredTyped ==
    ASSUME Typed, NEW n \in Names
    PROVE  Stored(n) \in Results /\ Started(n) \in Results /\ Reported(n) \in [Names -> Results]
BY ResultsAreTyped DEF Typed, Stored, Started, Reported

LEMMA TypeOfTyped ==
    ASSUME NEW r \in Results, NEW form
    PROVE  TypeOf(form, r) \in Results
<1>1. r.base \in Names \cup {I32, Array} /\ r.ptr \in BOOLEAN
  BY DEF Results
<1> QED BY <1>1, ResultsAreTyped DEF TypeOf

-----------------------------------------------------------------------------
(* Each action. *)

LEMMA SameStack ==
    ASSUME IInv, UNCHANGED <<prog, names, stack>>
    PROVE  Shape'
BY DEF IInv, Shape, FramesAreRight, NoneAbove, OneValueAtATime, Todo, IsValue, Kind, Ended,
       Current, Valued

LEMMA RequireKeeps ==
    ASSUME IInv, NEW n \in Names, NEW b \in BOOLEAN, Require(n, b), answer \in Results,
           UNCHANGED <<prog, names, done>>
    PROVE  IInv'
<1>1. CASE Refuse(n, b)
  <2>1. Typed'
    BY <1>1, ResultsAreTyped DEF Refuse, IInv, Typed
  <2> QED BY <1>1, <2>1, SameStack DEF Refuse, IInv
<1>2. CASE Answer(n, b)
  <2>1. Typed'
    BY <1>2, StoredTyped DEF Answer, IInv, Typed
  <2> QED BY <1>2, <2>1, SameStack DEF Answer, IInv
<1>3. CASE Open(n, b)
  <2> DEFINE f == Frame(n, b)
  <2>1. /\ f \in Frames /\ f.sym = n /\ f.todo = Todo(f.sym, f.in) /\ f.at > 0 /\ ~f.entered
    BY FrameTyped DEF IInv
  <2>2. names # <<>> => ~Valued(f)
    BY <1>3, <2>1 DEF Open, Refused, Dependent, Malformed, Valued
  <2>3. stack' = Append(stack, f) /\ gen' = [gen EXCEPT ![n] = Started(n)]
        /\ UNCHANGED <<prog, names, done, answer>>
    BY <1>3 DEF Open
  <2> HIDE DEF f
  <2>4. Shape'
    BY <2>1, <2>2, <2>3, PushingKeeps
  <2>5. Typed'
    BY <2>1, <2>3, StoredTyped, Pushed DEF IInv, Typed
  <2> QED BY <2>4, <2>5 DEF IInv
<1>4. CASE Overflow(n, b)
  <2>1. Typed'
    BY <1>4 DEF Overflow, IInv, Typed
  <2> QED BY <1>4, <2>1, SameStack DEF Overflow, IInv
<1> QED BY <1>1, <1>2, <1>3, <1>4 DEF Require

LEMMA TopIsRight ==
    ASSUME IInv, Active
    PROVE  /\ stack # <<>> /\ Top \in Frames /\ Top.sym \in Names /\ Top.in \in BOOLEAN
           /\ Top.at \in Nat /\ Top.at > 0 /\ Top.todo \in Seq(Item) /\ Top.entered \in BOOLEAN
           /\ Top.entered => IsValue(Top) /\ names = <<Top.sym>>
           /\ ~Top.entered => NamesAfter(Top) = names
           /\ Top.entered => NamesAfter(Top) = <<>>
<1>1. stack # <<>> /\ Top \in Frames /\ Top = stack[Len(stack)] /\ Len(stack) \in DOMAIN stack
  BY TopTyped DEF IInv, Active, Top
<1>2. /\ Top.sym \in Names /\ Top.in \in BOOLEAN /\ Top.at \in Nat /\ Top.todo \in Seq(Item)
      /\ Top.entered \in BOOLEAN
  BY <1>1 DEF Frames
<1>3. Top.at > 0 /\ (Top.entered => IsValue(Top) /\ names = <<Top.sym>>)
  BY <1>1 DEF IInv, Shape, FramesAreRight, OneValueAtATime
<1>4. \A x : SubSeq(<<x>>, 1, Len(<<x>>) - 1) = <<>>
  OBVIOUS
<1> QED BY <1>1, <1>2, <1>3, <1>4 DEF NamesAfter

LEMMA BeginKeeps == IInv /\ Begin => IInv'
<1> SUFFICES ASSUME IInv, Begin PROVE IInv'
  OBVIOUS
<1>1. PICK n \in Names : Require(n, TRUE)
  BY DEF Begin
<1> QED BY <1>1, RequireKeeps DEF Begin, IInv, Typed

LEMMA CollectKeeps == IInv /\ Collect => IInv'
<1> SUFFICES ASSUME IInv, Collect PROVE IInv'
  OBVIOUS
<1>1. Typed'
  BY ResultsAreTyped DEF IInv, Typed, Collect
<1> QED BY <1>1, SameStack DEF IInv, Collect

LEMMA EnterValueKeeps == IInv /\ EnterValue => IInv'
<1> SUFFICES ASSUME IInv, EnterValue PROVE IInv'
  OBVIOUS
<1> DEFINE f == [Top EXCEPT !.entered = TRUE]
<1>1. Active /\ IsValue(Top) /\ ~Top.entered
  BY DEF EnterValue, Asking
<1>2. /\ f \in Frames /\ f.sym = Top.sym /\ f.in = Top.in /\ f.todo = Top.todo /\ f.at = Top.at
      /\ f.entered /\ f.at > 0
  BY <1>1, TopIsRight DEF Frames
<1>3. IsValue(f)
  BY <1>1, <1>2 DEF IsValue, Ended, Current
<1>4. Valued(Top)
  <2>1. Len(stack) \in DOMAIN stack /\ Top = stack[Len(stack)]
    BY <1>1, TopTyped DEF IInv, Active, Top
  <2>2. Top.todo = Todo(Top.sym, Top.in)
    BY <2>1 DEF IInv, Shape, FramesAreRight
  <2> QED BY <1>1, <2>2, TopIsRight, EnteredIsValued DEF IInv
<1>5. names = <<>>
  <2> SUFFICES ASSUME names # <<>> PROVE FALSE
    OBVIOUS
  <2>1. 1 \in DOMAIN names
    BY DEF IInv, Typed
  <2>2. PICK j \in DOMAIN stack : stack[j].entered
    BY <2>1 DEF IInv, Shape, OneValueAtATime
  <2>3. Len(stack) \in DOMAIN stack /\ Top = stack[Len(stack)] /\ Len(stack) > j
    BY <1>1, <2>2, TopTyped DEF IInv, Active, Top
  <2> QED BY <1>4, <2>2, <2>3 DEF IInv, Shape, NoneAbove
<1>6. /\ stack # <<>> /\ stack' = Append(Below, f) /\ prog' = prog /\ names' = <<f.sym>>
      /\ UNCHANGED <<gen, answer, done>>
  BY <1>1, <1>2, <1>5 DEF EnterValue, Replace, Active
<1> HIDE DEF f
<1>7. Shape'
  BY <1>2, <1>3, <1>5, <1>6, ReplacingKeeps
<1>8. Typed'
  <2>1. stack' \in Seq(Frames)
    BY <1>2, <1>6, Replaced DEF IInv
  <2>2. names' \in Seq(Names)
    BY <1>1, <1>2, <1>6, TopIsRight
  <2> QED BY <2>1, <2>2, <1>6 DEF IInv, Typed
<1> QED BY <1>7, <1>8 DEF IInv

LEMMA AskBuiltinKeeps == IInv /\ AskBuiltin => IInv'
<1> SUFFICES ASSUME IInv, AskBuiltin PROVE IInv'
  OBVIOUS
<1>1. Typed'
  BY BuiltinTyped DEF IInv, Typed, AskBuiltin
<1> QED BY <1>1, SameStack DEF IInv, AskBuiltin

LEMMA AskSymbolKeeps == IInv /\ AskSymbol => IInv'
<1> SUFFICES ASSUME IInv, AskSymbol PROVE IInv'
  OBVIOUS
<1>1. Current(Top).of \in Names /\ Require(Current(Top).of, FALSE)
  BY DEF AskSymbol
<1> QED BY <1>1, RequireKeeps DEF AskSymbol, IInv, Typed

LEMMA HaltKeeps == IInv /\ Halt => IInv'
<1> SUFFICES ASSUME IInv, Halt PROVE IInv'
  OBVIOUS
<1>1. Typed'
  BY DEF IInv, Typed, Halt
<1> QED BY <1>1, SameStack DEF IInv, Halt

\* The frame on top is replaced by one that has not entered its value.
LEMMA ReplaceKeeps ==
    ASSUME IInv, Active, NEW f \in Frames,
           f.sym = Top.sym, f.in = Top.in, f.todo = Top.todo, f.at > 0, ~f.entered,
           Replace(f), names' = NamesAfter(Top), answer' = Empty,
           UNCHANGED <<prog, gen, done>>
    PROVE  IInv'
<1>1. Shape'
  BY TopIsRight, ReplacingKeeps DEF Replace
<1>2. stack' \in Seq(Frames)
  BY TopIsRight, Replaced DEF IInv, Replace
<1>3. names' \in Seq(Names)
  <2>1. <<>> \in Seq(Names)
    OBVIOUS
  <2> QED BY <2>1, TopIsRight DEF IInv, Typed
<1>4. Typed'
  BY <1>2, <1>3, ResultsAreTyped DEF IInv, Typed
<1> QED BY <1>1, <1>4 DEF IInv

\* The symbol on top is validated, and its frame popped.
LEMMA PopKeeps ==
    ASSUME IInv, Active, stack' = Below, names' = NamesAfter(Top), prog' = prog, done' = done,
           answer' \in Results, gen' \in [Names -> Results]
    PROVE  IInv'
<1>1. Shape'
  BY TopIsRight, PoppingKeeps
<1>2. stack' \in Seq(Frames)
  BY TopIsRight, TopTyped DEF IInv
<1>3. names' \in Seq(Names)
  <2>1. <<>> \in Seq(Names)
    OBVIOUS
  <2> QED BY <2>1, TopIsRight DEF IInv, Typed
<1>4. Typed'
  BY <1>2, <1>3 DEF IInv, Typed
<1> QED BY <1>1, <1>4 DEF IInv

LEMMA FollowingTyped ==
    ASSUME NEW f \in Frames
    PROVE  LET g == Following(f)
           IN  /\ g \in Frames /\ g.sym = f.sym /\ g.in = f.in /\ g.todo = f.todo
               /\ g.at = f.at + 1 /\ ~g.entered
<1>1. f.at + 1 \in Nat
  BY DEF Frames
<1> DEFINE a == [f EXCEPT !.at = f.at + 1]
           b == [a EXCEPT !.try = 1]
           g == [b EXCEPT !.entered = FALSE]
<1>2. a \in Frames /\ a.sym = f.sym /\ a.in = f.in /\ a.todo = f.todo /\ a.at = f.at + 1
  BY <1>1 DEF Frames
<1> HIDE DEF a
<1>3. b \in Frames /\ b.sym = a.sym /\ b.in = a.in /\ b.todo = a.todo /\ b.at = a.at
  BY <1>2 DEF Frames
<1> HIDE DEF b
<1>4. g \in Frames /\ g.sym = b.sym /\ g.in = b.in /\ g.todo = b.todo /\ g.at = b.at /\ ~g.entered
  BY <1>3 DEF Frames
<1>5. Following(f) = g
  BY DEF Following, a, b
<1> HIDE DEF g
<1> QED BY <1>2, <1>3, <1>4, <1>5

LEMMA WithTyped ==
    ASSUME NEW f \in Frames, NEW form, NEW r \in Results
    PROVE  LET g == With(f, form, r)
           IN  /\ g \in Frames /\ g.sym = f.sym /\ g.in = f.in /\ g.todo = f.todo
               /\ g.at = f.at /\ g.entered = f.entered
<1>1. TypeOf(form, r) \in Results /\ Type(r.base, r.ptr) \in Results
  <2>1. r.base \in Names \cup {I32, Array} /\ r.ptr \in BOOLEAN
    BY DEF Results
  <2> QED BY <2>1, ResultsAreTyped, TypeOfTyped
<1>2. \A t \in Results : Append(f.fields, t) \in Seq(Results)
  BY DEF Frames
<1> DEFINE t == TypeOf(form, r)  u == Type(r.base, r.ptr)
<1>3. /\ t \in Results /\ u \in Results /\ Append(f.fields, t) \in Seq(Results)
  BY <1>1, <1>2
<1>4. With(f, form, r) \in {[f EXCEPT !.fields = Append(@, t)], [f EXCEPT !.type = t],
                             [f EXCEPT !.type = u], [f EXCEPT !.value = r]}
  BY DEF With
<1> HIDE DEF t, u
<1> QED BY <1>3, <1>4 DEF Frames

LEMMA AcceptKeeps == IInv /\ Accept => IInv'
<1> SUFFICES ASSUME IInv, Accept PROVE IInv'
  OBVIOUS
<1> DEFINE f == With(Following(Top), Current(Top).form, TopSeen)
<1>1. Active
  BY DEF Accept, Answered
<1>2. TopSeen \in Results
  BY SeenTyped DEF TopSeen, IInv
<1>3. /\ f \in Frames /\ f.sym = Top.sym /\ f.in = Top.in /\ f.todo = Top.todo
      /\ f.at = Top.at + 1 /\ ~f.entered
  BY <1>1, <1>2, TopIsRight, FollowingTyped, WithTyped
<1>4. f.at > 0
  BY <1>1, <1>3, TopIsRight
<1>5. /\ Replace(f) /\ names' = NamesAfter(Top) /\ answer' = Empty
      /\ UNCHANGED <<prog, gen, done>>
  BY DEF Accept
<1> HIDE DEF f
<1> QED BY <1>1, <1>3, <1>4, <1>5, ReplaceKeeps

LEMMA RetryKeeps == IInv /\ Retry => IInv'
<1> SUFFICES ASSUME IInv, Retry PROVE IInv'
  OBVIOUS
<1> DEFINE f == [Top EXCEPT !.try = @ + 1]
<1>1. Active
  BY DEF Retry, Answered
<1>2. /\ f \in Frames /\ f.sym = Top.sym /\ f.in = Top.in /\ f.todo = Top.todo
      /\ f.at = Top.at /\ f.entered = Top.entered
  BY <1>1, TopIsRight DEF Frames
<1>3. f.at > 0 /\ (f.entered => IsValue(f) /\ names = <<f.sym>>)
  BY <1>1, <1>2, TopIsRight DEF IsValue, Ended, Current
<1>4. /\ stack # <<>> /\ stack' = Append(Below, f) /\ answer' = Empty
      /\ UNCHANGED <<prog, names, gen, done>>
  BY <1>1 DEF Retry, Replace, Active
<1> HIDE DEF f
<1>5. Shape'
  BY <1>2, <1>3, <1>4, ReplacingKeeps
<1>6. Typed'
  BY <1>2, <1>4, Replaced, ResultsAreTyped DEF IInv, Typed
<1> QED BY <1>5, <1>6 DEF IInv

LEMMA ContinueKeeps == IInv /\ Continue => IInv'
<1> SUFFICES ASSUME IInv, Continue PROVE IInv'
  OBVIOUS
<1> DEFINE f == Continued(Top)
<1>1. Active /\ Keeps(Top)
  BY DEF Continue, Rejected, Answered
<1>2. ~Top.entered
  BY <1>1, TopIsRight DEF Keeps, IsValue
<1>3. /\ f \in Frames /\ f.sym = Top.sym /\ f.in = Top.in /\ f.todo = Top.todo
      /\ f.at > 0 /\ ~f.entered
  <2>1. Following(Top) \in Frames /\ Following(Top).sym = Top.sym /\ Following(Top).in = Top.in
        /\ Following(Top).todo = Top.todo /\ Following(Top).at > 0 /\ ~Following(Top).entered
    BY <1>1, TopIsRight, FollowingTyped
  <2>2. Len(Top.todo) + 1 \in Nat /\ Len(Top.todo) + 1 > 0
    BY <1>1, TopIsRight
  <2>3. f \in {Following(Top), [Top EXCEPT !.at = Len(Top.todo) + 1, !.bad = TRUE],
               [Following(Top) EXCEPT !.bad = TRUE]}
    BY DEF Continued
  <2> QED BY <1>1, <1>2, <2>1, <2>2, <2>3, TopIsRight DEF Frames
<1>4. /\ Replace(f) /\ names' = NamesAfter(Top) /\ answer' = Empty
      /\ UNCHANGED <<prog, gen, done>>
  BY <1>1, <1>2, TopIsRight DEF Continue
<1> HIDE DEF f
<1> QED BY <1>1, <1>3, <1>4, ReplaceKeeps

LEMMA ThrowKeeps == IInv /\ Throw => IInv'
BY PopKeeps, ResultsAreTyped DEF Throw, Rejected, Answered, IInv, Typed

\* A symbol whose expressions are all validated has not entered its value.
LEMMA EndedIsLeft ==
    ASSUME IInv, Active, Ended(Top), UNCHANGED names
    PROVE  names' = NamesAfter(Top)
BY TopIsRight DEF IsValue

LEMMA EndKeeps ==
    ASSUME IInv,
           EndVar \/ EndVarRefused \/ EndAka \/ EndStruct \/ EndEnum \/ EndFunc
    PROVE  IInv'
<1>1. Active /\ Ended(Top) /\ stack' = Below /\ prog' = prog /\ done' = done /\ names' = names
  BY DEF EndVar, EndVarRefused, EndAka, EndStruct, EndEnum, EndFunc, Ending
<1>2. Top \in Frames /\ Top.sym \in Names /\ gen \in [Names -> Results]
  BY <1>1, TopIsRight DEF IInv, Typed
<1>3. /\ Top.type \in Results /\ Top.value \in Results
      /\ Top.value.base \in Names \cup {I32, Array} /\ Top.value.ptr \in BOOLEAN
      /\ Top.value.known \in BOOLEAN
  BY <1>2 DEF Frames, Results
<1>4. VarType(Top) \in Results
  BY <1>3, ResultsAreTyped DEF VarType
<1>5. VarRef(Top) \in Results
  BY <1>2, <1>3, <1>4 DEF VarRef, Results, Result
<1>6. answer' \in Results /\ gen' \in [Names -> Results]
  <2>1. CASE EndVar
    BY <2>1, <1>2, <1>5 DEF EndVar, Becomes
  <2>2. CASE EndVarRefused
    BY <2>2, <1>2, ResultsAreTyped DEF EndVarRefused
  <2>3. CASE EndAka
    BY <2>3, <1>2, <1>3 DEF EndAka, Becomes
  <2>4. CASE EndStruct
    BY <2>4, <1>2, ResultsAreTyped DEF EndStruct, Becomes, Incomplete
  <2>5. CASE EndEnum
    BY <2>5, <1>2, <1>3, ResultsAreTyped DEF EndEnum, Becomes, Incomplete
  <2>6. CASE EndFunc
    BY <2>6, <1>2, ResultsAreTyped DEF EndFunc
  <2> QED BY <2>1, <2>2, <2>3, <2>4, <2>5, <2>6
<1> QED BY <1>1, <1>6, EndedIsLeft, PopKeeps

-----------------------------------------------------------------------------
LEMMA InitHolds == Init => IInv
<1> SUFFICES ASSUME Init PROVE IInv
  OBVIOUS
<1>1. Typed
  BY ProgramsAssumption, ResultsAreTyped DEF Init, Typed
<1> QED BY <1>1 DEF Init, IInv, Shape, FramesAreRight, NoneAbove, OneValueAtATime

LEMMA NextKeeps == IInv /\ [Next]_vars => IInv'
<1> SUFFICES ASSUME IInv, [Next]_vars PROVE IInv'
  OBVIOUS
<1>1. CASE UNCHANGED vars
  BY <1>1, SameStack DEF vars, IInv, Typed
<1>2. CASE Next
  BY <1>2, BeginKeeps, CollectKeeps, EnterValueKeeps, AskBuiltinKeeps, AskSymbolKeeps, HaltKeeps,
     AcceptKeeps, RetryKeeps, ContinueKeeps, ThrowKeeps, EndKeeps DEF Next
<1> QED BY <1>1, <1>2

\* For every program, the validation of a module holds in __names__ the global
\* variable whose value is being validated, and nothing else
\* (validateVarDecl, Visitor_symbols.cc:44-108).
THEOREM OneValue == Spec => []OneValueAtATime
<1>1. IInv => OneValueAtATime
  BY DEF IInv, Shape
<1> QED BY <1>1, InitHolds, NextKeeps, PTL DEF Spec

LEMMA TypeNextKeeps == IInv /\ [TypeNext]_<<vars, generated>> => IInv'
<1> SUFFICES ASSUME IInv, [TypeNext]_<<vars, generated>> PROVE IInv'
  OBVIOUS
<1>1. CASE [Next]_vars
  BY <1>1, NextKeeps
<1>2. CASE LayOutVar \/ LayOutField \/ GenerateVar \/ GenerateField \/ EndType \/ EndVoid \/ Stop
  <2>1. UNCHANGED <<prog, gen, names, stack, answer, done>>
    BY <1>2 DEF LayOutVar, LayOutField, LayOut, GenerateVar, GenerateField, EndType, EndVoid,
                Stop, vars
  <2>2. Typed'
    BY <2>1 DEF IInv, Typed
  <2> QED BY <2>1, <2>2, SameStack DEF IInv
<1> QED BY <1>1, <1>2 DEF TypeNext, Validates, vars

\* The same when the types of the module are generated after it.
THEOREM OneValueInAll == TypeSpec => []OneValueAtATime
<1>1. TypeInit => IInv
  BY InitHolds DEF TypeInit
<1>2. IInv => OneValueAtATime
  BY DEF IInv, Shape
<1> QED BY <1>1, <1>2, TypeNextKeeps, PTL DEF TypeSpec

-----------------------------------------------------------------------------
(* The definitions of the variables. *)

\* A variable of the list.
Entry == [name : Names, external : BOOLEAN, type : Results, valued : BOOLEAN, reads : SUBSET Names]

\* Each symbol that is being validated was named by the one below it, the first
\* one by the module.
Chained ==
    \A i \in DOMAIN stack :
        IF i = 1 THEN stack[1].in /\ done < Len(Local) /\ stack[1].sym = Local[done + 1]
        ELSE /\ ~stack[i].in /\ ~Ended(stack[i - 1])
             /\ Current(stack[i - 1]).of = stack[i].sym

\* An alias that is being validated is None, and is validated once.
AkasOpen ==
    /\ \A i \in DOMAIN stack : Kind(stack[i].sym) = "aka" => gen[stack[i].sym] = None
    /\ \A i, j \in DOMAIN stack :
          Kind(stack[i].sym) = "aka" /\ stack[i].sym = stack[j].sym => i = j

\* Errors are only kept for structures and enumerations, nothing for functions.
NoErrors ==
    /\ \A n \in Names : /\ Kind(n) \in {"aka", "var"} => gen[n].is # "errors"
                        /\ Kind(n) = "func" => gen[n] = Empty
    /\ \A i \in DOMAIN stack : stack[i].value.is # "errors"
    /\ answer.is # "errors"

\* What a name stands for by now, and whether it is settled.
Denoted(x) ==
    IF x \notin Names THEN Type(I32, FALSE)
    ELSE IF Kind(x) \in {"struct", "enum"} THEN Type(x, FALSE) ELSE gen[x]
Settled(x) ==
    \/ x \notin Names
    \/ Kind(x) \in {"struct", "enum"}
    \/ Kind(x) \in {"aka", "var"} /\ gen[x].is \in {"type", "struct", "value"}

\* What the one who named x may be told.
AnswerFits(x) ==
    \/ answer = Failure
    \/ x \notin Names /\ answer = Number
    \/ x = I32 /\ x \notin Names /\ answer = Type(I32, FALSE)
    \/ x \in Names /\ Kind(x) \in {"struct", "enum"} /\ answer = Type(x, FALSE)
    \/ x \in Names /\ Kind(x) \in {"aka", "var"} /\ answer = gen[x]
    \/ x \in Names /\ Kind(x) = "func" /\ answer = None

AnswersFit == stack # <<>> /\ answer # Empty => ~Ended(Top) /\ AnswerFits(Current(Top).of)

\* The type of a variable, as its declaration gives it by now.
ItemOf(n)  == IF prog[n].typ # <<>> THEN prog[n].typ[1] ELSE prog[n].items[1]
Fixed(n)   == ItemOf(n).form = "size" \/ Settled(ItemOf(n).of)
TypeNow(n) == TypeOf(ItemOf(n).form, Denoted(ItemOf(n).of))

\* A variable that is being validated, one that was, and one that is listed have the
\* type of the declaration.
FrameFits(f) ==
    Kind(f.sym) = "var" =>
        /\ prog[f.sym].typ \o prog[f.sym].items # <<>> /\ f.try = 1
        /\ f.type # Empty  => prog[f.sym].typ # <<>> /\ Fixed(f.sym) /\ f.type = TypeNow(f.sym)
        /\ f.value # Empty /\ prog[f.sym].typ = <<>> =>
               Fixed(f.sym) /\ Type(f.value.base, f.value.ptr) = TypeNow(f.sym)
        /\ f.at > 1 => IF prog[f.sym].typ # <<>> THEN f.type # Empty ELSE f.value # Empty

VarFits(n) ==
    Kind(n) = "var" /\ gen[n] # Empty =>
        gen[n].is = "value" /\ Fixed(n) /\ Type(gen[n].base, gen[n].ptr) = TypeNow(n)

EntryFits(e) == Kind(e.name) = "var" /\ Fixed(e.name) /\ e.type = TypeNow(e.name)

TypesFit ==
    /\ \A i \in DOMAIN stack : FrameFits(stack[i])
    /\ \A n \in Names : VarFits(n)
    /\ \A i \in DOMAIN list : EntryFits(list[i])

\* What a value reads is listed before it.
Listed == {list[i].name : i \in DOMAIN list}

ReadsAreListed ==
    /\ \A n \in Names : Kind(n) \in {"aka", "var"} => gen[n].reads \subseteq Listed
    /\ \A i \in DOMAIN stack : stack[i].value.reads \subseteq Listed
    /\ answer.reads \subseteq Listed
    /\ \A i \in DOMAIN list : \A m \in list[i].reads : \E j \in 1 .. i - 1 : list[j].name = m

\* How many symbols of the module have been validated; none of them has failed
\* if nothing was thrown.
Finished    == IF stack = <<>> /\ answer \notin {Empty, Failure} THEN done + 1 ELSE done
ToDefine(n) == Kind(n) = "var" /\ ~prog[n].extern

Counts ==
    /\ done \in 0 .. Len(Local)
    /\ stack = <<>> /\ answer # Empty => done < Len(Local)

\* The definitions are those of the variables of the module that are validated.
Defined ==
    /\ \A i \in DOMAIN list : ~list[i].external =>
          ToDefine(list[i].name) /\ \E k \in 1 .. Finished : Local[k] = list[i].name
    /\ \A i, j \in DOMAIN list :
          ~list[i].external /\ ~list[j].external /\ list[i].name = list[j].name => i = j
    /\ ~thrown => \A k \in 1 .. Finished : ToDefine(Local[k]) =>
          \E i \in DOMAIN list : ~list[i].external /\ list[i].name = Local[k]

ListTyped == prog \in Programs /\ list \in Seq(Entry) /\ Counts
MeaningInv ==
    /\ ListTyped /\ Chained /\ AkasOpen /\ NoErrors
    /\ AnswersFit /\ TypesFit /\ ReadsAreListed /\ Defined

-----------------------------------------------------------------------------
(* Facts about programs. *)

LEMMA LocalFacts ==
    ASSUME prog \in Programs
    PROVE  /\ Local \in Seq(Names) /\ Len(Local) \in Nat /\ DOMAIN Local = 1 .. Len(Local)
           /\ \A k \in 1 .. Len(Local) : Local[k] \in Names /\ prog[Local[k]].here
           /\ \A n \in Names : prog[n].here => \E k \in 1 .. Len(Local) : Local[k] = n
           /\ \A j, k \in 1 .. Len(Local) : Local[j] = Local[k] => j = k
<1> DEFINE S == {n \in Names : prog[n].here}
<1>1. IsEnumeration(Local, S)
  BY LocalAssumption DEF Local
<1>2. Local \in Seq(S)
  BY <1>1 DEF IsEnumeration
<1>3. Len(Local) \in Nat /\ DOMAIN Local = 1 .. Len(Local) /\ \A k \in 1 .. Len(Local) : Local[k] \in S
  BY <1>2
<1>4. Local \in Seq(Names)
  BY <1>2, <1>3
<1> QED
  BY <1>1, <1>3, <1>4 DEF IsEnumeration

LEMMA AtMostOne ==
    ASSUME NEW S, NEW s \in Seq(S), Len(s) <= 1
    PROVE  /\ Len(s) \in Nat /\ DOMAIN s = 1 .. Len(s)
           /\ s # <<>> => Len(s) = 1
           /\ \A i \in DOMAIN s : s[i] \in S
<1>1. Len(s) \in Nat /\ DOMAIN s = 1 .. Len(s)
  OBVIOUS
<1>2. s # <<>> => Len(s) # 0
  OBVIOUS
<1>3. \A i \in DOMAIN s : s[i] \in S
  OBVIOUS
<1> QED BY <1>1, <1>2, <1>3

LEMMA ConcatOf ==
    ASSUME NEW S, NEW s \in Seq(S), NEW t \in Seq(S)
    PROVE  /\ s \o t \in Seq(S) /\ Len(s \o t) = Len(s) + Len(t)
           /\ DOMAIN (s \o t) = 1 .. Len(s) + Len(t)
           /\ \A i \in 1 .. Len(s) + Len(t) : (s \o t)[i] = IF i <= Len(s) THEN s[i] ELSE t[i - Len(s)]
<1>1. /\ s \o t \in Seq(S) /\ Len(s \o t) = Len(s) + Len(t)
      /\ \A i \in 1 .. Len(s) + Len(t) : (s \o t)[i] = IF i <= Len(s) THEN s[i] ELSE t[i - Len(s)]
  BY ConcatProperties
<1>2. Len(s) \in Nat /\ Len(t) \in Nat
  OBVIOUS
<1>3. \A r \in Seq(S) : DOMAIN r = 1 .. Len(r)
  OBVIOUS
<1> QED BY <1>1, <1>2, <1>3

\* What a variable has left to do is its type, then its value.
LEMMA VarTodo ==
    ASSUME IInv, prog \in Programs, NEW n \in Names, NEW b \in BOOLEAN, Kind(n) = "var",
           prog[n].typ \o prog[n].items # <<>>
    PROVE  /\ Len(Todo(n, b)) \in Nat \ {0} /\ DOMAIN Todo(n, b) = 1 .. Len(Todo(n, b))
           /\ Todo(n, b)[1] = ItemOf(n) /\ ItemOf(n) \in Item
           /\ prog[n].typ # <<>> => ItemOf(n).form \in {"type", "pointer", "size"}
           /\ prog[n].typ = <<>> => ItemOf(n).form = "value" /\ Len(Todo(n, b)) = 1
           /\ \A i \in DOMAIN Todo(n, b) : i > 1 => Todo(n, b)[i].form = "value"
<1> DEFINE t == prog[n].typ
           v == prog[n].items
<1>1. prog[n] \in Symbol
  BY DEF IInv, Typed
<1>2. t \in Seq(TypeItem) /\ v \in Seq(Item)
  BY <1>1 DEF Symbol
<1>3. Len(t) <= 1 /\ Len(v) <= 1 /\ \A i \in DOMAIN v : v[i].form = "value"
  BY VariableAssumption DEF Kind
<1>4. /\ Len(t) \in Nat /\ Len(v) \in Nat /\ DOMAIN t = 1 .. Len(t) /\ DOMAIN v = 1 .. Len(v)
      /\ t # <<>> => Len(t) = 1
      /\ v # <<>> => Len(v) = 1
      /\ \A i \in DOMAIN t : t[i] \in TypeItem
      /\ \A i \in DOMAIN v : v[i] \in Item
  BY <1>2, <1>3, AtMostOne
<1>5. TypeItem \subseteq Item /\ \A it \in TypeItem : it.form \in {"type", "pointer", "size"}
  BY DEF TypeItem, Item
<1>6. t \in Seq(Item)
  BY <1>2, <1>4, <1>5
<1>7. /\ t \o v \in Seq(Item) /\ Len(t \o v) = Len(t) + Len(v) /\ DOMAIN (t \o v) = 1 .. Len(t) + Len(v)
      /\ \A i \in 1 .. Len(t) + Len(v) : (t \o v)[i] = IF i <= Len(t) THEN t[i] ELSE v[i - Len(t)]
  BY <1>2, <1>6, ConcatOf
<1>8. Kind(n) = "var" /\ (t # <<>> /\ ~b => Todo(n, b) = t) /\ (~(t # <<>> /\ ~b) => Todo(n, b) = t \o v)
  BY DEF Todo
<1>9. ItemOf(n) = IF t # <<>> THEN t[1] ELSE v[1]
  BY DEF ItemOf
<1>10. t \o v # <<>>
  OBVIOUS
<1> HIDE DEF t, v
<1>11. CASE t # <<>>
  <2>1. Len(t) = 1 /\ t[1] \in TypeItem /\ ItemOf(n) = t[1]
    BY <1>11, <1>4, <1>9
  <2>2. CASE b
    <3>1. Todo(n, b) = t \o v
      BY <2>2, <1>8
    <3>2. Len(t \o v) = 1 + Len(v) /\ (t \o v)[1] = t[1]
      BY <2>1, <1>4, <1>7
    <3>3. \A i \in 1 .. 1 + Len(v) : i > 1 => (t \o v)[i] = v[i - 1] /\ i - 1 \in DOMAIN v
      BY <2>1, <1>4, <1>7
    <3> QED BY <3>1, <3>2, <3>3, <2>1, <1>3, <1>4, <1>5, <1>7, <1>11 DEF t
  <2>3. CASE ~b
    <3>1. Todo(n, b) = t
      BY <2>3, <1>8, <1>11
    <3> QED BY <3>1, <2>1, <1>4, <1>5, <1>11 DEF t
  <2> QED BY <2>2, <2>3
<1>12. CASE t = <<>>
  <2>1. Todo(n, b) = v /\ v # <<>>
    BY <1>12, <1>2, <1>8, <1>10
  <2>2. Len(v) = 1 /\ v[1] \in Item /\ v[1].form = "value" /\ ItemOf(n) = v[1]
    BY <2>1, <1>3, <1>4, <1>9, <1>12
  <2> QED BY <2>1, <2>2, <1>4, <1>12 DEF t
<1> QED BY <1>11, <1>12

\* The expression a variable is at.
LEMMA VarAt ==
    ASSUME IInv, prog \in Programs, NEW f \in Frames, f.todo = Todo(f.sym, f.in), f.at > 0,
           Kind(f.sym) = "var", prog[f.sym].typ \o prog[f.sym].items # <<>>
    PROVE  /\ Ended(f) => f.at > 1
           /\ ~Ended(f) /\ f.at > 1 => Current(f).form = "value" /\ prog[f.sym].typ # <<>>
           /\ ~Ended(f) /\ f.at = 1 => Current(f) = ItemOf(f.sym)
           /\ ~Ended(f) => Current(f).form \in {"type", "pointer", "size", "value"}
           /\ ~Ended(f) /\ Current(f).form = "value" /\ prog[f.sym].typ = <<>> =>
                  f.at = 1 /\ Current(f) = ItemOf(f.sym)
           /\ ~Ended(f) /\ Current(f).form # "value" => f.at = 1 /\ prog[f.sym].typ # <<>>
<1>1. f.sym \in Names /\ f.in \in BOOLEAN /\ f.at \in Nat
  BY DEF Frames
<1>2. /\ Len(f.todo) \in Nat \ {0} /\ DOMAIN f.todo = 1 .. Len(f.todo)
      /\ f.todo[1] = ItemOf(f.sym) /\ ItemOf(f.sym) \in Item
      /\ prog[f.sym].typ # <<>> => ItemOf(f.sym).form \in {"type", "pointer", "size"}
      /\ prog[f.sym].typ = <<>> => ItemOf(f.sym).form = "value" /\ Len(f.todo) = 1
      /\ \A i \in DOMAIN f.todo : i > 1 => f.todo[i].form = "value"
  BY <1>1, VarTodo
<1>3. Ended(f) <=> f.at > Len(f.todo)
  BY DEF Ended
<1>4. ~Ended(f) => Current(f) = f.todo[f.at] /\ f.at \in DOMAIN f.todo
  BY <1>1, <1>2, <1>3 DEF Current
<1> QED BY <1>1, <1>2, <1>3, <1>4

-----------------------------------------------------------------------------
(* What is settled stays: the generators change, the types they give do not. *)

Valid  == {"type", "struct", "value"}
GenKept ==
    \A x \in Names : Kind(x) \in {"aka", "var"} /\ gen[x].is \in Valid =>
        gen'[x].is \in Valid /\ gen'[x].base = gen[x].base /\ gen'[x].ptr = gen[x].ptr

LEMMA TypesStay ==
    ASSUME prog' = prog, GenKept
    PROVE  \A n : Fixed(n) => Fixed(n)' /\ TypeNow(n)' = TypeNow(n)
<1> SUFFICES ASSUME NEW n, Fixed(n) PROVE Fixed(n)' /\ TypeNow(n)' = TypeNow(n)
  OBVIOUS
<1>1. ItemOf(n)' = ItemOf(n) /\ \A x : (Kind(x))' = Kind(x)
  BY DEF ItemOf, Kind
<1> DEFINE it == ItemOf(n)
           x  == it.of
<1>2. CASE it.form = "size"
  BY <1>1, <1>2 DEF Fixed, TypeNow, TypeOf
<1>3. CASE it.form # "size"
  <2>1. Settled(x)
    BY <1>3 DEF Fixed
  <2>2. Settled(x)' /\ Denoted(x)'.base = Denoted(x).base /\ Denoted(x)'.ptr = Denoted(x).ptr
    BY <1>1, <2>1 DEF Settled, Denoted, GenKept, Valid
  <2>3. TypeNow(n) = TypeOf(it.form, Denoted(x)) /\ TypeNow(n)' = TypeOf(it.form, Denoted(x)')
    BY <1>1 DEF TypeNow, TypeOf, Type, Result
  <2>4. Fixed(n)'
    BY <1>1, <2>2 DEF Fixed
  <2> QED BY <2>2, <2>3, <2>4 DEF TypeOf
<1> QED BY <1>2, <1>3

LEMMA FitsStay ==
    ASSUME prog' = prog, GenKept
    PROVE  /\ \A f : FrameFits(f) => FrameFits(f)'
           /\ \A e : EntryFits(e) => EntryFits(e)'
           /\ \A n : VarFits(n) /\ gen'[n] = gen[n] => VarFits(n)'
<1>1. \A n : Kind(n)' = Kind(n) /\ (Fixed(n) => Fixed(n)' /\ TypeNow(n)' = TypeNow(n))
  BY TypesStay DEF Kind
<1>2. ASSUME NEW f, FrameFits(f) PROVE FrameFits(f)'
  BY <1>1, <1>2 DEF FrameFits
<1>3. ASSUME NEW e, EntryFits(e) PROVE EntryFits(e)'
  BY <1>1, <1>3 DEF EntryFits
<1>4. ASSUME NEW n, VarFits(n), gen'[n] = gen[n] PROVE VarFits(n)'
  BY <1>1, <1>4 DEF VarFits
<1> QED BY <1>2, <1>3, <1>4

\* Only the generators of structures and enumerations change.
OthersSame == \A x \in Names : Kind(x) \notin {"struct", "enum"} => gen'[x] = gen[x]

LEMMA SameIsKept ==
    ASSUME OthersSame
    PROVE  GenKept
BY DEF OthersSame, GenKept

\* The list does not change, and no variable of the module is done.
LEMMA DefinedGrows ==
    ASSUME MeaningInv, UNCHANGED <<prog, list, thrown, done>>, Finished = done,
           Finished' = done \/ (Finished' = done + 1 /\ ~ToDefine(Local[done + 1]))
    PROVE  Defined'
<1>1. Local' = Local /\ \A n : ToDefine(n)' = ToDefine(n)
  BY DEF Local, ToDefine, Kind
<1>2. done \in Nat
  BY LocalFacts DEF MeaningInv, ListTyped, Counts
<1>3. /\ \A i \in DOMAIN list : ~list[i].external =>
            ToDefine(list[i].name) /\ \E k \in 1 .. Finished' : Local[k] = list[i].name
  BY <1>2 DEF MeaningInv, Defined
<1>4. ASSUME ~thrown, NEW k \in 1 .. Finished', ToDefine(Local[k])
      PROVE  \E i \in DOMAIN list : ~list[i].external /\ list[i].name = Local[k]
  <2>1. k \in 1 .. Finished
    BY <1>2, <1>4
  <2> QED BY <1>4, <2>1 DEF MeaningInv, Defined
<1>5. \A i, j \in DOMAIN list :
          ~list[i].external /\ ~list[j].external /\ list[i].name = list[j].name => i = j
  BY DEF MeaningInv, Defined
<1> QED BY <1>1, <1>3, <1>4, <1>5 DEF Defined

-----------------------------------------------------------------------------
(* Each action. *)

\* What is derived from the program alone.
LEMMA SameProgram ==
    ASSUME prog' = prog
    PROVE  Local' = Local /\ \A n : Kind(n)' = Kind(n) /\ ToDefine(n)' = ToDefine(n)
BY DEF Local, ToDefine, Kind

LEMMA KindOf ==
    ASSUME Typed, NEW n \in Names
    PROVE  Kind(n) \in {"var", "aka", "struct", "enum", "func"} /\ gen[n] \in Results
<1>1. prog[n] \in Symbol
  BY DEF Typed
<1> QED BY <1>1 DEF Symbol, Kind, Typed

LEMMA Constants ==
    /\ Empty.is = "empty" /\ Failure.is = "failure" /\ None.is = "none" /\ NoneType.is = "noneType"
    /\ Errors.is = "errors" /\ Partial.is = "partial" /\ Number.is = "value"
    /\ Empty.reads = {} /\ Failure.reads = {} /\ None.reads = {} /\ Number.reads = {}
    /\ Number.base = I32 /\ Number.ptr = FALSE
    /\ \A b, p : Type(b, p).is = "type" /\ Type(b, p).reads = {} /\ Type(b, p).base = b
                 /\ Type(b, p).ptr = p
    /\ \A b, p : Struct(b, p).is = "struct" /\ Struct(b, p).reads = {}
BY DEF Empty, Failure, None, NoneType, Errors, Partial, Number, Type, Struct, Result

\* The stack, the list and the generators of variables and aliases stay.
LEMMA QuietKeeps ==
    ASSUME IInv, MeaningInv, UNCHANGED <<prog, list, stack, thrown, done>>, OthersSame,
           answer'.is # "errors", answer'.reads \subseteq Listed,
           AnswersFit', Counts',
           Finished' = done \/ (Finished' = done + 1 /\ ~ToDefine(Local[done + 1])),
           Finished = done
    PROVE  MeaningInv'
<1>1. Local' = Local /\ \A n : Kind(n)' = Kind(n) /\ ToDefine(n)' = ToDefine(n)
  BY SameProgram
<1>2. \A n \in Names : Kind(n) \in {"aka", "var", "func"} => gen'[n] = gen[n]
  BY DEF OthersSame
<1>3. ListTyped' /\ Chained'
  BY <1>1 DEF MeaningInv, ListTyped, Chained, Ended, Current
<1>4. \A i \in DOMAIN stack : stack[i].sym \in Names
  <2>1. \A i \in DOMAIN stack : stack[i] \in Frames
    BY DEF IInv, Typed
  <2> QED BY <2>1 DEF Frames
<1>5. AkasOpen' /\ NoErrors'
  BY <1>1, <1>2, <1>4 DEF MeaningInv, AkasOpen, NoErrors
<1>6. TypesFit'
  BY <1>1, <1>2, SameIsKept, FitsStay DEF MeaningInv, TypesFit, VarFits
<1>7. ReadsAreListed'
  BY <1>1, <1>2 DEF MeaningInv, ReadsAreListed, Listed
<1>8. Defined'
  BY DefinedGrows
<1> QED BY <1>3, <1>5, <1>6, <1>7, <1>8 DEF MeaningInv

\* A symbol is pushed.
LEMMA OpenKeepsMeaning ==
    ASSUME IInv, MeaningInv, NEW n \in Names, NEW b \in BOOLEAN, Open(n, b), answer = Empty,
           UNCHANGED <<prog, list, thrown, done>>,
           IF stack = <<>> THEN b /\ done < Len(Local) /\ n = Local[done + 1]
           ELSE ~b /\ ~Ended(Top) /\ Current(Top).of = n
    PROVE  MeaningInv'
<1> DEFINE f == Frame(n, b)
           l == Len(stack) + 1
<1>1. Local' = Local /\ \A m : Kind(m)' = Kind(m) /\ ToDefine(m)' = ToDefine(m)
  BY SameProgram
<1>2. /\ f \in Frames /\ f.sym = n /\ f.in = b /\ f.at = 1
      /\ f.try = 1 /\ f.type = Empty /\ f.value = Empty
  BY FrameTyped DEF IInv, Frame
<1>3. /\ stack' = Append(stack, f) /\ answer' = answer
      /\ gen' = [gen EXCEPT ![n] = Started(n)]
      /\ ~Malformed(n) /\ ~Validated(n, b)
  BY DEF Open, Refused
<1> HIDE DEF f
<1>4. /\ DOMAIN stack' = 1 .. l /\ stack'[l] = f /\ Len(stack) \in Nat
      /\ DOMAIN stack = 1 .. Len(stack) /\ \A i \in 1 .. Len(stack) : stack'[i] = stack[i]
      /\ stack # <<>> => Top = stack[Len(stack)]
      /\ stack = <<>> <=> Len(stack) = 0
      /\ stack' # <<>>
  <2>1. stack \in Seq(Frames)
    BY DEF IInv, Typed
  <2>2. stack = <<>> <=> Len(stack) = 0
    BY <2>1
  <2>3. stack' # <<>>
    BY <2>1, <1>2, <1>3
  <2> QED BY <1>2, <1>3, <2>2, <2>3, Pushed DEF IInv, Top
<1>5. \A i \in DOMAIN stack : stack[i].sym \in Names
  <2>1. \A i \in DOMAIN stack : stack[i] \in Frames
    BY DEF IInv, Typed
  <2> QED BY <2>1 DEF Frames
<1>6. /\ gen \in [Names -> Results]
      /\ \A m \in Names : m # n => gen'[m] = gen[m]
      /\ Kind(n) \in {"var", "func"} => gen'[n] = gen[n]
      /\ Kind(n) = "aka" => gen'[n] = None /\ gen[n] = Empty
  BY <1>3 DEF IInv, Typed, Started, Validated
<1>7. ListTyped'
  BY <1>1, <1>4, <1>3 DEF MeaningInv, ListTyped, Counts
<1>8. Chained'
  <2> SUFFICES ASSUME NEW i \in DOMAIN stack'
               PROVE  IF i = 1 THEN stack'[1].in /\ done < Len(Local) /\ stack'[1].sym = Local[done + 1]
                      ELSE /\ ~stack'[i].in /\ ~Ended(stack'[i - 1])
                           /\ Current(stack'[i - 1]).of = stack'[i].sym
    BY <1>1 DEF Chained, Ended, Current
  <2>1. CASE i = l
    BY <2>1, <1>2, <1>4
  <2>2. CASE i # l
    <3>1. i \in DOMAIN stack /\ (i # 1 => i - 1 \in DOMAIN stack)
      BY <2>2, <1>4
    <3>2. stack'[i] = stack[i] /\ (i # 1 => stack'[i - 1] = stack[i - 1])
      BY <3>1, <1>4
    <3>3. i = 1 => stack'[1] = stack[1]
      BY <3>2
    <3> QED BY <3>1, <3>2, <3>3 DEF MeaningInv, Chained
  <2> QED BY <2>1, <2>2
<1>9. AkasOpen'
  <2>1. Kind(n) = "aka" => \A i \in DOMAIN stack : stack[i].sym # n
    BY <1>6, Constants DEF MeaningInv, AkasOpen
  <2>2. ASSUME NEW i \in DOMAIN stack', Kind(stack'[i].sym) = "aka" PROVE gen'[stack'[i].sym] = None
    BY <2>1, <2>2, <1>2, <1>4, <1>5, <1>6 DEF MeaningInv, AkasOpen
  <2>3. ASSUME NEW i \in DOMAIN stack', NEW j \in DOMAIN stack', Kind(stack'[i].sym) = "aka",
               stack'[i].sym = stack'[j].sym
        PROVE  i = j
    <3>1. CASE i = l \/ j = l
      BY <3>1, <2>1, <2>3, <1>2, <1>4
    <3>2. CASE i # l /\ j # l
      BY <3>2, <2>3, <1>4 DEF MeaningInv, AkasOpen
    <3> QED BY <3>1, <3>2
  <2> QED BY <2>2, <2>3, <1>1 DEF AkasOpen
<1>10. NoErrors'
  <2>1. \A m \in Names : /\ Kind(m) \in {"aka", "var"} => gen'[m].is # "errors"
                         /\ Kind(m) = "func" => gen'[m] = Empty
    BY <1>6, Constants DEF MeaningInv, NoErrors
  <2>2. \A i \in DOMAIN stack' : stack'[i].value.is # "errors"
    BY <1>2, <1>4, Constants DEF MeaningInv, NoErrors
  <2> QED BY <2>1, <2>2, <1>1, <1>3 DEF MeaningInv, NoErrors
<1>11. AnswersFit'
  BY <1>3 DEF AnswersFit, Empty, Result
<1>12. GenKept
  BY <1>6, Constants, KindOf DEF GenKept, Valid, IInv
<1>13. TypesFit'
  <2>1. FrameFits(f)
    BY <1>2, <1>3 DEF FrameFits, Malformed
  <2>2. \A i \in DOMAIN stack' : FrameFits(stack[i])'
    <3> SUFFICES ASSUME NEW i \in DOMAIN stack', NEW g, g = stack'[i] PROVE FrameFits(g)'
      BY DEF FrameFits
    <3>1. FrameFits(g)
      BY <2>1, <1>4 DEF MeaningInv, TypesFit
    <3> QED BY <3>1, <1>12, FitsStay
  <2>3. \A m \in Names : VarFits(m)'
    BY <1>1, <1>6, <1>12, FitsStay DEF MeaningInv, TypesFit, VarFits
  <2>4. \A i \in DOMAIN list : EntryFits(list[i])'
    BY <1>12, FitsStay DEF MeaningInv, TypesFit
  <2> QED BY <2>2, <2>3, <2>4 DEF TypesFit
<1>14. ReadsAreListed'
  <2>1. \A m \in Names : Kind(m) \in {"aka", "var"} => gen'[m].reads \subseteq Listed
    BY <1>6, Constants DEF MeaningInv, ReadsAreListed
  <2>2. \A i \in DOMAIN stack' : stack'[i].value.reads \subseteq Listed
    BY <1>2, <1>4, Constants DEF MeaningInv, ReadsAreListed
  <2> QED BY <2>1, <2>2, <1>1, <1>3 DEF MeaningInv, ReadsAreListed, Listed
<1>15. Finished = done /\ Finished' = done
  BY <1>3, <1>4 DEF Finished, Empty, Result
<1>16. Defined'
  BY <1>15, DefinedGrows
<1> QED BY <1>7, <1>8, <1>9, <1>10, <1>11, <1>13, <1>14, <1>16 DEF MeaningInv

\* The symbol on top goes on, and nothing has been answered.
LEMMA ReplaceKeepsMeaning ==
    ASSUME IInv, MeaningInv, Active, NEW f \in Frames, stack' = Append(Below, f),
           f.sym = Top.sym, f.in = Top.in, f.value.is # "errors", f.value.reads \subseteq Listed,
           FrameFits(f), UNCHANGED <<prog, gen, list, thrown, done>>, answer' = Empty
    PROVE  MeaningInv'
<1> DEFINE l == Len(stack)
<1>1. Local' = Local /\ \A m : Kind(m)' = Kind(m) /\ ToDefine(m)' = ToDefine(m)
  BY SameProgram
<1>2. /\ DOMAIN stack' = DOMAIN stack /\ stack'[l] = f /\ DOMAIN stack = 1 .. l /\ l \in Nat \ {0}
      /\ \A i \in DOMAIN stack : i # l => stack'[i] = stack[i]
      /\ Top = stack[l] /\ stack' # <<>>
  <2>1. stack # <<>>
    BY DEF Active
  <2>2. Below \in Seq(Frames)
    BY <2>1, TopTyped DEF IInv
  <2>3. stack' # <<>>
    BY <2>2
  <2> QED BY <2>1, <2>3, TopTyped, Replaced DEF IInv, Top
<1> HIDE DEF l
<1>3. \A i \in DOMAIN stack : stack'[i].sym = stack[i].sym /\ stack'[i].in = stack[i].in
  BY <1>2
<1>4. ListTyped'
  BY <1>1, <1>2 DEF MeaningInv, ListTyped, Counts
<1>5. Chained'
  <2> SUFFICES ASSUME NEW i \in DOMAIN stack'
               PROVE  IF i = 1 THEN stack'[1].in /\ done < Len(Local) /\ stack'[1].sym = Local[done + 1]
                      ELSE /\ ~stack'[i].in /\ ~Ended(stack'[i - 1])
                           /\ Current(stack'[i - 1]).of = stack'[i].sym
    BY <1>1 DEF Chained, Ended, Current
  <2>1. i \in DOMAIN stack /\ (i # 1 => stack'[i - 1] = stack[i - 1])
    BY <1>2
  <2> QED BY <2>1, <1>3 DEF MeaningInv, Chained
<1>6. AkasOpen'
  BY <1>1, <1>2, <1>3 DEF MeaningInv, AkasOpen
<1>7. NoErrors'
  BY <1>1, <1>2, Constants DEF MeaningInv, NoErrors
<1>8. AnswersFit'
  BY DEF AnswersFit, Empty, Result
<1>9. GenKept
  BY DEF GenKept
<1>10. TypesFit'
  <2>1. \A i \in DOMAIN stack' : FrameFits(stack[i])'
    <3> SUFFICES ASSUME NEW i \in DOMAIN stack', NEW g, g = stack'[i] PROVE FrameFits(g)'
      BY DEF FrameFits
    <3>1. FrameFits(g)
      BY <1>2 DEF MeaningInv, TypesFit
    <3> QED BY <3>1, <1>9, FitsStay
  <2> QED BY <2>1, <1>9, FitsStay DEF MeaningInv, TypesFit
<1>11. ReadsAreListed'
  BY <1>1, <1>2, Constants DEF MeaningInv, ReadsAreListed, Listed
<1>12. Finished = done /\ Finished' = done
  BY <1>2 DEF Finished, Active
<1>13. Defined'
  BY <1>12, DefinedGrows
<1> QED BY <1>4, <1>5, <1>6, <1>7, <1>8, <1>10, <1>11, <1>13 DEF MeaningInv

LEMMA TopFits ==
    ASSUME IInv, MeaningInv, Active
    PROVE  /\ stack # <<>> /\ Top \in Frames /\ Len(stack) \in DOMAIN stack /\ Top = stack[Len(stack)]
           /\ Top.todo = Todo(Top.sym, Top.in) /\ Top.at > 0 /\ Top.sym \in Names
           /\ FrameFits(Top) /\ Top.value.is # "errors" /\ Top.value.reads \subseteq Listed
           /\ Top.type \in Results /\ Top.value \in Results
<1>1. stack # <<>> /\ Top \in Frames /\ Top = stack[Len(stack)] /\ Len(stack) \in DOMAIN stack
  BY TopTyped DEF IInv, Active, Top
<1>2. FrameFits(Top) /\ Top.value.is # "errors" /\ Top.value.reads \subseteq Listed
  BY <1>1 DEF MeaningInv, TypesFit, NoErrors, ReadsAreListed
<1>3. Top.todo = Todo(Top.sym, Top.in) /\ Top.at > 0
  BY <1>1 DEF IInv, Shape, FramesAreRight
<1>4. Top.sym \in Names /\ Top.type \in Results /\ Top.value \in Results
  BY <1>1 DEF Frames
<1> QED BY <1>1, <1>2, <1>3, <1>4

\* The forms of what a variable holds.
LEMMA AttemptsOfVar ==
    /\ \A f \in {"type", "pointer", "size", "value"} : Len(Attempts(f)) = 1
    /\ \A f \in {"type", "pointer"} : Attempts(f)[1] = "type"
    /\ \A f \in {"size", "value"} : Attempts(f)[1] = "value"
BY DEF Attempts

LEMMA EnterValueKeepsMeaning == IInv /\ MeaningInv /\ EnterValue => MeaningInv'
<1> SUFFICES ASSUME IInv, MeaningInv, EnterValue PROVE MeaningInv'
  OBVIOUS
<1> DEFINE f == [Top EXCEPT !.entered = TRUE]
<1>1. Active /\ answer' = Empty /\ stack' = Append(Below, f) /\ UNCHANGED <<prog, gen, list, thrown, done>>
  BY DEF EnterValue, Asking, Replace
<1>2. /\ f \in Frames /\ f.sym = Top.sym /\ f.in = Top.in /\ f.value = Top.value /\ f.type = Top.type
      /\ f.at = Top.at /\ f.try = Top.try
  BY <1>1, TopFits DEF Frames
<1> HIDE DEF f
<1>3. FrameFits(f)
  BY <1>1, <1>2, TopFits DEF FrameFits
<1> QED BY <1>1, <1>2, <1>3, TopFits, ReplaceKeepsMeaning

LEMMA RetryKeepsMeaning == IInv /\ MeaningInv /\ Retry => MeaningInv'
<1> SUFFICES ASSUME IInv, MeaningInv, Retry PROVE MeaningInv'
  OBVIOUS
<1> DEFINE f == [Top EXCEPT !.try = @ + 1]
<1>1. /\ Active /\ ~Ended(Top) /\ answer' = Empty /\ stack' = Append(Below, f)
      /\ UNCHANGED <<prog, gen, list, thrown, done>>
      /\ Top.try < Len(Attempts(Current(Top).form))
  BY DEF Retry, Answered, Replace
<1>2. /\ f \in Frames /\ f.sym = Top.sym /\ f.in = Top.in /\ f.value = Top.value
  <2>1. Top \in Frames
    BY <1>1, TopFits
  <2>2. Top.try + 1 \in Nat
    BY <2>1 DEF Frames
  <2> QED BY <2>1, <2>2 DEF Frames
<1> HIDE DEF f
<1>3. Kind(Top.sym) # "var"
  <2> SUFFICES ASSUME Kind(Top.sym) = "var" PROVE FALSE
    OBVIOUS
  <2>1. Top.try = 1 /\ prog[Top.sym].typ \o prog[Top.sym].items # <<>>
    BY <1>1, TopFits DEF FrameFits
  <2>2. Current(Top).form \in {"type", "pointer", "size", "value"}
    BY <1>1, <2>1, TopFits, VarAt DEF MeaningInv, ListTyped
  <2>3. Len(Attempts(Current(Top).form)) = 1
    BY <2>2, AttemptsOfVar
  <2>4. Top.try < Len(Attempts(Current(Top).form))
    BY <1>1
  <2> QED BY <2>1, <2>3, <2>4
<1>4. FrameFits(f)
  BY <1>2, <1>3 DEF FrameFits
<1> QED BY <1>1, <1>2, <1>4, TopFits, ReplaceKeepsMeaning

LEMMA ContinueKeepsMeaning == IInv /\ MeaningInv /\ Continue => MeaningInv'
<1> SUFFICES ASSUME IInv, MeaningInv, Continue PROVE MeaningInv'
  OBVIOUS
<1> DEFINE f == Continued(Top)
<1>1. /\ Active /\ answer' = Empty /\ stack' = Append(Below, f) /\ UNCHANGED <<prog, gen, list, thrown, done>>
      /\ Keeps(Top)
  BY DEF Continue, Rejected, Answered, Replace
<1>2. /\ f \in Frames /\ f.sym = Top.sym /\ f.in = Top.in /\ f.value = Top.value
  <2>1. Following(Top) \in Frames /\ Following(Top).sym = Top.sym /\ Following(Top).in = Top.in
    BY <1>1, TopFits, FollowingTyped
  <2>2. Following(Top).value = Top.value
    BY <1>1, TopFits DEF Following, Frames
  <2>3. Len(Top.todo) + 1 \in Nat
    BY <1>1, TopIsRight
  <2>4. f \in {Following(Top), [Top EXCEPT !.at = Len(Top.todo) + 1, !.bad = TRUE],
               [Following(Top) EXCEPT !.bad = TRUE]}
    BY DEF Continued
  <2> QED BY <1>1, <2>1, <2>2, <2>3, <2>4, TopFits DEF Frames
<1> HIDE DEF f
<1>3. FrameFits(f)
  BY <1>1, <1>2 DEF FrameFits, Keeps
<1> QED BY <1>1, <1>2, <1>3, TopFits, ReplaceKeepsMeaning

LEMMA TypeFields ==
    ASSUME NEW b, NEW p
    PROVE  /\ Type(b, p).is = "type" /\ Type(b, p).base = b /\ Type(b, p).ptr = p /\ Type(b, p).reads = {}
           /\ Type(b, p) # Empty
BY DEF Type, Result, Empty

LEMMA StructFields ==
    ASSUME NEW b, NEW p
    PROVE  Struct(b, p).is = "struct" /\ Struct(b, p).reads = {}
BY DEF Struct, Result

LEMMA TypeOfIsAType ==
    ASSUME NEW form, NEW r
    PROVE  \E b, p : TypeOf(form, r) = Type(b, p)
<1>1. CASE form = "pointer"
  BY <1>1 DEF TypeOf
<1>2. CASE form = "size"
  BY <1>2 DEF TypeOf
<1>3. CASE form \notin {"pointer", "size"}
  BY <1>3 DEF TypeOf
<1> QED BY <1>1, <1>2, <1>3

\* What a type or a value that is accepted says of the name it is of.
LEMMA AcceptedType ==
    ASSUME Typed, NEW x, AnswerFits(x), Seen(x, "type").is \in {"type", "struct"}
    PROVE  Settled(x) /\ Seen(x, "type") = Denoted(x)
<1>1. Seen(x, "type") = answer
  BY DEF Seen
<1>2. answer.is \in {"type", "struct"}
  BY <1>1
<1>3. CASE x \notin Names
  BY <1>1, <1>2, <1>3, Constants DEF AnswerFits, Settled, Denoted
<1>4. CASE x \in Names
  <2>1. CASE Kind(x) \in {"struct", "enum"}
    BY <1>1, <1>2, <1>4, <2>1, Constants DEF AnswerFits, Settled, Denoted
  <2>2. CASE Kind(x) \in {"aka", "var"}
    BY <1>1, <1>2, <1>4, <2>2, Constants DEF AnswerFits, Settled, Denoted
  <2>3. CASE Kind(x) = "func"
    BY <1>1, <1>2, <1>4, <2>3, Constants DEF AnswerFits, Settled, Denoted
  <2> QED BY <1>4, <2>1, <2>2, <2>3, KindOf
<1> QED BY <1>3, <1>4

LEMMA AcceptedValue ==
    ASSUME Typed, NEW x, AnswerFits(x), Seen(x, "value").is = "value"
    PROVE  /\ Settled(x)
           /\ Type(Seen(x, "value").base, Seen(x, "value").ptr) = TypeOf("value", Denoted(x))
<1> DEFINE r == Seen(x, "value")
<1>1. TypeOf("value", Denoted(x)) = Type(Denoted(x).base, Denoted(x).ptr)
  BY DEF TypeOf
<1>2. CASE x \notin Names
  <2>1. r = answer
    BY <1>2 DEF Seen
  <2>2. answer = Number
    <3>1. answer.is = "value"
      BY <2>1
    <3>2. answer \in {Failure, Number, Type(I32, FALSE)}
      BY <1>2 DEF AnswerFits
    <3> QED BY <3>1, <3>2, Constants
  <2>3. Denoted(x) = Type(I32, FALSE) /\ Settled(x)
    BY <1>2 DEF Settled, Denoted
  <2>4. Denoted(x).base = I32 /\ Denoted(x).ptr = FALSE
    BY <2>3 DEF Type, Result
  <2>5. r.base = I32 /\ r.ptr = FALSE
    BY <2>1, <2>2, Constants
  <2> QED BY <1>1, <2>3, <2>4, <2>5
<1>3. CASE x \in Names /\ Kind(x) = "struct"
  <2>1. answer \in {Failure, Type(x, FALSE)}
    BY <1>3 DEF AnswerFits
  <2>2. answer.is = "type" => r = Struct(x, gen[x].is = "struct")
    BY <1>3 DEF Seen
  <2>3. answer.is # "type" => r = answer
    BY DEF Seen
  <2>4. r.is = "value"
    OBVIOUS
  <2>5. answer.is # "type"
    BY <2>2, <2>4, StructFields
  <2>6. answer.is \in {"failure", "type"}
    BY <2>1 DEF Type, Result, Failure
  <2> HIDE DEF r
  <2> QED BY <2>3, <2>4, <2>5, <2>6
<1>4. CASE x \in Names /\ Kind(x) = "enum"
  <2>1. answer \in {Failure, Type(x, FALSE)}
    BY <1>4 DEF AnswerFits
  <2>2. answer.is = "type" => r = Result("value", x, FALSE)
    BY <1>4 DEF Seen
  <2>3. answer.is # "type" => r = answer
    BY DEF Seen
  <2>4. r = Result("value", x, FALSE)
    <3>1. answer.is \in {"failure", "type"} /\ r.is = "value"
      BY <2>1 DEF Type, Result, Failure
    <3> HIDE DEF r
    <3> QED BY <2>2, <2>3, <3>1
  <2>5. r.base = x /\ r.ptr = FALSE
    BY <2>4 DEF Result
  <2>6. Settled(x) /\ Denoted(x) = Type(x, FALSE)
    BY <1>4 DEF Settled, Denoted
  <2>7. Denoted(x).base = x /\ Denoted(x).ptr = FALSE
    BY <2>6 DEF Type, Result
  <2> QED BY <1>1, <2>5, <2>6, <2>7
<1>5. CASE x \in Names /\ Kind(x) \in {"aka", "var"}
  <2>1. r = answer /\ answer.is = "value"
    BY <1>5 DEF Seen
  <2>2. answer = gen[x]
    BY <1>5, <2>1, Constants DEF AnswerFits
  <2> QED BY <1>1, <1>5, <2>1, <2>2 DEF Settled, Denoted
<1>6. CASE x \in Names /\ Kind(x) = "func"
  <2>1. r = answer /\ answer \in {Failure, None}
    BY <1>6 DEF Seen, AnswerFits
  <2> QED BY <2>1, Constants
<1> QED BY <1>2, <1>3, <1>4, <1>5, <1>6, KindOf

LEMMA AcceptKeepsMeaning == IInv /\ MeaningInv /\ Accept => MeaningInv'
<1> SUFFICES ASSUME IInv, MeaningInv, Accept PROVE MeaningInv'
  OBVIOUS
<1> DEFINE g == Following(Top)
           form == Current(Top).form
           x == Current(Top).of
           r == TopSeen
           f == With(g, form, r)
<1>1. /\ Active /\ ~Ended(Top) /\ answer # Empty /\ answer' = Empty /\ stack' = Append(Below, f)
      /\ UNCHANGED <<prog, gen, list, thrown, done>> /\ Accepted(Top, form, Position(Top), r)
      /\ r = Seen(x, Position(Top))
  BY DEF Accept, Answered, Replace, TopAccepted, TopSeen
<1>2. r \in Results
  BY SeenTyped DEF TopSeen, IInv
<1>3. /\ g \in Frames /\ g.sym = Top.sym /\ g.in = Top.in /\ g.at = Top.at + 1
      /\ g.value = Top.value /\ g.type = Top.type /\ g.try = 1
  <2>1. Top \in Frames
    BY <1>1, TopFits
  <2>2. g \in Frames /\ g.sym = Top.sym /\ g.in = Top.in /\ g.at = Top.at + 1
    BY <2>1, FollowingTyped
  <2>3. g.value = Top.value /\ g.type = Top.type /\ g.try = 1
    BY <2>1 DEF Following, Frames
  <2> QED BY <2>2, <2>3
<1>4. f \in Frames /\ f.sym = g.sym /\ f.in = g.in /\ f.at = g.at
  BY <1>2, <1>3, WithTyped
<1>5. AnswerFits(x) /\ answer.is # "errors" /\ answer.reads \subseteq Listed
  BY <1>1, TopFits DEF MeaningInv, AnswersFit, NoErrors, ReadsAreListed
<1>6. r.is # "errors" /\ r.reads \subseteq Listed
  <2>1. r \in {Struct(x, gen[x].is = "struct"), Result("value", x, FALSE), answer}
    BY <1>1 DEF Seen
  <2>2. Result("value", x, FALSE).is = "value" /\ Result("value", x, FALSE).reads = {}
    BY DEF Result
  <2>3. \A b, p : Struct(b, p).is = "struct" /\ Struct(b, p).reads = {}
    BY Constants
  <2> HIDE DEF r, x
  <2> QED BY <1>5, <2>1, <2>2, <2>3
<1>7. Top.value.is # "errors" /\ Top.value.reads \subseteq Listed /\ FrameFits(Top) /\ Top.sym \in Names
  BY <1>1, TopFits
<1>8. g.try = f.try /\ f.value \in {g.value, r}
  BY <1>3, <1>2 DEF With, Frames
<1>9. f.value.is # "errors" /\ f.value.reads \subseteq Listed
  BY <1>3, <1>6, <1>7, <1>8
<1>10. FrameFits(f)
  <2> SUFFICES ASSUME Kind(Top.sym) = "var" PROVE FrameFits(f)
    BY <1>3, <1>4 DEF FrameFits
  <2>1. prog[Top.sym].typ \o prog[Top.sym].items # <<>> /\ Top.try = 1
    BY <1>7 DEF FrameFits
  <2>2. /\ Top.at > 1 => form = "value" /\ prog[Top.sym].typ # <<>>
        /\ Top.at = 1 => Current(Top) = ItemOf(Top.sym)
        /\ form \in {"type", "pointer", "size", "value"}
        /\ form = "value" /\ prog[Top.sym].typ = <<>> => Top.at = 1
        /\ form # "value" => Top.at = 1 /\ prog[Top.sym].typ # <<>>
    BY <1>1, <2>1, TopFits, VarAt DEF MeaningInv, ListTyped
  <2>3. Top.at \in Nat /\ Top.at > 0
    BY <1>1, TopIsRight
  <2>4. Typed
    BY DEF IInv
  <2>5. CASE form \in {"type", "pointer"}
    <3>1. Position(Top) = "type"
      BY <2>1, <2>5, AttemptsOfVar DEF Position
    <3>2. r = Seen(x, "type") /\ r.is \in {"type", "struct"}
      <4>1. Accepted(Top, form, "type", r)
        BY <1>1, <3>1
      <4> HIDE DEF r, form
      <4> QED BY <1>1, <3>1, <4>1, <2>5 DEF Accepted
    <3>3. Settled(x) /\ r = Denoted(x)
      BY <1>5, <2>4, <3>2, AcceptedType
    <3>4. f = [g EXCEPT !.type = TypeOf(form, r)]
      BY <1>3, <2>5 DEF With
    <3>5. f.type = TypeOf(form, r) /\ f.value = g.value
      BY <1>3, <3>4 DEF Frames
    <3>6. Fixed(Top.sym) /\ TypeOf(form, r) = TypeNow(Top.sym)
      BY <2>2, <2>5, <3>3 DEF Fixed, TypeNow
    <3>8. TypeOf(form, r) # Empty
      BY TypeOfIsAType, TypeFields
    <3>9. prog[Top.sym].typ # <<>>
      BY <2>2, <2>5
    <3> HIDE DEF f, g, r, x, form
    <3> QED BY <1>3, <1>4, <1>8, <2>1, <3>5, <3>6, <3>8, <3>9 DEF FrameFits
  <2>6. CASE form = "size"
    <3>1. f = [g EXCEPT !.type = TypeOf(form, r)]
      BY <1>3, <2>6 DEF With
    <3>2. f.type = TypeOf(form, r) /\ f.value = g.value
      BY <1>3, <3>1 DEF Frames
    <3>3. ItemOf(Top.sym).form = "size" /\ prog[Top.sym].typ # <<>>
      BY <2>2, <2>6
    <3>4. Fixed(Top.sym) /\ TypeOf(form, r) = TypeNow(Top.sym)
      BY <2>6, <3>3 DEF Fixed, TypeNow, TypeOf
    <3>5. TypeOf(form, r) # Empty
      BY TypeOfIsAType, TypeFields
    <3> HIDE DEF f, g, r, x, form
    <3> QED BY <1>3, <1>4, <1>8, <2>1, <3>2, <3>3, <3>4, <3>5 DEF FrameFits
  <2>7. CASE form = "value"
    <3>1. Position(Top) = "value"
      BY <2>1, <2>7, AttemptsOfVar DEF Position
    <3>2. r = Seen(x, "value") /\ r.is = "value"
      BY <1>1, <2>7, <3>1 DEF Accepted, Initial
    <3>3. Settled(x) /\ Type(r.base, r.ptr) = TypeOf("value", Denoted(x))
      BY <1>5, <2>4, <3>2, AcceptedValue
    <3>4. f = [g EXCEPT !.value = r]
      BY <1>3, <2>7 DEF With
    <3>5. f.type = g.type /\ f.value = r
      BY <1>3, <3>4 DEF Frames
    <3>6. prog[Top.sym].typ = <<>> => Fixed(Top.sym) /\ Type(r.base, r.ptr) = TypeNow(Top.sym)
      BY <2>2, <2>7, <3>3 DEF Fixed, TypeNow
    <3>7. r # Empty
      BY <3>2, Constants
    <3>8. prog[Top.sym].typ # <<>> => Top.at > 1
      <4>1. prog[Top.sym].typ # <<>> => ItemOf(Top.sym).form # "value"
        BY <1>7, <2>1, VarTodo DEF MeaningInv, ListTyped
      <4> QED BY <2>2, <2>3, <2>7, <4>1
    <3>9. prog[Top.sym].typ # <<>> => Top.type # Empty
      BY <1>7, <3>8 DEF FrameFits
    <3> HIDE DEF f, g, r, x, form
    <3> QED BY <1>3, <1>4, <1>7, <1>8, <2>1, <3>5, <3>6, <3>7, <3>9 DEF FrameFits
  <2> QED BY <2>2, <2>5, <2>6, <2>7
<1> HIDE DEF f, g
<1> QED BY <1>1, <1>3, <1>4, <1>9, <1>10, ReplaceKeepsMeaning

\* What is left when a symbol is done: the one that named it, or the module.
LEMMA PoppedTo ==
    ASSUME IInv, MeaningInv, Active, stack' = Below, UNCHANGED <<prog, done>>
    PROVE  /\ DOMAIN stack' \subseteq DOMAIN stack
           /\ \A i \in DOMAIN stack' : stack'[i] = stack[i] /\ i # Len(stack)
           /\ Chained'
           /\ IF stack' = <<>> THEN Top.in /\ done < Len(Local) /\ Top.sym = Local[done + 1]
              ELSE ~Top.in /\ (~Ended(Top))' /\ Current(Top)'.of = Top.sym
<1> DEFINE l == Len(stack)
<1>1. Local' = Local /\ \A m : Kind(m)' = Kind(m) /\ ToDefine(m)' = ToDefine(m)
  BY SameProgram
<1>2. /\ stack # <<>> /\ l \in Nat \ {0} /\ DOMAIN stack = 1 .. l /\ Top = stack[l]
      /\ stack' \in Seq(Frames) /\ Len(stack') = l - 1 /\ DOMAIN stack' = 1 .. l - 1
      /\ \A i \in 1 .. l - 1 : stack'[i] = stack[i]
  BY TopTyped DEF IInv, Active, Top
<1> HIDE DEF l
<1>3. Chained'
  <2> SUFFICES ASSUME NEW i \in DOMAIN stack'
               PROVE  IF i = 1 THEN stack'[1].in /\ done < Len(Local) /\ stack'[1].sym = Local[done + 1]
                      ELSE /\ ~stack'[i].in /\ ~Ended(stack'[i - 1])
                           /\ Current(stack'[i - 1]).of = stack'[i].sym
    BY <1>1 DEF Chained, Ended, Current
  <2>1. i \in DOMAIN stack /\ stack'[i] = stack[i] /\ (i # 1 => stack'[i - 1] = stack[i - 1])
    BY <1>2
  <2> QED BY <2>1 DEF MeaningInv, Chained
<1>4. CASE stack' = <<>>
  <2>1. l = 1
    BY <1>2, <1>4
  <2>2. l \in DOMAIN stack
    BY <1>2
  <2>3. Top.in /\ done < Len(Local) /\ Top.sym = Local[done + 1]
    BY <1>2, <2>1, <2>2 DEF MeaningInv, Chained
  <2> QED BY <1>2, <1>3, <1>4, <2>3 DEF l
<1>5. CASE stack' # <<>>
  <2>1. l > 1
    BY <1>2, <1>5
  <2>2. l \in DOMAIN stack /\ l # 1
    BY <1>2, <2>1
  <2>3. ~stack[l].in /\ ~Ended(stack[l - 1]) /\ Current(stack[l - 1]).of = stack[l].sym
    BY <2>2 DEF MeaningInv, Chained
  <2>4. Top' = stack[l - 1]
    BY <1>2, <2>1 DEF Top
  <2>5. (~Ended(Top))' /\ Current(Top)'.of = Top.sym
    BY <1>2, <2>3, <2>4 DEF Ended, Current
  <2> QED BY <1>2, <1>3, <1>5, <2>3, <2>5 DEF l
<1> QED BY <1>4, <1>5

\* What does not depend on how the symbol that is done has ended.
LEMMA PopKeepsMeaning ==
    ASSUME IInv, MeaningInv, Active, NEW n \in Names, n = Top.sym, stack' = Below, UNCHANGED <<prog, list, thrown, done>>,
           \A x \in Names : x # n => gen'[x] = gen[x],
           Kind(n) \in {"var", "func"} => gen' = gen,
           Kind(n) = "aka" => gen'[n].is # "errors" /\ gen'[n].reads \subseteq Listed,
           answer'.is # "errors", answer'.reads \subseteq Listed,
           answer' # Empty => AnswerFits(n)',
           ToDefine(n) => answer' = Failure
    PROVE  MeaningInv'
<1>1. Local' = Local /\ \A m : Kind(m)' = Kind(m) /\ ToDefine(m)' = ToDefine(m)
  BY SameProgram
<1>2. /\ DOMAIN stack' \subseteq DOMAIN stack
      /\ \A i \in DOMAIN stack' : stack'[i] = stack[i] /\ i # Len(stack)
      /\ Chained'
      /\ IF stack' = <<>> THEN Top.in /\ done < Len(Local) /\ Top.sym = Local[done + 1]
         ELSE ~Top.in /\ (~Ended(Top))' /\ Current(Top)'.of = Top.sym
  BY PoppedTo
<1>3. Len(stack) \in DOMAIN stack /\ Top = stack[Len(stack)] /\ Top.sym \in Names /\ stack # <<>>
  BY TopFits
<1>4. \A i \in DOMAIN stack : stack[i].sym \in Names
  <2>1. \A i \in DOMAIN stack : stack[i] \in Frames
    BY DEF IInv, Typed
  <2> QED BY <2>1 DEF Frames
<1>5. ListTyped'
  BY <1>1, <1>2 DEF MeaningInv, ListTyped, Counts
<1>6. AkasOpen'
  <2>1. ASSUME NEW i \in DOMAIN stack', Kind(stack[i].sym) = "aka" PROVE stack[i].sym # Top.sym
    BY <2>1, <1>2, <1>3 DEF MeaningInv, AkasOpen
  <2> QED BY <2>1, <1>1, <1>2, <1>4 DEF MeaningInv, AkasOpen
<1>7. NoErrors'
  <2>1. \A m \in Names : /\ Kind(m) \in {"aka", "var"} => gen'[m].is # "errors"
                         /\ Kind(m) = "func" => gen'[m] = Empty
    BY <1>3 DEF MeaningInv, NoErrors
  <2>2. \A i \in DOMAIN stack' : stack'[i].value.is # "errors"
    BY <1>2 DEF MeaningInv, NoErrors
  <2> QED BY <2>1, <2>2, <1>1 DEF NoErrors
<1>8. AnswersFit'
  <2> SUFFICES ASSUME stack' # <<>>, answer' # Empty
               PROVE  (~Ended(Top))' /\ AnswerFits(Current(Top).of)'
    BY DEF AnswersFit, Empty, Result
  <2>1. (~Ended(Top))' /\ Current(Top)'.of = n
    BY <1>2
  <2>2. AnswerFits(n)'
    OBVIOUS
  <2>3. AnswerFits(Current(Top).of)'
    BY <2>1, <2>2 DEF AnswerFits
  <2> QED BY <2>1, <2>3
<1>9. \A m \in Names : Kind(m) \in {"var", "func"} => gen'[m] = gen[m]
  OBVIOUS
<1>10. GenKept
  <2>1. Kind(n) = "aka" => gen[n].is = "none"
    BY <1>3, Constants DEF MeaningInv, AkasOpen
  <2> QED BY <1>9, <2>1 DEF GenKept, Valid
<1>11. TypesFit'
  <2>1. \A i \in DOMAIN stack' : FrameFits(stack[i])'
    <3> SUFFICES ASSUME NEW i \in DOMAIN stack', NEW g, g = stack'[i] PROVE FrameFits(g)'
      BY DEF FrameFits
    <3>1. FrameFits(g)
      BY <1>2 DEF MeaningInv, TypesFit
    <3> QED BY <3>1, <1>10, FitsStay
  <2>2. \A m \in Names : VarFits(m)'
    BY <1>1, <1>9, <1>10, FitsStay DEF MeaningInv, TypesFit, VarFits
  <2>3. \A i \in DOMAIN list : EntryFits(list[i])'
    BY <1>10, FitsStay DEF MeaningInv, TypesFit
  <2> QED BY <2>1, <2>2, <2>3 DEF TypesFit
<1>12. ReadsAreListed'
  <2>1. \A m \in Names : Kind(m) \in {"aka", "var"} => gen'[m].reads \subseteq Listed
    BY <1>9 DEF MeaningInv, ReadsAreListed
  <2>2. \A i \in DOMAIN stack' : stack'[i].value.reads \subseteq Listed
    BY <1>2 DEF MeaningInv, ReadsAreListed
  <2> QED BY <2>1, <2>2, <1>1 DEF MeaningInv, ReadsAreListed, Listed
<1>13. Finished = done
  BY <1>3 DEF Finished
<1>14. Finished' = done \/ (Finished' = done + 1 /\ ~ToDefine(Local[done + 1]))
  BY <1>2 DEF Finished, Empty, Failure, Result
<1>15. Defined'
  BY <1>13, <1>14, DefinedGrows
<1> QED BY <1>2, <1>5, <1>6, <1>7, <1>8, <1>11, <1>12, <1>15 DEF MeaningInv

LEMMA ThrowKeepsMeaning == IInv /\ MeaningInv /\ (Throw \/ EndVarRefused) => MeaningInv'
<1> SUFFICES ASSUME IInv, MeaningInv, Throw \/ EndVarRefused PROVE MeaningInv'
  OBVIOUS
<1> DEFINE n == Top.sym
<1>1. /\ Active /\ stack' = Below /\ answer' = Failure
      /\ UNCHANGED <<prog, gen, list, thrown, done>>
      /\ Kind(n) \notin {"struct", "enum", "func"}
  BY DEF Throw, Rejected, Answered, Keeps, EndVarRefused, Ending
<1>2. n \in Names /\ gen[n].is # "errors" /\ (Kind(n) = "aka" => gen[n].reads \subseteq Listed)
  <2>1. n \in Names
    BY <1>1, TopFits
  <2> QED BY <1>1, <2>1, KindOf DEF MeaningInv, NoErrors, ReadsAreListed, IInv
<1>3. answer'.is # "errors" /\ answer'.reads \subseteq Listed
  BY <1>1, Constants
<1>4. PICK m : m = n
  OBVIOUS
<1>5. AnswerFits(m)'
  BY <1>1 DEF AnswerFits, Failure, Result
<1> HIDE DEF n
<1> QED BY <1>1, <1>2, <1>3, <1>4, <1>5, PopKeepsMeaning DEF n

LEMMA EndFuncKeepsMeaning == IInv /\ MeaningInv /\ EndFunc => MeaningInv'
<1> SUFFICES ASSUME IInv, MeaningInv, EndFunc PROVE MeaningInv'
  OBVIOUS
<1>1. /\ Active /\ stack' = Below /\ answer' \in {Failure, None}
      /\ UNCHANGED <<prog, gen, list, thrown, done>>
      /\ Kind(Top.sym) = "func"
  BY DEF EndFunc, Ending
<1>2. PICK n : n = Top.sym
  OBVIOUS
<1>3. n \in Names /\ ~ToDefine(n)
  BY <1>1, <1>2, TopFits DEF ToDefine
<1>4. answer'.is # "errors" /\ answer'.reads \subseteq Listed
  BY <1>1, Constants
<1>5. AnswerFits(n)'
  BY <1>1, <1>2, <1>3 DEF AnswerFits, Failure, None, Result, Kind
<1> QED BY <1>1, <1>2, <1>3, <1>4, <1>5, PopKeepsMeaning

LEMMA EndTypeKeepsMeaning == IInv /\ MeaningInv /\ (EndStruct \/ EndEnum) => MeaningInv'
<1> SUFFICES ASSUME IInv, MeaningInv, EndStruct \/ EndEnum PROVE MeaningInv'
  OBVIOUS
<1>1. PICK n : n = Top.sym
  OBVIOUS
<1>2. Active /\ Kind(Top.sym) \in {"struct", "enum"} /\ stack' = Below
  BY DEF EndStruct, EndEnum, Ending
<1>3. n \in Names /\ ~ToDefine(n) /\ Kind(n) \in {"struct", "enum"}
  BY <1>1, <1>2, TopFits DEF ToDefine
<1>4. /\ answer' \in {Failure, Type(n, FALSE)} /\ UNCHANGED <<prog, list, thrown, done>>
      /\ \E r : gen' = [gen EXCEPT ![n] = r]
  BY <1>1 DEF EndStruct, EndEnum, Becomes
<1>5. \A x \in Names : x # n => gen'[x] = gen[x]
  BY <1>4 DEF IInv, Typed
<1>6. answer'.is # "errors" /\ answer'.reads \subseteq Listed
  BY <1>4 DEF Type, Failure, Result
<1>7. AnswerFits(n)'
  BY <1>3, <1>4 DEF AnswerFits, Failure, Type, Result, Kind
<1> QED BY <1>1, <1>2, <1>3, <1>4, <1>5, <1>6, <1>7, PopKeepsMeaning

LEMMA EndAkaKeepsMeaning == IInv /\ MeaningInv /\ EndAka => MeaningInv'
<1> SUFFICES ASSUME IInv, MeaningInv, EndAka PROVE MeaningInv'
  OBVIOUS
<1>1. PICK n : n = Top.sym
  OBVIOUS
<1>2. /\ Active /\ Kind(Top.sym) = "aka" /\ stack' = Below
      /\ answer' = Top.value /\ UNCHANGED <<prog, list, thrown, done>>
      /\ gen' = [gen EXCEPT ![n] = Top.value]
  BY <1>1 DEF EndAka, Ending, Becomes
<1>3. n \in Names /\ ~ToDefine(n) /\ Kind(n) = "aka"
  BY <1>1, <1>2, TopFits DEF ToDefine
<1>4. gen'[n] = Top.value /\ \A x \in Names : x # n => gen'[x] = gen[x]
  BY <1>2, <1>3 DEF IInv, Typed
<1>5. Top.value.is # "errors" /\ Top.value.reads \subseteq Listed
  BY <1>2, TopFits
<1>6. AnswerFits(n)'
  BY <1>2, <1>3, <1>4 DEF AnswerFits, Kind
<1> QED BY <1>1, <1>2, <1>3, <1>4, <1>5, <1>6, PopKeepsMeaning

\* A variable that is done has the type of its declaration.
LEMMA VarTypeIsNow ==
    ASSUME IInv, MeaningInv, Active, Ended(Top), Kind(Top.sym) = "var"
    PROVE  Fixed(Top.sym) /\ VarType(Top) = TypeNow(Top.sym)
<1>1. FrameFits(Top) /\ Top.type \in Results /\ Top.value \in Results
  BY TopFits
<1>2. prog[Top.sym].typ \o prog[Top.sym].items # <<>>
  BY <1>1 DEF FrameFits
<1>3. Top.at > 1
  BY <1>2, TopFits, VarAt DEF MeaningInv, ListTyped
<1>4. CASE prog[Top.sym].typ # <<>>
  BY <1>1, <1>3, <1>4 DEF FrameFits, VarType
<1>5. CASE prog[Top.sym].typ = <<>>
  BY <1>1, <1>3, <1>5 DEF FrameFits, VarType
<1> QED BY <1>4, <1>5

LEMMA TypeNowIsAType ==
    ASSUME NEW n
    PROVE  \E b, p : TypeNow(n) = Type(b, p)
BY TypeOfIsAType DEF TypeNow

LEMMA EndVarKeepsMeaning == IInv /\ MeaningInv /\ EndVar => MeaningInv'
<1> SUFFICES ASSUME IInv, MeaningInv, EndVar PROVE MeaningInv'
  OBVIOUS
<1> DEFINE e == Global(Top)
           r == VarRef(Top)
           l == Len(list)
<1>1. PICK n : n = Top.sym
  OBVIOUS
<1>2. /\ Active /\ Ended(Top) /\ Kind(Top.sym) = "var" /\ stack' = Below
      /\ answer' = r /\ list' = Append(list, e) /\ UNCHANGED <<prog, thrown, done>>
      /\ gen' = [gen EXCEPT ![n] = r]
  BY <1>1 DEF EndVar, Ending, Becomes
<1>3. Local' = Local /\ \A m : Kind(m)' = Kind(m) /\ ToDefine(m)' = ToDefine(m)
  BY <1>2, SameProgram
<1>4. /\ DOMAIN stack' \subseteq DOMAIN stack
      /\ \A i \in DOMAIN stack' : stack'[i] = stack[i] /\ i # Len(stack)
      /\ Chained'
      /\ IF stack' = <<>> THEN Top.in /\ done < Len(Local) /\ n = Local[done + 1]
         ELSE ~Top.in /\ (~Ended(Top))' /\ Current(Top)'.of = n
  BY <1>1, <1>2, PoppedTo
<1>5. n \in Names /\ Kind(n) = "var" /\ stack # <<>> /\ Top \in Frames
      /\ Top.value \in Results /\ Top.value.reads \subseteq Listed
  BY <1>1, <1>2, TopFits
<1>6. gen'[n] = r /\ \A x \in Names : x # n => gen'[x] = gen[x]
  BY <1>2, <1>5 DEF IInv, Typed
<1>7. Fixed(n) /\ VarType(Top) = TypeNow(n)
  BY <1>1, <1>2, VarTypeIsNow
<1>8. r.is = "value" /\ r.base = VarType(Top).base /\ r.ptr = VarType(Top).ptr /\ r.reads = {n}
  BY <1>1 DEF VarRef, Result
<1>9. Type(r.base, r.ptr) = TypeNow(n)
  <2>1. PICK b, p : TypeNow(n) = Type(b, p)
    BY TypeNowIsAType
  <2> QED BY <1>7, <1>8, <2>1 DEF Type, Result
<1>10. e.name = n /\ e.external = External(Top) /\ e.type = TypeNow(n) /\ e.reads = Top.value.reads
  BY <1>1, <1>7 DEF Global
<1>11. e \in Entry
  <2>1. External(Top) \in BOOLEAN /\ (Top.value # Empty) \in BOOLEAN
    BY DEF External
  <2>2. VarType(Top) \in Results
    <3>1. Top.type \in Results
      BY <1>5 DEF Frames
    <3>2. Top.value.base \in Names \cup {I32, Array} /\ Top.value.ptr \in BOOLEAN
      BY <1>5 DEF Results
    <3> QED BY <3>1, <3>2, ResultsAreTyped DEF VarType
  <2>3. Top.value.reads \in SUBSET Names
    BY <1>5 DEF Results
  <2> QED BY <1>1, <1>5, <2>1, <2>2, <2>3 DEF Global, Entry
<1>12. list \in Seq(Entry)
  BY DEF MeaningInv, ListTyped
<1>13. /\ list' \in Seq(Entry) /\ l \in Nat /\ DOMAIN list' = 1 .. l + 1 /\ DOMAIN list = 1 .. l
       /\ list'[l + 1] = e /\ \A i \in 1 .. l : list'[i] = list[i]
  BY <1>2, <1>11, <1>12
<1> HIDE DEF e, r, l
<1>14. Listed' = Listed \cup {n}
  BY <1>10, <1>13 DEF Listed
<1>15. Counts'
  BY <1>2, <1>3, <1>4 DEF Counts, MeaningInv, ListTyped
<1>16. ListTyped'
  BY <1>2, <1>13, <1>15 DEF MeaningInv, ListTyped
<1>17. AkasOpen'
  <2>1. \A i \in DOMAIN stack : stack[i].sym \in Names
    <3>1. \A i \in DOMAIN stack : stack[i] \in Frames
      BY DEF IInv, Typed
    <3> QED BY <3>1 DEF Frames
  <2> QED BY <2>1, <1>3, <1>4, <1>5, <1>6 DEF MeaningInv, AkasOpen
<1>18. NoErrors'
  <2>1. \A m \in Names : /\ Kind(m) \in {"aka", "var"} => gen'[m].is # "errors"
                         /\ Kind(m) = "func" => gen'[m] = Empty
    BY <1>5, <1>6, <1>8 DEF MeaningInv, NoErrors
  <2>2. \A i \in DOMAIN stack' : stack'[i].value.is # "errors"
    BY <1>4 DEF MeaningInv, NoErrors
  <2> QED BY <2>1, <2>2, <1>2, <1>3, <1>8 DEF NoErrors
<1>19. AnswersFit'
  <2> SUFFICES ASSUME stack' # <<>> PROVE (~Ended(Top))' /\ AnswerFits(Current(Top).of)'
    BY DEF AnswersFit
  <2> QED BY <1>2, <1>3, <1>4, <1>5, <1>6 DEF AnswerFits
<1>20. GenKept
  <2>1. ASSUME gen[n].is \in Valid
        PROVE  gen'[n].is \in Valid /\ gen'[n].base = gen[n].base /\ gen'[n].ptr = gen[n].ptr
    <3>1. gen[n] # Empty
      BY <2>1, Constants DEF Valid
    <3>2. Type(gen[n].base, gen[n].ptr) = TypeNow(n)
      BY <1>5, <3>1 DEF MeaningInv, TypesFit, VarFits
    <3> QED BY <1>6, <1>8, <1>9, <3>2 DEF Valid, Type, Result
  <2> QED BY <2>1, <1>6 DEF GenKept
<1>21. Fixed(n)' /\ TypeNow(n)' = TypeNow(n)
  BY <1>2, <1>7, <1>20, TypesStay
<1>22. TypesFit'
  <2>1. \A i \in DOMAIN stack' : FrameFits(stack[i])'
    <3> SUFFICES ASSUME NEW i \in DOMAIN stack', NEW g, g = stack'[i] PROVE FrameFits(g)'
      BY DEF FrameFits
    <3>1. FrameFits(g)
      BY <1>4 DEF MeaningInv, TypesFit
    <3> QED BY <3>1, <1>2, <1>20, FitsStay
  <2>2. \A m \in Names : VarFits(m)'
    <3> SUFFICES ASSUME NEW m \in Names PROVE VarFits(m)'
      OBVIOUS
    <3>1. CASE m # n
      BY <3>1, <1>2, <1>6, <1>20, FitsStay DEF MeaningInv, TypesFit
    <3>2. CASE m = n
      BY <3>2, <1>6, <1>8, <1>9, <1>21 DEF VarFits
    <3> QED BY <3>1, <3>2
  <2>3. \A i \in DOMAIN list' : EntryFits(list[i])'
    <3> SUFFICES ASSUME NEW i \in DOMAIN list', NEW g, g = list'[i] PROVE EntryFits(g)'
      BY DEF EntryFits
    <3>1. EntryFits(g)
      BY <1>5, <1>7, <1>10, <1>13 DEF MeaningInv, TypesFit, EntryFits
    <3> QED BY <3>1, <1>2, <1>20, FitsStay
  <2> QED BY <2>1, <2>2, <2>3 DEF TypesFit
<1>23. ReadsAreListed'
  <2>1. \A m \in Names : Kind(m) \in {"aka", "var"} => gen'[m].reads \subseteq Listed'
    BY <1>6, <1>8, <1>14 DEF MeaningInv, ReadsAreListed
  <2>2. \A i \in DOMAIN stack' : stack'[i].value.reads \subseteq Listed'
    BY <1>4, <1>14 DEF MeaningInv, ReadsAreListed
  <2>3. answer'.reads \subseteq Listed'
    BY <1>2, <1>8, <1>14
  <2>4. ASSUME NEW i \in DOMAIN list', NEW m \in list'[i].reads
        PROVE  \E j \in 1 .. i - 1 : list'[j].name = m
    <3>1. CASE i = l + 1
      <4>1. m \in Listed
        BY <3>1, <2>4, <1>5, <1>10, <1>13
      <4>2. PICK j \in DOMAIN list : list[j].name = m
        BY <4>1 DEF Listed
      <4>3. j \in 1 .. i - 1 /\ list'[j] = list[j]
        BY <3>1, <4>2, <1>13
      <4> QED BY <4>2, <4>3
    <3>2. CASE i # l + 1
      <4>1. i \in DOMAIN list /\ list'[i] = list[i] /\ i \in Nat /\ i <= l
        BY <3>2, <1>13
      <4>2. PICK j \in 1 .. i - 1 : list[j].name = m
        BY <4>1, <2>4 DEF MeaningInv, ReadsAreListed
      <4>3. list'[j] = list[j]
        BY <4>1, <4>2, <1>13
      <4> QED BY <4>2, <4>3
    <3> QED BY <3>1, <3>2
  <2> QED BY <2>1, <2>2, <2>3, <2>4, <1>3 DEF ReadsAreListed
<1>24. Finished = done /\ done \in Nat /\ \A j, k \in 1 .. Len(Local) : Local[j] = Local[k] => j = k
  <2>1. Finished = done
    BY <1>5 DEF Finished
  <2> QED BY <2>1, LocalFacts DEF MeaningInv, ListTyped, Counts
<1>25. Finished' = IF stack' = <<>> THEN done + 1 ELSE done
  BY <1>2, <1>8, Constants DEF Finished, Empty, Failure, Result
<1>26. e.external <=> stack' # <<>> \/ prog[n].extern
  BY <1>1, <1>4, <1>10 DEF External
<1>27. Defined'
  <2>1. ASSUME NEW i \in DOMAIN list', ~list'[i].external
        PROVE  ToDefine(list'[i].name) /\ \E k \in 1 .. Finished' : Local[k] = list'[i].name
    <3>1. CASE i = l + 1
      <4>1. list'[i].name = n /\ stack' = <<>> /\ ~prog[n].extern
        BY <3>1, <2>1, <1>10, <1>13, <1>26
      <4>2. Local[done + 1] = n /\ done + 1 \in 1 .. Finished'
        BY <4>1, <1>4, <1>24, <1>25
      <4> QED BY <4>1, <4>2, <1>5 DEF ToDefine
    <3>2. CASE i # l + 1
      <4>1. i \in DOMAIN list /\ list'[i] = list[i]
        BY <3>2, <1>13
      <4>2. ToDefine(list[i].name) /\ \E k \in 1 .. done : Local[k] = list[i].name
        BY <4>1, <2>1, <1>24 DEF MeaningInv, Defined
      <4> QED BY <4>1, <4>2, <1>24, <1>25
    <3> QED BY <3>1, <3>2
  <2>2. ASSUME NEW i \in DOMAIN list, ~list[i].external, ~e.external PROVE list[i].name # n
    <3>1. PICK k \in 1 .. done : Local[k] = list[i].name
      BY <2>2, <1>24 DEF MeaningInv, Defined
    <3>2. stack' = <<>> /\ done < Len(Local) /\ n = Local[done + 1]
      BY <2>2, <1>4, <1>26
    <3>3. k \in 1 .. Len(Local) /\ done + 1 \in 1 .. Len(Local) /\ k # done + 1 /\ Len(Local) \in Nat
      <4>1. Len(Local) \in Nat
        BY LocalFacts DEF MeaningInv, ListTyped
      <4> QED BY <4>1, <3>1, <3>2, <1>24
    <3> QED BY <3>1, <3>2, <3>3, <1>24
  <2>3. ASSUME NEW i \in DOMAIN list', NEW j \in DOMAIN list', ~list'[i].external, ~list'[j].external,
               list'[i].name = list'[j].name
        PROVE  i = j
    <3>1. CASE i = l + 1 /\ j = l + 1
      BY <3>1
    <3>2. CASE i = l + 1 /\ j # l + 1
      BY <3>2, <2>2, <2>3, <1>10, <1>13
    <3>3. CASE i # l + 1 /\ j = l + 1
      BY <3>3, <2>2, <2>3, <1>10, <1>13
    <3>4. CASE i # l + 1 /\ j # l + 1
      BY <3>4, <2>3, <1>13 DEF MeaningInv, Defined
    <3> QED BY <3>1, <3>2, <3>3, <3>4
  <2>4. ASSUME ~thrown, NEW k \in 1 .. Finished', ToDefine(Local[k])
        PROVE  \E i \in DOMAIN list' : ~list'[i].external /\ list'[i].name = Local[k]
    <3>1. CASE k \in 1 .. done
      <4>1. PICK i \in DOMAIN list : ~list[i].external /\ list[i].name = Local[k]
        BY <3>1, <2>4, <1>24 DEF MeaningInv, Defined
      <4> QED BY <4>1, <1>13
    <3>2. CASE k \notin 1 .. done
      <4>1. stack' = <<>> /\ k = done + 1
        BY <3>2, <1>24, <1>25
      <4>2. n = Local[k] /\ ~prog[n].extern
        BY <4>1, <2>4, <1>4 DEF ToDefine
      <4>3. l + 1 \in DOMAIN list' /\ ~e.external
        BY <4>1, <4>2, <1>13, <1>26
      <4> QED BY <4>2, <4>3, <1>10, <1>13
    <3> QED BY <3>1, <3>2
  <2> QED BY <2>1, <2>3, <2>4, <1>2, <1>3 DEF Defined
<1> QED BY <1>4, <1>16, <1>17, <1>18, <1>19, <1>22, <1>23, <1>27 DEF MeaningInv

LEMMA CollectKeepsMeaning == IInv /\ MeaningInv /\ Collect => MeaningInv'
<1> SUFFICES ASSUME IInv, MeaningInv, Collect PROVE MeaningInv'
  OBVIOUS
<1>1. /\ stack = <<>> /\ answer # Empty /\ answer' = Empty /\ done' = done + 1
      /\ thrown' = (thrown \/ answer = Failure) /\ UNCHANGED <<prog, gen, list, stack>>
  BY DEF Collect
<1>2. Local' = Local /\ \A m : Kind(m)' = Kind(m) /\ ToDefine(m)' = ToDefine(m)
  BY <1>1, SameProgram
<1>3. done \in 0 .. Len(Local) /\ Len(Local) \in Nat /\ done < Len(Local) /\ list \in Seq(Entry)
      /\ prog \in Programs
  BY <1>1, LocalFacts DEF MeaningInv, ListTyped, Counts
<1>4. ListTyped'
  BY <1>1, <1>2, <1>3 DEF ListTyped, Counts
<1>5. Chained' /\ AkasOpen' /\ NoErrors'
  BY <1>1, <1>2, Constants DEF MeaningInv, Chained, AkasOpen, NoErrors
<1>6. AnswersFit'
  BY <1>1 DEF AnswersFit
<1>7. GenKept
  BY <1>1 DEF GenKept
<1>8. TypesFit'
  BY <1>1, <1>7, FitsStay DEF MeaningInv, TypesFit
<1>9. ReadsAreListed'
  BY <1>1, <1>2, Constants DEF MeaningInv, ReadsAreListed, Listed
<1>10. Finished' = done + 1
  BY <1>1 DEF Finished, Empty, Result
<1>11. Finished = IF answer = Failure THEN done ELSE done + 1
  BY <1>1 DEF Finished
<1>12. Defined'
  <2>1. \A k : k \in 1 .. Finished => k \in 1 .. Finished'
    BY <1>3, <1>10, <1>11
  <2>2. ~thrown' => ~thrown /\ Finished' = Finished
    BY <1>1, <1>10, <1>11
  <2> QED BY <1>1, <1>2, <2>1, <2>2 DEF MeaningInv, Defined
<1> QED BY <1>4, <1>5, <1>6, <1>8, <1>9, <1>12 DEF MeaningInv

\* A symbol is named, by the module or by the one on top.
LEMMA RequireKeepsMeaning ==
    ASSUME IInv, MeaningInv, NEW n \in Names, NEW b \in BOOLEAN, Require(n, b), answer = Empty,
           UNCHANGED <<prog, list, thrown, done>>,
           IF stack = <<>> THEN b /\ done < Len(Local) /\ n = Local[done + 1]
           ELSE ~b /\ ~Ended(Top) /\ Current(Top).of = n
    PROVE  MeaningInv'
<1>1. Local' = Local /\ \A m : Kind(m)' = Kind(m) /\ ToDefine(m)' = ToDefine(m)
  BY SameProgram
<1>2. Finished = done /\ done \in 0 .. Len(Local)
  BY DEF Finished, MeaningInv, ListTyped, Counts
<1>3. ASSUME stack' = stack, NEW m, m = n, AnswerFits(m)' PROVE AnswersFit'
  <2> SUFFICES ASSUME stack # <<>> PROVE (~Ended(Top))' /\ AnswerFits(Current(Top).of)'
    BY <1>3 DEF AnswersFit
  <2>1. Top' = Top
    BY <1>3 DEF Top
  <2>2. ~Ended(Top) /\ Current(Top).of = n
    OBVIOUS
  <2> QED BY <1>3, <2>1, <2>2 DEF AnswerFits, Ended, Current
<1>4. ASSUME stack' = stack PROVE Counts'
  BY <1>1, <1>2, <1>4 DEF Counts
<1>5. CASE Refuse(n, b)
  <2>1. answer' = Failure /\ UNCHANGED <<gen, stack>>
    BY <1>5 DEF Refuse
  <2>2. answer'.is # "errors" /\ answer'.reads \subseteq Listed /\ OthersSame
    BY <2>1, Constants DEF OthersSame
  <2>3. AnswerFits(n)'
    BY <2>1 DEF AnswerFits, Failure, Result
  <2>4. Finished' = done
    BY <2>1 DEF Finished, Failure, Empty, Result
  <2> QED BY <1>2, <1>3, <1>4, <2>1, <2>2, <2>3, <2>4, QuietKeeps
<1>6. CASE Answer(n, b)
  <2>1. answer' = Stored(n) /\ gen' = Reported(n) /\ stack' = stack /\ Validated(n, b)
    BY <1>6 DEF Answer
  <2>2. OthersSame
    <3>1. \A x \in Names : x # n => gen'[x] = gen[x]
      BY <2>1 DEF Reported, IInv, Typed
    <3>2. Kind(n) \notin {"struct", "enum"} => gen[n] # Errors
      BY KindOf, Constants DEF MeaningInv, NoErrors, IInv
    <3>3. Kind(n) \notin {"struct", "enum"} => gen' = gen
      BY <2>1, <3>2 DEF Reported
    <3> QED BY <3>1, <3>3 DEF OthersSame
  <2>3. CASE Kind(n) \in {"struct", "enum"}
    <3>1. answer' \in {Failure, Type(n, FALSE)}
      BY <2>1, <2>3 DEF Stored
    <3>2. answer'.is # "errors" /\ answer'.reads \subseteq Listed
      BY <3>1 DEF Failure, Type, Result
    <3>3. AnswerFits(n)'
      BY <1>1, <2>3, <3>1 DEF AnswerFits, Failure, Type, Result
    <3>4. Finished' = done \/ (Finished' = done + 1 /\ ~ToDefine(Local[done + 1]))
      BY <2>3, <2>1 DEF Finished, Failure, Empty, Result, ToDefine
    <3> QED BY <1>2, <1>3, <1>4, <2>1, <2>2, <3>2, <3>3, <3>4, QuietKeeps
  <2>4. CASE Kind(n) \in {"aka", "var"}
    <3>1. answer' = gen[n] /\ gen'[n] = gen[n]
      BY <2>1, <2>2, <2>4 DEF Stored, OthersSame
    <3>2. answer'.is # "errors" /\ answer'.reads \subseteq Listed
      BY <2>4, <3>1 DEF MeaningInv, NoErrors, ReadsAreListed
    <3>3. AnswerFits(n)'
      BY <1>1, <2>4, <3>1 DEF AnswerFits
    <3>4. Finished' = done \/ (Finished' = done + 1 /\ ~ToDefine(Local[done + 1]))
      <4>1. Kind(n) = "var" => stack # <<>>
        BY <2>1 DEF Validated
      <4>2. CASE stack = <<>>
        BY <2>1, <4>1, <4>2 DEF Finished, Failure, Empty, Result, ToDefine
      <4>3. CASE stack # <<>>
        BY <2>1, <4>3 DEF Finished
      <4> QED BY <4>2, <4>3
    <3> QED BY <1>2, <1>3, <1>4, <2>1, <2>2, <3>2, <3>3, <3>4, QuietKeeps
  <2>5. CASE Kind(n) = "func"
    BY <2>1, <2>5 DEF Validated, MeaningInv, NoErrors
  <2>6. Kind(n) \in {"var", "aka", "struct", "enum", "func"}
    BY KindOf DEF IInv
  <2> QED BY <2>3, <2>4, <2>5, <2>6
<1>7. CASE Open(n, b)
  BY <1>7, OpenKeepsMeaning
<1>8. CASE Overflow(n, b)
  <2>1. answer' = Empty /\ UNCHANGED <<gen, stack>>
    BY <1>8 DEF Overflow, Empty, Result
  <2>2. answer'.is # "errors" /\ answer'.reads \subseteq Listed /\ OthersSame
    BY <2>1, Constants DEF OthersSame
  <2>3. Finished' = done /\ AnswersFit'
    BY <2>1 DEF Finished, AnswersFit, Empty, Result
  <2> QED BY <1>2, <1>4, <2>1, <2>2, <2>3, QuietKeeps
<1> QED BY <1>5, <1>6, <1>7, <1>8 DEF Require

LEMMA BeginKeepsMeaning == IInv /\ MeaningInv /\ Begin => MeaningInv'
<1> SUFFICES ASSUME IInv, MeaningInv, Begin PROVE MeaningInv'
  OBVIOUS
<1>1. PICK n \in Names : Local[done + 1] = n /\ Require(n, TRUE)
  BY DEF Begin
<1>2. stack = <<>> /\ answer = Empty /\ done < Len(Local) /\ UNCHANGED <<prog, list, thrown, done>>
  BY DEF Begin
<1> QED BY <1>1, <1>2, RequireKeepsMeaning

LEMMA AskSymbolKeepsMeaning == IInv /\ MeaningInv /\ AskSymbol => MeaningInv'
<1> SUFFICES ASSUME IInv, MeaningInv, AskSymbol PROVE MeaningInv'
  OBVIOUS
<1>1. /\ stack # <<>> /\ ~Ended(Top) /\ answer = Empty /\ Current(Top).of \in Names
      /\ Require(Current(Top).of, FALSE) /\ UNCHANGED <<prog, list, thrown, done>>
  BY DEF AskSymbol, Ready, Asking, Active
<1> QED BY <1>1, RequireKeepsMeaning

LEMMA AskBuiltinKeepsMeaning == IInv /\ MeaningInv /\ (AskBuiltin \/ Halt) => MeaningInv'
<1> SUFFICES ASSUME IInv, MeaningInv, AskBuiltin \/ Halt PROVE MeaningInv'
  OBVIOUS
<1>1. /\ stack # <<>> /\ ~Ended(Top) /\ answer = Empty
      /\ UNCHANGED <<prog, gen, list, stack, thrown, done>>
  BY DEF AskBuiltin, Halt, Ready, Asking, Active
<1>2. OthersSame
  BY <1>1 DEF OthersSame
<1>3. Finished = done /\ Finished' = done
  BY <1>1 DEF Finished
<1>4. Counts'
  BY <1>1, SameProgram DEF Counts, MeaningInv, ListTyped
<1>5. CASE AskBuiltin
  <2>1. PICK x : x = Current(Top).of
    OBVIOUS
  <2>2. /\ x \notin Names /\ answer' \in {Type(I32, FALSE), Number, Failure}
        /\ answer' = Type(I32, FALSE) => x = I32
    BY <1>5, <2>1 DEF AskBuiltin, Builtin, Type, Number, Failure, Result
  <2>3. AnswerFits(x)'
    BY <2>2 DEF AnswerFits, Type, Number, Failure, Result
  <2>4. Top' = Top
    BY <1>1 DEF Top
  <2>5. AnswersFit'
    BY <1>1, <2>1, <2>3, <2>4 DEF AnswersFit, AnswerFits, Ended, Current
  <2>6. answer'.is # "errors" /\ answer'.reads \subseteq Listed
    BY <2>2 DEF Type, Number, Failure, Result
  <2> QED BY <1>1, <1>2, <1>3, <1>4, <2>5, <2>6, QuietKeeps
<1>6. CASE Halt
  <2>1. answer' = Empty
    BY <1>1, <1>6 DEF Halt
  <2>2. AnswersFit'
    BY <2>1 DEF AnswersFit, Empty, Result
  <2>3. answer'.is # "errors" /\ answer'.reads \subseteq Listed
    BY <2>1, Constants
  <2> QED BY <1>1, <1>2, <1>3, <1>4, <2>2, <2>3, QuietKeeps
<1> QED BY <1>5, <1>6

\* The types are generated, or nothing happens.
LEMMA SameKeepsMeaning ==
    ASSUME IInv, MeaningInv, UNCHANGED <<prog, gen, list, stack, answer, thrown, done>>
    PROVE  MeaningInv'
<1>1. GenKept
  BY DEF GenKept
<1>2. TypesFit'
  BY <1>1, FitsStay DEF MeaningInv, TypesFit
<1>3. Local' = Local /\ \A m : Kind(m)' = Kind(m) /\ ToDefine(m)' = ToDefine(m)
  BY SameProgram
<1>4. ListTyped' /\ Chained' /\ AkasOpen'
  BY <1>3 DEF MeaningInv, ListTyped, Counts, Chained, AkasOpen, Ended, Current
<1>5. NoErrors' /\ ReadsAreListed'
  <2>1. NoErrors /\ ReadsAreListed
    BY DEF MeaningInv
  <2>2. NoErrors'
    BY <1>3, <2>1 DEF NoErrors
  <2>3. ReadsAreListed'
    BY <1>3, <2>1 DEF ReadsAreListed, Listed
  <2> QED BY <2>2, <2>3
<1>6. Top' = Top /\ Finished' = Finished
  BY DEF Top, Finished, Empty, Failure, Result
<1>7. AnswersFit'
  BY <1>3, <1>6 DEF MeaningInv, AnswersFit, AnswerFits, Ended, Current, Empty, Failure, None, Number, Type, Result
<1>8. Defined'
  BY <1>3, <1>6 DEF MeaningInv, Defined
<1> QED BY <1>2, <1>4, <1>5, <1>7, <1>8 DEF MeaningInv

LEMMA InitMeans == TypeInit => MeaningInv
<1> SUFFICES ASSUME TypeInit PROVE MeaningInv
  OBVIOUS
<1>1. /\ prog \in Programs /\ gen = [n \in Names |-> Empty] /\ list = <<>> /\ stack = <<>>
      /\ answer = Empty /\ thrown = FALSE /\ done = 0
  BY DEF TypeInit, Init
<1>2. Len(Local) \in Nat
  BY <1>1, LocalFacts
<1>3. ListTyped
  BY <1>1, <1>2 DEF ListTyped, Counts
<1>4. Chained /\ AkasOpen /\ AnswersFit
  BY <1>1 DEF Chained, AkasOpen, AnswersFit
<1>5. NoErrors /\ ReadsAreListed
  BY <1>1, Constants DEF NoErrors, ReadsAreListed
<1>6. TypesFit
  BY <1>1 DEF TypesFit, VarFits
<1>7. Defined
  BY <1>1 DEF Defined, Finished
<1> QED BY <1>3, <1>4, <1>5, <1>6, <1>7 DEF MeaningInv

LEMMA DefinedInTheEnd == MeaningInv => DefinedOnce
<1> SUFFICES ASSUME MeaningInv, Compiled PROVE DefinedOnce
  BY DEF DefinedOnce
<1>1. stack = <<>> /\ answer = Empty /\ done = Len(Local) /\ ~thrown /\ Finished = Len(Local)
  BY DEF Compiled, Judged, Over, Generating, ModuleEnded, Running, Finished
<1>2. /\ DOMAIN Local = 1 .. Len(Local)
      /\ \A k \in 1 .. Len(Local) : Local[k] \in Names /\ prog[Local[k]].here
      /\ \A n \in Names : prog[n].here => \E k \in 1 .. Len(Local) : Local[k] = n
  BY LocalFacts DEF MeaningInv, ListTyped
<1>3. ASSUME NEW n \in Names
      PROVE  Cardinality({i \in EntriesOf(n) : ~list[i].external})
                  = IF Kind(n) = "var" /\ prog[n].here /\ ~prog[n].extern THEN 1 ELSE 0
  <2> DEFINE S == {i \in EntriesOf(n) : ~list[i].external}
  <2>1. CASE Kind(n) = "var" /\ prog[n].here /\ ~prog[n].extern
    <3>1. PICK k \in 1 .. Len(Local) : Local[k] = n
      BY <2>1, <1>2
    <3>2. PICK i \in DOMAIN list : ~list[i].external /\ list[i].name = n
      BY <2>1, <3>1, <1>1 DEF MeaningInv, Defined, ToDefine
    <3>3. S = {i}
      BY <3>2 DEF MeaningInv, Defined, EntriesOf
    <3> QED BY <2>1, <3>3, FS_Singleton
  <2>2. CASE ~(Kind(n) = "var" /\ prog[n].here /\ ~prog[n].extern)
    <3>1. S = {}
      BY <2>2, <1>1, <1>2 DEF MeaningInv, Defined, ToDefine, EntriesOf
    <3> QED BY <2>2, <3>1, FS_EmptySet
  <2> QED BY <2>1, <2>2
<1>4. ASSUME NEW n \in Names, NEW i \in EntriesOf(n), NEW j \in EntriesOf(n)
      PROVE  list[i].type = list[j].type
  BY <1>4 DEF EntriesOf, MeaningInv, TypesFit, EntryFits
<1>5. \A i \in DOMAIN list : \A m \in list[i].reads : \E j \in 1 .. i - 1 : list[j].name = m
  BY DEF MeaningInv, ReadsAreListed
<1> QED BY <1>3, <1>4, <1>5 DEF DefinedOnce

LEMMA NextKeepsMeaning == IInv /\ MeaningInv /\ [TypeNext]_<<vars, generated>> => MeaningInv'
<1> SUFFICES ASSUME IInv, MeaningInv, [TypeNext]_<<vars, generated>> PROVE MeaningInv'
  OBVIOUS
<1>1. CASE Next
  BY <1>1, BeginKeepsMeaning, CollectKeepsMeaning, EnterValueKeepsMeaning, AskBuiltinKeepsMeaning, AskSymbolKeepsMeaning,
     AcceptKeepsMeaning, RetryKeepsMeaning, ContinueKeepsMeaning, ThrowKeepsMeaning, EndVarKeepsMeaning, EndAkaKeepsMeaning,
     EndTypeKeepsMeaning, EndFuncKeepsMeaning DEF Next
<1>2. CASE LayOutVar \/ LayOutField \/ GenerateVar \/ GenerateField \/ EndType \/ EndVoid \/ Stop
           \/ UNCHANGED vars
  <2>1. UNCHANGED <<prog, gen, list, stack, answer, thrown, done>>
    BY <1>2 DEF LayOutVar, LayOutField, LayOut, GenerateVar, GenerateField, EndType, EndVoid,
                Stop, vars
  <2> QED BY <2>1, SameKeepsMeaning
<1> QED BY <1>1, <1>2 DEF TypeNext, Validates, vars, generated

\* For every program, a module that compiles has defined each of its variables
\* once, every declaration of a variable has the type of its definition, and
\* what a value reads is declared before it (validateVarDecl,
\* Visitor_symbols.cc:44-108; validateGlobalVar, Visitor_vars.cc:205).
THEOREM VariablesDefinedOnce == TypeSpec => []DefinedOnce
<1>1. TypeInit => IInv /\ MeaningInv
  BY InitHolds, InitMeans DEF TypeInit
<1>2. IInv /\ [TypeNext]_<<vars, generated>> => IInv'
  BY TypeNextKeeps
<1>3. IInv /\ MeaningInv /\ [TypeNext]_<<vars, generated>> => MeaningInv'
  BY NextKeepsMeaning
<1>4. MeaningInv => DefinedOnce
  BY DefinedInTheEnd
<1> QED BY <1>1, <1>2, <1>3, <1>4, PTL DEF TypeSpec

-----------------------------------------------------------------------------
(* The layouts of the structures. *)

\* What an expression has become, when it is a type: what the name of it denotes.
Meant(r, x) ==
    r.is \in {"type", "struct"} => ~r.ptr /\ r.base = Denotes(x) /\ ~Is("aka", r.base)

\* The types of the first k fields of a structure, as its program gives them.
FieldType(it) ==
    IF it.form = "size" THEN Type(Array, FALSE) ELSE Type(Denotes(it.of), it.form = "pointer")
FieldsFit(n, types, k) ==
    /\ k <= Len(prog[n].items) /\ Len(types) = k
    /\ \A j \in 1 .. k : types[j] = FieldType(prog[n].items[j])

\* An alias or a structure that is being validated, and one that is done.
FrameMeans(f) ==
    /\ Kind(f.sym) = "aka" => Meant(f.value, AliasOf(f.sym))
    /\ Kind(f.sym) = "struct" => f.try = 1
    /\ Kind(f.sym) = "struct" /\ ~f.bad => FieldsFit(f.sym, f.fields, f.at - 1)
GenMeans(n, r, types) ==
    /\ Kind(n) = "aka" => Meant(r, n)
    /\ Kind(n) = "struct" /\ r.is = "struct" => FieldsFit(n, types, Len(prog[n].items))
ShapesFit ==
    /\ fields \in [Names -> Seq(Results)]
    /\ \A i \in DOMAIN stack : FrameMeans(stack[i])
    /\ \A n \in Names : GenMeans(n, gen[n], fields[n])

\* What the types are generated from does not change any more.
Settles == current # <<>> \/ emitted > 0 => stack = <<>> /\ answer = Empty /\ ModuleEnded

\* The structures that are open are complete, each leads to those it has opened, and
\* the fields met so far have their tags; void is the one that has no size.
Tags  == {"opaque", "pointer", "void", "whole"}
Opens == [name : Names, tags : Seq(Tags)]
TagFits(n, it, tag) == ExactTag(n, it, tag) \/ (it.form # "pointer" /\ tag = "void")
OpenFits(o) ==
    /\ Kind(o.name) = "struct" /\ gen[o.name].is = "struct"
    /\ Len(o.tags) <= Len(prog[o.name].items)
    /\ \A j \in DOMAIN o.tags : TagFits(o.name, prog[o.name].items[j], o.tags[j])
Nested ==
    /\ current \in Seq(Opens)
    /\ \A i \in DOMAIN current : OpenFits(current[i])
    /\ \A i, j \in DOMAIN current : i < j => current[j].name \in Leads(current[i].name)

DoneFits(n, tags) ==
    tags # <<>> =>
        IF prog[n].items = <<>> THEN tags = <<"whole">>
        ELSE /\ Len(tags) = Len(prog[n].items)
             /\ \A i \in DOMAIN tags : ExactTag(n, prog[n].items[i], tags[i])
Generated ==
    /\ dones \in [Names -> Seq(Tags)]
    /\ \A n \in Names : DoneFits(n, dones[n])
    /\ emitted \in 0 .. Len(list)
    /\ \A i \in 1 .. emitted : IsStruct(list[i].type) => dones[list[i].type.base] # <<>>

LayoutInv == ShapesFit /\ Settles /\ Nested /\ Generated

-----------------------------------------------------------------------------
(* What the program alone says of its symbols. *)

LEMMA ClosureHolds ==
    ASSUME NEW start \in SUBSET Names, NEW next \in [Names -> SUBSET Names]
    PROVE  /\ start \subseteq Closure(start, next) /\ Closure(start, next) \subseteq Names
           /\ \A x \in Closure(start, next) : next[x] \subseteq Closure(start, next)
BY DEF Closure

LEMMA ClosureIsLeast ==
    ASSUME NEW start, NEW next, NEW S \in SUBSET Names, start \subseteq S,
           \A x \in S : next[x] \subseteq S
    PROVE  Closure(start, next) \subseteq S
BY DEF Closure

\* A structure has no type, an alias one expression.
LEMMA ShapeOf ==
    ASSUME IInv, prog \in Programs, NEW n \in Names
    PROVE  /\ Kind(n) = "struct" =>
                 /\ prog[n].items \in Seq(Item) /\ ItemsOf(n) = prog[n].items
                 /\ \A b \in BOOLEAN : Todo(n, b) = prog[n].items
                 /\ \A i \in DOMAIN prog[n].items : prog[n].items[i].form \in {"type", "pointer", "size"}
           /\ Kind(n) = "aka" =>
                 /\ prog[n].items \in Seq(Item) /\ ItemsOf(n) = prog[n].items
                 /\ \A b \in BOOLEAN : Todo(n, b) = prog[n].items
                 /\ Len(prog[n].items) = 1 /\ prog[n].items[1].form = "alias"
<1>1. prog[n] \in Symbol
  BY DEF IInv, Typed
<1>2. prog[n].items \in Seq(Item)
  BY <1>1 DEF Symbol
<1>3. <<>> \o prog[n].items = prog[n].items
  BY <1>2
<1>4. Kind(n) \in {"struct", "aka"} => prog[n].typ = <<>>
  BY ShapeAssumption DEF Kind
<1>5. Kind(n) \in {"struct", "aka"} =>
          ItemsOf(n) = prog[n].items /\ \A b \in BOOLEAN : Todo(n, b) = prog[n].items
  BY <1>3, <1>4 DEF ItemsOf, Todo
<1>6. /\ Kind(n) = "struct" =>
            \A i \in DOMAIN prog[n].items : prog[n].items[i].form \in {"type", "pointer", "size"}
      /\ Kind(n) = "aka" => Len(prog[n].items) = 1 /\ prog[n].items[1].form = "alias"
  BY ShapeAssumption DEF Kind
<1> QED BY <1>2, <1>5, <1>6

LEMMA NextSymbols ==
    /\ Aliased \in [Names -> SUBSET Names]
    /\ Naming \in [Names -> SUBSET Names]
BY DEF Aliased, Naming

\* Along a line that ends, every alias denotes the same.
LEMMA AliasDenotes ==
    ASSUME NEW n \in Names, Kind(n) = "aka", ~Is("aka", Denotes(AliasOf(n)))
    PROVE  Denotes(n) = Denotes(AliasOf(n))
<1> DEFINE y == AliasOf(n)
           line == Closure({n}, Aliased)
           rest == Closure({y}, Aliased)
<1>1. Is("aka", n)
  BY DEF Is
<1>2. n \in line /\ line \subseteq Names /\ \A x \in line : Aliased[x] \subseteq line
  BY NextSymbols, ClosureHolds
<1>3. Ends(n) = {d \in {AliasOf(m) : m \in {k \in line : Kind(k) = "aka"}} : ~Is("aka", d)}
  BY DEF Ends
<1>4. Aliased[n] = {y} \cap Names
  BY DEF Aliased
<1>5. CASE ~Is("aka", y)
  <2>1. Denotes(y) = y
    BY <1>5 DEF Denotes
  <2>2. line \subseteq {n} \cup ({y} \cap Names)
    <3> DEFINE S == {n} \cup ({y} \cap Names)
    <3>1. S \in SUBSET Names /\ {n} \subseteq S
      OBVIOUS
    <3>2. \A x \in S : Aliased[x] \subseteq S
      BY <1>4, <1>5 DEF Aliased, Is
    <3> HIDE DEF S
    <3>3. Closure({n}, Aliased) \subseteq S
      BY <3>1, <3>2, ClosureIsLeast
    <3> QED BY <3>3 DEF S
  <2>3. \A m \in line : Kind(m) = "aka" => m = n
    BY <2>2, <1>5 DEF Is
  <2>4. Ends(n) = {y}
    <3> HIDE DEF line
    <3> QED BY <1>2, <1>3, <1>5, <2>3
  <2> QED BY <1>1, <2>1, <2>4 DEF Denotes
<1>6. CASE Is("aka", y)
  <2>1. y \in Names
    BY <1>6 DEF Is
  <2>2. y \in rest /\ rest \subseteq Names /\ \A x \in rest : Aliased[x] \subseteq rest
    BY <2>1, NextSymbols, ClosureHolds
  <2>3. line \subseteq {n} \cup rest
    <3> DEFINE S == {n} \cup rest
    <3>1. S \in SUBSET Names /\ {n} \subseteq S
      BY <2>2
    <3>2. \A x \in S : Aliased[x] \subseteq S
      <4> HIDE DEF rest, y
      <4> QED BY <1>4, <2>2
    <3> HIDE DEF S
    <3>3. Closure({n}, Aliased) \subseteq S
      BY <3>1, <3>2, ClosureIsLeast
    <3> QED BY <3>3 DEF S
  <2>4. rest \subseteq line
    <3> HIDE DEF line, y
    <3>1. {y} \subseteq line
      BY <1>2, <1>4, <2>1
    <3> QED BY <1>2, <3>1, ClosureIsLeast
  <2>5. Ends(y) = {d \in {AliasOf(m) : m \in {k \in rest : Kind(k) = "aka"}} : ~Is("aka", d)}
    BY DEF Ends
  <2>6. Ends(n) = Ends(y)
    <3> DEFINE a == Ends(n)
               b == Ends(y)
    <3>1. ASSUME NEW d \in a PROVE d \in b
      <4>1. PICK m \in line : Kind(m) = "aka" /\ d = AliasOf(m) /\ ~Is("aka", d)
        BY <1>3
      <4>2. m # n
        BY <4>1, <1>6
      <4> QED BY <4>1, <4>2, <2>3, <2>5
    <3>2. ASSUME NEW d \in b PROVE d \in a
      BY <2>4, <2>5, <1>3
    <3> QED BY <3>1, <3>2
  <2>7. Ends(y) # {}
    BY <1>6 DEF Denotes
  <2> QED BY <1>1, <1>6, <2>6, <2>7 DEF Denotes
<1> QED BY <1>5, <1>6

\* A symbol leads to those it names, to what they denote, and to what those lead to.
LEMMA LeadsOn ==
    ASSUME NEW m \in Names
    PROVE  /\ Named(m) \cap Names \subseteq Leads(m)
           /\ Leads(m) \subseteq Names
           /\ \A x \in Leads(m) : Named(x) \cap Names \subseteq Leads(m)
           /\ \A x \in Leads(m) : Leads(x) \subseteq Leads(m)
<1>1. Naming[m] = Named(m) \cap Names /\ Naming[m] \in SUBSET Names
  BY DEF Naming
<1>2. Naming[m] \subseteq Leads(m) /\ Leads(m) \subseteq Names /\ \A x \in Leads(m) : Naming[x] \subseteq Leads(m)
  BY <1>1, NextSymbols, ClosureHolds DEF Leads
<1>3. ASSUME NEW x \in Leads(m)
      PROVE  Named(x) \cap Names \subseteq Leads(m) /\ Leads(x) \subseteq Leads(m)
  <2>1. Naming[x] \subseteq Leads(m)
    BY <1>2
  <2>2. Naming[x] = Named(x) \cap Names
    BY <1>2 DEF Naming
  <2>3. Closure(Naming[x], Naming) \subseteq Leads(m)
    BY <1>2, <2>1, ClosureIsLeast
  <2> QED BY <2>1, <2>2, <2>3 DEF Leads
<1> QED BY <1>1, <1>2, <1>3

LEMMA LeadsToDenoted ==
    ASSUME IInv, prog \in Programs, NEW m \in Names, NEW x \in Named(m), Denotes(x) \in Names
    PROVE  Denotes(x) \in Leads(m)
<1>1. Leads(m) \in SUBSET Names /\ Named(m) \cap Names \subseteq Leads(m)
  BY LeadsOn
<1>2. CASE Denotes(x) = x
  BY <1>1, <1>2
<1>3. CASE Denotes(x) # x
  <2>1. Is("aka", x) /\ Ends(x) # {} /\ Denotes(x) \in Ends(x)
    BY <1>3 DEF Denotes
  <2>2. x \in Leads(m)
    BY <2>1, <1>1 DEF Is
  <2>3. ASSUME NEW z \in Leads(m), Kind(z) = "aka" PROVE AliasOf(z) \in Names => AliasOf(z) \in Leads(m)
    <3>1. z \in Names
      BY <1>1
    <3>2. ItemsOf(z) = prog[z].items /\ prog[z].items \in Seq(Item) /\ Len(prog[z].items) = 1
      BY <2>3, <3>1, ShapeOf
    <3>3. 1 \in DOMAIN ItemsOf(z)
      BY <3>2
    <3>4. AliasOf(z) \in Named(z)
      BY <3>2, <3>3 DEF AliasOf, Named
    <3> QED BY <3>4, LeadsOn
  <2>4. Closure({x}, Aliased) \subseteq Leads(m)
    <3>1. \A z \in Leads(m) : Aliased[z] \subseteq Leads(m)
      BY <2>3, <1>1 DEF Aliased
    <3> QED BY <1>1, <2>2, <3>1, ClosureIsLeast
  <2>5. PICK z \in Closure({x}, Aliased) : Kind(z) = "aka" /\ Denotes(x) = AliasOf(z)
    BY <2>1 DEF Ends
  <2> QED BY <2>3, <2>4, <2>5
<1> QED BY <1>2, <1>3

LEMMA SameMeaning ==
    ASSUME prog' = prog
    PROVE  /\ \A x : Kind(x)' = Kind(x) /\ Named(x)' = Named(x) /\ AliasOf(x)' = AliasOf(x)
           /\ \A k, x : Is(k, x)' = Is(k, x)
           /\ Aliased' = Aliased /\ Naming' = Naming
           /\ \A x : Denotes(x)' = Denotes(x) /\ Leads(x)' = Leads(x)
<1>1. /\ \A x : Kind(x)' = Kind(x) /\ Named(x)' = Named(x) /\ AliasOf(x)' = AliasOf(x)
      /\ \A k, x : Is(k, x)' = Is(k, x)
  BY DEF Kind, Named, ItemsOf, AliasOf, Is
<1>2. Aliased' = Aliased
  BY <1>1 DEF Aliased
<1>3. Naming' = Naming
  BY <1>1 DEF Naming
<1>4. \A x : Ends(x)' = Ends(x)
  BY <1>1, <1>2 DEF Ends
<1>5. ASSUME NEW x PROVE Denotes(x)' = Denotes(x)
  <2> DEFINE end(s) == CHOOSE d \in s : TRUE
  <2>1. Denotes(x) = IF Is("aka", x) /\ Ends(x) # {} THEN end(Ends(x)) ELSE x
    BY DEF Denotes
  <2>2. Denotes(x)' = IF Is("aka", x)' /\ Ends(x)' # {} THEN end(Ends(x)') ELSE x
    BY DEF Denotes
  <2> HIDE DEF end
  <2> QED BY <1>1, <1>4, <2>1, <2>2
<1>6. \A x : Leads(x)' = Leads(x)
  BY <1>3 DEF Leads
<1> QED BY <1>1, <1>2, <1>3, <1>5, <1>6

LEMMA ShapesStay ==
    ASSUME prog' = prog, fields' \in [Names -> Seq(Results)],
           \A i \in DOMAIN stack' : FrameMeans(stack'[i]),
           \A n \in Names : GenMeans(n, gen'[n], fields'[n])
    PROVE  ShapesFit'
<1>1. /\ \A x : Kind(x)' = Kind(x) /\ AliasOf(x)' = AliasOf(x)
      /\ \A k, x : Is(k, x)' = Is(k, x)
      /\ \A x : Denotes(x)' = Denotes(x)
  BY SameMeaning
<1>2. \A r, x : Meant(r, x)' = Meant(r, x)
  BY <1>1 DEF Meant
<1>3. \A it : FieldType(it)' = FieldType(it)
  BY <1>1 DEF FieldType
<1>4. \A n, ts, k : FieldsFit(n, ts, k)' = FieldsFit(n, ts, k)
  BY <1>3 DEF FieldsFit
<1>5. \A f : FrameMeans(f) => FrameMeans(f)'
  BY <1>1, <1>2, <1>4 DEF FrameMeans
<1>6. \A n, r, ts : GenMeans(n, r, ts) => GenMeans(n, r, ts)'
  BY <1>1, <1>2, <1>4 DEF GenMeans
<1>7. \A i \in DOMAIN stack' : FrameMeans(stack[i])'
  <2> SUFFICES ASSUME NEW i \in DOMAIN stack', NEW g, g = stack'[i] PROVE FrameMeans(g)'
    BY DEF FrameMeans
  <2> QED BY <1>5
<1>8. \A n \in Names : GenMeans(n, gen[n], fields[n])'
  <2> SUFFICES ASSUME NEW n \in Names, NEW r, NEW ts, r = gen'[n], ts = fields'[n] PROVE GenMeans(n, r, ts)'
    BY DEF GenMeans
  <2> QED BY <1>6
<1> QED BY <1>7, <1>8 DEF ShapesFit

\* The symbols that are being validated stay, and no structure is completed.
LEMMA QuietKeepsShapes ==
    ASSUME ShapesFit, UNCHANGED <<prog, fields, stack>>,
           \A n \in Names : gen'[n] = gen[n] \/ (Kind(n) \in {"struct", "enum"} /\ gen'[n].is # "struct")
    PROVE  ShapesFit'
<1>1. \A i \in DOMAIN stack' : FrameMeans(stack'[i])
  BY DEF ShapesFit
<1>2. \A n \in Names : GenMeans(n, gen'[n], fields'[n])
  BY DEF ShapesFit, GenMeans
<1> QED BY <1>1, <1>2, ShapesStay DEF ShapesFit

LEMMA ReplaceKeepsShapes ==
    ASSUME IInv, ShapesFit, Active, NEW f \in Frames, stack' = Append(Below, f), FrameMeans(f),
           UNCHANGED <<prog, gen, fields>>
    PROVE  ShapesFit'
<1>1. /\ DOMAIN stack' = DOMAIN stack /\ stack'[Len(stack)] = f
      /\ \A i \in DOMAIN stack : i # Len(stack) => stack'[i] = stack[i]
  BY Replaced DEF IInv, Active
<1>2. \A i \in DOMAIN stack' : FrameMeans(stack'[i])
  <2>1. ASSUME NEW i \in DOMAIN stack' PROVE FrameMeans(stack'[i])
    BY <1>1 DEF ShapesFit
  <2> QED BY <2>1
<1> QED BY <1>2, ShapesStay DEF ShapesFit

LEMMA PopKeepsShapes ==
    ASSUME IInv, MeaningInv, ShapesFit, Active, stack' = Below, UNCHANGED <<prog, done>>,
           fields' \in [Names -> Seq(Results)],
           \A n \in Names : GenMeans(n, gen'[n], fields'[n])
    PROVE  ShapesFit'
<1>1. \A i \in DOMAIN stack' : FrameMeans(stack'[i])
  <2>1. DOMAIN stack' \subseteq DOMAIN stack /\ \A i \in DOMAIN stack' : stack'[i] = stack[i]
    BY PoppedTo
  <2> QED BY <2>1 DEF ShapesFit
<1> QED BY <1>1, ShapesStay

LEMMA RequireKeepsShapes ==
    ASSUME IInv, MeaningInv, ShapesFit, NEW n \in Names, NEW b \in BOOLEAN, Require(n, b),
           UNCHANGED <<prog, fields>>
    PROVE  ShapesFit'
<1>1. gen \in [Names -> Results] /\ \A m \in Names : m # n => gen'[m] = gen[m]
  BY DEF Require, Refuse, Answer, Open, Overflow, Reported, IInv, Typed
<1>2. Kind(n) \in {"aka", "var", "func"} => gen[n] # Errors
  BY KindOf, Constants DEF MeaningInv, NoErrors, IInv
<1>3. CASE Refuse(n, b) \/ Answer(n, b) \/ Overflow(n, b)
  <2>1. stack' = stack
    BY <1>3 DEF Refuse, Answer, Overflow
  <2>2. gen' = gen \/ (gen[n] = Errors /\ gen'[n] = NoneType)
    BY <1>1, <1>3 DEF Refuse, Answer, Overflow, Reported
  <2>3. NoneType.is # "struct" /\ Kind(n) \in {"var", "aka", "struct", "enum", "func"}
    BY KindOf, Constants DEF IInv
  <2>4. \A m \in Names : gen'[m] = gen[m] \/ (Kind(m) \in {"struct", "enum"} /\ gen'[m].is # "struct")
    BY <1>1, <1>2, <2>2, <2>3
  <2> QED BY <2>1, <2>4, QuietKeepsShapes
<1>4. CASE Open(n, b)
  <2> DEFINE f == Frame(n, b)
  <2>1. /\ f \in Frames /\ f.sym = n /\ f.at = 1 /\ f.try = 1 /\ f.value = Empty /\ f.fields = <<>>
    BY FrameTyped DEF IInv, Frame
  <2>2. stack' = Append(stack, f) /\ gen' = [gen EXCEPT ![n] = Started(n)] /\ ~Validated(n, b)
    BY <1>4 DEF Open
  <2> HIDE DEF f
  <2>3. prog[n] \in Symbol
    BY DEF IInv, Typed
  <2>4. Len(prog[n].items) \in Nat
    BY <2>3 DEF Symbol
  <2>5. FrameMeans(f)
    BY <2>1, <2>4, Constants DEF FrameMeans, Meant, FieldsFit
  <2>6. \A i \in DOMAIN stack' : FrameMeans(stack'[i])
    <3>1. /\ DOMAIN stack' = 1 .. Len(stack) + 1 /\ stack'[Len(stack) + 1] = f
          /\ \A i \in 1 .. Len(stack) : stack'[i] = stack[i]
          /\ Len(stack) \in Nat /\ DOMAIN stack = 1 .. Len(stack)
      BY <2>1, <2>2, Pushed DEF IInv
    <3>2. ASSUME NEW i \in DOMAIN stack' PROVE FrameMeans(stack'[i])
      <4>1. i = Len(stack) + 1 \/ i \in DOMAIN stack
        BY <3>1
      <4> QED BY <3>1, <4>1, <2>5 DEF ShapesFit
    <3> QED BY <3>2
  <2>7. gen'[n] = Started(n) /\ (Kind(n) \in {"aka", "struct"} => Started(n).is \in {"none", "partial"})
    BY <1>1, <2>2, Constants DEF Started
  <2>8. ASSUME NEW m \in Names PROVE GenMeans(m, gen'[m], fields'[m])
    <3>1. CASE m = n
      BY <3>1, <2>7 DEF GenMeans, Meant
    <3>2. CASE m # n
      BY <3>2, <1>1 DEF ShapesFit
    <3> QED BY <3>1, <3>2
  <2> QED BY <2>6, <2>8, ShapesStay DEF ShapesFit
<1> QED BY <1>3, <1>4 DEF Require

\* What the expression of a symbol is seen as means what it denotes.
LEMMA SeenMeans ==
    ASSUME IInv, MeaningInv, ShapesFit, NEW x, AnswerFits(x), NEW position
    PROVE  Meant(Seen(x, position), x)
<1> DEFINE r == Seen(x, position)
<1>1. CASE x \notin Names
  <2>1. r = answer /\ answer \in {Failure, Number, Type(I32, FALSE)} /\ (answer = Type(I32, FALSE) => x = I32)
    <3>1. r = answer
      BY <1>1 DEF Seen
    <3>2. answer \in {Failure, Number} \/ (x = I32 /\ answer = Type(I32, FALSE))
      BY <1>1 DEF AnswerFits
    <3>3. Failure # Type(I32, FALSE) /\ Number # Type(I32, FALSE)
      <4>1. Failure.is = "failure" /\ Number.is = "value" /\ Type(I32, FALSE).is = "type"
        BY Constants
      <4> QED BY <4>1
    <3> QED BY <3>1, <3>2, <3>3
  <2>2. Denotes(x) = x /\ ~Is("aka", x)
    BY <1>1 DEF Denotes, Is
  <2>3. r.is \in {"type", "struct"} => ~r.ptr /\ r.base = x
    <3> HIDE DEF r
    <3> QED BY <2>1 DEF Type, Number, Failure, Result
  <2> QED BY <2>2, <2>3 DEF Meant
<1>2. CASE x \in Names /\ Kind(x) \in {"struct", "enum"}
  <2>1. answer \in {Failure, Type(x, FALSE)}
    BY <1>2 DEF AnswerFits
  <2>2. r \in {answer, Result("value", x, FALSE)} \/ \E c : r = Struct(x, c)
    BY DEF Seen
  <2>3. Denotes(x) = x /\ ~Is("aka", x)
    BY <1>2 DEF Denotes, Is
  <2>4. r.is \in {"type", "struct"} => ~r.ptr /\ r.base = x
    <3> HIDE DEF r
    <3> QED BY <2>1, <2>2 DEF Failure, Type, Struct, Result
  <2> QED BY <2>3, <2>4 DEF Meant
<1>3. CASE x \in Names /\ Kind(x) = "aka"
  <2>1. r = answer /\ answer \in {Failure, gen[x]}
    BY <1>3 DEF Seen, AnswerFits
  <2>2. Meant(gen[x], x)
    BY <1>3 DEF ShapesFit, GenMeans
  <2>3. Meant(Failure, x)
    BY Constants DEF Meant
  <2> QED BY <2>1, <2>2, <2>3
<1>4. CASE x \in Names /\ Kind(x) \in {"var", "func"}
  <2>1. r = answer /\ answer \in {Failure, None, gen[x]} /\ (answer = gen[x] /\ Kind(x) = "func" => answer = Empty)
    BY <1>4 DEF Seen, AnswerFits, MeaningInv, NoErrors
  <2>2. Kind(x) = "var" => gen[x].is \in {"empty", "value"}
    BY <1>4, Constants DEF MeaningInv, TypesFit, VarFits
  <2>3. r.is \notin {"type", "struct"}
    <3> HIDE DEF r
    <3> QED BY <1>4, <2>1, <2>2, Constants
  <2> QED BY <2>3 DEF Meant
<1>5. x \in Names => Kind(x) \in {"var", "aka", "struct", "enum", "func"}
  BY KindOf DEF IInv
<1> QED BY <1>1, <1>2, <1>3, <1>4, <1>5

-----------------------------------------------------------------------------
(* Each action of the validation. *)

\* The structure or the alias on top, and the expression it is at.
LEMMA TopMeans ==
    ASSUME IInv, MeaningInv, ShapesFit, Active
    PROVE  /\ FrameMeans(Top) /\ Top \in Frames /\ Top.sym \in Names /\ Top.in \in BOOLEAN
           /\ Kind(Top.sym) \in {"struct", "aka"} =>
                /\ Top.todo = prog[Top.sym].items /\ Len(Top.todo) \in Nat
                /\ ~Ended(Top) => Top.at \in 1 .. Len(Top.todo) /\ Current(Top) = prog[Top.sym].items[Top.at]
           /\ Kind(Top.sym) = "struct" /\ ~Ended(Top) => Current(Top).form \in {"type", "pointer", "size"}
           /\ Kind(Top.sym) = "aka" /\ ~Ended(Top) =>
                Current(Top).form = "alias" /\ Current(Top).of = AliasOf(Top.sym)
<1> DEFINE n == Top.sym
<1>1. /\ Top \in Frames /\ Len(stack) \in DOMAIN stack /\ Top = stack[Len(stack)]
      /\ Top.todo = Todo(n, Top.in) /\ Top.at > 0 /\ n \in Names /\ FrameMeans(Top)
  BY TopFits DEF ShapesFit
<1>2. Top.in \in BOOLEAN /\ Top.at \in Nat
  BY <1>1 DEF Frames
<1>3. prog \in Programs
  BY DEF MeaningInv, ListTyped
<1> HIDE DEF n
<1>4. Kind(n) \in {"struct", "aka"} =>
        /\ Top.todo = prog[n].items /\ Len(Top.todo) \in Nat /\ DOMAIN prog[n].items = 1 .. Len(Top.todo)
        /\ ~Ended(Top) => Top.at \in 1 .. Len(Top.todo) /\ Current(Top) = prog[n].items[Top.at]
  <2>1. CASE Kind(n) \in {"struct", "aka"}
    <3>1. Top.todo = prog[n].items /\ prog[n].items \in Seq(Item)
      BY <1>1, <1>2, <1>3, <2>1, ShapeOf DEF n
    <3>2. Len(Top.todo) \in Nat /\ DOMAIN prog[n].items = 1 .. Len(Top.todo)
      BY <3>1
    <3>3. ~Ended(Top) => Top.at \in 1 .. Len(Top.todo) /\ Current(Top) = prog[n].items[Top.at]
      BY <1>1, <1>2, <3>1, <3>2 DEF Ended, Current
    <3> QED BY <3>1, <3>2, <3>3
  <2> QED BY <2>1
<1>5. Kind(n) = "struct" /\ ~Ended(Top) => Current(Top).form \in {"type", "pointer", "size"}
  BY <1>1, <1>3, <1>4, ShapeOf
<1>6. Kind(n) = "aka" /\ ~Ended(Top) => Current(Top).form = "alias" /\ Current(Top).of = AliasOf(n)
  <2>1. Kind(n) = "aka" => Len(prog[n].items) = 1 /\ prog[n].items[1].form = "alias"
    BY <1>1, <1>3, ShapeOf
  <2> QED BY <1>4, <2>1 DEF AliasOf
<1> QED BY <1>1, <1>2, <1>4, <1>5, <1>6 DEF n

LEMMA EnterValueKeepsShapes == IInv /\ MeaningInv /\ ShapesFit /\ EnterValue => ShapesFit'
<1> SUFFICES ASSUME IInv, MeaningInv, ShapesFit, EnterValue PROVE ShapesFit'
  OBVIOUS
<1> DEFINE f == [Top EXCEPT !.entered = TRUE]
<1>1. /\ Active /\ stack' = Append(Below, f) /\ UNCHANGED <<prog, gen, fields>>
      /\ Kind(Top.sym) = "var"
  BY DEF EnterValue, Asking, Replace, IsValue
<1>2. f \in Frames /\ f.sym = Top.sym
  BY <1>1, TopFits DEF Frames
<1>3. FrameMeans(f)
  BY <1>1, <1>2 DEF FrameMeans
<1> HIDE DEF f
<1> QED BY <1>1, <1>2, <1>3, ReplaceKeepsShapes

LEMMA RetryKeepsShapes == IInv /\ MeaningInv /\ ShapesFit /\ Retry => ShapesFit'
<1> SUFFICES ASSUME IInv, MeaningInv, ShapesFit, Retry PROVE ShapesFit'
  OBVIOUS
<1> DEFINE f == [Top EXCEPT !.try = @ + 1]
<1>1. /\ Active /\ ~Ended(Top) /\ stack' = Append(Below, f) /\ UNCHANGED <<prog, gen, fields>>
      /\ Top.try < Len(Attempts(Current(Top).form))
  BY DEF Retry, Answered, Replace
<1>2. f \in Frames /\ f.sym = Top.sym /\ f.value = Top.value
  <2>1. Top \in Frames
    BY <1>1, TopFits
  <2>2. Top.try + 1 \in Nat
    BY <2>1 DEF Frames
  <2> QED BY <2>1, <2>2 DEF Frames
<1> HIDE DEF f
<1>3. Kind(Top.sym) # "struct"
  <2> SUFFICES ASSUME Kind(Top.sym) = "struct" PROVE FALSE
    OBVIOUS
  <2>1. Top.try = 1 /\ Current(Top).form \in {"type", "pointer", "size"}
    BY <1>1, TopMeans DEF FrameMeans
  <2>2. Len(Attempts(Current(Top).form)) = 1
    BY <2>1, AttemptsOfVar
  <2>3. Top.try < Len(Attempts(Current(Top).form))
    BY <1>1
  <2> QED BY <2>1, <2>2, <2>3
<1>4. FrameMeans(f)
  BY <1>1, <1>2, <1>3, TopMeans DEF FrameMeans
<1> QED BY <1>1, <1>2, <1>4, ReplaceKeepsShapes

LEMMA ContinueKeepsShapes == IInv /\ MeaningInv /\ ShapesFit /\ Continue => ShapesFit'
<1> SUFFICES ASSUME IInv, MeaningInv, ShapesFit, Continue PROVE ShapesFit'
  OBVIOUS
<1> DEFINE f == Continued(Top)
           g == Following(Top)
<1>1. /\ Active /\ ~Ended(Top) /\ stack' = Append(Below, f) /\ UNCHANGED <<prog, gen, fields>>
      /\ Keeps(Top)
  BY DEF Continue, Rejected, Answered, Replace
<1>2. Top \in Frames /\ (Kind(Top.sym) = "struct" => Current(Top).form # "compile")
  BY <1>1, TopMeans
<1>3. g \in Frames /\ g.sym = Top.sym /\ g.try = 1
  <2>1. g \in Frames /\ g.sym = Top.sym
    BY <1>2, FollowingTyped
  <2>2. g.try = 1
    BY <1>2 DEF Following, Frames
  <2> QED BY <2>1, <2>2
<1>4. Len(Top.todo) + 1 \in Nat
  BY <1>1, TopIsRight
<1>5. /\ f \in {g, [Top EXCEPT !.at = Len(Top.todo) + 1, !.bad = TRUE], [g EXCEPT !.bad = TRUE]}
      /\ Kind(Top.sym) = "struct" => f = [g EXCEPT !.bad = TRUE]
  BY <1>2 DEF Continued
<1> HIDE DEF f, g
<1>6. f \in Frames /\ f.sym = Top.sym /\ (Kind(Top.sym) = "struct" => f.try = 1 /\ f.bad)
  <2>1. f \in Frames /\ f.sym = Top.sym
    BY <1>2, <1>3, <1>4, <1>5 DEF Frames
  <2>2. CASE Kind(Top.sym) = "struct"
    <3>1. f = [g EXCEPT !.bad = TRUE]
      BY <1>5, <2>2
    <3> QED BY <1>3, <2>1, <3>1 DEF Frames
  <2> QED BY <2>1, <2>2
<1>7. FrameMeans(f)
  BY <1>1, <1>6 DEF FrameMeans, Keeps
<1> QED BY <1>1, <1>6, <1>7, ReplaceKeepsShapes

LEMMA FieldsGrow ==
    ASSUME NEW n, NEW types \in Seq(Results), NEW k \in Nat, FieldsFit(n, types, k),
           k + 1 <= Len(prog[n].items), NEW t \in Results, t = FieldType(prog[n].items[k + 1])
    PROVE  FieldsFit(n, Append(types, t), k + 1)
<1>1. Len(types) = k /\ \A j \in 1 .. k : types[j] = FieldType(prog[n].items[j])
  BY DEF FieldsFit
<1>2. Len(Append(types, t)) = k + 1 /\ Append(types, t)[k + 1] = t
  BY <1>1
<1>3. \A j \in 1 .. k : Append(types, t)[j] = types[j]
  BY <1>1
<1>4. \A j \in 1 .. k + 1 : Append(types, t)[j] = FieldType(prog[n].items[j])
  <2> SUFFICES ASSUME NEW j \in 1 .. k + 1 PROVE Append(types, t)[j] = FieldType(prog[n].items[j])
    OBVIOUS
  <2>1. CASE j = k + 1
    BY <2>1, <1>2
  <2>2. CASE j # k + 1
    <3>1. j \in 1 .. k
      BY <2>2
    <3> QED BY <3>1, <1>1, <1>3
  <2> QED BY <2>1, <2>2
<1> QED BY <1>2, <1>4 DEF FieldsFit

LEMMA AcceptKeepsShapes == IInv /\ MeaningInv /\ ShapesFit /\ Accept => ShapesFit'
<1> SUFFICES ASSUME IInv, MeaningInv, ShapesFit, Accept PROVE ShapesFit'
  OBVIOUS
<1> DEFINE g == Following(Top)
           form == Current(Top).form
           x == Current(Top).of
           r == TopSeen
           f == With(g, form, r)
           t == TypeOf(form, r)
<1>1. /\ Active /\ ~Ended(Top) /\ answer # Empty /\ stack' = Append(Below, f)
      /\ UNCHANGED <<prog, gen, fields>> /\ Accepted(Top, form, Position(Top), r)
      /\ r = Seen(x, Position(Top))
  BY DEF Accept, Answered, Replace, TopAccepted, TopSeen
<1>2. Top \in Frames /\ FrameMeans(Top) /\ r \in Results
  BY <1>1, TopMeans, SeenTyped DEF TopSeen, IInv
<1>3. /\ g \in Frames /\ g.sym = Top.sym /\ g.at = Top.at + 1 /\ g.fields = Top.fields /\ g.bad = Top.bad
      /\ g.try = 1
  <2>1. g \in Frames /\ g.sym = Top.sym /\ g.at = Top.at + 1
    BY <1>2, FollowingTyped
  <2>2. g.fields = Top.fields /\ g.bad = Top.bad /\ g.try = 1
    BY <1>2 DEF Following, Frames
  <2> QED BY <2>1, <2>2
<1>4. f \in Frames /\ f.sym = Top.sym /\ f.at = Top.at + 1
  BY <1>2, <1>3, WithTyped
<1>5. Meant(r, x)
  <2>1. AnswerFits(x)
    BY <1>1, TopFits DEF MeaningInv, AnswersFit
  <2>2. Meant(Seen(x, Position(Top)), x)
    BY <2>1, SeenMeans
  <2> QED BY <1>1, <2>2
<1>6. CASE Kind(Top.sym) = "aka"
  <2>1. form = "alias" /\ x = AliasOf(Top.sym)
    BY <1>1, <1>6, TopMeans
  <2>2. f = [g EXCEPT !.value = r]
    BY <1>3, <1>6, <2>1 DEF With
  <2>3. f.value = r
    BY <1>3, <2>2 DEF Frames
  <2> HIDE DEF f, g, r, x, form
  <2>4. Meant(f.value, AliasOf(Top.sym))
    BY <1>5, <2>1, <2>3
  <2>5. FrameMeans(f)
    BY <1>4, <1>6, <2>4 DEF FrameMeans
  <2> QED BY <1>1, <1>4, <2>5, ReplaceKeepsShapes
<1>7. CASE Kind(Top.sym) = "struct"
  <2>1. /\ form \in {"type", "pointer", "size"} /\ Top.at \in 1 .. Len(prog[Top.sym].items)
        /\ Current(Top) = prog[Top.sym].items[Top.at] /\ Top.try = 1
    BY <1>1, <1>7, TopMeans DEF FrameMeans
  <2>2. f = [g EXCEPT !.fields = Append(g.fields, t)]
    <3> HIDE DEF g, r, form
    <3> QED BY <1>3, <1>7 DEF With
  <2>3. t \in Results
    BY <1>2, TypeOfTyped
  <2>4. t = FieldType(Current(Top))
    <3>1. CASE form = "size"
      BY <3>1 DEF TypeOf, FieldType
    <3>2. CASE form # "size"
      <4>1. Position(Top) = "type"
        BY <2>1, <3>2, AttemptsOfVar DEF Position
      <4>2. r.is \in {"type", "struct"}
        <5> HIDE DEF f, g, r, form
        <5> QED BY <1>1, <4>1 DEF Accepted
      <4>3. r.ptr = FALSE /\ r.base = Denotes(x)
        <5>1. r.ptr \in BOOLEAN
          BY <1>2 DEF Results
        <5>2. ~r.ptr /\ r.base = Denotes(x)
          BY <1>5, <4>2 DEF Meant
        <5> QED BY <5>1, <5>2
      <4> QED BY <2>1, <3>2, <4>3 DEF TypeOf, FieldType
    <3> QED BY <3>1, <3>2
  <2> HIDE DEF t
  <2>5. f.fields = Append(Top.fields, t) /\ f.bad = Top.bad /\ f.try = 1 /\ Top.fields \in Seq(Results)
    <3>1. Top.fields \in Seq(Results)
      BY <1>2 DEF Frames
    <3>2. Append(Top.fields, t) \in Seq(Results)
      BY <2>3, <3>1
    <3> HIDE DEF f, g
    <3> QED BY <1>3, <2>2, <3>1, <3>2 DEF Frames
  <2>6. ~Top.bad => FieldsFit(Top.sym, f.fields, f.at - 1)
    <3> SUFFICES ASSUME ~Top.bad PROVE FieldsFit(Top.sym, f.fields, f.at - 1)
      OBVIOUS
    <3> DEFINE k == Top.at - 1
    <3>1. k \in Nat /\ k + 1 = Top.at /\ k + 1 <= Len(prog[Top.sym].items) /\ f.at - 1 = k + 1
      <4>1. Len(prog[Top.sym].items) \in Nat
        BY <1>1, <1>7, TopMeans
      <4> HIDE DEF f
      <4> QED BY <1>4, <2>1, <4>1
    <3>2. FieldsFit(Top.sym, Top.fields, k)
      BY <1>2, <1>7 DEF FrameMeans
    <3>3. t = FieldType(prog[Top.sym].items[k + 1])
      BY <2>1, <2>4, <3>1
    <3> HIDE DEF k, f
    <3>4. FieldsFit(Top.sym, Append(Top.fields, t), k + 1)
      BY <2>3, <2>5, <3>1, <3>2, <3>3, FieldsGrow
    <3> QED BY <2>5, <3>1, <3>4
  <2> HIDE DEF f
  <2>7. FrameMeans(f)
    BY <1>4, <1>7, <2>5, <2>6 DEF FrameMeans
  <2> QED BY <1>1, <1>4, <2>7, ReplaceKeepsShapes
<1>8. CASE Kind(Top.sym) \notin {"aka", "struct"}
  <2> HIDE DEF f
  <2>1. FrameMeans(f)
    BY <1>4, <1>8 DEF FrameMeans
  <2> QED BY <1>1, <1>4, <2>1, ReplaceKeepsShapes
<1> QED BY <1>6, <1>7, <1>8

\* The symbol on top is not an alias or a structure that is completed.
LEMMA LeaveKeepsShapes ==
    IInv /\ MeaningInv /\ ShapesFit /\ (Throw \/ EndVar \/ EndVarRefused \/ EndFunc \/ EndEnum) => ShapesFit'
<1> SUFFICES ASSUME IInv, MeaningInv, ShapesFit, Throw \/ EndVar \/ EndVarRefused \/ EndFunc \/ EndEnum
             PROVE  ShapesFit'
  OBVIOUS
<1>1. Active /\ stack' = Below /\ UNCHANGED <<prog, done, fields>>
  BY DEF Throw, Rejected, Answered, EndVar, EndVarRefused, EndFunc, EndEnum, Ending
<1>2. gen' = gen \/ (Kind(Top.sym) \notin {"aka", "struct"} /\ \E r : gen' = [gen EXCEPT ![Top.sym] = r])
  BY DEF Throw, EndVar, EndVarRefused, EndFunc, EndEnum, Ending, Becomes
<1>3. ASSUME NEW n \in Names PROVE GenMeans(n, gen'[n], fields'[n])
  <2>1. GenMeans(n, gen[n], fields[n]) /\ gen \in [Names -> Results]
    BY DEF ShapesFit, IInv, Typed
  <2>2. gen'[n] = gen[n] \/ Kind(n) \notin {"aka", "struct"}
    BY <1>2, <2>1
  <2> QED BY <1>1, <2>1, <2>2 DEF GenMeans
<1> QED BY <1>1, <1>3, PopKeepsShapes DEF ShapesFit

LEMMA EndAkaKeepsShapes == IInv /\ MeaningInv /\ ShapesFit /\ EndAka => ShapesFit'
<1> SUFFICES ASSUME IInv, MeaningInv, ShapesFit, EndAka PROVE ShapesFit'
  OBVIOUS
<1> DEFINE n == Top.sym
           r == Top.value
<1>1. /\ Active /\ stack' = Below /\ UNCHANGED <<prog, done, fields>> /\ Kind(n) = "aka"
      /\ gen' = [gen EXCEPT ![n] = r]
  BY DEF EndAka, Ending, Becomes
<1>2. n \in Names /\ Meant(r, AliasOf(n)) /\ gen \in [Names -> Results]
  BY <1>1, TopMeans DEF FrameMeans, IInv, Typed
<1>3. Meant(r, n)
  BY <1>1, <1>2, AliasDenotes DEF Meant
<1> HIDE DEF n, r
<1>4. ASSUME NEW m \in Names PROVE GenMeans(m, gen'[m], fields'[m])
  BY <1>1, <1>2, <1>3 DEF GenMeans, ShapesFit
<1> QED BY <1>1, <1>4, PopKeepsShapes DEF ShapesFit

LEMMA EndStructKeepsShapes == IInv /\ MeaningInv /\ ShapesFit /\ EndStruct => ShapesFit'
<1> SUFFICES ASSUME IInv, MeaningInv, ShapesFit, EndStruct PROVE ShapesFit'
  OBVIOUS
<1> DEFINE n == Top.sym
<1>1. Active /\ Ended(Top) /\ stack' = Below /\ UNCHANGED <<prog, done>> /\ Kind(n) = "struct"
  BY DEF EndStruct, Ending
<1>2. /\ n \in Names /\ Top \in Frames /\ FrameMeans(Top) /\ Top.fields \in Seq(Results) /\ Top.at \in Nat
      /\ Top.todo = prog[n].items /\ Len(Top.todo) \in Nat
      /\ gen \in [Names -> Results] /\ fields \in [Names -> Seq(Results)]
  <2>1. /\ n \in Names /\ Top \in Frames /\ FrameMeans(Top)
        /\ Top.todo = prog[n].items /\ Len(Top.todo) \in Nat
    BY <1>1, TopMeans
  <2> QED BY <2>1 DEF Frames, IInv, Typed, ShapesFit
<1>3. CASE Top.bad
  <2>1. /\ fields' = fields /\ \E r \in {Errors, NoneType} : gen' = [gen EXCEPT ![n] = r]
    BY <1>3 DEF EndStruct, Becomes, Incomplete
  <2>2. Errors.is # "struct" /\ NoneType.is # "struct"
    BY Constants
  <2>3. ASSUME NEW m \in Names PROVE GenMeans(m, gen'[m], fields'[m])
    <3>1. CASE m = n
      BY <1>1, <1>2, <2>1, <2>2, <3>1 DEF GenMeans
    <3>2. CASE m # n
      BY <1>2, <2>1, <3>2 DEF ShapesFit
    <3> QED BY <3>1, <3>2
  <2> QED BY <1>1, <1>2, <2>1, <2>3, PopKeepsShapes
<1>4. CASE ~Top.bad
  <2>1. /\ fields' = [fields EXCEPT ![n] = Top.fields]
        /\ gen' = [gen EXCEPT ![n] = Struct(n, TRUE)]
    BY <1>4 DEF EndStruct, Becomes
  <2>2. FieldsFit(n, Top.fields, Len(prog[n].items))
    <3>1. FieldsFit(n, Top.fields, Top.at - 1)
      BY <1>1, <1>2, <1>4 DEF FrameMeans
    <3>2. Top.at - 1 <= Len(Top.todo) /\ Top.at > Len(Top.todo)
      BY <1>1, <1>2, <3>1 DEF FieldsFit, Ended
    <3>3. Top.at - 1 = Len(Top.todo)
      BY <1>2, <3>2
    <3> QED BY <1>2, <3>1, <3>3
  <2>3. ASSUME NEW m \in Names PROVE GenMeans(m, gen'[m], fields'[m])
    <3>1. CASE m = n
      BY <1>1, <1>2, <2>1, <2>2, <3>1 DEF GenMeans
    <3>2. CASE m # n
      BY <1>2, <2>1, <3>2 DEF ShapesFit
    <3> QED BY <3>1, <3>2
  <2>4. fields' \in [Names -> Seq(Results)]
    BY <1>2, <2>1
  <2> QED BY <1>1, <2>3, <2>4, PopKeepsShapes
<1> QED BY <1>3, <1>4

LEMMA NextKeepsShapes == IInv /\ MeaningInv /\ ShapesFit /\ Next => ShapesFit'
<1> SUFFICES ASSUME IInv, MeaningInv, ShapesFit, Next PROVE ShapesFit'
  OBVIOUS
<1>1. CASE Begin
  BY <1>1, RequireKeepsShapes DEF Begin
<1>2. CASE AskSymbol
  BY <1>2, RequireKeepsShapes DEF AskSymbol
<1>3. CASE Collect \/ AskBuiltin \/ Halt
  <2>1. UNCHANGED <<prog, fields, stack, gen>>
    BY <1>3 DEF Collect, AskBuiltin, Halt
  <2> QED BY <2>1, QuietKeepsShapes
<1> QED BY <1>1, <1>2, <1>3, EnterValueKeepsShapes, AcceptKeepsShapes, RetryKeepsShapes, ContinueKeepsShapes,
           LeaveKeepsShapes, EndAkaKeepsShapes, EndStructKeepsShapes DEF Next

-----------------------------------------------------------------------------
(* Each action of the generation. *)

\* The layouts do not change.
LEMMA SameLayouts ==
    ASSUME UNCHANGED <<prog, gen, fields, list, stack, answer, done, generated>>, LayoutInv
    PROVE  LayoutInv'
<1>1. ShapesFit'
  BY QuietKeepsShapes DEF LayoutInv
<1>2. /\ \A x : Kind(x)' = Kind(x) /\ Denotes(x)' = Denotes(x) /\ Leads(x)' = Leads(x)
      /\ current' = current /\ emitted' = emitted /\ dones' = dones
  BY SameMeaning DEF generated
<1>3. Settles'
  BY <1>2 DEF LayoutInv, Settles, ModuleEnded, Local, Empty, Result
<1>4. \A n, it, tag : ExactTag(n, it, tag)' = ExactTag(n, it, tag) /\ TagFits(n, it, tag)' = TagFits(n, it, tag)
  BY <1>2 DEF ExactTag, TagFits
<1>5. Nested'
  BY <1>2, <1>4 DEF LayoutInv, Nested, OpenFits
<1>6. Generated'
  BY <1>2, <1>4 DEF LayoutInv, Generated, DoneFits, IsStruct
<1> QED BY <1>1, <1>3, <1>5, <1>6 DEF LayoutInv

\* Nothing is validated once a type is generated.
LEMMA NextKeepsLayouts ==
    ASSUME IInv, MeaningInv, LayoutInv, Next, UNCHANGED generated
    PROVE  LayoutInv'
<1>1. Len(Local) \in Nat /\ done \in 0 .. Len(Local)
  BY LocalFacts DEF MeaningInv, ListTyped, Counts
<1>2. ~(stack = <<>> /\ answer = Empty /\ ModuleEnded)
  <2> SUFFICES ASSUME stack = <<>>, answer = Empty, ModuleEnded PROVE FALSE
    OBVIOUS
  <2>1. ~(done < Len(Local))
    BY <1>1 DEF ModuleEnded
  <2> QED BY <2>1 DEF Next, Begin, Collect, EnterValue, AskBuiltin, AskSymbol, Halt, Accept, Retry, Continue,
                      Throw, EndVar, EndVarRefused, EndAka, EndStruct, EndEnum, EndFunc, Ending,
                      Active, Asking, Ready, Answered, Rejected
<1>3. current = <<>> /\ ~(emitted > 0) /\ emitted = 0
  BY <1>2 DEF LayoutInv, Settles, Generated
<1>4. ShapesFit'
  BY NextKeepsShapes DEF LayoutInv
<1>5. current' = <<>> /\ emitted' = 0 /\ dones' = dones /\ prog' = prog
  BY <1>3 DEF generated, Next, Begin, Collect, EnterValue, AskBuiltin, AskSymbol, Halt, Accept, Retry, Continue,
              Throw, EndVar, EndVarRefused, EndAka, EndStruct, EndEnum, EndFunc
<1>6. Settles' /\ Nested'
  BY <1>5 DEF Settles, Nested
<1>7. Generated'
  <2>1. MeaningInv'
    BY NextKeepsMeaning DEF TypeNext, Validates
  <2>2. Len(list') \in Nat
    BY <2>1 DEF MeaningInv, ListTyped
  <2>3. \A x : Denotes(x)' = Denotes(x) /\ Leads(x)' = Leads(x)
    BY <1>5, SameMeaning
  <2>4. \A n \in Names : DoneFits(n, dones[n])'
    BY <1>5, <2>3 DEF LayoutInv, Generated, DoneFits, ExactTag
  <2> QED BY <1>5, <2>2, <2>4 DEF LayoutInv, Generated
<1> QED BY <1>4, <1>6, <1>7 DEF LayoutInv

LEMMA NewTop ==
    ASSUME NEW S, NEW s \in Seq(S), NEW e \in S
    PROVE  /\ Append(s, e) \in Seq(S) /\ Len(s) \in Nat /\ DOMAIN Append(s, e) = 1 .. Len(s) + 1
           /\ DOMAIN s = 1 .. Len(s)
           /\ Append(s, e)[Len(s) + 1] = e /\ \A i \in 1 .. Len(s) : Append(s, e)[i] = s[i]
           /\ Append(s, e) # <<>>
OBVIOUS

LEMMA LastOf ==
    ASSUME NEW S, NEW s \in Seq(S), s # <<>>
    PROVE  /\ Len(s) \in Nat \ {0} /\ DOMAIN s = 1 .. Len(s) /\ s[Len(s)] \in S
           /\ SubSeq(s, 1, Len(s) - 1) \in Seq(S)
           /\ DOMAIN SubSeq(s, 1, Len(s) - 1) = 1 .. Len(s) - 1
           /\ \A i \in 1 .. Len(s) - 1 : SubSeq(s, 1, Len(s) - 1)[i] = s[i]
<1>1. Len(s) \in Nat \ {0}
  OBVIOUS
<1> QED BY <1>1

\* The field that is generated, of the structure that is open.
LEMMA TheFieldFits ==
    ASSUME IInv, MeaningInv, LayoutInv, LayingOut
    PROVE  /\ Len(current) \in DOMAIN current /\ Opened \in Opens /\ OpenFits(Opened)
           /\ Opened = current[Len(current)]
           /\ Opened.name \in Names /\ Opened.tags \in Seq(Tags) /\ Len(Opened.tags) \in Nat
           /\ Len(prog[Opened.name].items) \in Nat
           /\ Len(fields[Opened.name]) = Len(prog[Opened.name].items)
           /\ Remains(Opened) =>
                LET it == prog[Opened.name].items[Len(Opened.tags) + 1]
                    t  == TheField(Opened)
                IN  /\ Len(Opened.tags) + 1 <= Len(prog[Opened.name].items)
                    /\ t = FieldType(it) /\ it.of \in Named(Opened.name)
                    /\ it.form \in {"type", "pointer", "size"}
                    /\ IsStruct(t) => /\ it.form # "size" /\ t.base = Denotes(it.of)
                                      /\ t.base \in Names /\ t.base \in Leads(Opened.name)
<1> DEFINE o == Opened
           k == Len(o.tags) + 1
           it == prog[o.name].items[k]
           t == TheField(o)
<1>1. /\ Len(current) \in DOMAIN current /\ o \in Opens /\ OpenFits(o) /\ o = current[Len(current)]
  <2>1. current \in Seq(Opens) /\ current # <<>>
    BY DEF LayoutInv, Nested, LayingOut
  <2>2. Len(current) \in DOMAIN current /\ current[Len(current)] \in Opens
    BY <2>1, LastOf
  <2> QED BY <2>2 DEF Opened, LayoutInv, Nested
<1>2. o.name \in Names /\ o.tags \in Seq(Tags) /\ Len(o.tags) \in Nat
  BY <1>1 DEF Opens
<1>3. /\ prog[o.name].items \in Seq(Item) /\ ItemsOf(o.name) = prog[o.name].items
      /\ \A i \in DOMAIN prog[o.name].items : prog[o.name].items[i].form \in {"type", "pointer", "size"}
  BY <1>1, <1>2, ShapeOf DEF OpenFits, MeaningInv, ListTyped
<1>4. /\ Len(prog[o.name].items) \in Nat /\ DOMAIN prog[o.name].items = 1 .. Len(prog[o.name].items)
  BY <1>3
<1>5. FieldsFit(o.name, fields[o.name], Len(prog[o.name].items))
  BY <1>1, <1>2 DEF OpenFits, LayoutInv, ShapesFit, GenMeans
<1>6. /\ Len(fields[o.name]) = Len(prog[o.name].items)
      /\ \A j \in 1 .. Len(prog[o.name].items) : fields[o.name][j] = FieldType(prog[o.name].items[j])
  BY <1>5 DEF FieldsFit
<1>7. ASSUME Remains(o)
      PROVE  /\ k <= Len(prog[o.name].items)
             /\ t = FieldType(it) /\ it.of \in Named(o.name)
             /\ it.form \in {"type", "pointer", "size"}
             /\ IsStruct(t) => /\ it.form # "size" /\ t.base = Denotes(it.of)
                               /\ t.base \in Names /\ t.base \in Leads(o.name)
  <2>1. k \in 1 .. Len(prog[o.name].items)
    BY <1>2, <1>4, <1>6, <1>7 DEF Remains
  <2>2. t = FieldType(it) /\ it.form \in {"type", "pointer", "size"}
    BY <1>3, <1>4, <1>6, <2>1 DEF TheField
  <2>3. it.of \in Named(o.name)
    BY <1>3, <1>4, <2>1 DEF Named
  <2>4. ASSUME IsStruct(t)
        PROVE  it.form # "size" /\ t.base = Denotes(it.of) /\ t.base \in Names /\ t.base \in Leads(o.name)
    <3>1. t.base \in Names
      BY <2>4 DEF IsStruct
    <3>2. it.form # "size"
      <4>1. Type(Array, FALSE).base \notin Names
        BY NotNames, TypeFields
      <4> QED BY <2>2, <3>1, <4>1 DEF FieldType
    <3>3. t.base = Denotes(it.of)
      <4>1. t = Type(Denotes(it.of), it.form = "pointer")
        BY <2>2, <3>2 DEF FieldType
      <4> HIDE DEF t, it
      <4> QED BY <4>1, TypeFields
    <3>4. Denotes(it.of) \in Leads(o.name)
      <4> HIDE DEF t, it, o
      <4> QED BY <1>2, <2>3, <3>1, <3>3, LeadsToDenoted DEF MeaningInv, ListTyped
    <3> QED BY <3>1, <3>2, <3>3, <3>4
  <2> QED BY <2>1, <2>2, <2>3, <2>4
<1> HIDE DEF o, k, it, t
<1> QED BY <1>1, <1>2, <1>4, <1>6, <1>7 DEF o, k, it, t

LEMMA LayoutsStay ==
    ASSUME LayoutInv, UNCHANGED vars, stack = <<>>, answer = Empty, ModuleEnded,
           current' \in Seq(Opens), \A i \in DOMAIN current' : OpenFits(current'[i]),
           \A i, j \in DOMAIN current' : i < j => current'[j].name \in Leads(current'[i].name),
           dones' \in [Names -> Seq(Tags)], \A n \in Names : DoneFits(n, dones'[n]),
           emitted' \in 0 .. Len(list),
           \A i \in 1 .. emitted' : IsStruct(list[i].type) => dones'[list[i].type.base] # <<>>
    PROVE  LayoutInv'
<1>1. ShapesFit'
  BY QuietKeepsShapes DEF LayoutInv, vars
<1>2. \A x : Kind(x)' = Kind(x) /\ Denotes(x)' = Denotes(x) /\ Leads(x)' = Leads(x)
  BY SameMeaning DEF vars
<1>3. \A n, it, tag : ExactTag(n, it, tag)' = ExactTag(n, it, tag) /\ TagFits(n, it, tag)' = TagFits(n, it, tag)
  BY <1>2 DEF ExactTag, TagFits
<1>4. Settles'
  BY DEF Settles, ModuleEnded, Local, vars, Empty, Result
<1>5. Nested'
  <2>1. \A o : OpenFits(o) => OpenFits(o)'
    BY <1>2, <1>3 DEF OpenFits, vars
  <2>2. \A i \in DOMAIN current' : OpenFits(current[i])'
    <3> SUFFICES ASSUME NEW i \in DOMAIN current', NEW o, o = current'[i] PROVE OpenFits(o)'
      BY DEF OpenFits
    <3> QED BY <2>1
  <2>3. \A i, j \in DOMAIN current' : i < j => current'[j].name \in Leads(current[i].name)'
    <3> SUFFICES ASSUME NEW i \in DOMAIN current', NEW j \in DOMAIN current', i < j, NEW x, x = current'[i].name
                 PROVE  current'[j].name \in Leads(x)'
      BY DEF Leads
    <3> QED BY <1>2
  <2> QED BY <2>2, <2>3 DEF Nested
<1>6. Generated'
  <2>1. \A n, tags : DoneFits(n, tags) => DoneFits(n, tags)'
    BY <1>3 DEF DoneFits, vars
  <2>2. \A n \in Names : DoneFits(n, dones[n])'
    <3> SUFFICES ASSUME NEW n \in Names, NEW tags, tags = dones'[n] PROVE DoneFits(n, tags)'
      BY DEF DoneFits
    <3> QED BY <2>1
  <2> QED BY <1>2, <2>2 DEF Generated, IsStruct, vars
<1> QED BY <1>1, <1>4, <1>5, <1>6 DEF LayoutInv

LEMMA LayOutKeepsLayouts ==
    ASSUME IInv, MeaningInv, LayoutInv, Generating, NEW n \in Names, Kind(n) = "struct", LayOut(n),
           current # <<>> => n \in Leads(Opened.name)
    PROVE  LayoutInv'
<1>1. CASE gen[n].is # "struct"
  <2>1. UNCHANGED <<prog, gen, fields, list, stack, answer, done, generated>>
    BY <1>1 DEF LayOut, generated
  <2> QED BY <2>1, SameLayouts
<1>2. CASE gen[n].is = "struct"
  <2> DEFINE o == [name |-> n, tags |-> <<>>]
             l == Len(current)
  <2>1. current' = Append(current, o) /\ UNCHANGED <<vars, emitted, dones>>
    BY <1>2 DEF LayOut, vars
  <2>2. o \in Opens /\ o.name = n /\ o.tags = <<>>
    BY DEF Opens
  <2> HIDE DEF o
  <2>3. OpenFits(o)
    <3>1. prog[n].items \in Seq(Item)
      BY <1>2, ShapeOf DEF MeaningInv, ListTyped
    <3>2. Len(prog[n].items) \in Nat
      BY <3>1
    <3> QED BY <1>2, <2>2, <3>2 DEF OpenFits
  <2>4. /\ current' \in Seq(Opens) /\ l \in Nat /\ DOMAIN current' = 1 .. l + 1 /\ DOMAIN current = 1 .. l
        /\ current'[l + 1] = o /\ \A i \in 1 .. l : current'[i] = current[i]
    BY <2>1, <2>2, NewTop DEF LayoutInv, Nested
  <2> HIDE DEF l
  <2>5. \A i \in DOMAIN current' : OpenFits(current'[i])
    <3>1. ASSUME NEW i \in DOMAIN current' PROVE OpenFits(current'[i])
      <4>1. i = l + 1 \/ i \in DOMAIN current
        BY <2>4
      <4> QED BY <2>3, <2>4, <4>1 DEF LayoutInv, Nested
    <3> QED BY <3>1
  <2>6. \A i \in 1 .. l : n \in Leads(current[i].name)
    <3> SUFFICES ASSUME NEW i \in 1 .. l PROVE n \in Leads(current[i].name)
      OBVIOUS
    <3>1. current # <<>> /\ current \in Seq(Opens)
      BY <2>4 DEF LayoutInv, Nested
    <3>2. l \in 1 .. l /\ Opened = current[l] /\ current[i] \in Opens
      BY <2>4, <3>1, LastOf DEF Opened, l
    <3>3. n \in Leads(current[l].name)
      BY <3>1, <3>2
    <3>4. CASE i = l
      BY <3>3, <3>4
    <3>5. CASE i # l
      <4>1. current[l].name \in Leads(current[i].name)
        BY <2>4, <3>2, <3>5 DEF LayoutInv, Nested
      <4>2. current[i].name \in Names
        BY <3>2 DEF Opens
      <4> QED BY <3>3, <4>1, <4>2, LeadsOn
    <3> QED BY <3>4, <3>5
  <2>7. \A i, j \in DOMAIN current' : i < j => current'[j].name \in Leads(current'[i].name)
    <3> SUFFICES ASSUME NEW i \in DOMAIN current', NEW j \in DOMAIN current', i < j
                 PROVE  current'[j].name \in Leads(current'[i].name)
      OBVIOUS
    <3>1. i \in 1 .. l /\ current'[i] = current[i]
      BY <2>4
    <3>2. CASE j = l + 1
      BY <2>2, <2>4, <2>6, <3>1, <3>2
    <3>3. CASE j # l + 1
      BY <2>4, <3>1, <3>3 DEF LayoutInv, Nested
    <3> QED BY <3>2, <3>3
  <2>8. /\ dones' \in [Names -> Seq(Tags)] /\ \A m \in Names : DoneFits(m, dones'[m])
        /\ emitted' \in 0 .. Len(list)
        /\ \A i \in 1 .. emitted' : IsStruct(list[i].type) => dones'[list[i].type.base] # <<>>
    BY <2>1 DEF LayoutInv, Generated
  <2>9. UNCHANGED vars /\ stack = <<>> /\ answer = Empty /\ ModuleEnded
    BY <2>1 DEF Generating
  <2> QED BY <2>4, <2>5, <2>7, <2>8, <2>9, LayoutsStay
<1> QED BY <1>1, <1>2

LEMMA LayOutsKeepLayouts ==
    ASSUME IInv, MeaningInv, LayoutInv, LayOutVar \/ LayOutField
    PROVE  LayoutInv'
<1>1. CASE LayOutVar
  <2>1. Generating /\ current = <<>> /\ LayOut(TheVar.type.base) /\ IsStruct(TheVar.type)
    BY <1>1 DEF LayOutVar, Declaring, Laid
  <2>2. TheVar.type.base \in Names /\ Kind(TheVar.type.base) = "struct"
    BY <2>1 DEF IsStruct
  <2> QED BY <2>1, <2>2, LayOutKeepsLayouts
<1>2. CASE LayOutField
  <2> DEFINE n == TheField(Opened).base
  <2>1. Generating /\ LayingOut /\ Remains(Opened) /\ LayOut(n) /\ IsStruct(TheField(Opened))
    BY <1>2 DEF LayOutField, LayingOut, Laid
  <2>2. n \in Names /\ Kind(n) = "struct" /\ n \in Leads(Opened.name)
    BY <2>1, TheFieldFits DEF IsStruct
  <2> HIDE DEF n
  <2> QED BY <2>1, <2>2, LayOutKeepsLayouts
<1> QED BY <1>1, <1>2

LEMMA GenerateVarKeepsLayouts ==
    ASSUME IInv, MeaningInv, LayoutInv, GenerateVar
    PROVE  LayoutInv'
<1>1. /\ Generating /\ current = <<>> /\ emitted < Len(list) /\ Laid(TheVar.type)
      /\ emitted' = emitted + 1 /\ UNCHANGED <<vars, current, dones>>
  BY DEF GenerateVar, Declaring
<1>2. emitted \in 0 .. Len(list) /\ Len(list) \in Nat
  BY DEF LayoutInv, Generated, MeaningInv, ListTyped
<1>3. emitted' \in 0 .. Len(list)
  BY <1>1, <1>2
<1>4. IsStruct(TheVar.type) => dones[TheVar.type.base] # <<>>
  BY <1>1 DEF Laid, Inside
<1>5. \A i \in 1 .. emitted' : IsStruct(list[i].type) => dones'[list[i].type.base] # <<>>
  <2> SUFFICES ASSUME NEW i \in 1 .. emitted', IsStruct(list[i].type) PROVE dones[list[i].type.base] # <<>>
    BY <1>1
  <2>1. CASE i = emitted + 1
    BY <1>4, <2>1 DEF TheVar
  <2>2. CASE i # emitted + 1
    <3>1. i \in 1 .. emitted
      BY <1>1, <1>2, <2>2
    <3> QED BY <3>1 DEF LayoutInv, Generated
  <2> QED BY <2>1, <2>2
<1>6. stack = <<>> /\ answer = Empty /\ ModuleEnded
  BY <1>1 DEF Generating
<1>7. /\ current' \in Seq(Opens) /\ \A i \in DOMAIN current' : OpenFits(current'[i])
      /\ \A i, j \in DOMAIN current' : i < j => current'[j].name \in Leads(current'[i].name)
      /\ dones' \in [Names -> Seq(Tags)] /\ \A n \in Names : DoneFits(n, dones'[n])
  BY <1>1 DEF LayoutInv, Nested, Generated
<1> QED BY <1>1, <1>3, <1>5, <1>6, <1>7, LayoutsStay

\* The structures that are open lead to the last of them, which leads to its fields.
LEMMA OpaqueLeadsBack ==
    ASSUME IInv, MeaningInv, LayoutInv, LayingOut, NEW n \in Leads(Opened.name), Inside(n)
    PROVE  Opened.name \in Leads(n)
<1>1. PICK i \in DOMAIN current : current[i].name = n
  BY DEF Inside
<1>2. /\ current \in Seq(Opens) /\ current # <<>>
  BY DEF LayoutInv, Nested, LayingOut
<1>3. /\ Len(current) \in Nat /\ DOMAIN current = 1 .. Len(current) /\ Len(current) \in DOMAIN current
      /\ Opened = current[Len(current)]
  BY <1>2, LastOf DEF Opened
<1>4. CASE i = Len(current)
  BY <1>1, <1>3, <1>4
<1>5. CASE i # Len(current)
  <2>1. i < Len(current)
    BY <1>3, <1>5
  <2> QED BY <1>1, <1>3, <2>1 DEF LayoutInv, Nested
<1> QED BY <1>4, <1>5

LEMMA GenerateFieldKeepsLayouts ==
    ASSUME IInv, MeaningInv, LayoutInv, GenerateField
    PROVE  LayoutInv'
<1> DEFINE l   == Len(current)
           o   == Opened
           it  == prog[o.name].items[Len(o.tags) + 1]
           t   == TheField(o)
           tag == Tag(t)
           e   == [o EXCEPT !.tags = Append(o.tags, tag)]
<1>1. /\ Generating /\ LayingOut /\ Remains(o) /\ UNCHANGED <<vars, emitted, dones>>
      /\ current' = [current EXCEPT ![l].tags = Append(@, tag)]
  BY DEF GenerateField, LayingOut
<1>2. /\ current \in Seq(Opens) /\ l \in DOMAIN current /\ o = current[l] /\ o \in Opens /\ OpenFits(o)
      /\ o.name \in Names /\ o.tags \in Seq(Tags) /\ Len(o.tags) \in Nat
      /\ Len(prog[o.name].items) \in Nat /\ Len(o.tags) + 1 <= Len(prog[o.name].items)
      /\ t = FieldType(it) /\ it.form \in {"type", "pointer", "size"}
      /\ IsStruct(t) => t.base = Denotes(it.of) /\ t.base \in Leads(o.name)
  BY <1>1, TheFieldFits DEF LayoutInv, Nested
<1>3. tag \in Tags /\ TagFits(o.name, it, tag)
  <2>1. t.ptr = (it.form = "pointer")
    <3>1. t = IF it.form = "size" THEN Type(Array, FALSE) ELSE Type(Denotes(it.of), it.form = "pointer")
      BY <1>2 DEF FieldType
    <3> HIDE DEF t, it
    <3>2. CASE it.form = "size"
      <4>1. t = Type(Array, FALSE)
        BY <3>1, <3>2
      <4>2. ~t.ptr /\ t.ptr \in BOOLEAN
        BY <4>1 DEF Type, Result
      <4> QED BY <3>2, <4>2
    <3>3. CASE it.form # "size"
      <4>1. t = Type(Denotes(it.of), it.form = "pointer")
        BY <3>1, <3>3
      <4> QED BY <4>1, TypeFields
    <3> QED BY <3>2, <3>3
  <2>2. Unknowable(t) => o.name \in Leads(Denotes(it.of))
    BY <1>1, <1>2, OpaqueLeadsBack DEF Unknowable
  <2> HIDE DEF t, it, o
  <2> QED BY <2>1, <2>2 DEF Tag, Tags, TagFits, ExactTag
<1> HIDE DEF tag
<1>4. Append(o.tags, tag) \in Seq(Tags) /\ DOMAIN Append(o.tags, tag) = 1 .. Len(o.tags) + 1
      /\ Append(o.tags, tag)[Len(o.tags) + 1] = tag
      /\ \A j \in 1 .. Len(o.tags) : Append(o.tags, tag)[j] = o.tags[j]
      /\ Len(Append(o.tags, tag)) = Len(o.tags) + 1 /\ DOMAIN o.tags = 1 .. Len(o.tags)
  <2> HIDE DEF o
  <2> QED BY <1>2, <1>3
<1>5. e \in Opens /\ e.name = o.name /\ e.tags = Append(o.tags, tag)
  <2> HIDE DEF o
  <2> QED BY <1>2, <1>4 DEF Opens
<1>6. OpenFits(e)
  <2>1. Kind(o.name) = "struct" /\ gen[o.name].is = "struct"
        /\ \A j \in DOMAIN o.tags : TagFits(o.name, prog[o.name].items[j], o.tags[j])
    BY <1>2 DEF OpenFits
  <2>2. \A j \in DOMAIN e.tags : TagFits(o.name, prog[o.name].items[j], e.tags[j])
    <3> SUFFICES ASSUME NEW j \in DOMAIN e.tags PROVE TagFits(o.name, prog[o.name].items[j], e.tags[j])
      OBVIOUS
    <3> HIDE DEF e
    <3>1. CASE j = Len(o.tags) + 1
      BY <1>3, <1>4, <1>5, <3>1
    <3>2. CASE j # Len(o.tags) + 1
      <4>1. j \in DOMAIN o.tags /\ e.tags[j] = o.tags[j]
        <5> HIDE DEF o
        <5> QED BY <1>2, <1>4, <1>5, <3>2
      <4> QED BY <2>1, <4>1
    <3> QED BY <3>1, <3>2
  <2> HIDE DEF o, e
  <2> QED BY <1>2, <1>4, <1>5, <2>1, <2>2 DEF OpenFits
<1>7. /\ current' \in Seq(Opens) /\ DOMAIN current' = DOMAIN current /\ current'[l] = e
      /\ \A i \in DOMAIN current : i # l => current'[i] = current[i]
  <2>1. current' = [current EXCEPT ![l] = e]
    BY <1>1, <1>2
  <2> HIDE DEF e, l
  <2> QED BY <1>2, <1>5, <2>1
<1> HIDE DEF e
<1>8. \A i \in DOMAIN current' : OpenFits(current'[i])
  <2>1. ASSUME NEW i \in DOMAIN current' PROVE OpenFits(current'[i])
    BY <1>6, <1>7 DEF LayoutInv, Nested
  <2> QED BY <2>1
<1>9. \A i \in DOMAIN current' : i \in DOMAIN current /\ current'[i].name = current[i].name
  <2>1. current[l].name = e.name
    BY <1>2, <1>5
  <2> QED BY <1>7, <2>1
<1>10. \A i, j \in DOMAIN current' : i < j => current'[j].name \in Leads(current'[i].name)
  <2> SUFFICES ASSUME NEW i \in DOMAIN current', NEW j \in DOMAIN current', i < j
               PROVE  current'[j].name \in Leads(current'[i].name)
    OBVIOUS
  <2>1. current[j].name \in Leads(current[i].name)
    BY <1>7 DEF LayoutInv, Nested
  <2> QED BY <1>9, <2>1
<1>11. /\ dones' \in [Names -> Seq(Tags)] /\ \A m \in Names : DoneFits(m, dones'[m])
       /\ emitted' \in 0 .. Len(list)
       /\ \A i \in 1 .. emitted' : IsStruct(list[i].type) => dones'[list[i].type.base] # <<>>
  BY <1>1 DEF LayoutInv, Generated
<1>12. UNCHANGED vars /\ stack = <<>> /\ answer = Empty /\ ModuleEnded
  BY <1>1 DEF Generating
<1> QED BY <1>7, <1>8, <1>10, <1>11, <1>12, LayoutsStay

LEMMA EndTypeKeepsLayouts ==
    ASSUME IInv, MeaningInv, LayoutInv, EndType
    PROVE  LayoutInv'
<1> DEFINE n == Opened.name
           tags == Opened.tags
           items == prog[n].items
<1>1. /\ Generating /\ LayingOut /\ ~Remains(Opened) /\ HasSize(tags) /\ UNCHANGED <<vars, emitted>>
      /\ dones' = [dones EXCEPT ![n] = Padded(tags)]
      /\ current' = SubSeq(current, 1, Len(current) - 1)
  BY DEF EndType, LayingOut
<1>2. /\ OpenFits(Opened) /\ n \in Names /\ tags \in Seq(Tags) /\ Len(tags) \in Nat
      /\ Len(items) \in Nat /\ Len(fields[n]) = Len(items)
  BY <1>1, TheFieldFits
<1>3. dones \in [Names -> Seq(Tags)] /\ current \in Seq(Opens) /\ current # <<>>
  BY <1>1 DEF LayoutInv, Generated, Nested, LayingOut
<1>4. /\ Len(tags) = Len(items) /\ DOMAIN tags = 1 .. Len(tags)
      /\ \A j \in DOMAIN tags : ExactTag(n, items[j], tags[j])
  <2>1. Len(tags) = Len(items)
    BY <1>1, <1>2 DEF Remains, OpenFits
  <2>2. DOMAIN tags = 1 .. Len(tags)
    BY <1>2
  <2>3. \A j \in DOMAIN tags : tags[j] # "void"
    BY <1>1 DEF HasSize
  <2>4. \A j \in DOMAIN tags : TagFits(n, items[j], tags[j])
    BY <1>2 DEF OpenFits
  <2> QED BY <2>1, <2>2, <2>3, <2>4 DEF TagFits
<1>5. items \in Seq(Item)
  BY <1>2, ShapeOf DEF OpenFits, MeaningInv, ListTyped
<1>6. Padded(tags) \in Seq(Tags) /\ Padded(tags) # <<>> /\ DoneFits(n, Padded(tags))
  <2> HIDE DEF tags, items, n
  <2>1. CASE tags = <<>>
    <3>1. items = <<>>
      BY <1>4, <1>5, <2>1
    <3>2. Padded(tags) = <<"whole">> /\ <<"whole">> \in Seq(Tags) /\ <<"whole">> # <<>>
      BY <2>1 DEF Padded, Tags
    <3> QED BY <3>1, <3>2 DEF DoneFits, items
  <2>2. CASE tags # <<>>
    <3>1. items # <<>>
      BY <1>2, <1>4, <2>2
    <3>2. Padded(tags) = tags
      BY <2>2 DEF Padded
    <3> QED BY <1>2, <1>4, <2>2, <3>1, <3>2 DEF DoneFits, items
  <2> QED BY <2>1, <2>2
<1> HIDE DEF n, tags, items
<1>7. /\ dones' \in [Names -> Seq(Tags)]
      /\ \A m \in Names : dones'[m] = IF m = n THEN Padded(tags) ELSE dones[m]
  BY <1>1, <1>2, <1>3, <1>6
<1>8. \A m \in Names : DoneFits(m, dones'[m])
  <2> SUFFICES ASSUME NEW m \in Names PROVE DoneFits(m, dones'[m])
    OBVIOUS
  <2>1. CASE m = n
    BY <1>6, <1>7, <2>1
  <2>2. CASE m # n
    BY <1>7, <2>2 DEF LayoutInv, Generated
  <2> QED BY <2>1, <2>2
<1>9. emitted' \in 0 .. Len(list)
  BY <1>1 DEF LayoutInv, Generated
<1>10. \A i \in 1 .. emitted' : IsStruct(list[i].type) => dones'[list[i].type.base] # <<>>
  <2> SUFFICES ASSUME NEW i \in 1 .. emitted', IsStruct(list[i].type)
               PROVE  dones'[list[i].type.base] # <<>>
    OBVIOUS
  <2>1. dones[list[i].type.base] # <<>> /\ list[i].type.base \in Names
    BY <1>1 DEF LayoutInv, Generated, IsStruct
  <2> QED BY <1>6, <1>7, <2>1
<1>11. /\ current' \in Seq(Opens) /\ DOMAIN current' \subseteq DOMAIN current
       /\ \A i \in DOMAIN current' : current'[i] = current[i]
  <2> DEFINE l == Len(current)
  <2>1. /\ l \in Nat \ {0} /\ DOMAIN current = 1 .. l /\ current' \in Seq(Opens)
        /\ DOMAIN current' = 1 .. l - 1
        /\ \A i \in 1 .. l - 1 : current'[i] = current[i]
    BY <1>1, <1>3, LastOf
  <2> HIDE DEF l
  <2> QED BY <2>1
<1>12. \A i \in DOMAIN current' : OpenFits(current'[i])
  BY <1>11 DEF LayoutInv, Nested
<1>13. \A i, j \in DOMAIN current' : i < j => current'[j].name \in Leads(current'[i].name)
  <2> SUFFICES ASSUME NEW i \in DOMAIN current', NEW j \in DOMAIN current', i < j
               PROVE  current'[j].name \in Leads(current'[i].name)
    OBVIOUS
  <2>1. current[j].name \in Leads(current[i].name)
    BY <1>11 DEF LayoutInv, Nested
  <2> QED BY <1>11, <2>1
<1>14. UNCHANGED vars /\ stack = <<>> /\ answer = Empty /\ ModuleEnded
  BY <1>1 DEF Generating
<1> QED BY <1>7, <1>8, <1>9, <1>10, <1>11, <1>12, <1>13, <1>14, LayoutsStay

-----------------------------------------------------------------------------
LEMMA InitIsLaidOut == TypeInit => LayoutInv
<1> SUFFICES ASSUME TypeInit PROVE LayoutInv
  OBVIOUS
<1>1. /\ prog \in Programs /\ gen = [n \in Names |-> Empty] /\ fields = [n \in Names |-> <<>>]
      /\ list = <<>> /\ stack = <<>> /\ emitted = 0 /\ current = <<>> /\ dones = [n \in Names |-> <<>>]
  BY DEF TypeInit, Init
<1>2. ShapesFit
  BY <1>1, Constants DEF ShapesFit, GenMeans, Meant
<1>3. Settles /\ Nested
  BY <1>1 DEF Settles, Nested
<1>4. Generated
  BY <1>1 DEF Generated, DoneFits
<1> QED BY <1>2, <1>3, <1>4 DEF LayoutInv

LEMMA TypeNextKeepsLayouts ==
    IInv /\ MeaningInv /\ LayoutInv /\ [TypeNext]_<<vars, generated>> => LayoutInv'
<1> SUFFICES ASSUME IInv, MeaningInv, LayoutInv, [TypeNext]_<<vars, generated>> PROVE LayoutInv'
  OBVIOUS
<1>1. CASE Validates
  BY <1>1, NextKeepsLayouts DEF Validates
<1>2. CASE EndVoid \/ Stop \/ UNCHANGED <<vars, generated>>
  <2>1. UNCHANGED <<prog, gen, fields, list, stack, answer, done, generated>>
    BY <1>2 DEF EndVoid, Stop, vars, generated
  <2> QED BY <2>1, SameLayouts
<1> QED BY <1>1, <1>2, LayOutsKeepLayouts, GenerateVarKeepsLayouts, GenerateFieldKeepsLayouts,
           EndTypeKeepsLayouts DEF TypeNext

-----------------------------------------------------------------------------
(* What is in a structure by value has its layout before the structure has. *)

Done == {n \in Names : dones[n] # <<>>}

\* What a field that is whole is of has its layout, when it is a structure.
PartIsDone(o, j) ==
    LET it == prog[o.name].items[j]
    IN  o.tags[j] = "whole" /\ it.form = "type" /\ Is("struct", Denotes(it.of)) => Denotes(it.of) \in Done

Apart ==
    /\ \A i \in DOMAIN current : current[i].name \notin Done
    /\ \A i, j \in DOMAIN current : i < j => current[i].name # current[j].name
PartsAreDone == \A i \in DOMAIN current : \A j \in DOMAIN current[i].tags : PartIsDone(current[i], j)
NoneInItself == \A n \in Done : Held[n] \subseteq Done /\ ~SelfContained(n)
ContainInv   == Apart /\ PartsAreDone /\ NoneInItself

LEMMA HeldSymbols == Held \in [Names -> SUBSET Names]
BY DEF Held

LEMMA SameHeld ==
    ASSUME prog' = prog
    PROVE  Held' = Held /\ \A n : SelfContained(n)' = SelfContained(n)
<1>1. \A x : Kind(x)' = Kind(x) /\ Denotes(x)' = Denotes(x)
  BY SameMeaning
<1>2. \A m : NamedAs(m, {"type"})' = NamedAs(m, {"type"})
  BY DEF NamedAs, ItemsOf
<1>3. \A m, n : Holds(m, n)' = Holds(m, n)
  BY <1>1, <1>2 DEF Holds
<1>4. Held' = Held
  BY <1>3 DEF Held
<1>5. ASSUME NEW n PROVE SelfContained(n)' = SelfContained(n)
  <2>1. \A s, h : Closure(s, h)' = Closure(s, h)
    BY DEF Closure
  <2> QED BY <1>4 DEF SelfContained, Closure
<1> QED BY <1>4, <1>5

\* Nothing is opened, laid out or tagged.
LEMMA ContainStays ==
    ASSUME ContainInv, UNCHANGED <<prog, current, dones>>
    PROVE  ContainInv'
<1>1. Held' = Held /\ \A n : SelfContained(n)' = SelfContained(n)
  BY SameHeld
<1>2. Done' = Done
  BY DEF Done
<1>3. \A x : Denotes(x)' = Denotes(x) /\ Is("struct", x)' = Is("struct", x)
  BY SameMeaning
<1>4. \A i \in DOMAIN current : \A j : PartIsDone(current[i], j) => PartIsDone(current[i], j)'
  BY <1>2, <1>3 DEF PartIsDone
<1>5. PartsAreDone'
  BY <1>4 DEF ContainInv, PartsAreDone
<1>6. Apart' /\ NoneInItself'
  BY <1>1, <1>2 DEF ContainInv, Apart, NoneInItself
<1> QED BY <1>5, <1>6 DEF ContainInv

\* A structure is opened once, and before it is done.
LEMMA LayOutKeepsContained ==
    ASSUME LayoutInv, ContainInv, NEW n \in Names, LayOut(n), ~Inside(n), dones[n] = <<>>
    PROVE  ContainInv'
<1>1. CASE gen[n].is # "struct"
  <2>1. UNCHANGED <<prog, current, dones>>
    BY <1>1 DEF LayOut
  <2> QED BY <2>1, ContainStays
<1>2. CASE gen[n].is = "struct"
  <2> DEFINE o == [name |-> n, tags |-> <<>>]
             l == Len(current)
  <2>1. current' = Append(current, o) /\ UNCHANGED <<prog, dones>>
    BY <1>2 DEF LayOut
  <2>2. o \in Opens /\ o.name = n /\ o.tags = <<>>
    BY DEF Opens
  <2> HIDE DEF o
  <2>3. /\ l \in Nat /\ DOMAIN current' = 1 .. l + 1 /\ DOMAIN current = 1 .. l
        /\ current'[l + 1] = o /\ \A i \in 1 .. l : current'[i] = current[i]
    BY <2>1, <2>2, NewTop DEF LayoutInv, Nested
  <2> HIDE DEF l
  <2>4. Done' = Done /\ n \notin Done
    BY <2>1 DEF Done
  <2>5. \A i \in DOMAIN current' : current'[i].name = n \/ i \in DOMAIN current
    BY <2>2, <2>3
  <2>6. Apart'
    <3>1. \A i \in DOMAIN current' : current'[i].name \notin Done'
      <4> SUFFICES ASSUME NEW i \in DOMAIN current' PROVE current'[i].name \notin Done
        BY <2>4
      <4>1. CASE i \in DOMAIN current
        BY <4>1, <2>3 DEF ContainInv, Apart
      <4> QED BY <2>4, <2>5, <4>1
    <3>2. ASSUME NEW i \in DOMAIN current', NEW j \in DOMAIN current', i < j
          PROVE  current'[i].name # current'[j].name
      <4>1. i \in DOMAIN current /\ current'[i] = current[i]
        BY <2>3, <3>2
      <4>2. CASE j = l + 1
        BY <2>2, <2>3, <4>1, <4>2 DEF Inside
      <4>3. CASE j # l + 1
        <5>1. j \in DOMAIN current /\ current'[j] = current[j]
          BY <2>3, <4>3
        <5> QED BY <3>2, <4>1, <5>1 DEF ContainInv, Apart
      <4> QED BY <4>2, <4>3
    <3> QED BY <3>1, <3>2 DEF Apart
  <2>7. PartsAreDone'
    <3> SUFFICES ASSUME NEW i \in DOMAIN current', NEW j \in DOMAIN current'[i].tags
                 PROVE  PartIsDone(current[i], j)'
      BY DEF PartsAreDone
    <3>1. i \in DOMAIN current /\ current'[i] = current[i]
      BY <2>2, <2>3
    <3>2. PartIsDone(current[i], j)
      BY <3>1 DEF ContainInv, PartsAreDone
    <3>3. \A x : Denotes(x)' = Denotes(x) /\ Is("struct", x)' = Is("struct", x)
      BY <2>1, SameMeaning
    <3> QED BY <2>1, <2>4, <3>1, <3>2, <3>3 DEF PartIsDone
  <2>8. NoneInItself'
    BY <2>1, <2>4, SameHeld DEF ContainInv, NoneInItself
  <2> QED BY <2>6, <2>7, <2>8 DEF ContainInv
<1> QED BY <1>1, <1>2

\* A field is whole when what it is of is laid out, and is not open.
LEMMA GenerateFieldKeepsContained ==
    ASSUME IInv, MeaningInv, LayoutInv, ContainInv, GenerateField
    PROVE  ContainInv'
<1> DEFINE l   == Len(current)
           o   == Opened
           k   == Len(o.tags) + 1
           it  == prog[o.name].items[k]
           t   == TheField(o)
           tag == Tag(t)
<1>1. /\ LayingOut /\ Remains(o) /\ Laid(t) /\ UNCHANGED <<prog, dones>>
      /\ current' = [current EXCEPT ![l].tags = Append(@, tag)]
  BY DEF GenerateField, vars
<1>2. /\ current \in Seq(Opens) /\ l \in DOMAIN current /\ o = current[l] /\ o \in Opens
      /\ o.tags \in Seq(Tags) /\ Len(o.tags) \in Nat
      /\ t = FieldType(it)
      /\ IsStruct(t) => t.base = Denotes(it.of)
  BY <1>1, TheFieldFits DEF LayoutInv, Nested
<1>3. /\ DOMAIN current' = DOMAIN current
      /\ \A i \in DOMAIN current : current'[i].name = current[i].name
      /\ \A i \in DOMAIN current : i # l => current'[i].tags = current[i].tags
      /\ current'[l].tags = Append(o.tags, tag)
  <2>1. current' = [current EXCEPT ![l] = [current[l] EXCEPT !.tags = Append(o.tags, tag)]]
    BY <1>1, <1>2
  <2> HIDE DEF tag, o
  <2>2. \A i \in DOMAIN current : current[i] \in Opens
    BY <1>2
  <2> QED BY <1>2, <2>1, <2>2 DEF Opens
<1>4. Done' = Done
  BY <1>1 DEF Done
<1>5. tag = "whole" /\ it.form = "type" /\ Is("struct", Denotes(it.of)) => Denotes(it.of) \in Done
  <2> SUFFICES ASSUME tag = "whole", it.form = "type", Is("struct", Denotes(it.of)) PROVE Denotes(it.of) \in Done
    OBVIOUS
  <2>1. t = Type(Denotes(it.of), FALSE)
    BY <1>2 DEF FieldType
  <2>2. t.base = Denotes(it.of) /\ t.ptr = FALSE
    <3> DEFINE d == Denotes(it.of)
    <3>1. t = Type(d, FALSE)
      BY <2>1
    <3> HIDE DEF t, it, d
    <3>2. Type(d, FALSE).base = d /\ Type(d, FALSE).ptr = FALSE
      BY TypeFields
    <3>3. t.base = d /\ t.ptr = FALSE
      BY <3>1, <3>2
    <3> QED BY <3>3 DEF d
  <2>3. IsStruct(t)
    BY <2>2 DEF IsStruct, Is
  <2>4. ~Inside(t.base)
    BY <2>2, <2>3 DEF Tag, Unknowable
  <2> QED BY <1>1, <2>2, <2>3, <2>4 DEF Laid, IsStruct, Done
<1>6. PartsAreDone'
  <2> SUFFICES ASSUME NEW i \in DOMAIN current', NEW j \in DOMAIN current'[i].tags
               PROVE  PartIsDone(current[i], j)'
    BY DEF PartsAreDone
  <2>1. \A x : Denotes(x)' = Denotes(x) /\ Is("struct", x)' = Is("struct", x)
    BY <1>1, SameMeaning
  <2>2. CASE i = l /\ j = k
    <3>1. current'[i].tags[j] = tag /\ current'[i].name = o.name
      <4> HIDE DEF tag, o
      <4> QED BY <1>2, <1>3, <2>2
    <3>2. prog'[current'[i].name].items[j] = it
      <4>1. prog' = prog
        BY <1>1
      <4> HIDE DEF o, k, tag
      <4> QED BY <4>1, <2>2, <3>1
    <3> HIDE DEF tag, it, o
    <3> QED BY <1>4, <1>5, <2>1, <3>1, <3>2 DEF PartIsDone
  <2>3. CASE ~(i = l /\ j = k)
    <3>1. /\ i \in DOMAIN current /\ j \in DOMAIN current[i].tags
          /\ current'[i].tags[j] = current[i].tags[j] /\ current'[i].name = current[i].name
      <4> HIDE DEF tag, o
      <4>1. CASE i = l
        <5>1. j \in 1 .. Len(o.tags) + 1 /\ DOMAIN o.tags = 1 .. Len(o.tags)
          BY <1>2, <1>3, <4>1
        <5> QED BY <1>2, <1>3, <2>3, <4>1, <5>1
      <4>2. CASE i # l
        BY <1>3, <4>2
      <4> QED BY <4>1, <4>2
    <3>2. PartIsDone(current[i], j)
      BY <3>1 DEF ContainInv, PartsAreDone
    <3> QED BY <1>1, <1>4, <2>1, <3>1, <3>2 DEF PartIsDone
  <2> QED BY <2>2, <2>3
<1>7. Apart'
  <2>1. Apart
    BY DEF ContainInv
  <2> QED BY <1>3, <1>4, <2>1 DEF Apart
<1>8. NoneInItself'
  BY <1>1, <1>4, SameHeld DEF ContainInv, NoneInItself
<1> QED BY <1>6, <1>7, <1>8 DEF ContainInv

\* A structure ends when what it holds is done, which never leads back to it.
LEMMA EndTypeKeepsContained ==
    ASSUME IInv, MeaningInv, LayoutInv, ContainInv, EndType
    PROVE  ContainInv'
<1> DEFINE n == Opened.name
           tags == Opened.tags
           items == prog[n].items
           l == Len(current)
<1>1. /\ LayingOut /\ ~Remains(Opened) /\ HasSize(tags) /\ prog' = prog
      /\ dones' = [dones EXCEPT ![n] = Padded(tags)]
      /\ current' = SubSeq(current, 1, Len(current) - 1)
  BY DEF EndType, vars
<1>2. /\ l \in DOMAIN current /\ Opened = current[l]
      /\ OpenFits(Opened) /\ n \in Names /\ tags \in Seq(Tags) /\ Len(tags) \in Nat
      /\ Len(items) \in Nat /\ Len(fields[n]) = Len(items)
  BY <1>1, TheFieldFits
<1>3. dones \in [Names -> Seq(Tags)] /\ current \in Seq(Opens) /\ current # <<>>
  BY <1>1 DEF LayoutInv, Generated, Nested, LayingOut
<1>4. Padded(tags) # <<>>
  BY DEF Padded
<1>5. Done' = Done \cup {n}
  <2> HIDE DEF n, tags
  <2> QED BY <1>1, <1>2, <1>3, <1>4 DEF Done
<1>6. n \notin Done
  BY <1>2 DEF ContainInv, Apart
<1>7. Held[n] \subseteq Done
  <2> SUFFICES ASSUME NEW m \in Held[n] PROVE m \in Done
    OBVIOUS
  <2>1. Kind(n) = "struct" /\ m \in Names /\ Kind(m) = "struct" /\ \E x \in NamedAs(n, {"type"}) : Denotes(x) = m
    BY <1>2 DEF Held, Holds
  <2>2. ItemsOf(n) = items
    BY <1>2, <2>1, ShapeOf DEF MeaningInv, ListTyped
  <2>3. PICK j \in DOMAIN items : items[j].form = "type" /\ Denotes(items[j].of) = m
    BY <2>1, <2>2 DEF NamedAs
  <2>4. items \in Seq(Item)
    BY <1>2, <2>1, ShapeOf DEF MeaningInv, ListTyped
  <2>5. j \in DOMAIN tags
    <3>1. Len(tags) = Len(items)
      BY <1>1, <1>2 DEF Remains, OpenFits
    <3> HIDE DEF tags, items
    <3> QED BY <1>2, <2>3, <2>4, <3>1
  <2>6. tags[j] = "whole"
    <3>1. TagFits(n, items[j], tags[j]) /\ tags[j] # "void"
      BY <1>1, <1>2, <2>5 DEF OpenFits, HasSize
    <3> QED BY <2>3, <3>1 DEF TagFits, ExactTag
  <2>7. PartIsDone(Opened, j)
    BY <1>2, <2>5 DEF ContainInv, PartsAreDone
  <2> QED BY <2>1, <2>3, <2>6, <2>7 DEF PartIsDone, Is
<1>8. ~SelfContained(n)
  <2>1. Closure(Held[n], Held) \subseteq Done
    <3>1. Done \in SUBSET Names /\ \A x \in Done : Held[x] \subseteq Done
      BY DEF ContainInv, NoneInItself, Done
    <3> HIDE DEF n
    <3> QED BY <1>7, <3>1, ClosureIsLeast
  <2> QED BY <1>6, <2>1 DEF SelfContained
<1> HIDE DEF n, tags, items
<1>9. NoneInItself'
  <2>1. Held' = Held /\ \A x : SelfContained(x)' = SelfContained(x)
    BY <1>1, SameHeld
  <2>2. NoneInItself
    BY DEF ContainInv
  <2> QED BY <1>5, <1>7, <1>8, <2>1, <2>2 DEF NoneInItself
<1>10. /\ l \in Nat \ {0} /\ DOMAIN current = 1 .. l /\ DOMAIN current' = 1 .. l - 1
       /\ \A i \in 1 .. l - 1 : current'[i] = current[i]
  BY <1>1, <1>3, LastOf
<1> HIDE DEF l
<1>11. Apart'
  <2>1. \A i \in DOMAIN current' : current'[i].name \notin Done'
    <3> SUFFICES ASSUME NEW i \in DOMAIN current' PROVE current'[i].name \notin Done'
      OBVIOUS
    <3>1. i \in DOMAIN current /\ i < l /\ current'[i] = current[i]
      BY <1>10
    <3>2. current[i].name \notin Done /\ current[i].name # current[l].name
      BY <1>2, <3>1 DEF ContainInv, Apart
    <3> QED BY <1>2, <1>5, <3>1, <3>2 DEF n
  <2>2. \A i, j \in DOMAIN current' : i < j => current'[i].name # current'[j].name
    <3> SUFFICES ASSUME NEW i \in DOMAIN current', NEW j \in DOMAIN current', i < j
                 PROVE  current'[i].name # current'[j].name
      OBVIOUS
    <3>1. i \in DOMAIN current /\ j \in DOMAIN current /\ current'[i] = current[i] /\ current'[j] = current[j]
      BY <1>10
    <3> QED BY <3>1 DEF ContainInv, Apart
  <2> QED BY <2>1, <2>2 DEF Apart
<1>12. PartsAreDone'
  <2> SUFFICES ASSUME NEW i \in DOMAIN current', NEW j \in DOMAIN current'[i].tags
               PROVE  PartIsDone(current[i], j)'
    BY DEF PartsAreDone
  <2>1. i \in DOMAIN current /\ current'[i] = current[i]
    BY <1>10
  <2>2. PartIsDone(current[i], j)
    BY <2>1 DEF ContainInv, PartsAreDone
  <2>3. \A x : Denotes(x)' = Denotes(x) /\ Is("struct", x)' = Is("struct", x)
    BY <1>1, SameMeaning
  <2> QED BY <1>1, <1>5, <2>1, <2>2, <2>3 DEF PartIsDone
<1> QED BY <1>9, <1>11, <1>12 DEF ContainInv

LEMMA InitIsContained == TypeInit => ContainInv
BY DEF TypeInit, ContainInv, Apart, PartsAreDone, NoneInItself, Done

LEMMA TypeNextKeepsContained ==
    IInv /\ MeaningInv /\ LayoutInv /\ ContainInv /\ [TypeNext]_<<vars, generated>> => ContainInv'
<1> SUFFICES ASSUME IInv, MeaningInv, LayoutInv, ContainInv, [TypeNext]_<<vars, generated>> PROVE ContainInv'
  OBVIOUS
<1>1. CASE Validates
  <2>1. prog' = prog
    BY <1>1 DEF Validates, Next, Begin, Collect, EnterValue, AskBuiltin, AskSymbol, Halt, Accept, Retry, Continue,
                Throw, EndVar, EndVarRefused, EndAka, EndStruct, EndEnum, EndFunc
  <2> QED BY <1>1, <2>1, ContainStays DEF Validates, generated
<1>2. CASE GenerateVar \/ EndVoid \/ Stop \/ UNCHANGED <<vars, generated>>
  <2>1. UNCHANGED <<prog, current, dones>>
    BY <1>2 DEF GenerateVar, EndVoid, Stop, vars, generated
  <2> QED BY <2>1, ContainStays
<1>3. CASE LayOutVar
  <2>1. LayOut(TheVar.type.base) /\ IsStruct(TheVar.type) /\ ~Inside(TheVar.type.base) /\ dones[TheVar.type.base] = <<>>
    BY <1>3 DEF LayOutVar, Laid
  <2> QED BY <2>1, LayOutKeepsContained DEF IsStruct
<1>4. CASE LayOutField
  <2> DEFINE t == TheField(Opened)
  <2>1. LayOut(t.base) /\ IsStruct(t) /\ ~Inside(t.base) /\ dones[t.base] = <<>>
    BY <1>4 DEF LayOutField, Laid
  <2> HIDE DEF t
  <2> QED BY <2>1, LayOutKeepsContained DEF IsStruct
<1> QED BY <1>1, <1>2, <1>3, <1>4, GenerateFieldKeepsContained, EndTypeKeepsContained DEF TypeNext

LEMMA LaidOutInTheEnd == MeaningInv /\ LayoutInv /\ ContainInv => LayoutsAreExact
<1> SUFFICES ASSUME MeaningInv, LayoutInv, ContainInv PROVE LayoutsAreExact
  OBVIOUS
<1>1. \A n \in Names : dones[n] # <<>> =>
        IF prog[n].items = <<>> THEN dones[n] = <<"whole">>
        ELSE /\ Len(dones[n]) = Len(prog[n].items)
             /\ \A i \in DOMAIN dones[n] : ExactTag(n, prog[n].items[i], dones[n][i])
  BY DEF LayoutInv, Generated, DoneFits
<1>2. Compiled => \A i \in DOMAIN list : IsStruct(list[i].type) => dones[list[i].type.base] # <<>>
  <2> SUFFICES ASSUME Compiled, NEW i \in DOMAIN list, IsStruct(list[i].type)
               PROVE  dones[list[i].type.base] # <<>>
    OBVIOUS
  <2>1. emitted = Len(list)
    BY DEF Compiled, Judged, Over, Running
  <2>2. i \in 1 .. emitted
    BY <2>1 DEF MeaningInv, ListTyped
  <2> QED BY <2>2 DEF LayoutInv, Generated
<1>3. \A n \in Names : dones[n] # <<>> => ~SelfContained(n)
  BY DEF ContainInv, NoneInItself, Done
<1> QED BY <1>1, <1>2, <1>3 DEF LayoutsAreExact

\* For every program, whatever was generated before, a structure is laid out from
\* all of its fields, each a pointer or whole as the program has it; a pointer is
\* to void only if what it points to leads back to the structure; no structure that
\* contains itself is laid out; and when the compiler is done every structure that a variable is of has its layout
\* (generateType, generator/Visitor.cc:108-145; Tree::tupleType, Tree.cc:141-188).
THEOREM LayoutsExact == TypeSpec => []LayoutsAreExact
<1>1. TypeInit => IInv /\ MeaningInv /\ LayoutInv /\ ContainInv
  BY InitHolds, InitMeans, InitIsLaidOut, InitIsContained DEF TypeInit
<1>2. IInv /\ [TypeNext]_<<vars, generated>> => IInv'
  BY TypeNextKeeps
<1>3. IInv /\ MeaningInv /\ [TypeNext]_<<vars, generated>> => MeaningInv'
  BY NextKeepsMeaning
<1>4. IInv /\ MeaningInv /\ LayoutInv /\ [TypeNext]_<<vars, generated>> => LayoutInv'
  BY TypeNextKeepsLayouts
<1>5. IInv /\ MeaningInv /\ LayoutInv /\ ContainInv /\ [TypeNext]_<<vars, generated>> => ContainInv'
  BY TypeNextKeepsContained
<1>6. MeaningInv /\ LayoutInv /\ ContainInv => LayoutsAreExact
  BY LaidOutInTheEnd
<1> QED BY <1>1, <1>2, <1>3, <1>4, <1>5, <1>6, PTL DEF TypeSpec
=============================================================================
