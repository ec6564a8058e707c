--------------------------- MODULE IntegerFolding ---------------------------
(***************************************************************************)
(* The scalars of ymir and the arithmetic that the compiler does on them:  *)
(* how a literal is read (Visitor::validateFixed), how the type of an      *)
(* operation follows from its operands (BinaryVisitor, UnaryVisitor) and   *)
(* what CompileTime computes.                                              *)
(*                                                                         *)
(* The compiler computes with the long and the ulong of its own machine,   *)
(* Host bits wide; the types of the language have the widths Sizes, and 0  *)
(* stands for isize and usize.                                             *)
(***************************************************************************)
EXTENDS Integers, FiniteSetsExt

CONSTANTS Host,         \* the bits of a long
          Sizes         \* the widths of the types, 0 that of isize and usize

ASSUME HostAssumption == Host \in Nat \ {0} /\ Sizes \subseteq 0..Host

-----------------------------------------------------------------------------
(* Types.                                                                  *)

Integer(size, signed) == [is |-> "int", size |-> size, signed |-> signed]
Char(size) == [is |-> "char", size |-> size, signed |-> FALSE]
Bool       == [is |-> "bool", size |-> 1, signed |-> FALSE]
Void       == [is |-> "void", size |-> 1, signed |-> FALSE]

Width(type) == IF type.size = 0 THEN Host ELSE type.size

MaxOf(type) == 2 ^ (IF type.signed THEN Width(type) - 1 ELSE Width(type)) - 1
MinOf(type) == IF type.signed THEN - (2 ^ (Width(type) - 1)) ELSE 0
Fits(type, n) == MinOf(type) <= n /\ n <= MaxOf(type)

Long  == Integer(0, TRUE)
ULong == Integer(0, FALSE)

\* What is left of n in the bits of a type.
Wrapped(type, n) ==
    LET u == n % (2 ^ Width(type))
    IN  IF type.signed /\ u > MaxOf(type) THEN u - 2 ^ Width(type) ELSE u

Bits(n)   == LET u == Wrapped(ULong, n)
             IN  {k \in 0 .. Host - 1 : (u \div 2 ^ k) % 2 = 1}
OfBits(S) == MapThenSumSet(LAMBDA k : 2 ^ k, S)

\* The quotient of C, which is rounded to zero.
Magnitude(n) == IF n < 0 THEN - n ELSE n
Quotient(a, b) == LET q == Magnitude(a) \div Magnitude(b)
                  IN  IF (a < 0) = (b < 0) THEN q ELSE - q
Remainder(a, b) == a - b * Quotient(a, b)

-----------------------------------------------------------------------------
(* Literals.  The result is the empty set when the literal is refused.      *)

\* strtol saturates at LONG_MAX, and the test of errno looks for ULONG_MAX.
ReadSigned(type, n) ==
    LET value == IF n > MaxOf(Long) THEN MaxOf(Long) ELSE n
    IN  IF type.size # 0 /\ value > MaxOf(type) THEN {} ELSE {value}

ReadUnsigned(type, n) ==
    IF n > MaxOf(ULong) \/ (type.size # 0 /\ n > MaxOf(type)) THEN {} ELSE {n}

FixedValue(type, n) == [op |-> "fixed", type |-> type, v |-> n]
Fixed(type, n) ==
    {FixedValue(type, v) :
        v \in IF type.signed THEN ReadSigned(type, n) ELSE ReadUnsigned(type, n)}

BoolValue(b)    == [op |-> "bool", type |-> Bool, v |-> b]
CharValue(t, c) == [op |-> "char", type |-> t, v |-> c]

-----------------------------------------------------------------------------
(* The types of operations.                                                *)

MathInt  == {"+", "-", "*", "/", "%", "<<", ">>", "|", "&", "^"}
MathChar == {"+", "-"}
MathBool == {"==", "!=", "&&", "||"}
Logical  == {"<", ">", "<=", ">=", "==", "!="}

Binary(op, by, l, r, type) ==
    [op |-> op, by |-> by, left |-> l, right |-> r, type |-> type]

\* usize and isize are of size 0: next to them any other type is the larger one.
Larger(a, b) == IF a.size > b.size THEN a.size ELSE b.size

\* The generators of an operation: none when the visitor refuses it.
Validate(by, l, r) ==
    LET both(kind) == l.type.is = kind /\ r.type.is = kind
        large == Larger(l.type, r.type)
        when(accepted, op, type) == IF accepted THEN {Binary(op, by, l, r, type)} ELSE {}
    IN  IF both("int") /\ l.type.signed = r.type.signed
        THEN when(by \in MathInt, "binint", Integer(large, l.type.signed))
             \cup when(by \in Logical, "binint", Bool)
        ELSE when(both("char") /\ by \in MathChar, "binchar", Char(large))
             \cup when(both("char") /\ l.type = r.type /\ by \in Logical, "binchar", Bool)
             \cup when(both("bool") /\ by \in MathBool, "binbool", Bool)

Negative(g) == [op |-> "unaint", type |-> g.type, who |-> g]
Not(g)      == [op |-> "unabool", type |-> Bool, who |-> g]

-----------------------------------------------------------------------------
(* What CompileTime computes.  A division that the machine traps kills the   *)
(* compiler; a shift takes the bits of its count that the machine takes.   *)

Traps(by, signed, a, b) ==
    by \in {"/", "%"} /\ (b = 0 \/ (signed /\ a = MinOf(Long) /\ b = -1))

Exact(by, a, b) ==
    CASE by = "+" -> a + b
      [] by = "-" -> a - b
      [] by = "*" -> a * b
      [] by = "/" -> Quotient(a, b)
      [] by = "%" -> Remainder(a, b)
      [] by = "<<" -> a * 2 ^ b
      [] by = ">>" -> a \div 2 ^ b
      [] by = "|" -> OfBits(Bits(a) \cup Bits(b))
      [] by = "&" -> OfBits(Bits(a) \cap Bits(b))
      [] by = "^" -> OfBits((Bits(a) \ Bits(b)) \cup (Bits(b) \ Bits(a)))

Compared(by, a, b) ==
    CASE by = "<" -> a < b
      [] by = ">" -> a > b
      [] by = "<=" -> a <= b
      [] by = ">=" -> a >= b
      [] by = "==" -> a = b
      [] by = "!=" -> a # b

ApplyBinInt(by, signed, a, b) ==
    Wrapped(IF signed THEN Long ELSE ULong,
            Exact(by, a, IF by \in {"<<", ">>"} THEN b % Host ELSE b))

\* The chars are computed in an unsigned int and are not checked.
ApplyBinChar(by, a, b) == Wrapped(ULong, Exact(by, a, b))
=============================================================================
