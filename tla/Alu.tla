-------------------------------- MODULE Alu --------------------------------
(***************************************************************************)
(* CPU::execute_alu and CPU::execute_mul_div on words.  The code's doubled *)
(* width (int64_t) is 2 * Bits here.  Operators whose name starts with Bad *)
(* are faulty variants of the one that follows, which the properties were  *)
(* tried on.                                                               *)
(***************************************************************************)
EXTENDS Words, Functions

Bit(v, k) == (v \div 2 ^ k) % 2
Digitwise(op(_, _), a, b) ==
    SumFunction([k \in 0 .. Bits - 1 |-> op(Bit(a, k), Bit(b, k)) * 2 ^ k])
And(a, b) == Digitwise(LAMBDA p, q : p * q, a, b)
Or(a, b) == Digitwise(LAMBDA p, q : p + q - p * q, a, b)
Xor(a, b) == Digitwise(LAMBDA p, q : (p + q) % 2, a, b)

\* & 0x1F
Shift(b) == b % Bits

AluOp == {"add", "sll", "slt", "sltu", "xor", "sr", "or", "and"}

\* alt is bit 5 of funct7; an immediate has no subtraction.
BadAlu(op, alt, imm, a, b) ==
    CASE op = "add" -> Wrap(a + b)
      [] op = "sll" -> Wrap(a * 2 ^ Shift(b))
      [] op = "slt" -> Truth(a < b)
      [] op = "sltu" -> Truth(a < b)
      [] op = "xor" -> Xor(a, b)
      [] op = "sr" -> a \div 2 ^ Shift(b)
      [] op = "or" -> Or(a, b)
      [] op = "and" -> And(a, b)
Alu(op, alt, imm, a, b) ==
    CASE op = "add" /\ alt /\ ~imm -> Wrap(a - b)
      [] op = "add" /\ ~(alt /\ ~imm) -> Wrap(a + b)
      [] op = "sll" -> Wrap(a * 2 ^ Shift(b))
      [] op = "slt" -> Truth(Signed(a) < Signed(b))
      [] op = "sltu" -> Truth(a < b)
      [] op = "xor" -> Xor(a, b)
      [] op = "sr" /\ alt -> Wrap(Signed(a) \div 2 ^ Shift(b))
      [] op = "sr" /\ ~alt -> a \div 2 ^ Shift(b)
      [] op = "or" -> Or(a, b)
      [] op = "and" -> And(a, b)

MulOp == {"mul", "mulh", "mulhsu", "mulhu", "div", "divu", "rem", "remu"}

\* C division truncates towards zero.
Abs(i) == IF i < 0 THEN -i ELSE i
Sign(i) == IF i < 0 THEN -1 ELSE 1
Quotient(i, j) == Sign(i) * Sign(j) * (Abs(i) \div Abs(j))
Remainder(i, j) == i - j * Quotient(i, j)

\* The most negative number divided by -1, which C leaves undefined.
Overflows(op, a, b) ==
    op \in {"div", "rem"} /\ Signed(a) = -(Modulus \div 2) /\ Signed(b) = -1

\* The upper half of a product taken in twice the width.  For mulhsu one
\* factor is signed and one unsigned, so the product is taken modulo the
\* double width, as an unsigned number.
Upper(p) == Wrap(p \div Modulus)
BadMulDiv(op, a, b) ==
    CASE op = "mul" -> Wrap(a * b)
      [] op = "mulh" -> Upper(Signed(a) * Signed(b))
      [] op = "mulhsu" -> Upper(a * Signed(b))
      [] op = "mulhu" -> Upper(a * b)
      [] op = "div" -> IF b = 0 THEN Modulus - 1 ELSE Wrap(Signed(a) \div Signed(b))
      [] op = "divu" -> IF b = 0 THEN Modulus - 1 ELSE a \div b
      [] op = "rem" -> IF b = 0 THEN a ELSE Wrap(Signed(a) % Abs(Signed(b)))
      [] op = "remu" -> IF b = 0 THEN a ELSE a % b
MulDiv(op, a, b) ==
    CASE op = "mul" -> Wrap(a * b)
      [] op = "mulh" -> Upper(Signed(a) * Signed(b))
      [] op = "mulhsu" -> Upper((Signed(a) * b) % (Modulus * Modulus))
      [] op = "mulhu" -> Upper(a * b)
      [] op = "div" -> IF b = 0 THEN Modulus - 1 ELSE Wrap(Quotient(Signed(a), Signed(b)))
      [] op = "divu" -> IF b = 0 THEN Modulus - 1 ELSE a \div b
      [] op = "rem" -> IF b = 0 THEN a ELSE Wrap(Remainder(Signed(a), Signed(b)))
      [] op = "remu" -> IF b = 0 THEN a ELSE a % b
=============================================================================
