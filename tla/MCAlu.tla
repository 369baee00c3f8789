------------------------------- MODULE MCAlu -------------------------------
(***************************************************************************)
(* Alu and Pseudo against reference definitions, over every pair of words  *)
(* of a small width.                                                       *)
(***************************************************************************)
EXTENDS Pseudo

VARIABLES a, b, done
vars == <<a, b, done>>

\* One evaluation per pair of operands.
Init == a \in Word /\ b \in Word /\ done = FALSE
Evaluate == ~done /\ done' = TRUE /\ UNCHANGED <<a, b>>
Spec == Init /\ [][Evaluate]_vars

R(op, alt) == Alu(op, alt, FALSE, a, b)
I(op, alt) == Alu(op, alt, TRUE, a, b)
M(op) == MulDiv(op, a, b)

\* The double-width product is the one the two halves make up, for each of
\* the three readings of the factors (execute_mul_div's 64-bit products).
ProductHalves ==
    /\ M("mulhu") * Modulus + M("mul") = a * b
    /\ Signed(M("mulh")) * Modulus + M("mul") = Signed(a) * Signed(b)
    /\ Signed(M("mulhsu")) * Modulus + M("mul") = Signed(a) * b

\* Quotient and remainder fit together in the way RISC-V asks for: the
\* remainder has the dividend's sign, is smaller than the divisor, and a
\* division by zero gives all ones and the dividend.
DivisionLaw ==
    /\ M("remu") = Wrap(a - b * M("divu")) /\ (b # 0 => M("remu") < b)
    /\ ~Overflows("div", a, b) =>
          LET q == Signed(M("div"))
              r == Signed(M("rem"))
          IN  IF b = 0 THEN q = -1 /\ r = Signed(a)
              ELSE /\ Signed(a) = q * Signed(b) + r
                   /\ Abs(r) < Abs(Signed(b))
                   /\ r # 0 => Sign(r) = Sign(Signed(a))

\* Comparisons, shifts and the bitwise operations, told by arithmetic laws
\* instead of by bits: the arithmetic shift is the flooring division, xor is
\* what or has more than and, slt orders the words as numbers.
AluLaws ==
    /\ Signed(R("sr", TRUE)) * 2 ^ Shift(b) <= Signed(a)
    /\ Signed(a) < (Signed(R("sr", TRUE)) + 1) * 2 ^ Shift(b)
    /\ R("sr", FALSE) = a \div 2 ^ Shift(b)
    /\ R("sr", FALSE) = Wrap(R("sr", FALSE))
    /\ R("and", FALSE) + R("or", FALSE) = a + b
    /\ R("or", FALSE) - R("and", FALSE) = R("xor", FALSE)
    /\ Wrap(R("add", TRUE) + b) = a
    /\ I("add", TRUE) = R("add", FALSE)
    /\ (R("slt", FALSE) = 1) <=> (Signed(a) - Signed(b) < 0)
    /\ (R("slt", FALSE) # R("sltu", FALSE)) <=> (Signed(a) < 0) # (Signed(b) < 0)
    /\ I("sr", TRUE) = R("sr", TRUE)

\* The registers and pc a pseudoinstruction is documented to leave
\* (assembler/README.md, "Pseudoinstructions").
Meaning(op, rd, arg, m) ==
    LET next == Wrap(m.pc + 4 * Pseudoinstruction_size(op, arg)) IN
    CASE op = "nop" -> [m EXCEPT !.pc = next]
      [] op = "mv" -> [x |-> WithReg(m.x, rd, m.x[arg]), pc |-> next]
      [] op \in {"li", "la"} -> [x |-> WithReg(m.x, rd, arg), pc |-> next]
      [] op = "call" -> [x |-> WithReg(m.x, 1, next), pc |-> arg]
      [] op = "ret" -> [m EXCEPT !.pc = m.x[1] - (m.x[1] % 2)]
      [] op = "j" -> [m EXCEPT !.pc = arg]

\* What a pseudoinstruction expands to does what it is documented to do, in
\* as many words as pass 1 has reserved for it: the two halves of li and la,
\* each cut to its field and one sign-extended, make up the whole number
\* again, also where the rounding of the upper half wraps.
PseudoMeaning ==
    LET m == [x |-> [r \in {0, 1, 5} |-> IF r = 0 THEN 0 ELSE Wrap(a + r)], pc |-> b] IN
    \A op \in {"nop", "mv", "li", "la", "call", "ret", "j"}, rd \in {0, 1, 5} :
        \A arg \in IF op = "mv" THEN {0, 1, 5} ELSE {a} :
            LET s == Expansion(op, rd, arg, b)
            IN  /\ Len(s) = Pseudoinstruction_size(op, arg)
                /\ DoneAll(m, s) = Meaning(op, rd, arg, m)
                /\ \A k \in 1 .. Len(s) : s[k].op = "addi" =>
                       s[k].imm \in -(Unit \div 2) .. Unit \div 2 - 1
=============================================================================
