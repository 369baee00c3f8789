-------------------------------- MODULE Words --------------------------------
(***************************************************************************)
(* Registers and addresses of the emulator: words of Bits bits, and the    *)
(* two readings, signed and unsigned, the code gives them (uint32_t and    *)
(* int32_t; the code has Bits = 32).                                       *)
(***************************************************************************)
EXTENDS Integers

CONSTANT Bits       \* width of a register
ASSUME BitsAssumption == Bits \in Nat \ {0}

Modulus == 2 ^ Bits
Word == 0 .. Modulus - 1

\* What exponentiation is, for the provers, which do not know it.
ASSUME PowersAssumption == \A k \in 0 .. Bits - 1 : 2 ^ (k + 1) = 2 * 2 ^ k

Signed(v) == IF v < Modulus \div 2 THEN v ELSE v - Modulus
Wrap(i) == i % Modulus
Truth(b) == IF b THEN 1 ELSE 0

\* sign_extend: a value of k bits as a word.
SignExtend(v, k) == IF v < 2 ^ (k - 1) THEN v ELSE Wrap(v - 2 ^ k)
=============================================================================
