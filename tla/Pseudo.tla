------------------------------- MODULE Pseudo -------------------------------
(***************************************************************************)
(* Assembler::expand_pseudoinstruction and pseudoinstruction_size, with    *)
(* numbers for operands.  An immediate is a word of Bits bits of which an  *)
(* addi holds LoBits, signed, and a lui or auipc the others (32, 12 and 20 *)
(* in the code).  Operators whose name starts with Bad are faulty variants *)
(* of the one that follows, which the properties were tried on.            *)
(***************************************************************************)
EXTENDS Alu, Sequences

CONSTANT LoBits
ASSUME LoBitsAssumption == LoBits \in 1 .. Bits - 1

Unit == 2 ^ LoBits

\* imm >= -2048 && imm <= 2047
Small(imm) == Signed(imm) \in -(Unit \div 2) .. Unit \div 2 - 1

\* Rounded to the nearest, as addi's part is signed; the sum may wrap.
BadHi20(imm) == Signed(imm) \div Unit
Hi20(imm) == Signed(Wrap(imm + Unit \div 2)) \div Unit
Lo12(imm) == Signed(Wrap(imm - Hi20(imm) * Unit))

Ins(op, rd, rs1, imm) == [op |-> op, rd |-> rd, rs1 |-> rs1, imm |-> imm]

\* The instructions a pseudoinstruction at current_pc becomes.  arg is mv's
\* register, li's number, or the address of the label of the others.
Expansion(op, rd, arg, current_pc) ==
    CASE op = "nop" -> <<Ins("addi", 0, 0, 0)>>
      [] op = "mv" -> <<Ins("addi", rd, arg, 0)>>
      [] op = "li" /\ Small(arg) -> <<Ins("addi", rd, 0, Signed(arg))>>
      [] op = "li" /\ ~Small(arg) ->
            <<Ins("lui", rd, 0, Hi20(arg)), Ins("addi", rd, rd, Lo12(arg))>>
      [] op = "la" ->
            LET offset == Wrap(arg - current_pc)
            IN  <<Ins("auipc", rd, 0, Hi20(offset)), Ins("addi", rd, rd, Lo12(offset))>>
      [] op = "call" -> <<Ins("jal", 1, 0, Signed(Wrap(arg - current_pc)))>>
      [] op = "ret" -> <<Ins("jalr", 0, 1, 0)>>
      [] op = "j" -> <<Ins("jal", 0, 0, Signed(Wrap(arg - current_pc)))>>

\* What pass 1 reserves, in words.
Pseudoinstruction_size(op, arg) ==
    IF op = "la" \/ (op = "li" /\ ~Small(arg)) THEN 2 ELSE 1

----------------------------------------------------------------------------
(* What the expansion does in the emulator, on registers x at pc; Encoding *)
(* shows how the numbers get there.                                        *)

\* Through the field of an addi and of a lui.
Low(imm) == SignExtend(imm % Unit, LoBits)
High(imm) == Wrap(imm * Unit)

WithReg(x, r, v) == IF r = 0 THEN x ELSE [x EXCEPT ![r] = v]
Done(m, i) ==
    LET base == m.x[i.rs1]
        put(v) == WithReg(m.x, i.rd, v)
        on == Wrap(m.pc + 4)
    IN
    CASE i.op = "addi" -> [x |-> put(Alu("add", FALSE, TRUE, base, Low(i.imm))), pc |-> on]
      [] i.op = "lui" -> [x |-> put(High(i.imm)), pc |-> on]
      [] i.op = "auipc" -> [x |-> put(Wrap(m.pc + High(i.imm))), pc |-> on]
      [] i.op = "jal" -> [x |-> put(on), pc |-> Wrap(m.pc + i.imm)]
      [] i.op = "jalr" -> [x |-> put(on), pc |-> LET t == Wrap(base + Low(i.imm)) IN t - (t % 2)]

DoneAll(m, s) == IF Len(s) = 1 THEN Done(m, s[1]) ELSE Done(Done(m, s[1]), s[2])
=============================================================================
