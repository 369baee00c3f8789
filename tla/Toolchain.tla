----------------------------- MODULE Toolchain -----------------------------
(***************************************************************************)
(* The two programs one after the other: the file riscv_assembler has      *)
(* written is loaded at an address and executed by riscv_emulator, one     *)
(* source line at a time.  What the emulator does with the bytes of a line *)
(* is abstracted to where it goes on and to the one address it may hold in *)
(* a register (Encoding, Pseudo and Cpu have the details).  Operators      *)
(* whose name starts with Bad are faulty variants of the one that follows, *)
(* which the properties were tried on.                                     *)
(***************************************************************************)
EXTENDS TwoPass

CONSTANTS
    LoadAddresses,  \* bound: the load addresses asked for
    MemSize,        \* bytes of the emulator's memory
    BranchReach,    \* a branch keeps 13 bits of its offset (2^12) ...
    JumpReach       \* ... and a jump 21 (2^20)

ASSUME LoadAssumption == LoadAddresses \subseteq Nat
ASSUME MemSizeAssumption == MemSize \in Nat
ASSUME ReachAssumption == BranchReach \in Nat \ {0} /\ JumpReach \in Nat \ {0}

VARIABLES
    mode,       \* "off" until the emulator starts, "on", then "stopped"
    load,       \* load_address
    ip,         \* the emulator's pc
    reg         \* an address a register holds

machine == <<mode, load, ip, reg>>

ToolchainInit == Init /\ mode = "off" /\ load = 0 /\ ip = 0 /\ reg = 0

\* main, with what the assembler left, if it fits the memory.
Load ==
    /\ phase = "done" /\ mode = "off"
    /\ mode' = "on"
    /\ load' \in LoadAddresses
    /\ \A a \in DOMAIN image : load' + a < MemSize
    /\ ip' = load'
    /\ UNCHANGED <<vars, reg>>

\* The line whose bytes are at an address, from their first on, if any.
LineAt(a) ==
    LET i == image[a - load]
    IN  IF /\ a - load \in DOMAIN image
           /\ at2[i].at = a - load
           /\ \A b \in at2[i].at .. at2[i].end - 1 : image[b] = i
        THEN i ELSE 0

Op == src[LineAt(ip)].body
Executes(ops) ==
    /\ mode = "on" /\ LineAt(ip) # 0
    /\ Op.kind = "instruction" /\ Op.op \in ops
    /\ UNCHANGED <<vars, mode, load>>

Onward == ip + at2[LineAt(ip)].end - at2[LineAt(ip)].at

BadOffset(i) == labels[src[i].body.arg].addr
\* Branches, jal and auipc are relative to current_pc, pass 2's.
Offset(i) == labels[src[i].body.arg].addr - at2[i].at

\* What is left of an offset: encode_b and encode_j drop its last bit and
\* keep so many of the others, without a check; the emulator extends the
\* sign.
Cut(o, reach) == ((o - (o % 2) + reach) % (2 * reach)) - reach

Reach(op) == IF op = "branch" THEN BranchReach ELSE JumpReach
\* la has two instructions and all 32 bits.
Carried(i) ==
    IF src[i].body.op = "la" THEN Offset(i) ELSE Cut(Offset(i), Reach(src[i].body.op))
Destination == ip + Carried(LineAt(ip))

Branch == Executes({"branch"}) /\ ip' \in {Onward, Destination} /\ UNCHANGED reg

\* j, or jal and call, which link.
Jump == Executes({"jump"}) /\ ip' = Destination /\ reg' \in {reg, Onward}

\* `ret` or jalr, or an instruction of no interest here.
Indirect == Executes({"plain"}) /\ ip' \in {Onward, reg} /\ UNCHANGED reg

LoadImmediate == Executes({"liSmall", "liLarge"}) /\ ip' = Onward /\ UNCHANGED reg

\* la is relative to the pc; li takes the label's address as it is.
TakeAddress ==
    /\ Executes({"la", "liLabel"})
    /\ ip' = Onward
    /\ reg' = IF Op.op = "la" THEN Destination ELSE labels[Op.arg].addr

\* Bytes that are no instruction, the inside of one, or no bytes of the
\* file: what happens then is not followed.
Leave ==
    /\ mode = "on"
    /\ LineAt(ip) # 0 => Op.kind # "instruction"
    /\ mode' = "stopped"
    /\ UNCHANGED <<vars, load, ip, reg>>

Run == Load \/ Branch \/ Jump \/ Indirect \/ LoadImmediate \/ TakeAddress \/ Leave

ToolchainNext == (Next /\ UNCHANGED machine) \/ Run

ToolchainSpec == ToolchainInit /\ [][ToolchainNext]_<<vars, machine>>

----------------------------------------------------------------------------
(* Properties.                                                             *)

\* The program told from the text alone.
DefiningLine(l) ==
    LET d == {i \in 1 .. Len(src) : Defines(i, l)}
    IN  IF d = {} THEN 0 ELSE CHOOSE i \in d : \A j \in d : i <= j

Kind(i) ==
    LET b == src[i].body
        text == IsText(Standing(src, i))
    IN
    CASE src[i].kind = "switch" -> "empty"
      [] src[i].kind = "item" /\ b.kind = "instruction" /\ text ->
            (CASE b.op = "plain" -> "any"
               [] b.op \in {"branch", "jump"} -> b.op
               [] b.op \in {"la", "liLabel"} -> "address"
               [] OTHER -> "plain")
      [] src[i].kind = "item" /\ b.kind = "directive" /\ ~text /\ b.written > 0 -> "data"
      [] OTHER -> "empty"

Author == INSTANCE Flow WITH
    lines <- [i \in 1 .. Len(src) |->
                [sec |-> Standing(src, i), kind |-> Kind(i),
                 to |-> IF Kind(i) \in {"branch", "jump", "address"} THEN DefiningLine(src[i].body.arg)
                        ELSE 0]],
    here <- LineAt(ip),
    ptr <- LineAt(reg)

\* Each branch and jump that was encoded is even and no further than its
\* field reaches.
InReach ==
    \A i \in Handled :
        (/\ IsItem(i) /\ src[i].body.kind = "instruction" /\ IsText(at1[i].sec)
         /\ src[i].body.op \in {"branch", "jump"}) =>
            /\ Offset(i) % 2 = 0
            /\ Offset(i) \in -Reach(src[i].body.op) .. Reach(src[i].body.op) - 1

\* A disciplined program whose branches are in reach, assembled and loaded
\* at any address, is executed as it reads: fall-through, branches and calls
\* forwards and backwards, returns, and the addresses la takes reach the
\* lines they name, through the two passes' separate counts, the bases of
\* the sections and the fields of the offsets.
RunsAsWritten == [][Disciplined /\ InReach => Author!Next]_machine
=============================================================================
