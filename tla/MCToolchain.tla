---------------------------- MODULE MCToolchain ----------------------------
(***************************************************************************)
(* The assembler and the emulator after it on MCTwoPass's sources.         *)
(***************************************************************************)
EXTENDS Toolchain, MCTwoPass

MCSources == AllSources \cup WellFormedSources
=============================================================================
