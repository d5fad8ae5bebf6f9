----------------------------- MODULE McPrograms -----------------------------
(***************************************************************************)
(* Small instances of the pipelined processors: bytes of four values (so   *)
(* words of 256), three registers, a memory of 24 bytes with code from     *)
(* address 0 and a datum at 20, stdin and stdout at 24.  Each image is a   *)
(* program of five slots; the sets below choose what may stand in them.    *)
(***************************************************************************)
EXTENDS CpuPkg

A == INSTANCE Alu
McAluResult(op, a, b) == A!alu_result_o(op, a, b)
McAluBranch(op, a, b) == A!alu_branch_o(op, a, b)

I(opcode, funct, rd, r1, r2, imm) ==
  [opcode |-> opcode, funct |-> funct, rd |-> rd, rs1 |-> r1, rs2 |-> r2,
   imm |-> imm % 256]

(* The instructions of the instance; word k encodes the k-th of them. *)
Kit == <<
  I("IMM", "ADD", 1, 1, 0, 1),       \*  1 addi x1, x1, 1
  I("IMM", "ADD", 2, 1, 0, 12),      \*  2 addi x2, x1, 12
  I("ALSU", "ADD", 1, 1, 2, 0),      \*  3 add  x1, x1, x2
  I("ALSU", "SUB", 2, 1, 2, 0),      \*  4 sub  x2, x1, x2
  I("LOAD", "NONE", 1, 0, 0, 24),    \*  5 lw   x1, stdin
  I("LOAD", "NONE", 2, 0, 0, 20),    \*  6 lw   x2, 20
  I("STORE", "NONE", 2, 0, 1, 20),   \*  7 sw   x1, 20
  I("STORE", "NONE", 0, 0, 2, 24),   \*  8 sw   x2, stdout
  I("BRANCH", "EQ", 0, 1, 2, 8),     \*  9 beq  x1, x2, +8
  I("BRANCH", "NE", 1, 1, 0, 252),   \* 10 bne  x1, x0, -4
  I("JAL", "NONE", 1, 0, 0, 8),      \* 11 jal  x1, +8
  I("JALR", "NONE", 2, 2, 0, 4),     \* 12 jalr x2, 4(x2)
  I("SYSTEM", "EBREAK", 0, 0, 0, 1), \* 13 ebreak
  I("STORE", "NONE", 1, 0, 1, 8),    \* 14 sw   x1, 8: over the third slot
  I("LUI", "NONE", 2, 0, 0, 16),     \* 15 lui  x2
  I("BRANCH", "LTS", 2, 2, 1, 8),    \* 16 blt  x2, x1, +8
  I("LOAD", "NONE", 0, 1, 0, 28),    \* 17 lw   x0, 28(x1): undriven
  I("ALSU", "NONE", 1, 1, 1, 0),     \* 18 no instruction the decoder knows
  I("BRANCH", "GES", 0, 2, 1, 244),  \* 19 bge  x2, x1, -12
  I("IMM", "ADD", 1, 0, 0, 13),      \* 20 addi x1, x0, 13
  I("ALSU", "SRA", 2, 2, 1, 0)       \* 21 sra  x2, x2, x1
  >>
McFields(w) == IF w \in 1 .. Len(Kit) THEN Kit[w] ELSE ZeroInstr

(* The memory image of a program, with the word 6 at address 20. *)
Image(prog) ==
  [b \in 0 .. 23 |->
     LET w == IF b < 20 THEN prog[(b \div 4) + 1] ELSE 6
     IN ByteOf(w, b % 4)]
Programs(s1, s2, s3, s4, s5) ==
  {Image(<<a, b, c, d, e>>) :
     a \in s1, b \in s2, c \in s3, d \in s4, e \in s5}

(* Every pair and triple of dependent computations, loads and stores. *)
DataImages ==
  LET s == {1, 2, 3, 4, 5, 6, 7, 8}
  IN Programs({1, 5, 6}, s, s, s, {3})

(* Branches and jumps over, into and around what must not take effect. *)
BranchImages ==
  LET s == {1, 5, 8, 9, 10, 11, 12, 16, 19}
  IN Programs({2, 5, 11}, s, s, s, {7, 10})

(* EBREAK in every place, behind every kind of instruction. *)
EbreakImages ==
  LET s == {1, 7, 8, 9, 10, 11, 13}
  IN Programs({1, 9, 13}, s, s, s, {13, 1})

(* Programs interrupted by resets. *)
ResetImages == Programs({5, 8}, {6, 11}, {7}, {10, 13}, {1, 8})

(* Undriven reads, undecodable words and stores over code. *)
OddImages ==
  LET s == {1, 14, 15, 17, 18, 20, 21}
  IN Programs({14, 20}, s, s, s, {12, 16, 18})

Stdin2 == [p \in {0, 1} |-> IF p = 0 THEN 12 ELSE 255]
XZero == {0}
XTwo == {0, 77}
=============================================================================
