--------------------------- MODULE SingleCycleMC ---------------------------
(***************************************************************************)
(* Small instances of the single-cycle processor: bytes of four values,    *)
(* four registers, five slots of code, two data words at 20 and 24, stdin  *)
(* and stdout at 28.                                                       *)
(***************************************************************************)
EXTENDS SingleCycle

Alu == INSTANCE Alu
McAluResult(op, a, b) == Alu!alu_result_o(op, a, b)
McAluBranch(op, a, b) == Alu!alu_branch_o(op, a, b)

I(opcode, funct, rd, r1, r2, imm) ==
  [opcode |-> opcode, funct |-> funct, rd |-> rd, rs1 |-> r1, rs2 |-> r2,
   imm |-> imm % 256]

Kit == <<
  I("LOAD", "NONE", 1, 0, 0, 20),     \*  1 lw   x1, 20
  I("LOAD", "NONE", 2, 0, 0, 24),     \*  2 lw   x2, 24
  I("LOAD", "NONE", 1, 0, 0, 28),     \*  3 lw   x1, stdin
  I("ALSU", "DIVU", 3, 1, 2, 0),      \*  4 divu x3, x1, x2
  I("ALSU", "DIVU", 3, 2, 1, 0),      \*  5 divu x3, x2, x1
  I("ALSU", "DIVU", 2, 1, 3, 0),      \*  6 divu x2, x1, x3
  I("ALSU", "DIVU", 0, 1, 2, 0),      \*  7 divu x0, x1, x2
  I("STORE", "NONE", 0, 0, 3, 24),    \*  8 sw   x3, 24
  I("BRANCH", "NE", 0, 1, 3, 8),      \*  9 bne  x1, x3, +8
  I("SYSTEM", "EBREAK", 0, 0, 0, 1),  \* 10 ebreak
  I("ALSU", "SUB", 3, 3, 1, 0),       \* 11 sub  x3, x3, x1
  I("ALSU", "DIVU", 2, 1, 2, 0),      \* 12 divu x2, x1, x2
  I("JAL", "NONE", 2, 0, 0, 8),       \* 13 jal  x2, +8
  I("SYSTEM", "EBREAK", 1, 0, 0, 1)   \* 14 ebreak with a destination
  >>
McFields(w) ==
  IF w \in 1 .. Len(Kit) THEN Kit[w]
  ELSE [opcode |-> "OTHER", funct |-> "NONE", rd |-> 0, rs1 |-> 0,
        rs2 |-> 0, imm |-> 0]

Image(words) ==
  [b \in 0 .. 27 |->
     LET w == words[(b \div 4) + 1]
     IN CASE b % 4 = 0 -> w % 4 [] b % 4 = 1 -> (w \div 4) % 4 [] OTHER -> 0]
Programs(s1, s2, s3, s4) ==
  {Image(<<a, b, c, d, 10, x, y>>) : a \in s1, b \in s2, c \in s3, d \in s4,
                                     x \in {0, 3, 6}, y \in {0, 1, 2, 7}}

(* Divisions into a third register, back to back, behind loads, branches   *)
(* and before stores of the result. *)
DivImages ==
  Programs({1, 3}, {2, 9, 13}, {4, 5, 6, 7, 14}, {4, 6, 8, 9, 11})

(* Divisions that overwrite their divisor. *)
OverwriteImages == Programs({1}, {2}, {12}, {8})

Stdin2 == [p \in {0, 1} |-> IF p = 0 THEN 7 ELSE 255]
XZero == {0}
=============================================================================
