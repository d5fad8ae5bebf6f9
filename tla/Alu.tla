-------------------------------- MODULE Alu --------------------------------
(***************************************************************************)
(* alu.sv: the two outputs of the ALU over words of WORD = 2^XLEN values.  *)
(* The MC modules give these two operators to the constants AluResult and  *)
(* AluBranch of CpuPkg.                                                    *)
(***************************************************************************)
EXTENDS Integers, Bitwise

CONSTANT BYTE

LOCAL WORD == BYTE * BYTE * BYTE * BYTE
LOCAL XLEN == CHOOSE n \in 0 .. 32 : 2 ^ n = WORD

Signed(w) == IF 2 * w >= WORD THEN w - WORD ELSE w

(* A shift amount is the whole second operand: it is not masked to five    *)
(* bits, so a large one shifts everything out.                             *)
ShiftLeft(a, n)       == IF n >= XLEN THEN 0 ELSE (a * 2 ^ n) % WORD
ShiftRight(a, n)      == IF n >= XLEN THEN 0 ELSE a \div 2 ^ n
ShiftRightArith(a, n) ==
  (IF n >= XLEN THEN (IF Signed(a) < 0 THEN -1 ELSE 0)
   ELSE Signed(a) \div 2 ^ n) % WORD

alu_result_o(op, a, b) ==
  CASE op = "ADD" -> (a + b) % WORD
    [] op = "SUB" -> (a - b) % WORD
    [] op = "XOR" -> a ^^ b
    [] op = "OR"  -> a | b
    [] op = "AND" -> a & b
    [] op = "SRL" -> ShiftRight(a, b)
    [] op = "SRA" -> ShiftRightArith(a, b)
    [] op = "SLL" -> ShiftLeft(a, b)
    [] OTHER      -> 0

alu_branch_o(op, a, b) ==
  CASE op = "EQ"  -> a = b
    [] op = "NE"  -> a # b
    [] op = "LTS" -> ~(Signed(a) > Signed(b)) /\ a # b
    [] op = "GES" -> Signed(a) > Signed(b) \/ a = b
    [] OTHER      -> FALSE
=============================================================================
