------------------------------ MODULE IsaDivu ------------------------------
(***************************************************************************)
(* The sequential machine with the division instruction DIVU rd, rs1, rs2: *)
(* an 8-bit by 8-bit division of the low bytes of rs1 and rs2, the result  *)
(* extended to a word, all bits set for a zero divisor.                    *)
(***************************************************************************)
EXTENDS Isa

IsDivu(i) == i.opcode = "ALSU" /\ i.funct = "DIVU"

DivuResult(a, b) ==
  IF b % BYTE = 0 THEN WORD - 1 ELSE (a % BYTE) \div (b % BYTE)

Divide ==
  /\ IsDivu(Insn)
  /\ pc' = AddW(pc, 4)
  /\ X' = [r \in Reg |-> IF r = Insn.rd /\ r # 0
                         THEN DivuResult(X[Insn.rs1], X[Insn.rs2]) ELSE X[r]]
  /\ UNCHANGED <<mem, stdin_pointer, stdout>>

(* A SYSTEM instruction that has a destination is not an EBREAK but        *)
(* nothing at all.                                                         *)
Skip ==
  /\ IsEbreak(Insn) /\ Insn.rd # 0
  /\ pc' = AddW(pc, 4)
  /\ UNCHANGED <<X, mem, stdin_pointer, stdout>>

DivuNext ==
  \/ Reset
  \/ Divide
  \/ Skip
  \/ ~IsDivu(Insn) /\ \E x \in XWords : Execute(x)
DivuSpec == Init /\ [][DivuNext]_vars
=============================================================================
