---------------------------- MODULE SingleCycle ----------------------------
(***************************************************************************)
(* The single-cycle processor of task 1b with its divider.  Every          *)
(* instruction takes one clock edge, except that DIVU holds the program    *)
(* counter until the divider has finished.                                 *)
(*                                                                         *)
(* For all other instructions the data path is that of Isa, here over the  *)
(* processor's own program counter and registers.                          *)
(* Definitions named _fault are seeded defects, variants of the one after. *)
(***************************************************************************)
EXTENDS CpuPkg

VARIABLES
  PC_p, X_p, mem, stdin_pointer, stdout,
  state_p, quotient_p, subtrahend_p, \* the divider's registers
  alu_moved, \* the last edge changed alu_result under a running DIVU
  X_arch     \* history: the registers when the present instruction began

divRegs == <<state_p, quotient_p, subtrahend_p>>
vars == <<PC_p, X_p, mem, stdin_pointer, stdout, divRegs, alu_moved, X_arch>>

Cpu == INSTANCE IsaDivu WITH pc <- PC_p, X <- X_p

Instruction == Fetch(mem, PC_p)
start_i == Cpu!IsDivu(Instruction)

(* DIVU makes both source registers valid, as every register operation. *)
rs1 == IF start_i THEN Instruction.rs1 ELSE Rs1(Instruction)
rs2 == IF start_i THEN Instruction.rs2 ELSE Rs2(Instruction)

divider_i == INSTANCE Divider WITH
  N <- BYTE, dividend_i <- X_p[rs1] % BYTE, divisor_i <- X_p[rs2] % BYTE
finish_o == divider_i!finish_o

PC_stall_fault == FALSE \* does not wait for the divider
PC_stall == start_i /\ ~finish_o

cpu_halt == IsEbreak(Instruction) /\ Instruction.rd = 0
cpu_finish == cpu_halt \/ ~(Legal(Instruction) \/ start_i)

(* The quotient of nine bits as a word. *)
quotient_word ==
  IF divider_i!quotient_o = 2 * BYTE - 1 THEN WORD - 1
  ELSE divider_i!quotient_o

(* alu_result while the instruction is a DIVU: the decoder leaves the ALU  *)
(* at its default, the sum of the source registers.                        *)
sum(regs) == AluResult("ADD", regs[rs1], regs[rs2])

(* reg_write_data has two drivers: the decoder assigns the quotient to it, *)
(* the write-back block alu_result, and the one that runs last wins.  The  *)
(* write-back block runs again only when alu_result changes, that is when  *)
(* the division overwrites one of its own operands; then either may be     *)
(* last.                                                                   *)
DivuWriteData ==
  IF ~finish_o THEN {sum(X_p)}
  ELSE IF alu_moved THEN {quotient_word, sum(X_p)} ELSE {quotient_word}

----------------------------------------------------------------------------
(* DIVU writes its destination on every edge, stalled or not. *)
DivuEdge ==
  /\ start_i
  /\ divider_i!ClockEdge
  /\ PC_p' = IF PC_stall THEN PC_p ELSE AddW(PC_p, 4)
  /\ \E w \in DivuWriteData :
       X_p' = [r \in Reg |-> IF r = Instruction.rd /\ r # 0
                             THEN w ELSE X_p[r]]
  /\ alu_moved' = (PC_stall /\ sum(X_p') # sum(X_p))
  /\ X_arch' = IF PC_stall THEN X_arch ELSE X_p'
  /\ UNCHANGED <<mem, stdin_pointer, stdout>>

(* Any other instruction; at an EBREAK the program counter stays.          *)
SimpleEdge(x) ==
  /\ ~start_i
  /\ divider_i!ClockEdge
  /\ \/ Cpu!Execute(x)
     \/ Cpu!Skip
     \/ cpu_halt /\ UNCHANGED <<PC_p, X_p, mem, stdin_pointer, stdout>>
  /\ alu_moved' = FALSE
  /\ X_arch' = X_p'

Clock == DivuEdge \/ \E x \in XWords : SimpleEdge(x)

Reset_fault == \* the divider is not reset
  /\ Cpu!Reset
  /\ UNCHANGED divRegs
  /\ alu_moved' = FALSE
  /\ X_arch' = X_p'
Reset ==
  /\ Cpu!Reset
  /\ divider_i!ResetRegs
  /\ alu_moved' = FALSE
  /\ X_arch' = X_p'

Init ==
  /\ PC_p = RESET_ADDR /\ X_p = [r \in Reg |-> 0]
  /\ mem \in Images /\ stdin_pointer = 0 /\ stdout = << >>
  /\ divider_i!InitRegs
  /\ alu_moved = FALSE /\ X_arch = X_p

Next == Clock \/ Reset
(* The clock keeps running. *)
Spec == Init /\ [][Next]_vars /\ WF_vars(Clock)

----------------------------------------------------------------------------
Machine == INSTANCE IsaDivu WITH pc <- PC_p, X <- X_arch

(* The processor implements the sequential machine with division: the      *)
(* edges of a stalled DIVU are no step, its last edge is the division, of  *)
(* the operands the instruction found, and every other edge is one         *)
(* instruction.                                                            *)
ImplementsDivuMachine == Machine!DivuSpec

(* While a DIVU is stalled, nothing but its own destination changes, and   *)
(* the divider never runs under any other instruction, not even after a    *)
(* reset in the middle of a division.                                      *)
StallIsPrivate ==
  /\ state_p # "INIT" => start_i
  /\ \A r \in Reg : X_p[r] # X_arch[r] => start_i /\ r = Instruction.rd

(* Every stalled DIVU comes to its end (or is reset). *)
StallEnds == PC_stall ~> ~PC_stall

(* The README says that everything works according to the specifications;  *)
(* div_extension.py gives the meaning of DIVU to the assembler and the ISA *)
(* simulator: the quotient of the values that the source registers hold    *)
(* (taken here modulo the 8 bits of the hardware).                         *)
DivuIsDivision ==
  [][DivuEdge /\ ~PC_stall /\ Instruction.rd # 0 =>
       X_p'[Instruction.rd] =
         Machine!DivuResult(X_arch[Instruction.rs1], X_arch[Instruction.rs2])
    ]_vars
=============================================================================
