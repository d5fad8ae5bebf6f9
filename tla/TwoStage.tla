------------------------------ MODULE TwoStage ------------------------------
(***************************************************************************)
(* The two-stage pipeline that preceded PipeCpu: an instruction is fetched *)
(* on one clock edge and takes effect on the next.  (The file declares the *)
(* registers of a later stage too; nothing reads them.)                    *)
(*                                                                         *)
(* v_if and undef are history variables, as in PipeCpu.                    *)
(* Definitions named _fault are seeded defects, variants of the one after. *)
(***************************************************************************)
EXTENDS CpuPkg

VARIABLES
  PC_p, IF_ID,                      \* program counter, fetched instruction
  X_p, mem, stdin_pointer, stdout,
  v_if,  \* IF_ID holds an instruction of the program's path
  undef  \* the program passed an EBREAK, or overwrote what was being fetched

vars == <<PC_p, IF_ID, X_p, mem, stdin_pointer, stdout, v_if, undef>>

----------------------------------------------------------------------------
Instruction == IF_ID.Instruction
ctl == DecodeWb(Instruction, FALSE)
ex  == DecodeEx(Instruction)

(* Unlike its successors this decoder compares the EBREAK's own rd field.  *)
cpu_halt == IsEbreak(Instruction) /\ Instruction.rd = 0

reg_data_1 == X_p[Rs1(Instruction)]
reg_data_2 == X_p[Rs2(Instruction)]
alu_data_2 == IF ex.alu_src THEN Instruction.imm ELSE reg_data_2
alu_result == AluResult(ex.alu_operator, reg_data_1, alu_data_2)

PC_src == \/ ctl.is_branch /\ AluBranch(ex.alu_operator, reg_data_1, alu_data_2)
          \/ ctl.is_jump
PC_alu_fault == AddW(IF ex.alu_pc_reg_src THEN reg_data_1 ELSE PC_p,
                     Instruction.imm) \* relative to the fetched instruction
PC_alu == AddW(IF ex.alu_pc_reg_src THEN reg_data_1 ELSE IF_ID.PC,
               Instruction.imm)

reg_write_data(x) ==
  IF ctl.is_jump THEN AddW(IF_ID.PC, 4)
  ELSE IF ctl.mem_to_reg THEN DataRead(mem, stdin_pointer, alu_result, x)
  ELSE alu_result

HitsFetched ==
  ctl.mem_write /\ Footprint(alu_result) \cap Footprint(PC_p) # {}

----------------------------------------------------------------------------
FetchStage_fault == \* does not flush
  /\ PC_p' = IF cpu_halt THEN PC_p
             ELSE IF PC_src THEN PC_alu ELSE AddW(PC_p, 4)
  /\ IF_ID' = [PC |-> PC_p, Instruction |-> Fetch(mem, PC_p)]
FetchStage ==
  /\ PC_p' = IF cpu_halt THEN PC_p
             ELSE IF PC_src THEN PC_alu ELSE AddW(PC_p, 4)
  /\ IF_ID' = [PC |-> PC_p,
               Instruction |-> IF PC_src THEN NopInstr ELSE Fetch(mem, PC_p)]

ExecuteStage(x) ==
  /\ X_p' = [r \in Reg |-> IF r # 0 /\ Instruction.rd = r /\ ctl.reg_write
                           THEN reg_write_data(x) ELSE X_p[r]]
  /\ mem' = MemNext(mem, alu_result, ctl.mem_write, reg_data_2)
  /\ stdin_pointer' = StdinNext(stdin_pointer, alu_result, ctl.mem_read)
  /\ stdout' = StdoutNext(stdout, alu_result, ctl.mem_write, reg_data_2)

Clock(x) ==
  /\ FetchStage /\ ExecuteStage(x)
  /\ v_if' = ~PC_src
  /\ undef' = (undef \/ (v_if /\ (IsEbreak(Instruction) \/ HitsFetched)))

Reset ==
  /\ PC_p' = RESET_ADDR
  /\ IF_ID' = [PC |-> 0, Instruction |-> ZeroInstr]
  /\ X_p' = [r \in Reg |-> 0]
  /\ UNCHANGED <<mem, stdin_pointer, stdout>>
  /\ v_if' = FALSE /\ undef' = FALSE

Init ==
  /\ PC_p = RESET_ADDR
  /\ IF_ID = [PC |-> 0, Instruction |-> ZeroInstr]
  /\ X_p = [r \in Reg |-> 0]
  /\ mem \in Images /\ stdin_pointer = 0 /\ stdout = << >>
  /\ v_if = FALSE /\ undef = FALSE

Next == Reset \/ \E x \in XWords : Clock(x)
Spec == Init /\ [][Next]_vars

----------------------------------------------------------------------------
arch_pc == IF v_if THEN IF_ID.PC ELSE PC_p
Machine == INSTANCE Isa WITH pc <- arch_pc, X <- X_p

(* The two-stage pipeline implements the sequential machine, up to an      *)
(* EBREAK or a store into the instruction being fetched: the instruction   *)
(* fetched behind a taken branch never acts.                               *)
ImplementsMachine ==
  Machine!Init /\ [][Machine!Next \/ undef']_(Machine!vars)

(* Finish is raised by an EBREAK the program reaches, whatever stands      *)
(* before it, and by nothing else; its successors do not keep this.        *)
FinishesAtEbreak ==
  ~undef => (cpu_halt <=> /\ v_if
                          /\ IsEbreak(Fetch(mem, IF_ID.PC))
                          /\ Fetch(mem, IF_ID.PC).rd = 0)

(* The fetched instruction is still the one in memory, and the program     *)
(* counter is behind it; what is not on the path does nothing.             *)
InFlight ==
  /\ v_if /\ ~undef => /\ Instruction = Fetch(mem, IF_ID.PC)
                       /\ PC_p = AddW(IF_ID.PC, 4)
  /\ ~v_if => Instruction \in {NopInstr, ZeroInstr}

TypeOK ==
  /\ PC_p \in Word /\ IF_ID \in [PC : Word, Instruction : Instr]
  /\ X_p \in [Reg -> Word] /\ mem \in Mem
  /\ stdin_pointer \in 0 .. NSTDIN - 1 /\ stdout \in Seq(Word)
  /\ v_if \in BOOLEAN /\ undef \in BOOLEAN

StageInv == TypeOK /\ InFlight
=============================================================================
