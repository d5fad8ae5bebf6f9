----------------------------- MODULE ThreeStage -----------------------------
(***************************************************************************)
(* The three-stage pipeline between TwoStage and PipeCpu: fetch, decode    *)
(* with operand read, and a last stage that executes and takes effect.     *)
(* One forwarding path suffices: from the last stage to the operand read.  *)
(*                                                                         *)
(* v_if, v_id and undef are history variables, as in PipeCpu.              *)
(* Definitions named _fault are seeded defects, variants of the one after. *)
(***************************************************************************)
EXTENDS CpuPkg

VARIABLES
  PC_p, IF_ID, ID_EX, \* program counter, fetched and decoded instruction
  X_p, mem, stdin_pointer, stdout,
  v_if, v_id,         \* the stage holds an instruction of the path
  undef \* the program passed an EBREAK, or overwrote what was in flight

vars == <<PC_p, IF_ID, ID_EX, X_p, mem, stdin_pointer, stdout,
          v_if, v_id, undef>>

----------------------------------------------------------------------------
(* The last stage *)
alu_data_2 == IF ID_EX.ex.alu_src THEN ID_EX.imm ELSE ID_EX.reg_data_2
alu_result == AluResult(ID_EX.ex.alu_operator, ID_EX.reg_data_1, alu_data_2)
PC_src ==
  \/ /\ ID_EX.wb.is_branch
     /\ AluBranch(ID_EX.ex.alu_operator, ID_EX.reg_data_1, alu_data_2)
  \/ ID_EX.wb.is_jump
PC_alu == AddW(IF ID_EX.ex.alu_pc_reg_src THEN ID_EX.reg_data_1
               ELSE ID_EX.PC, ID_EX.imm)
cpu_finish == ID_EX.wb.cpu_halt

reg_write_data(x) ==
  IF ID_EX.wb.is_jump THEN AddW(ID_EX.PC, 4)
  ELSE IF ID_EX.wb.mem_to_reg THEN DataRead(mem, stdin_pointer, alu_result, x)
  ELSE alu_result

(* The decoder; as in PipeCpu its halt test reads rd_p. *)
Forwards_fault(r) == ID_EX.rd # 0 /\ ID_EX.rd = r \* ignores reg_write
Forwards(r) == ID_EX.rd # 0 /\ ID_EX.wb.reg_write /\ ID_EX.rd = r
Bypass(r, x) == IF Forwards(r) THEN reg_write_data(x) ELSE X_p[r]
rs1 == IF PC_src THEN 0 ELSE Rs1(IF_ID.Instruction)
rs2 == IF PC_src THEN 0 ELSE Rs2(IF_ID.Instruction)
cpu_halt_n == IsEbreak(IF_ID.Instruction) /\ ID_EX.rd = 0

HitsFetched ==
  /\ ID_EX.wb.mem_write
  /\ \E p \in {PC_p, IF_ID.PC} : Footprint(alu_result) \cap Footprint(p) # {}

----------------------------------------------------------------------------
FetchStage ==
  /\ PC_p' = IF cpu_finish THEN PC_p
             ELSE IF PC_src THEN PC_alu ELSE AddW(PC_p, 4)
  /\ IF_ID' = [PC |-> PC_p,
               Instruction |-> IF PC_src THEN NopInstr ELSE Fetch(mem, PC_p)]

DecodeStage(x) ==
  LET i == IF_ID.Instruction IN
  ID_EX' = [PC |-> IF_ID.PC,
            ex |-> IF PC_src THEN NopEx ELSE DecodeEx(i),
            wb |-> IF PC_src THEN NopWb ELSE DecodeWb(i, cpu_halt_n),
            rd |-> i.rd, imm |-> i.imm,
            reg_data_1 |-> Bypass(rs1, x), reg_data_2 |-> Bypass(rs2, x)]

ExecuteStage(x) ==
  /\ X_p' = [r \in Reg |-> IF r # 0 /\ ID_EX.rd = r /\ ID_EX.wb.reg_write
                           THEN reg_write_data(x) ELSE X_p[r]]
  /\ mem' = MemNext(mem, alu_result, ID_EX.wb.mem_write, ID_EX.reg_data_2)
  /\ stdin_pointer' = StdinNext(stdin_pointer, alu_result, ID_EX.wb.mem_read)
  /\ stdout' = StdoutNext(stdout, alu_result, ID_EX.wb.mem_write,
                          ID_EX.reg_data_2)

Clock(x) ==
  /\ FetchStage /\ DecodeStage(x) /\ ExecuteStage(x)
  /\ v_if' = ~PC_src
  /\ v_id' = (~PC_src /\ v_if)
  /\ undef' = (undef \/ (v_id /\ (IsEbreak(Fetch(mem, ID_EX.PC))
                                  \/ HitsFetched)))

ResetIF_ID == [PC |-> 0, Instruction |-> ZeroInstr]
ResetID_EX == [PC |-> 0, ex |-> NopEx, wb |-> NopWb, rd |-> 0, imm |-> 0,
               reg_data_1 |-> 0, reg_data_2 |-> 0]

Reset_fault == \* the decoded instruction survives
  /\ PC_p' = RESET_ADDR /\ IF_ID' = ResetIF_ID
  /\ X_p' = [r \in Reg |-> 0]
  /\ UNCHANGED <<ID_EX, mem, stdin_pointer, stdout>>
  /\ v_if' = FALSE /\ v_id' = FALSE /\ undef' = FALSE
(* Here every register has its reset. *)
Reset ==
  /\ PC_p' = RESET_ADDR /\ IF_ID' = ResetIF_ID /\ ID_EX' = ResetID_EX
  /\ X_p' = [r \in Reg |-> 0]
  /\ UNCHANGED <<mem, stdin_pointer, stdout>>
  /\ v_if' = FALSE /\ v_id' = FALSE /\ undef' = FALSE

Init ==
  /\ PC_p = RESET_ADDR /\ IF_ID = ResetIF_ID /\ ID_EX = ResetID_EX
  /\ X_p = [r \in Reg |-> 0]
  /\ mem \in Images /\ stdin_pointer = 0 /\ stdout = << >>
  /\ v_if = FALSE /\ v_id = FALSE /\ undef = FALSE

Next == Reset \/ \E x \in XWords : Clock(x)
Spec == Init /\ [][Next]_vars

----------------------------------------------------------------------------
arch_pc == IF v_id THEN ID_EX.PC ELSE IF v_if THEN IF_ID.PC ELSE PC_p
Machine == INSTANCE Isa WITH pc <- arch_pc, X <- X_p

(* The three-stage pipeline implements the sequential machine, up to an    *)
(* EBREAK or a store into an instruction in flight.                        *)
ImplementsMachine ==
  Machine!Init /\ [][Machine!Next \/ undef']_(Machine!vars)

(* The operands about to be used are those the program's registers hold    *)
(* now, though they were read a cycle earlier.                             *)
OperandsFresh ==
  v_id /\ ~undef => /\ ID_EX.reg_data_1 = Machine!Arg1
                    /\ ID_EX.reg_data_2 = Machine!Arg2

(* Finish is raised only by an EBREAK the program reached. *)
FinishOnlyAtEbreak ==
  cpu_finish /\ ~undef => v_id /\ IsEbreak(Fetch(mem, ID_EX.PC))

----------------------------------------------------------------------------
TypeOK ==
  /\ PC_p \in Word /\ IF_ID \in [PC : Word, Instruction : Instr]
  /\ ID_EX \in [PC : Word, ex : ExCtl, wb : WbCtl, rd : Reg, imm : Word,
                reg_data_1 : Word, reg_data_2 : Word]
  /\ X_p \in [Reg -> Word] /\ mem \in Mem
  /\ stdin_pointer \in 0 .. NSTDIN - 1 /\ stdout \in Seq(Word)
  /\ v_if \in BOOLEAN /\ v_id \in BOOLEAN /\ undef \in BOOLEAN

FetchedInOrder == v_if => /\ IF_ID.Instruction = Fetch(mem, IF_ID.PC)
                          /\ PC_p = AddW(IF_ID.PC, 4)

(* ID_EX holds instruction i with the present contents of its registers,   *)
(* up to the halt signal of an EBREAK it may have missed.                  *)
Decoded(i) ==
  /\ ID_EX.ex = DecodeEx(i)
  /\ ID_EX.wb = DecodeWb(i, ID_EX.wb.cpu_halt)
  /\ ID_EX.wb.cpu_halt => IsEbreak(i)
  /\ ID_EX.rd = i.rd /\ ID_EX.imm = i.imm
  /\ ID_EX.reg_data_1 = X_p[Rs1(i)] /\ ID_EX.reg_data_2 = X_p[Rs2(i)]
DecodedInOrder == v_id => /\ Decoded(Fetch(mem, ID_EX.PC))
                          /\ IF_ID.PC = AddW(ID_EX.PC, 4)

(* The stages empty from the front, and what is not on the path is inert.  *)
BubblesInert ==
  /\ v_id => v_if
  /\ ~v_if => IF_ID.Instruction \in {NopInstr, ZeroInstr}
  /\ ~v_id => /\ ID_EX.wb.reg_write => ID_EX.rd = 0
              /\ ~ID_EX.wb.mem_read /\ ~ID_EX.wb.mem_write
              /\ ~ID_EX.wb.is_branch /\ ~ID_EX.wb.is_jump
              /\ ~ID_EX.wb.cpu_halt

StageInv == /\ TypeOK /\ BubblesInert
            /\ ~undef => FetchedInOrder /\ DecodedInOrder
=============================================================================
