------------------------------ MODULE PipeCpu ------------------------------
(***************************************************************************)
(* The four-stage pipelined processor of task 2a on its bus: micro_riscv   *)
(* with register_file, memory, stdin and stdout as riscv_core wires them.  *)
(*                                                                         *)
(* Each pipeline register is a record whose fields keep the names of the   *)
(* code without their _p suffix.  All registers change on the same clock   *)
(* edge, so an edge is one action, Clock, a conjunction of what each stage *)
(* latches.  The last stage is where an instruction takes effect: it       *)
(* writes its register, accesses memory and stdin, and redirects the fetch.*)
(*                                                                         *)
(* A definition whose name ends in _fault is a seeded defect: the runs     *)
(* mutate the definition after it to show that a property would notice.    *)
(*                                                                         *)
(* v_if, v_id, v_ex and undef are history variables: nothing in the code   *)
(* reads or stores them, and no other variable depends on them.            *)
(***************************************************************************)
EXTENDS CpuPkg

VARIABLES
  PC_p,          \* program counter
  IF_ID,         \* fetched instruction
  ID_EX,         \* decoded instruction and its operands
  EX_WB,         \* executed instruction, about to take effect
  X_p,           \* register file
  mem,           \* memory: program and data
  stdin_pointer, \* next word of stdin
  stdout,        \* words written to the stdout file
  v_if,          \* IF_ID holds an instruction of the program's path,
  v_id,          \*   and so does ID_EX,
  v_ex,          \*   and so does EX_WB: it is no flushed or reset slot
  undef          \* the program has done what the pipeline promises nothing
                 \*   about: passed an EBREAK, or overwritten an instruction
                 \*   already in the pipeline

cpuVars == <<PC_p, IF_ID, ID_EX, EX_WB, X_p, mem, stdin_pointer, stdout>>
ghosts  == <<v_if, v_id, v_ex, undef>>
vars    == <<PC_p, IF_ID, ID_EX, EX_WB, X_p, mem, stdin_pointer, stdout,
             v_if, v_id, v_ex, undef>>

----------------------------------------------------------------------------
(* Combinational signals.  x is what an undriven data bus reads as in this *)
(* cycle.                                                                  *)

PC_src == \/ EX_WB.alu_branch_o /\ EX_WB.wb.is_branch
          \/ EX_WB.wb.is_jump

cpu_finish == EX_WB.wb.cpu_halt

reg_write_data(x) ==
  IF EX_WB.wb.is_jump THEN AddW(EX_WB.PC, 4)
  ELSE IF EX_WB.wb.mem_to_reg
  THEN DataRead(mem, stdin_pointer, EX_WB.alu_result, x)
  ELSE EX_WB.alu_result

(* The write-back stage is about to write register r: its data is used in  *)
(* place of the stale value d.                                             *)
Forwards(r) == EX_WB.rd # 0 /\ EX_WB.wb.reg_write /\ EX_WB.rd = r
Bypass(r, d, x) == IF Forwards(r) THEN reg_write_data(x) ELSE d

(* The decoder's register numbers and halt signal: a taken branch in the   *)
(* last stage flushes them.  The halt test reads rd_p, the destination of  *)
(* the instruction decoded one cycle earlier.                              *)
rs1 == IF PC_src THEN 0 ELSE Rs1(IF_ID.Instruction)
rs2 == IF PC_src THEN 0 ELSE Rs2(IF_ID.Instruction)
cpu_halt_n == IsEbreak(IF_ID.Instruction) /\ ID_EX.rd = 0

reg_data_1_ex(x) == Bypass(ID_EX.rs1_ex, ID_EX.reg_data_1, x)
unforwarded2_fault(x) == ID_EX.reg_data_2
reg_data_2_ex(x) == Bypass(ID_EX.rs2_ex, ID_EX.reg_data_2, x)

----------------------------------------------------------------------------
(* What each stage latches on a clock edge *)

FetchStage_fault == \* does not flush the instruction being fetched
  /\ PC_p' = IF EX_WB.wb.cpu_halt THEN PC_p
             ELSE IF PC_src THEN EX_WB.PC_alu ELSE AddW(PC_p, 4)
  /\ IF_ID' = [PC |-> PC_p, Instruction |-> Fetch(mem, PC_p)]
FetchStage ==
  /\ PC_p' = IF EX_WB.wb.cpu_halt THEN PC_p
             ELSE IF PC_src THEN EX_WB.PC_alu ELSE AddW(PC_p, 4)
  /\ IF_ID' = [PC |-> PC_p,
               Instruction |-> IF PC_src THEN NopInstr ELSE Fetch(mem, PC_p)]

(* A flushed slot keeps its fields; its immediate, which nothing uses, is  *)
(* not told apart by format.                                               *)
DecodeStage_fault(x) == \* the flush spares the halt signal
  LET i == IF_ID.Instruction IN
  ID_EX' = [PC |-> IF_ID.PC,
            ex |-> IF PC_src THEN NopEx ELSE DecodeEx(i),
            wb |-> IF PC_src THEN [NopWb EXCEPT !.cpu_halt = cpu_halt_n]
                   ELSE DecodeWb(i, cpu_halt_n),
            rd |-> i.rd, imm |-> i.imm, rs1_ex |-> rs1, rs2_ex |-> rs2,
            reg_data_1 |-> Bypass(rs1, X_p[rs1], x),
            reg_data_2 |-> Bypass(rs2, X_p[rs2], x)]
DecodeStage(x) ==
  LET i == IF_ID.Instruction IN
  ID_EX' = [PC |-> IF_ID.PC,
            ex |-> IF PC_src THEN NopEx ELSE DecodeEx(i),
            wb |-> IF PC_src THEN NopWb ELSE DecodeWb(i, cpu_halt_n),
            rd |-> i.rd, imm |-> i.imm, rs1_ex |-> rs1, rs2_ex |-> rs2,
            reg_data_1 |-> Bypass(rs1, X_p[rs1], x),
            reg_data_2 |-> Bypass(rs2, X_p[rs2], x)]

ExecuteStage(x) ==
  LET a == reg_data_1_ex(x)
      b == IF ID_EX.ex.alu_src THEN ID_EX.imm ELSE reg_data_2_ex(x)
      op == ID_EX.ex.alu_operator
  IN EX_WB' = [PC |-> ID_EX.PC,
               wb |-> IF PC_src THEN NopWb ELSE ID_EX.wb,
               rd |-> ID_EX.rd,
               PC_alu |-> AddW(IF ID_EX.ex.alu_pc_reg_src THEN a
                               ELSE ID_EX.PC, ID_EX.imm),
               alu_branch_o |-> ~PC_src /\ AluBranch(op, a, b),
               alu_result |-> AluResult(op, a, b),
               reg_data_2 |-> reg_data_2_ex(x)]

WriteBackStage(x) ==
  /\ X_p' = [r \in Reg |-> IF r # 0 /\ EX_WB.rd = r /\ EX_WB.wb.reg_write
                           THEN reg_write_data(x) ELSE X_p[r]]
  /\ mem' = MemNext(mem, EX_WB.alu_result, EX_WB.wb.mem_write,
                    EX_WB.reg_data_2)
  /\ stdin_pointer' = StdinNext(stdin_pointer, EX_WB.alu_result,
                                EX_WB.wb.mem_read)
  /\ stdout' = StdoutNext(stdout, EX_WB.alu_result, EX_WB.wb.mem_write,
                          EX_WB.reg_data_2)

(* A store of the last stage that hits an instruction already fetched, or  *)
(* being fetched on this edge.                                             *)
HitsFetched ==
  /\ EX_WB.wb.mem_write
  /\ \E p \in {PC_p, IF_ID.PC, ID_EX.PC} :
       Footprint(EX_WB.alu_result) \cap Footprint(p) # {}

History ==
  /\ v_if' = ~PC_src
  /\ v_id' = (~PC_src /\ v_if)
  /\ v_ex' = (~PC_src /\ v_id)
  /\ undef' = (undef \/ (v_ex /\ IsEbreak(Fetch(mem, EX_WB.PC)))
                     \/ (v_ex /\ HitsFetched))

Clock(x) ==
  FetchStage /\ DecodeStage(x) /\ ExecuteStage(x) /\ WriteBackStage(x)
  /\ History

----------------------------------------------------------------------------
(* Reset: every register except alu_reg_write_ex_p, whose reset branch     *)
(* names alu_reg_write_ex_n instead.  Memory and stdin have no reset.      *)

ResetIF_ID == [PC |-> 0, Instruction |-> ZeroInstr]
ResetID_EX == [PC |-> 0, ex |-> NopEx, wb |-> NopWb, rd |-> 0, imm |-> 0,
               rs1_ex |-> 0, rs2_ex |-> 0, reg_data_1 |-> 0, reg_data_2 |-> 0]
ResetWb(regWrite) ==
  [is_branch |-> FALSE, is_jump |-> FALSE, mem_read |-> FALSE,
   mem_write |-> FALSE, reg_write |-> regWrite, mem_to_reg |-> FALSE,
   cpu_halt |-> FALSE]
ResetEX_WB(regWrite) ==
  [PC |-> 0, wb |-> ResetWb(regWrite), rd |-> 0, PC_alu |-> 0,
   alu_branch_o |-> FALSE, alu_result |-> 0, reg_data_2 |-> 0]

Reset_fault == \* the register file is not reset
  /\ PC_p' = RESET_ADDR
  /\ IF_ID' = ResetIF_ID
  /\ ID_EX' = ResetID_EX
  /\ EX_WB' = ResetEX_WB(EX_WB.wb.reg_write)
  /\ UNCHANGED <<X_p, mem, stdin_pointer, stdout>>
  /\ v_if' = FALSE /\ v_id' = FALSE /\ v_ex' = FALSE
  /\ undef' = FALSE
Reset ==
  /\ PC_p' = RESET_ADDR
  /\ IF_ID' = ResetIF_ID
  /\ ID_EX' = ResetID_EX
  /\ EX_WB' = ResetEX_WB(EX_WB.wb.reg_write)
  /\ X_p' = [r \in Reg |-> 0]
  /\ UNCHANGED <<mem, stdin_pointer, stdout>>
  /\ v_if' = FALSE /\ v_id' = FALSE /\ v_ex' = FALSE
  /\ undef' = FALSE

(* After power-up and its reset; alu_reg_write_ex_p is uninitialised. *)
Init ==
  /\ PC_p = RESET_ADDR
  /\ IF_ID = ResetIF_ID
  /\ ID_EX = ResetID_EX
  /\ \E regWrite \in BOOLEAN : EX_WB = ResetEX_WB(regWrite)
  /\ X_p = [r \in Reg |-> 0]
  /\ mem \in Images
  /\ stdin_pointer = 0
  /\ stdout = << >>
  /\ v_if = FALSE /\ v_id = FALSE /\ v_ex = FALSE
  /\ undef = FALSE

Next == Reset \/ \E x \in XWords : Clock(x)
Spec == Init /\ [][Next]_vars
=============================================================================
