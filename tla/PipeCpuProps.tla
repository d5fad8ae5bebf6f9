---------------------------- MODULE PipeCpuProps ----------------------------
(***************************************************************************)
(* What makes the pipelined processor correct: it is the sequential        *)
(* machine of Isa, seen through the four stages.                           *)
(***************************************************************************)
EXTENDS PipeCpu

(* The address of the oldest instruction that has not yet taken effect. *)
arch_pc == IF v_ex THEN EX_WB.PC ELSE IF v_id THEN ID_EX.PC
           ELSE IF v_if THEN IF_ID.PC ELSE PC_p

Machine == INSTANCE Isa WITH pc <- arch_pc, X <- X_p

(* Types of the pipeline registers. *)
IfIdType == [PC : Word, Instruction : Instr]
IdExType == [PC : Word, ex : ExCtl, wb : WbCtl, rd : Reg, imm : Word,
             rs1_ex : Reg, rs2_ex : Reg, reg_data_1 : Word, reg_data_2 : Word]
ExWbType == [PC : Word, wb : WbCtl, rd : Reg, PC_alu : Word,
             alu_branch_o : BOOLEAN, alu_result : Word, reg_data_2 : Word]

(* Every register of micro_riscv, the register file and the bus devices    *)
(* keeps its type.                                                         *)
TypeOK ==
  /\ PC_p \in Word
  /\ IF_ID \in IfIdType
  /\ ID_EX \in IdExType
  /\ EX_WB \in ExWbType
  /\ X_p \in [Reg -> Word]
  /\ mem \in Mem
  /\ stdin_pointer \in 0 .. NSTDIN - 1
  /\ stdout \in Seq(Word)
  /\ v_if \in BOOLEAN /\ v_id \in BOOLEAN /\ v_ex \in BOOLEAN
  /\ undef \in BOOLEAN

(* Forwarding leaves no stale operand: whatever instructions were written  *)
(* back meanwhile, the operands latched in ID/EX are the present contents  *)
(* of the registers they were read from.                                   *)
OperandsFresh ==
  /\ ID_EX.reg_data_1 = X_p[ID_EX.rs1_ex]
  /\ ID_EX.reg_data_2 = X_p[ID_EX.rs2_ex]

(* A slot that is not on the program's path (flushed by a taken branch, or *)
(* left by a reset) has no effect in the last stage: it writes no          *)
(* register, accesses no device, redirects nothing and halts nothing, not  *)
(* even with the write enable that the reset leaves uninitialised.         *)
SquashedInert ==
  ~v_ex => /\ EX_WB.wb.reg_write => EX_WB.rd = 0
           /\ ~EX_WB.wb.mem_read /\ ~EX_WB.wb.mem_write
           /\ ~cpu_finish /\ ~PC_src

(* The instruction about to take effect has been executed on the present   *)
(* registers: its result, its store data and its branch decision are those *)
(* of the sequential machine, though its operands were read two cycles     *)
(* earlier.                                                                *)
ResultsFresh ==
  v_ex /\ ~undef =>
    /\ EX_WB.alu_result = Machine!alu_result
    /\ PC_src = Machine!Taken
    /\ PC_src => EX_WB.PC_alu = Machine!Target
    /\ EX_WB.wb.mem_write => EX_WB.reg_data_2 = Machine!Arg2

(* cpu_finish is raised only by an EBREAK that the program reached: never  *)
(* by one fetched in the shadow of a taken branch.                         *)
FinishOnlyAtEbreak ==
  cpu_finish /\ ~undef => v_ex /\ IsEbreak(Fetch(mem, EX_WB.PC))

(* The pipeline implements the sequential machine: every clock edge is one *)
(* instruction of the program or, for a bubble, no step at all, until the  *)
(* program passes an EBREAK or overwrites an instruction in flight.        *)
ImplementsMachine ==
  Machine!Init /\ [][Machine!Next \/ undef']_(Machine!vars)

(* The first instruction at the target of a taken branch is decoded behind *)
(* a bubble that writes no register; an EBREAK there is always recognised. *)
EbreakAtTargetRecognised ==
  [][\A x \in XWords : Clock(x) =>
       (v_if /\ ~v_id /\ ~PC_src /\ IsEbreak(IF_ID.Instruction)
          => ID_EX'.wb.cpu_halt)]_vars

(* What micro_riscv.sv says of its finish output: an EBREAK the program    *)
(* reaches stops the testbench.                                            *)
EbreakFinishes ==
  v_ex /\ ~undef /\ IsEbreak(Fetch(mem, EX_WB.PC)) => cpu_finish

----------------------------------------------------------------------------
(* The inductive invariant behind these properties.                        *)

(* A flush empties the stages together: what is ahead of an instruction of *)
(* the path may be empty, what follows it in the pipeline never is.        *)
SlotsInOrder == (v_ex => v_id) /\ (v_id => v_if)

InertWb(wb, rd) ==
  /\ wb.reg_write => rd = 0
  /\ ~wb.mem_read /\ ~wb.mem_write /\ ~wb.cpu_halt
  /\ ~wb.is_branch /\ ~wb.is_jump

BubblesInert ==
  /\ ~v_if => IF_ID.Instruction \in {NopInstr, ZeroInstr}
  /\ ~v_id => InertWb(ID_EX.wb, ID_EX.rd)
  /\ ~v_ex => InertWb(EX_WB.wb, EX_WB.rd)

(* The first instruction after a flush is decoded behind the NOP that       *)
(* replaced the last wrong-path fetch.                                     *)
BubbleAhead == v_if /\ ~v_id => ID_EX.rd = 0

(* ID_EX holds what the decoder makes of instruction i, up to the halt     *)
(* signal of an EBREAK it may have missed.                                 *)
Decoded(i) ==
  /\ ID_EX.ex = DecodeEx(i)
  /\ ID_EX.wb = DecodeWb(i, ID_EX.wb.cpu_halt)
  /\ ID_EX.wb.cpu_halt => IsEbreak(i)
  /\ ID_EX.rd = i.rd /\ ID_EX.imm = i.imm
  /\ ID_EX.rs1_ex = Rs1(i) /\ ID_EX.rs2_ex = Rs2(i)

(* EX_WB holds the outcome of instruction i on the present registers. *)
Executed(i) ==
  LET a == X_p[Rs1(i)]
      b == IF DecodeEx(i).alu_src THEN i.imm ELSE X_p[Rs2(i)]
      op == DecodeEx(i).alu_operator
  IN /\ EX_WB.wb = DecodeWb(i, EX_WB.wb.cpu_halt)
     /\ EX_WB.wb.cpu_halt => IsEbreak(i)
     /\ EX_WB.rd = i.rd
     /\ EX_WB.PC_alu = AddW(IF DecodeEx(i).alu_pc_reg_src THEN a
                            ELSE EX_WB.PC, i.imm)
     /\ EX_WB.alu_branch_o = AluBranch(op, a, b)
     /\ EX_WB.alu_result = AluResult(op, a, b)
     /\ EX_WB.reg_data_2 = X_p[Rs2(i)]

(* The three stages hold consecutive instructions of the program, each as  *)
(* far as its stage takes it.                                              *)
FetchedInOrder == v_if => /\ IF_ID.Instruction = Fetch(mem, IF_ID.PC)
                          /\ PC_p = AddW(IF_ID.PC, 4)
DecodedInOrder == v_id => /\ Decoded(Fetch(mem, ID_EX.PC))
                          /\ IF_ID.PC = AddW(ID_EX.PC, 4)
ExecutedInOrder == v_ex => /\ Executed(Fetch(mem, EX_WB.PC))
                           /\ ID_EX.PC = AddW(EX_WB.PC, 4)

PathInFlight ==
  ~undef => FetchedInOrder /\ DecodedInOrder /\ ExecutedInOrder

PipeInv == /\ TypeOK /\ OperandsFresh
           /\ SlotsInOrder /\ BubblesInert /\ BubbleAhead /\ PathInFlight
=============================================================================
