-------------------------------- MODULE Isa --------------------------------
(***************************************************************************)
(* The sequential machine both processors promise to be: one instruction   *)
(* per step, each complete before the next is fetched.  It is the data     *)
(* path of the single-cycle processor of task 1b without its division      *)
(* instruction, reading a whole step as one action.                        *)
(*                                                                         *)
(* At an EBREAK the machine stops: only a reset continues.                 *)
(***************************************************************************)
EXTENDS CpuPkg

VARIABLES
  pc,            \* address of the next instruction
  X,             \* the registers
  mem,           \* the memory: program and data
  stdin_pointer, \* the next word of stdin
  stdout         \* the words written to the stdout file

vars == <<pc, X, mem, stdin_pointer, stdout>>

Insn == Fetch(mem, pc)
Ctl  == DecodeWb(Insn, FALSE)
Arg1 == X[Rs1(Insn)]
Arg2 == X[Rs2(Insn)]

alu_data_2 == IF DecodeEx(Insn).alu_src THEN Insn.imm ELSE Arg2
alu_result == AluResult(DecodeEx(Insn).alu_operator, Arg1, alu_data_2)

Taken == \/ /\ Ctl.is_branch
            /\ AluBranch(DecodeEx(Insn).alu_operator, Arg1, alu_data_2)
         \/ Ctl.is_jump
Target == AddW(IF DecodeEx(Insn).alu_pc_reg_src THEN Arg1 ELSE pc, Insn.imm)

WriteData(x) == IF Ctl.is_jump THEN AddW(pc, 4)
                ELSE IF Ctl.mem_to_reg
                THEN DataRead(mem, stdin_pointer, alu_result, x)
                ELSE alu_result

(* x is what an undriven data bus reads as during this step. *)
Execute(x) ==
  /\ ~IsEbreak(Insn)
  /\ pc' = IF Taken THEN Target ELSE AddW(pc, 4)
  /\ X' = [r \in Reg |-> IF Ctl.reg_write /\ r = Insn.rd /\ r # 0
                         THEN WriteData(x) ELSE X[r]]
  /\ mem' = MemNext(mem, alu_result, Ctl.mem_write, Arg2)
  /\ stdin_pointer' = StdinNext(stdin_pointer, alu_result, Ctl.mem_read)
  /\ stdout' = StdoutNext(stdout, alu_result, Ctl.mem_write, Arg2)

(* A reset clears the registers; memory, stdin and stdout have none. *)
Reset ==
  /\ pc' = RESET_ADDR
  /\ X' = [r \in Reg |-> 0]
  /\ UNCHANGED <<mem, stdin_pointer, stdout>>

Init ==
  /\ pc = RESET_ADDR
  /\ X = [r \in Reg |-> 0]
  /\ mem \in Mem
  /\ stdin_pointer = 0
  /\ stdout = << >>

Next == Reset \/ \E x \in XWords : Execute(x)
Spec == Init /\ [][Next]_vars
=============================================================================
