--------------------------- MODULE PipelinesProofs ---------------------------
(***************************************************************************)
(* Proofs about the pipelined processors, for every machine size, every    *)
(* ALU, every instruction encoding and every program: first the processor  *)
(* of four stages, then those of two and three.  Each implements the       *)
(* sequential machine, and so do all of them side by side in the testbed,  *)
(* where a stage more only delays a program.                               *)
(*                                                                         *)
(* Lemmas named Three... and Two... are about the instances of Pipelines.  *)
(***************************************************************************)
EXTENDS Pipelines, CpuPkgLemmas

----------------------------------------------------------------------------
(* Type correctness *)

LEMMA Constants == /\ 0 \in Reg /\ 0 \in Word /\ RESET_ADDR \in Word
                   /\ NopEx \in ExCtl /\ NopWb \in WbCtl
BY WordSize, SizesAssumption
   DEF Reg, RESET_ADDR, NopEx, NopWb, ExCtl, WbCtl, AluOp

LEMMA ResetTypes ==
  /\ ResetIF_ID \in IfIdType
  /\ ResetID_EX \in IdExType
  /\ \A b \in BOOLEAN : ResetEX_WB(b) \in ExWbType
  /\ [r \in Reg |-> 0] \in [Reg -> Word]
<1>1. ResetIF_ID \in IfIdType
  BY Constants, XInstrType DEF ResetIF_ID, IfIdType
<1>2. ResetID_EX \in IdExType
  BY Constants DEF ResetID_EX, IdExType
<1>3. \A b \in BOOLEAN : ResetEX_WB(b) \in ExWbType
  <2>1. \A b \in BOOLEAN : ResetWb(b) \in WbCtl
    BY DEF ResetWb, WbCtl
  <2> QED
    BY <2>1, Constants DEF ResetEX_WB, ExWbType
<1> QED
  BY <1>1, <1>2, <1>3, Constants

(* The fields of the pipeline registers, each with its type. *)
LEMMA FieldTypes ==
  ASSUME TypeOK
  PROVE  /\ IF_ID.PC \in Word /\ IF_ID.Instruction \in Instr
         /\ ID_EX.PC \in Word /\ ID_EX.ex \in ExCtl /\ ID_EX.wb \in WbCtl
         /\ ID_EX.rd \in Reg /\ ID_EX.imm \in Word
         /\ ID_EX.rs1_ex \in Reg /\ ID_EX.rs2_ex \in Reg
         /\ ID_EX.reg_data_1 \in Word /\ ID_EX.reg_data_2 \in Word
         /\ EX_WB.PC \in Word /\ EX_WB.wb \in WbCtl /\ EX_WB.rd \in Reg
         /\ EX_WB.PC_alu \in Word /\ EX_WB.alu_branch_o \in BOOLEAN
         /\ EX_WB.alu_result \in Word /\ EX_WB.reg_data_2 \in Word
BY DEF TypeOK, IfIdType, IdExType, ExWbType

(* The combinational signals, each with its type. *)
LEMMA SignalTypes ==
  ASSUME TypeOK, NEW x \in XWords
  PROVE  /\ PC_src \in BOOLEAN
         /\ cpu_halt_n \in BOOLEAN
         /\ reg_write_data(x) \in Word
         /\ rs1 \in Reg /\ rs2 \in Reg
         /\ \A r \in Reg : \A d \in Word : Bypass(r, d, x) \in Word
         /\ reg_data_1_ex(x) \in Word /\ reg_data_2_ex(x) \in Word
<1>1. PC_src \in BOOLEAN
  BY DEF PC_src
<1>2. cpu_halt_n \in BOOLEAN
  BY DEF cpu_halt_n, IsEbreak
<1>3. reg_write_data(x) \in Word
  BY FieldTypes, AddWType, DataReadType, DataAssumption, WordSize
     DEF reg_write_data, TypeOK
<1>4. rs1 \in Reg /\ rs2 \in Reg
  BY FieldTypes, DecodeType, Constants DEF rs1, rs2
<1>5. \A r \in Reg : \A d \in Word : Bypass(r, d, x) \in Word
  BY <1>3 DEF Bypass
<1>6. reg_data_1_ex(x) \in Word /\ reg_data_2_ex(x) \in Word
  BY <1>5, FieldTypes DEF reg_data_1_ex, reg_data_2_ex
<1> QED
  BY <1>1, <1>2, <1>3, <1>4, <1>5, <1>6

LEMMA InitType == Init => TypeOK
<1> SUFFICES ASSUME Init PROVE TypeOK
  OBVIOUS
<1>1. stdin_pointer \in 0 .. NSTDIN - 1
  BY SizesAssumption DEF Init
<1>2. stdout \in Seq(Word)
  BY DEF Init
<1>3. mem \in Mem
  BY ImagesAssumption DEF Init
<1> QED
  BY <1>1, <1>2, <1>3, ResetTypes, Constants DEF Init, TypeOK

(* A reset leaves every register with a value of its type. *)
LEMMA ResetKeepsType == TypeOK /\ Reset => TypeOK'
<1> SUFFICES ASSUME TypeOK, Reset PROVE TypeOK'
  OBVIOUS
<1>1. EX_WB.wb.reg_write \in BOOLEAN
  BY FieldTypes DEF WbCtl
<1> QED
  BY <1>1, ResetTypes, Constants DEF Reset, TypeOK

(* A clock edge latches values of the right types in every stage. *)
LEMMA ClockKeepsType ==
  ASSUME TypeOK, NEW x \in XWords, Clock(x)
  PROVE  TypeOK'
<1>1. PC_p' \in Word /\ IF_ID' \in IfIdType
  BY FieldTypes, AddWType, FetchType, XInstrType
     DEF Clock, FetchStage, TypeOK, IfIdType
<1>2. ID_EX' \in IdExType
  <2>1. /\ (IF PC_src THEN NopEx ELSE DecodeEx(IF_ID.Instruction)) \in ExCtl
        /\ (IF PC_src THEN NopWb
            ELSE DecodeWb(IF_ID.Instruction, cpu_halt_n)) \in WbCtl
    BY FieldTypes, DecodeType, SignalTypes, Constants
  <2>2. X_p[rs1] \in Word /\ X_p[rs2] \in Word
    BY SignalTypes DEF TypeOK
  <2>3. /\ Bypass(rs1, X_p[rs1], x) \in Word
        /\ Bypass(rs2, X_p[rs2], x) \in Word
    BY <2>2, SignalTypes
  <2>4. IF_ID.Instruction.rd \in Reg /\ IF_ID.Instruction.imm \in Word
    BY FieldTypes DEF Instr
  <2> QED
    BY <2>1, <2>3, <2>4, FieldTypes, SignalTypes
       DEF Clock, DecodeStage, IdExType
<1>3. EX_WB' \in ExWbType
  <2> DEFINE a == reg_data_1_ex(x)
             b == IF ID_EX.ex.alu_src THEN ID_EX.imm ELSE reg_data_2_ex(x)
             op == ID_EX.ex.alu_operator
  <2>1. a \in Word /\ b \in Word
    BY SignalTypes, FieldTypes
  <2>2. op \in AluOp \cup BranchOp
    BY FieldTypes DEF ExCtl
  <2>3. AluResult(op, a, b) \in Word /\ AluBranch(op, a, b) \in BOOLEAN
    BY <2>1, <2>2, AluAssumption
  <2>4. AddW(IF ID_EX.ex.alu_pc_reg_src THEN a ELSE ID_EX.PC, ID_EX.imm)
          \in Word
    BY <2>1, FieldTypes, AddWType, WordSize
  <2>5. (IF PC_src THEN NopWb ELSE ID_EX.wb) \in WbCtl
    BY FieldTypes, Constants
  <2> HIDE DEF a, b, op
  <2> QED
    BY <2>3, <2>4, <2>5, FieldTypes, SignalTypes
       DEF Clock, ExecuteStage, ExWbType, a, b, op
<1>4. X_p' \in [Reg -> Word]
  BY SignalTypes DEF Clock, WriteBackStage, TypeOK
<1>5. /\ mem' \in Mem /\ stdin_pointer' \in 0 .. NSTDIN - 1
      /\ stdout' \in Seq(Word)
  <2>1. EX_WB.wb.mem_write \in BOOLEAN /\ EX_WB.wb.mem_read \in BOOLEAN
    BY FieldTypes DEF WbCtl
  <2> QED
    BY <2>1, FieldTypes, BusType DEF Clock, WriteBackStage, TypeOK
<1>6. /\ v_if' \in BOOLEAN /\ v_id' \in BOOLEAN /\ v_ex' \in BOOLEAN
      /\ undef' \in BOOLEAN
  BY DEF Clock, History, TypeOK, IsEbreak, HitsFetched
<1> QED
  BY <1>1, <1>2, <1>3, <1>4, <1>5, <1>6 DEF TypeOK

(* Every register of the processor and of its bus keeps its type. *)
THEOREM TypeCorrect == Spec => []TypeOK
<1>1. TypeOK /\ [Next]_vars => TypeOK'
  <2> SUFFICES ASSUME TypeOK, [Next]_vars PROVE TypeOK'
    OBVIOUS
  <2>1. CASE Reset
    BY <2>1, ResetKeepsType
  <2>2. ASSUME NEW x \in XWords, Clock(x) PROVE TypeOK'
    BY <2>2, ClockKeepsType
  <2>3. CASE UNCHANGED vars
    BY <2>3 DEF TypeOK, vars
  <2> QED
    BY <2>1, <2>2, <2>3 DEF Next
<1> QED
  BY InitType, <1>1, PTL DEF Spec

----------------------------------------------------------------------------
(* Forwarding *)

(* The two bypasses compute what the register file will hold after the     *)
(* edge: this is why reading it before the write does no harm.             *)
LEMMA BypassIsNextRegister ==
  ASSUME TypeOK, NEW x \in XWords, Clock(x), NEW r \in Reg
  PROVE  Bypass(r, X_p[r], x) = X_p'[r]
<1>1. X_p'[r] = IF r # 0 /\ EX_WB.rd = r /\ EX_WB.wb.reg_write
                THEN reg_write_data(x) ELSE X_p[r]
  BY DEF Clock, WriteBackStage
<1> QED
  BY <1>1 DEF Bypass, Forwards

LEMMA ClockKeepsOperands ==
  ASSUME TypeOK, NEW x \in XWords, Clock(x)
  PROVE  OperandsFresh'
<1>1. /\ ID_EX'.rs1_ex = rs1 /\ ID_EX'.reg_data_1 = Bypass(rs1, X_p[rs1], x)
      /\ ID_EX'.rs2_ex = rs2 /\ ID_EX'.reg_data_2 = Bypass(rs2, X_p[rs2], x)
  BY DEF Clock, DecodeStage
<1>2. rs1 \in Reg /\ rs2 \in Reg
  BY SignalTypes
<1> QED
  BY <1>1, <1>2, BypassIsNextRegister DEF OperandsFresh

(* The operands of the execute stage are the registers after the edge. *)
LEMMA ExecuteOperands ==
  ASSUME TypeOK, OperandsFresh, NEW x \in XWords, Clock(x)
  PROVE  /\ reg_data_1_ex(x) = X_p'[ID_EX.rs1_ex]
         /\ reg_data_2_ex(x) = X_p'[ID_EX.rs2_ex]
BY FieldTypes, BypassIsNextRegister
   DEF OperandsFresh, reg_data_1_ex, reg_data_2_ex

----------------------------------------------------------------------------
(* Flushing *)

(* Only an instruction of the path redirects the fetch or raises finish. *)
LEMMA EffectsNeedValid ==
  ASSUME BubblesInert
  PROVE  (PC_src => v_ex) /\ (cpu_finish => v_ex)
         /\ (~v_ex => ~EX_WB.wb.mem_write)
BY DEF BubblesInert, InertWb, PC_src, cpu_finish

LEMMA ClockKeepsBubbles ==
  ASSUME TypeOK, SlotsInOrder, BubblesInert, NEW x \in XWords, Clock(x)
  PROVE  SlotsInOrder' /\ BubblesInert' /\ BubbleAhead'
<1>1. /\ v_if' = ~PC_src /\ v_id' = (~PC_src /\ v_if)
      /\ v_ex' = (~PC_src /\ v_id)
  BY DEF Clock, History
<1>2. SlotsInOrder'
  BY <1>1, SignalTypes DEF SlotsInOrder, TypeOK
<1>3. ~v_if' => IF_ID'.Instruction \in {NopInstr, ZeroInstr}
  BY <1>1 DEF Clock, FetchStage
<1>4. ASSUME ~v_id' PROVE InertWb(ID_EX'.wb, ID_EX'.rd)
  <2>1. CASE PC_src
    <3>1. ID_EX'.wb = NopWb
      BY <2>1 DEF Clock, DecodeStage
    <3> QED
      BY <3>1 DEF InertWb, NopWb
  <2>2. CASE ~PC_src
    <3>1. IF_ID.Instruction \in {NopInstr, ZeroInstr}
      BY <1>1, <1>4, <2>2 DEF BubblesInert
    <3>2. /\ ID_EX'.rd = IF_ID.Instruction.rd
          /\ ID_EX'.wb = DecodeWb(IF_ID.Instruction, cpu_halt_n)
      BY <2>2 DEF Clock, DecodeStage
    <3>3. ~cpu_halt_n
      BY <3>1 DEF cpu_halt_n, IsEbreak, NopInstr, ZeroInstr
    <3>4. /\ IF_ID.Instruction.rd = 0
          /\ Op(IF_ID.Instruction) \in {"IMM", "OTHER"}
      BY <3>1, SMT DEF Op, Legal, NopInstr, ZeroInstr
    <3>5. cpu_halt_n \in BOOLEAN
      BY SignalTypes
    <3>6. DecodeWb(IF_ID.Instruction, cpu_halt_n).cpu_halt = cpu_halt_n
      BY DEF DecodeWb
    <3> QED
      BY <3>2, <3>3, <3>4, <3>5, <3>6 DEF InertWb, DecodeWb
  <2> QED
    BY <2>1, <2>2
<1>5. ASSUME ~v_ex' PROVE InertWb(EX_WB'.wb, EX_WB'.rd)
  <2>1. CASE PC_src
    <3>1. EX_WB'.wb = NopWb
      BY <2>1 DEF Clock, ExecuteStage
    <3> QED
      BY <3>1 DEF InertWb, NopWb
  <2>2. CASE ~PC_src
    <3>1. EX_WB'.wb = ID_EX.wb /\ EX_WB'.rd = ID_EX.rd
      BY <2>2 DEF Clock, ExecuteStage
    <3> QED
      BY <1>1, <1>5, <2>2, <3>1 DEF BubblesInert
  <2> QED
    BY <2>1, <2>2
<1>6. ASSUME v_if', ~v_id' PROVE ID_EX'.rd = 0
  <2>1. IF_ID.Instruction \in {NopInstr, ZeroInstr}
    BY <1>1, <1>6 DEF BubblesInert
  <2> QED
    BY <2>1 DEF Clock, DecodeStage, NopInstr, ZeroInstr
<1> QED
  BY <1>2, <1>3, <1>4, <1>5, <1>6 DEF BubblesInert, BubbleAhead

----------------------------------------------------------------------------
(* The program's path *)

(* As long as no store hits an instruction in flight, the instructions in  *)
(* the pipeline stay what memory holds.                                    *)
LEMMA FetchedStable ==
  ASSUME PipeInv, NEW x \in XWords, Clock(x), ~undef',
         NEW p \in {PC_p, IF_ID.PC, ID_EX.PC}
  PROVE  Fetch(mem', p) = Fetch(mem, p)
<1>1. mem' = MemNext(mem, EX_WB.alu_result, EX_WB.wb.mem_write,
                     EX_WB.reg_data_2)
  BY DEF Clock, WriteBackStage
<1>2. ~(v_ex /\ HitsFetched)
  BY DEF Clock, History
<1>3. CASE ~v_ex
  <2>1. ~EX_WB.wb.mem_write
    BY <1>3, EffectsNeedValid DEF PipeInv
  <2> QED
    BY <1>1, <2>1 DEF MemNext
<1>4. CASE v_ex /\ ~EX_WB.wb.mem_write
  BY <1>1, <1>4 DEF MemNext
<1>5. CASE v_ex /\ EX_WB.wb.mem_write
  <2>1. Footprint(EX_WB.alu_result) \cap Footprint(p) = {}
    BY <1>2, <1>5 DEF HitsFetched
  <2>2. p \in Word /\ EX_WB.alu_result \in Word /\ EX_WB.reg_data_2 \in Word
        /\ mem \in Mem
    BY FieldTypes DEF PipeInv, TypeOK
  <2>3. Fetch(WriteMem(mem, EX_WB.alu_result, EX_WB.reg_data_2), p)
          = Fetch(mem, p)
    BY <2>1, <2>2, FetchUnaffected
  <2> QED
    BY <1>1, <2>3 DEF MemNext
<1> QED
  BY <1>3, <1>4, <1>5

(* Before the program passes an EBREAK the program counter is never held. *)
LEMMA NoHaltBeforeEbreak ==
  ASSUME PipeInv, NEW x \in XWords, Clock(x), ~undef'
  PROVE  ~undef /\ ~cpu_finish
<1>1. ~undef /\ ~(v_ex /\ IsEbreak(Fetch(mem, EX_WB.PC)))
  BY DEF Clock, History
<1>2. cpu_finish => v_ex
  BY EffectsNeedValid DEF PipeInv
<1>3. v_ex => (EX_WB.wb.cpu_halt => IsEbreak(Fetch(mem, EX_WB.PC)))
  BY <1>1 DEF PipeInv, PathInFlight, ExecutedInOrder, Executed
<1> QED
  BY <1>1, <1>2, <1>3 DEF cpu_finish

LEMMA ClockKeepsPath ==
  ASSUME PipeInv, NEW x \in XWords, Clock(x)
  PROVE  PathInFlight'
<1> SUFFICES ASSUME ~undef'
             PROVE  FetchedInOrder' /\ DecodedInOrder' /\ ExecutedInOrder'
  BY DEF PathInFlight
<1>1. ~undef /\ ~EX_WB.wb.cpu_halt
  BY NoHaltBeforeEbreak DEF cpu_finish
<1>2. /\ v_if' = ~PC_src /\ v_id' = (~PC_src /\ v_if)
      /\ v_ex' = (~PC_src /\ v_id)
  BY DEF Clock, History
<1>3. /\ Fetch(mem', PC_p) = Fetch(mem, PC_p)
      /\ Fetch(mem', IF_ID.PC) = Fetch(mem, IF_ID.PC)
      /\ Fetch(mem', ID_EX.PC) = Fetch(mem, ID_EX.PC)
  BY FetchedStable
<1>4. FetchedInOrder'
  <2> SUFFICES ASSUME v_if'
               PROVE  /\ IF_ID'.Instruction = Fetch(mem', IF_ID'.PC)
                      /\ PC_p' = AddW(IF_ID'.PC, 4)
    BY DEF FetchedInOrder
  <2>1. IF_ID'.PC = PC_p /\ IF_ID'.Instruction = Fetch(mem, PC_p)
        /\ PC_p' = AddW(PC_p, 4)
    BY <1>1, <1>2 DEF Clock, FetchStage
  <2> QED
    BY <1>3, <2>1
<1>5. DecodedInOrder'
  <2> SUFFICES ASSUME v_id'
               PROVE  /\ Decoded(Fetch(mem, ID_EX.PC))'
                      /\ IF_ID'.PC = AddW(ID_EX'.PC, 4)
    BY DEF DecodedInOrder
  <2> DEFINE i == IF_ID.Instruction
  <2>1. ~PC_src /\ v_if
    BY <1>2
  <2>2. i = Fetch(mem, IF_ID.PC) /\ PC_p = AddW(IF_ID.PC, 4)
    BY <1>1, <2>1 DEF PipeInv, PathInFlight, FetchedInOrder
  <2>3. /\ ID_EX'.PC = IF_ID.PC /\ ID_EX'.ex = DecodeEx(i)
        /\ ID_EX'.wb = DecodeWb(i, cpu_halt_n)
        /\ ID_EX'.rd = i.rd /\ ID_EX'.imm = i.imm
        /\ ID_EX'.rs1_ex = Rs1(i) /\ ID_EX'.rs2_ex = Rs2(i)
    BY <2>1 DEF Clock, DecodeStage, rs1, rs2
  <2>4. IF_ID'.PC = PC_p
    BY DEF Clock, FetchStage
  <2>5. Fetch(mem', ID_EX'.PC) = i
    BY <1>3, <2>2, <2>3
  <2>6. ID_EX'.wb.cpu_halt = cpu_halt_n
    BY <2>3 DEF DecodeWb
  <2>7. cpu_halt_n => IsEbreak(i)
    BY DEF cpu_halt_n
  <2> HIDE DEF i
  <2> QED
    BY <2>2, <2>3, <2>4, <2>5, <2>6, <2>7 DEF Decoded
<1>6. ExecutedInOrder'
  <2> SUFFICES ASSUME v_ex'
               PROVE  /\ Executed(Fetch(mem, EX_WB.PC))'
                      /\ ID_EX'.PC = AddW(EX_WB'.PC, 4)
    BY DEF ExecutedInOrder
  <2> DEFINE i == Fetch(mem, ID_EX.PC)
             a == reg_data_1_ex(x)
             c == reg_data_2_ex(x)
             b == IF DecodeEx(i).alu_src THEN i.imm ELSE c
             op == DecodeEx(i).alu_operator
  <2>1. ~PC_src /\ v_id
    BY <1>2
  <2>2. Decoded(i) /\ IF_ID.PC = AddW(ID_EX.PC, 4)
    BY <1>1, <2>1 DEF PipeInv, PathInFlight, DecodedInOrder
  <2>3. a = X_p'[Rs1(i)] /\ c = X_p'[Rs2(i)]
    BY <2>2, ExecuteOperands DEF PipeInv, Decoded
  <2>4. /\ EX_WB'.PC = ID_EX.PC
        /\ EX_WB'.wb = ID_EX.wb
        /\ EX_WB'.rd = i.rd
        /\ EX_WB'.PC_alu = AddW(IF DecodeEx(i).alu_pc_reg_src THEN a
                                ELSE ID_EX.PC, i.imm)
        /\ EX_WB'.alu_branch_o = AluBranch(op, a, b)
        /\ EX_WB'.alu_result = AluResult(op, a, b)
        /\ EX_WB'.reg_data_2 = c
    <3>1. /\ ID_EX.ex = DecodeEx(i) /\ ID_EX.imm = i.imm /\ ID_EX.rd = i.rd
      BY <2>2 DEF Decoded
    <3>2. AluBranch(op, a, b) \in BOOLEAN
      <4>1. i \in Instr
        BY FetchType, FieldTypes DEF PipeInv, TypeOK
      <4>2. op \in AluOp \cup BranchOp /\ a \in Word /\ b \in Word
        BY <4>1, DecodeType, SignalTypes DEF PipeInv, ExCtl
      <4> QED
        BY <4>2, AluAssumption
    <3> HIDE DEF i
    <3> QED
      BY <2>1, <3>1, <3>2 DEF Clock, ExecuteStage
  <2>5. ID_EX'.PC = IF_ID.PC
    BY DEF Clock, DecodeStage
  <2>6. Fetch(mem', EX_WB'.PC) = i
    BY <1>3, <2>4
  <2>7. /\ ID_EX.wb = DecodeWb(i, ID_EX.wb.cpu_halt)
        /\ ID_EX.wb.cpu_halt => IsEbreak(i)
    BY <2>2 DEF Decoded
  <2>8. Executed(Fetch(mem, EX_WB.PC))'
    <3> HIDE DEF i, a, c
    <3> QED
      BY <2>3, <2>4, <2>6, <2>7 DEF Executed
  <2> QED
    BY <2>2, <2>4, <2>5, <2>8
<1> QED
  BY <1>4, <1>5, <1>6

----------------------------------------------------------------------------
(* The inductive invariant and what it implies *)

LEMMA InitInv == Init => PipeInv
<1> SUFFICES ASSUME Init PROVE PipeInv
  OBVIOUS
<1>1. TypeOK
  BY InitType
<1>2. OperandsFresh
  BY Constants DEF Init, OperandsFresh, ResetID_EX
<1>3. SlotsInOrder /\ BubbleAhead /\ PathInFlight
  BY DEF Init, SlotsInOrder, BubbleAhead, PathInFlight, FetchedInOrder, DecodedInOrder,
         ExecutedInOrder
<1>4. BubblesInert
  <2>1. /\ IF_ID.Instruction = ZeroInstr /\ ID_EX.wb = NopWb
        /\ EX_WB.rd = 0 /\ \E b \in BOOLEAN : EX_WB.wb = ResetWb(b)
    BY DEF Init, ResetIF_ID, ResetID_EX, ResetEX_WB
  <2> QED
    BY <2>1 DEF BubblesInert, InertWb, NopWb, ResetWb
<1> QED
  BY <1>1, <1>2, <1>3, <1>4 DEF PipeInv

(* A reset empties the pipeline; the write enable it does not clear is     *)
(* harmless because it does clear the destination register.                *)
LEMMA ResetEstablishesInv == TypeOK /\ Reset => PipeInv'
<1> SUFFICES ASSUME TypeOK, Reset PROVE PipeInv'
  OBVIOUS
<1>1. TypeOK'
  BY ResetKeepsType
<1>2. OperandsFresh'
  BY Constants DEF Reset, OperandsFresh, ResetID_EX
<1>3. SlotsInOrder' /\ BubbleAhead' /\ PathInFlight'
  BY DEF Reset, SlotsInOrder, BubbleAhead, PathInFlight, FetchedInOrder, DecodedInOrder,
         ExecutedInOrder
<1>4. BubblesInert'
  <2>1. /\ IF_ID'.Instruction = ZeroInstr /\ ID_EX'.wb = NopWb
        /\ EX_WB'.rd = 0 /\ EX_WB'.wb = ResetWb(EX_WB.wb.reg_write)
    BY DEF Reset, ResetIF_ID, ResetID_EX, ResetEX_WB
  <2> QED
    BY <2>1 DEF BubblesInert, InertWb, NopWb, ResetWb
<1> QED
  BY <1>1, <1>2, <1>3, <1>4 DEF PipeInv

LEMMA NextKeepsInv == PipeInv /\ [Next]_vars => PipeInv'
<1> SUFFICES ASSUME PipeInv, [Next]_vars PROVE PipeInv'
  OBVIOUS
<1>1. CASE Reset
  BY <1>1, ResetEstablishesInv DEF PipeInv
<1>2. ASSUME NEW x \in XWords, Clock(x) PROVE PipeInv'
  BY <1>2, ClockKeepsType, ClockKeepsOperands, ClockKeepsBubbles,
     ClockKeepsPath DEF PipeInv
<1>3. CASE UNCHANGED vars
  BY <1>3 DEF vars, PipeInv, TypeOK, OperandsFresh, SlotsInOrder,
     BubblesInert, BubbleAhead, PathInFlight, FetchedInOrder, DecodedInOrder,
     ExecutedInOrder, Decoded, Executed
<1> QED
  BY <1>1, <1>2, <1>3 DEF Next

(* The three stages hold consecutive instructions of the program, decoded  *)
(* and executed on up-to-date registers, or bubbles without effect.        *)
THEOREM PipelineInvariant == Spec => []PipeInv
BY InitInv, NextKeepsInv, PTL DEF Spec

(* Forwarding never leaves a stale operand in ID/EX. *)
THEOREM Forwarding == Spec => []OperandsFresh
<1>1. PipeInv => OperandsFresh
  BY DEF PipeInv
<1> QED
  BY <1>1, PipelineInvariant, PTL

(* A flushed or reset slot has no effect. *)
THEOREM Flushing == Spec => []SquashedInert
<1>1. PipeInv => SquashedInert
  BY DEF PipeInv, BubblesInert, InertWb, SquashedInert, cpu_finish, PC_src
<1> QED
  BY <1>1, PipelineInvariant, PTL

(* Nothing but an EBREAK the program reached raises cpu_finish. *)
THEOREM Finish == Spec => []FinishOnlyAtEbreak
<1>1. PipeInv => FinishOnlyAtEbreak
  <2> SUFFICES ASSUME PipeInv, cpu_finish, ~undef
               PROVE  v_ex /\ IsEbreak(Fetch(mem, EX_WB.PC))
    BY DEF FinishOnlyAtEbreak
  <2>1. v_ex
    BY EffectsNeedValid DEF PipeInv
  <2> QED
    BY <2>1 DEF PipeInv, PathInFlight, ExecutedInOrder, Executed, cpu_finish
<1> QED
  BY <1>1, PipelineInvariant, PTL

(* An EBREAK at the target of a taken branch is always recognised. *)
THEOREM EbreakAtTarget == Spec => EbreakAtTargetRecognised
<1>1. PipeInv => (\A x \in XWords : Clock(x) =>
        (v_if /\ ~v_id /\ ~PC_src /\ IsEbreak(IF_ID.Instruction)
           => ID_EX'.wb.cpu_halt))
  <2> SUFFICES ASSUME PipeInv, NEW x \in XWords, Clock(x), v_if, ~v_id,
                      ~PC_src, IsEbreak(IF_ID.Instruction)
               PROVE  ID_EX'.wb.cpu_halt
    OBVIOUS
  <2>1. cpu_halt_n
    BY DEF PipeInv, BubbleAhead, cpu_halt_n
  <2>2. ID_EX'.wb = DecodeWb(IF_ID.Instruction, cpu_halt_n)
    BY DEF Clock, DecodeStage
  <2>3. DecodeWb(IF_ID.Instruction, cpu_halt_n).cpu_halt = cpu_halt_n
    BY DEF DecodeWb
  <2> QED
    BY <2>1, <2>2, <2>3
<1> QED
  BY <1>1, PipelineInvariant, PTL DEF EbreakAtTargetRecognised

(* Which EBREAKs are recognised, exactly: at the edge that decodes an      *)
(* EBREAK of the program, the halt signal is raised just when no           *)
(* instruction of the program stands before it in the pipeline or the one  *)
(* that does has a zero rd field.  So an EBREAK is missed behind every     *)
(* instruction with a destination, and behind the stores and branches      *)
(* whose immediate does not leave bits 11:7 zero.                          *)
EbreakRule ==
  [][\A x \in XWords :
       Clock(x) /\ ~undef /\ v_if /\ ~PC_src /\ IsEbreak(Fetch(mem, IF_ID.PC))
         => (ID_EX'.wb.cpu_halt <=> (v_id => Fetch(mem, ID_EX.PC).rd = 0))]_vars

THEOREM EbreakRecognised == Spec => EbreakRule
<1>1. PipeInv =>
        (\A x \in XWords :
           Clock(x) /\ ~undef /\ v_if /\ ~PC_src
             /\ IsEbreak(Fetch(mem, IF_ID.PC))
             => (ID_EX'.wb.cpu_halt <=> (v_id => Fetch(mem, ID_EX.PC).rd = 0)))
  <2> SUFFICES ASSUME PipeInv, NEW x \in XWords, Clock(x), ~undef, v_if,
                      ~PC_src, IsEbreak(Fetch(mem, IF_ID.PC))
               PROVE  ID_EX'.wb.cpu_halt <=> (v_id => Fetch(mem, ID_EX.PC).rd = 0)
    OBVIOUS
  <2>1. IF_ID.Instruction = Fetch(mem, IF_ID.PC)
    BY DEF PipeInv, PathInFlight, FetchedInOrder
  <2>2. v_id => ID_EX.rd = Fetch(mem, ID_EX.PC).rd
    BY DEF PipeInv, PathInFlight, DecodedInOrder, Decoded
  <2>3. ~v_id => ID_EX.rd = 0
    BY DEF PipeInv, BubbleAhead
  <2>4. cpu_halt_n <=> ID_EX.rd = 0
    BY <2>1 DEF cpu_halt_n
  <2>5. ID_EX'.wb.cpu_halt = cpu_halt_n
    BY DEF Clock, DecodeStage, DecodeWb
  <2> QED
    BY <2>2, <2>3, <2>4, <2>5
<1> QED
  BY <1>1, PipelineInvariant, PTL DEF EbreakRule

----------------------------------------------------------------------------
(* The pipeline implements the sequential machine *)

(* Isa reads the definitions of CpuPkg through its instance here. *)
LEMMA SameSets == /\ Machine!Reg = Reg /\ Machine!Mem = Mem
                  /\ Machine!RESET_ADDR = RESET_ADDR
BY DEF Machine!Reg, Reg, Machine!Mem, Mem, Machine!Addr, Addr, Machine!Byte,
       Byte, Machine!RESET_ADDR, RESET_ADDR

LEMMA SameAddW == \A a, b : Machine!AddW(a, b) = AddW(a, b)
BY DEF Machine!AddW, AddW, Machine!WORD, WORD

LEMMA SameDecoder ==
  ASSUME NEW i
  PROVE  /\ Machine!DecodeEx(i) = DecodeEx(i)
         /\ \A h : Machine!DecodeWb(i, h) = DecodeWb(i, h)
         /\ Machine!Rs1(i) = Rs1(i) /\ Machine!Rs2(i) = Rs2(i)
         /\ Machine!IsEbreak(i) = IsEbreak(i)
<1>1. Machine!Op(i) = Op(i)
  BY DEF Machine!Op, Op, Machine!Legal, Legal, Machine!AluOp, AluOp,
         Machine!BranchOp, BranchOp
<1>2. Machine!DecodeEx(i) = DecodeEx(i)
  BY <1>1 DEF Machine!DecodeEx, DecodeEx
<1>3. ASSUME NEW h PROVE Machine!DecodeWb(i, h) = DecodeWb(i, h)
  BY <1>1 DEF Machine!DecodeWb, DecodeWb
<1>4. Machine!Rs1(i) = Rs1(i) /\ Machine!Rs2(i) = Rs2(i)
  BY <1>1 DEF Machine!Rs1, Rs1, Machine!Rs2, Rs2
<1>5. Machine!IsEbreak(i) = IsEbreak(i)
  BY DEF Machine!IsEbreak, IsEbreak
<1> QED
  BY <1>2, <1>3, <1>4, <1>5

LEMMA SameRead == \A m, a, x : Machine!ReadMem(m, a, x) = ReadMem(m, a, x)
<1>1. \A w, k : Machine!ByteOf(w, k) = ByteOf(w, k)
  BY DEF Machine!ByteOf, ByteOf, Machine!Weight, Weight
<1>2. \A m, a, k, x : Machine!MemByte(m, a, k, x) = MemByte(m, a, k, x)
  BY <1>1, SameAddW DEF Machine!MemByte, MemByte, Machine!Addr, Addr
<1> QED
  BY <1>2 DEF Machine!ReadMem, ReadMem

LEMMA SameFetch == \A m, p : Machine!Fetch(m, p) = Fetch(m, p)
<1>1. \A p : Machine!Footprint(p) = Footprint(p)
  BY SameAddW DEF Machine!Footprint, Footprint
<1> QED
  BY <1>1, SameRead DEF Machine!Fetch, Fetch, Machine!MemSel, MemSel,
     Machine!Addr, Addr, Machine!XInstr, XInstr

LEMMA SameDataRead ==
  \A m, p, a, x : Machine!DataRead(m, p, a, x) = DataRead(m, p, a, x)
BY SameRead DEF Machine!DataRead, DataRead, Machine!MemSel, MemSel,
   Machine!Addr, Addr, Machine!StdinSel, StdinSel, Machine!StdioBase, StdioBase

LEMMA SameBus ==
  /\ \A m, a, we, w : Machine!MemNext(m, a, we, w) = MemNext(m, a, we, w)
  /\ \A p, a, re : Machine!StdinNext(p, a, re) = StdinNext(p, a, re)
  /\ \A out, a, we, w :
       Machine!StdoutNext(out, a, we, w) = StdoutNext(out, a, we, w)
<1>1. \A w, k : Machine!ByteOf(w, k) = ByteOf(w, k)
  BY DEF Machine!ByteOf, ByteOf, Machine!Weight, Weight
<1>2. \A m, a, w : Machine!WriteMem(m, a, w) = WriteMem(m, a, w)
  BY <1>1, SameAddW DEF Machine!WriteMem, WriteMem, Machine!Addr, Addr
<1>3. \A m, a, we, w : Machine!MemNext(m, a, we, w) = MemNext(m, a, we, w)
  BY <1>2 DEF Machine!MemNext, MemNext, Machine!MemSel, MemSel,
     Machine!Addr, Addr
<1>4. \A p, a, re : Machine!StdinNext(p, a, re) = StdinNext(p, a, re)
  BY DEF Machine!StdinNext, StdinNext, Machine!StdinSel, StdinSel,
     Machine!StdioBase, StdioBase
<1>5. \A out, a, we, w :
        Machine!StdoutNext(out, a, we, w) = StdoutNext(out, a, we, w)
  BY DEF Machine!StdoutNext, StdoutNext, Machine!StdoutSel, StdoutSel,
     Machine!StdioBase, StdioBase
<1> QED
  BY <1>3, <1>4, <1>5

(* All control signals but the halt depend on the instruction alone. *)
LEMMA SignalsOfInstruction ==
  ASSUME NEW i, NEW w, NEW h, w = DecodeWb(i, h)
  PROVE  /\ w.is_branch = DecodeWb(i, FALSE).is_branch
         /\ w.is_jump = DecodeWb(i, FALSE).is_jump
         /\ w.mem_read = DecodeWb(i, FALSE).mem_read
         /\ w.mem_write = DecodeWb(i, FALSE).mem_write
         /\ w.reg_write = DecodeWb(i, FALSE).reg_write
         /\ w.mem_to_reg = DecodeWb(i, FALSE).mem_to_reg
BY DEF DecodeWb

(* The last stage holds what the sequential machine computes from the      *)
(* present registers.                                                      *)
LEMMA LastStage ==
  ASSUME PipeInv, v_ex, ~undef
  PROVE  /\ EX_WB.PC = arch_pc
         /\ EX_WB.wb = DecodeWb(Machine!Insn, EX_WB.wb.cpu_halt)
         /\ EX_WB.rd = Machine!Insn.rd
         /\ EX_WB.alu_result = Machine!alu_result
         /\ EX_WB.reg_data_2 = Machine!Arg2
         /\ EX_WB.PC_alu = Machine!Target
         /\ PC_src = Machine!Taken
<1> DEFINE i == Fetch(mem, EX_WB.PC)
<1>1. EX_WB.PC = arch_pc
  BY DEF arch_pc
<1>2. Machine!Insn = i
  BY <1>1, SameFetch DEF Machine!Insn
<1>3. Executed(i)
  BY DEF PipeInv, PathInFlight, ExecutedInOrder
<1> HIDE DEF i
<1>4. /\ EX_WB.reg_data_2 = Machine!Arg2
      /\ EX_WB.alu_result = Machine!alu_result
      /\ EX_WB.PC_alu = Machine!Target
      /\ EX_WB.alu_branch_o = AluBranch(DecodeEx(i).alu_operator,
                                Machine!Arg1, Machine!alu_data_2)
  BY <1>1, <1>2, <1>3, SameDecoder, SameAddW
     DEF Executed, Machine!Arg1, Machine!Arg2,
     Machine!alu_data_2, Machine!alu_result, Machine!Target
<1>5. PC_src = Machine!Taken
  <2>1. /\ EX_WB.wb.is_branch = Machine!Ctl.is_branch
        /\ EX_WB.wb.is_jump = Machine!Ctl.is_jump
    <3>1. Machine!Ctl = DecodeWb(i, FALSE)
      BY <1>2, SameDecoder DEF Machine!Ctl
    <3>2. EX_WB.wb = DecodeWb(i, EX_WB.wb.cpu_halt)
      BY <1>3 DEF Executed
    <3> QED
      BY <3>1, <3>2, SignalsOfInstruction
  <2>2. /\ EX_WB.wb.is_branch \in BOOLEAN /\ EX_WB.wb.is_jump \in BOOLEAN
        /\ EX_WB.alu_branch_o \in BOOLEAN
    BY FieldTypes DEF PipeInv, WbCtl
  <2>3. DecodeEx(i) = Machine!DecodeEx(Machine!Insn)
    BY <1>2, SameDecoder
  <2> QED
    BY <1>4, <2>1, <2>2, <2>3, Zenon DEF PC_src, Machine!Taken
<1> QED
  BY <1>1, <1>2, <1>3, <1>4, <1>5 DEF Executed

(* The result in the last stage is that of the sequential machine, though  *)
(* its operands were read two cycles earlier.                              *)
THEOREM Results == Spec => []ResultsFresh
<1>1. PipeInv => ResultsFresh
  BY LastStage DEF ResultsFresh
<1> QED
  BY <1>1, PipelineInvariant, PTL

(* An instruction takes effect exactly as the sequential machine executes  *)
(* it.                                                                     *)
LEMMA CommitExecutes ==
  ASSUME PipeInv, NEW x \in XWords, Clock(x), v_ex, ~undef'
  PROVE  Machine!Execute(x)
<1>1. ~undef /\ ~EX_WB.wb.cpu_halt
  BY NoHaltBeforeEbreak DEF cpu_finish
<1>2. ~IsEbreak(Machine!Insn)
  <2>1. ~IsEbreak(Fetch(mem, EX_WB.PC))
    BY DEF Clock, History
  <2> QED
    BY <2>1, SameFetch, SameDecoder DEF Machine!Insn, arch_pc
<1>3. /\ EX_WB.wb.reg_write = Machine!Ctl.reg_write
      /\ EX_WB.wb.mem_read = Machine!Ctl.mem_read
      /\ EX_WB.wb.mem_write = Machine!Ctl.mem_write
      /\ EX_WB.wb.mem_to_reg = Machine!Ctl.mem_to_reg
      /\ EX_WB.wb.is_jump = Machine!Ctl.is_jump
  <2>1. Machine!Ctl = DecodeWb(Machine!Insn, FALSE)
    BY SameDecoder DEF Machine!Ctl
  <2>2. EX_WB.wb = DecodeWb(Machine!Insn, EX_WB.wb.cpu_halt)
    BY <1>1, LastStage
  <2> QED
    BY <2>1, <2>2, SignalsOfInstruction
<1>4. arch_pc' = IF Machine!Taken THEN Machine!Target ELSE AddW(arch_pc, 4)
  <2>1. /\ v_if' = ~PC_src /\ v_id' = (~PC_src /\ v_if)
        /\ v_ex' = (~PC_src /\ v_id)
    BY DEF Clock, History
  <2>2. v_id
    BY DEF PipeInv, SlotsInOrder
  <2>3. CASE PC_src
    <3>1. arch_pc' = PC_p'
      BY <2>1, <2>3 DEF arch_pc
    <3>2. PC_p' = EX_WB.PC_alu
      BY <1>1, <2>3 DEF Clock, FetchStage
    <3> QED
      BY <1>1, <2>3, <3>1, <3>2, LastStage
  <2>4. CASE ~PC_src
    <3>1. arch_pc' = ID_EX.PC
      BY <2>1, <2>2, <2>4 DEF arch_pc, Clock, ExecuteStage
    <3>2. ID_EX.PC = AddW(EX_WB.PC, 4)
      BY <1>1 DEF PipeInv, PathInFlight, ExecutedInOrder
    <3> QED
      BY <1>1, <2>4, <3>1, <3>2, LastStage
  <2> QED
    BY <2>3, <2>4
<1>5. reg_write_data(x) = Machine!WriteData(x)
  BY <1>1, <1>3, LastStage, SameAddW, SameDataRead
     DEF reg_write_data, Machine!WriteData
<1>6. X_p' = [r \in Reg |->
                IF Machine!Ctl.reg_write /\ r = Machine!Insn.rd /\ r # 0
                THEN Machine!WriteData(x) ELSE X_p[r]]
  <2>1. X_p' = [r \in Reg |-> IF r # 0 /\ EX_WB.rd = r /\ EX_WB.wb.reg_write
                              THEN reg_write_data(x) ELSE X_p[r]]
    BY DEF Clock, WriteBackStage
  <2>2. EX_WB.rd = Machine!Insn.rd
    BY <1>1, LastStage
  <2> QED
    BY <1>3, <1>5, <2>1, <2>2
<1>7. /\ mem' = MemNext(mem, Machine!alu_result, Machine!Ctl.mem_write,
                        Machine!Arg2)
      /\ stdin_pointer' = StdinNext(stdin_pointer, Machine!alu_result,
                                    Machine!Ctl.mem_read)
      /\ stdout' = StdoutNext(stdout, Machine!alu_result,
                              Machine!Ctl.mem_write, Machine!Arg2)
  BY <1>1, <1>3, LastStage DEF Clock, WriteBackStage
<1> QED
  BY <1>2, <1>4, <1>6, <1>7, SameSets, SameAddW, SameBus, SameDecoder
     DEF Machine!Execute

(* A bubble is no step of the sequential machine. *)
LEMMA BubbleStutters ==
  ASSUME PipeInv, NEW x \in XWords, Clock(x), ~v_ex, ~undef'
  PROVE  UNCHANGED Machine!vars
<1>1. ~cpu_finish /\ ~PC_src
  BY EffectsNeedValid DEF PipeInv
<1>2. EX_WB.wb.reg_write => EX_WB.rd = 0
  BY DEF PipeInv, BubblesInert, InertWb
<1>3. ~EX_WB.wb.mem_read /\ ~EX_WB.wb.mem_write
  BY DEF PipeInv, BubblesInert, InertWb
<1>4. X_p' = X_p
  <2>1. X_p' = [r \in Reg |-> X_p[r]]
    BY <1>2 DEF Clock, WriteBackStage
  <2> QED
    BY <2>1 DEF PipeInv, TypeOK
<1>5. mem' = mem /\ stdin_pointer' = stdin_pointer /\ stdout' = stdout
  BY <1>3 DEF Clock, WriteBackStage, MemNext, StdinNext, StdoutNext
<1>6. arch_pc' = arch_pc
  <2>1. v_if' /\ v_id' = v_if /\ v_ex' = v_id
    BY <1>1, SignalTypes DEF Clock, History, PipeInv, TypeOK
  <2>2. /\ EX_WB'.PC = ID_EX.PC /\ ID_EX'.PC = IF_ID.PC /\ IF_ID'.PC = PC_p
    BY DEF Clock, FetchStage, DecodeStage, ExecuteStage
  <2> QED
    BY <2>1, <2>2 DEF arch_pc, PipeInv, SlotsInOrder
<1> QED
  BY <1>4, <1>5, <1>6 DEF Machine!vars

LEMMA ResetIsReset == Reset => Machine!Reset
BY SameSets DEF Reset, Machine!Reset, arch_pc

LEMMA InitIsInit == Init => Machine!Init
<1> SUFFICES ASSUME Init PROVE Machine!Init
  OBVIOUS
<1>1. arch_pc = RESET_ADDR /\ mem \in Mem
  BY ImagesAssumption DEF Init, arch_pc
<1> QED
  BY <1>1, SameSets DEF Init, Machine!Init

LEMMA StepIsStep ==
  PipeInv /\ [Next]_vars => [Machine!Next \/ undef']_(Machine!vars)
<1> SUFFICES ASSUME PipeInv, [Next]_vars, ~undef'
             PROVE  Machine!Next \/ UNCHANGED Machine!vars
  OBVIOUS
<1>1. CASE Reset
  BY <1>1, ResetIsReset DEF Machine!Next
<1>2. ASSUME NEW x \in XWords, Clock(x)
      PROVE  Machine!Next \/ UNCHANGED Machine!vars
  <2>1. CASE v_ex
    BY <1>2, <2>1, CommitExecutes DEF Machine!Next
  <2>2. CASE ~v_ex
    BY <1>2, <2>2, BubbleStutters
  <2> QED
    BY <2>1, <2>2
<1>3. CASE UNCHANGED vars
  BY <1>3 DEF vars, Machine!vars, arch_pc
<1> QED
  BY <1>1, <1>2, <1>3 DEF Next

(* The four-stage pipeline with its forwarding and flushing implements the *)
(* sequential machine, until the program passes an EBREAK or overwrites an *)
(* instruction in flight.                                                  *)
THEOREM PipelineImplementsMachine == Spec => ImplementsMachine
BY InitIsInit, StepIsStep, PipelineInvariant, PTL DEF Spec, ImplementsMachine

----------------------------------------------------------------------------
(* The instances and the machines they refine read the definitions of      *)
(* CpuPkg through themselves; they are the same definitions.               *)

LEMMA OneWord ==
  /\ Three!Word = Word /\ Two!Word = Word
  /\ Three!Reg = Reg /\ Two!Reg = Reg
  /\ Three!Machine!Reg = Reg /\ Two!Machine!Reg = Reg
  /\ Three!Mem = Mem /\ Two!Mem = Mem
  /\ Three!Machine!Mem = Mem /\ Two!Machine!Mem = Mem
  /\ Three!Instr = Instr /\ Two!Instr = Instr
  /\ Three!ExCtl = ExCtl /\ Three!WbCtl = WbCtl
<1>1. Three!Word = Word /\ Two!Word = Word
  BY DEF Three!Word, Two!Word, Word, Three!WORD, Two!WORD, WORD
<1>2. /\ Three!Reg = Reg /\ Two!Reg = Reg
      /\ Three!Machine!Reg = Reg /\ Two!Machine!Reg = Reg
  BY DEF Three!Reg, Two!Reg, Three!Machine!Reg, Two!Machine!Reg, Reg
<1>3. /\ Three!Mem = Mem /\ Two!Mem = Mem
      /\ Three!Machine!Mem = Mem /\ Two!Machine!Mem = Mem
  BY DEF Three!Mem, Two!Mem, Three!Machine!Mem, Two!Machine!Mem, Mem,
         Three!Addr, Two!Addr, Three!Machine!Addr, Two!Machine!Addr, Addr,
         Three!Byte, Two!Byte, Three!Machine!Byte, Two!Machine!Byte, Byte
<1>4. /\ Three!AluOp = AluOp /\ Two!AluOp = AluOp
      /\ Three!BranchOp = BranchOp /\ Two!BranchOp = BranchOp
  BY DEF Three!AluOp, Two!AluOp, AluOp, Three!BranchOp, Two!BranchOp, BranchOp
<1>5. Three!Instr = Instr /\ Two!Instr = Instr
  BY <1>1, <1>2, <1>4 DEF Three!Instr, Two!Instr, Instr, Three!Opcode,
     Two!Opcode, Opcode, Three!Funct, Two!Funct, Funct
<1>6. Three!ExCtl = ExCtl /\ Three!WbCtl = WbCtl
  BY <1>4 DEF Three!ExCtl, ExCtl, Three!WbCtl, WbCtl
<1> QED
  BY <1>1, <1>2, <1>3, <1>5, <1>6

LEMMA OneSum ==
  \A a, b : /\ Three!AddW(a, b) = AddW(a, b) /\ Two!AddW(a, b) = AddW(a, b)
            /\ Three!Machine!AddW(a, b) = AddW(a, b)
            /\ Two!Machine!AddW(a, b) = AddW(a, b)
BY DEF Three!AddW, Two!AddW, Three!Machine!AddW, Two!Machine!AddW, AddW,
       Three!WORD, Two!WORD, Three!Machine!WORD, Two!Machine!WORD, WORD

LEMMA OneReset ==
  /\ Three!RESET_ADDR = RESET_ADDR /\ Two!RESET_ADDR = RESET_ADDR
  /\ Three!Machine!RESET_ADDR = RESET_ADDR
  /\ Two!Machine!RESET_ADDR = RESET_ADDR
  /\ Three!NopInstr = NopInstr /\ Two!NopInstr = NopInstr
  /\ Three!ZeroInstr = ZeroInstr /\ Two!ZeroInstr = ZeroInstr
  /\ Three!NopEx = NopEx /\ Three!NopWb = NopWb
BY DEF Three!RESET_ADDR, Two!RESET_ADDR, Three!Machine!RESET_ADDR,
       Two!Machine!RESET_ADDR, RESET_ADDR, Three!NopInstr, Two!NopInstr,
       NopInstr, Three!ZeroInstr, Two!ZeroInstr, ZeroInstr, Three!NopEx,
       NopEx, Three!NopWb, NopWb

LEMMA OneDecoder ==
  \A i : /\ Three!DecodeEx(i) = DecodeEx(i) /\ Two!DecodeEx(i) = DecodeEx(i)
         /\ Three!Machine!DecodeEx(i) = DecodeEx(i)
         /\ Two!Machine!DecodeEx(i) = DecodeEx(i)
         /\ Three!Rs1(i) = Rs1(i) /\ Two!Rs1(i) = Rs1(i)
         /\ Three!Machine!Rs1(i) = Rs1(i) /\ Two!Machine!Rs1(i) = Rs1(i)
         /\ Three!Rs2(i) = Rs2(i) /\ Two!Rs2(i) = Rs2(i)
         /\ Three!Machine!Rs2(i) = Rs2(i) /\ Two!Machine!Rs2(i) = Rs2(i)
         /\ Three!IsEbreak(i) = IsEbreak(i) /\ Two!IsEbreak(i) = IsEbreak(i)
         /\ Three!Machine!IsEbreak(i) = IsEbreak(i)
         /\ Two!Machine!IsEbreak(i) = IsEbreak(i)
         /\ \A h : /\ Three!DecodeWb(i, h) = DecodeWb(i, h)
                   /\ Two!DecodeWb(i, h) = DecodeWb(i, h)
                   /\ Three!Machine!DecodeWb(i, h) = DecodeWb(i, h)
                   /\ Two!Machine!DecodeWb(i, h) = DecodeWb(i, h)
<1> TAKE i
<1>1. /\ Three!Op(i) = Op(i) /\ Two!Op(i) = Op(i)
      /\ Three!Machine!Op(i) = Op(i) /\ Two!Machine!Op(i) = Op(i)
  BY DEF Three!Op, Two!Op, Three!Machine!Op, Two!Machine!Op, Op,
         Three!Legal, Two!Legal, Three!Machine!Legal, Two!Machine!Legal, Legal,
         Three!AluOp, Two!AluOp, Three!Machine!AluOp, Two!Machine!AluOp, AluOp,
         Three!BranchOp, Two!BranchOp, Three!Machine!BranchOp,
         Two!Machine!BranchOp, BranchOp
<1>2. /\ Three!DecodeEx(i) = DecodeEx(i) /\ Two!DecodeEx(i) = DecodeEx(i)
      /\ Three!Machine!DecodeEx(i) = DecodeEx(i)
      /\ Two!Machine!DecodeEx(i) = DecodeEx(i)
  BY <1>1 DEF Three!DecodeEx, Two!DecodeEx, Three!Machine!DecodeEx,
     Two!Machine!DecodeEx, DecodeEx
<1>3. ASSUME NEW h
      PROVE  /\ Three!DecodeWb(i, h) = DecodeWb(i, h)
             /\ Two!DecodeWb(i, h) = DecodeWb(i, h)
             /\ Three!Machine!DecodeWb(i, h) = DecodeWb(i, h)
             /\ Two!Machine!DecodeWb(i, h) = DecodeWb(i, h)
  BY <1>1 DEF Three!DecodeWb, Two!DecodeWb, Three!Machine!DecodeWb,
     Two!Machine!DecodeWb, DecodeWb
<1>4. /\ Three!Rs1(i) = Rs1(i) /\ Two!Rs1(i) = Rs1(i)
      /\ Three!Machine!Rs1(i) = Rs1(i) /\ Two!Machine!Rs1(i) = Rs1(i)
  BY <1>1 DEF Three!Rs1, Two!Rs1, Three!Machine!Rs1, Two!Machine!Rs1, Rs1
<1>5. /\ Three!Rs2(i) = Rs2(i) /\ Two!Rs2(i) = Rs2(i)
      /\ Three!Machine!Rs2(i) = Rs2(i) /\ Two!Machine!Rs2(i) = Rs2(i)
  BY <1>1 DEF Three!Rs2, Two!Rs2, Three!Machine!Rs2, Two!Machine!Rs2, Rs2
<1>6. /\ Three!IsEbreak(i) = IsEbreak(i) /\ Two!IsEbreak(i) = IsEbreak(i)
      /\ Three!Machine!IsEbreak(i) = IsEbreak(i)
      /\ Two!Machine!IsEbreak(i) = IsEbreak(i)
  BY DEF Three!IsEbreak, Two!IsEbreak, Three!Machine!IsEbreak,
         Two!Machine!IsEbreak, IsEbreak
<1> QED
  BY <1>2, <1>3, <1>4, <1>5, <1>6

LEMMA OneRead ==
  \A m, a, x : /\ Three!ReadMem(m, a, x) = ReadMem(m, a, x)
               /\ Two!ReadMem(m, a, x) = ReadMem(m, a, x)
               /\ Three!Machine!ReadMem(m, a, x) = ReadMem(m, a, x)
               /\ Two!Machine!ReadMem(m, a, x) = ReadMem(m, a, x)
<1>1. \A w, k : /\ Three!ByteOf(w, k) = ByteOf(w, k)
                /\ Two!ByteOf(w, k) = ByteOf(w, k)
                /\ Three!Machine!ByteOf(w, k) = ByteOf(w, k)
                /\ Two!Machine!ByteOf(w, k) = ByteOf(w, k)
  BY DEF Three!ByteOf, Two!ByteOf, Three!Machine!ByteOf, Two!Machine!ByteOf,
         ByteOf, Three!Weight, Two!Weight, Three!Machine!Weight,
         Two!Machine!Weight, Weight
<1>2. \A m, a, k, x : /\ Three!MemByte(m, a, k, x) = MemByte(m, a, k, x)
                      /\ Two!MemByte(m, a, k, x) = MemByte(m, a, k, x)
                      /\ Three!Machine!MemByte(m, a, k, x) = MemByte(m, a, k, x)
                      /\ Two!Machine!MemByte(m, a, k, x) = MemByte(m, a, k, x)
  BY <1>1, OneSum DEF Three!MemByte, Two!MemByte, Three!Machine!MemByte,
     Two!Machine!MemByte, MemByte, Three!Addr, Two!Addr, Three!Machine!Addr,
     Two!Machine!Addr, Addr
<1> QED
  BY <1>2 DEF Three!ReadMem, Two!ReadMem, Three!Machine!ReadMem,
     Two!Machine!ReadMem, ReadMem

LEMMA OneFetch ==
  /\ \A m, p : /\ Three!Fetch(m, p) = Fetch(m, p)
               /\ Two!Fetch(m, p) = Fetch(m, p)
               /\ Three!Machine!Fetch(m, p) = Fetch(m, p)
               /\ Two!Machine!Fetch(m, p) = Fetch(m, p)
  /\ \A p : Three!Footprint(p) = Footprint(p) /\ Two!Footprint(p) = Footprint(p)
<1>1. \A p : /\ Three!Footprint(p) = Footprint(p)
             /\ Two!Footprint(p) = Footprint(p)
             /\ Three!Machine!Footprint(p) = Footprint(p)
             /\ Two!Machine!Footprint(p) = Footprint(p)
  BY OneSum DEF Three!Footprint, Two!Footprint, Three!Machine!Footprint,
     Two!Machine!Footprint, Footprint
<1> QED
  BY <1>1, OneRead DEF Three!Fetch, Two!Fetch, Three!Machine!Fetch,
     Two!Machine!Fetch, Fetch, Three!MemSel, Two!MemSel, Three!Machine!MemSel,
     Two!Machine!MemSel, MemSel, Three!Addr, Two!Addr, Three!Machine!Addr,
     Two!Machine!Addr, Addr, Three!XInstr, Two!XInstr, Three!Machine!XInstr,
     Two!Machine!XInstr, XInstr

LEMMA OneDataRead ==
  \A m, p, a, x : /\ Three!DataRead(m, p, a, x) = DataRead(m, p, a, x)
                  /\ Two!DataRead(m, p, a, x) = DataRead(m, p, a, x)
                  /\ Three!Machine!DataRead(m, p, a, x) = DataRead(m, p, a, x)
                  /\ Two!Machine!DataRead(m, p, a, x) = DataRead(m, p, a, x)
BY OneRead DEF Three!DataRead, Two!DataRead, Three!Machine!DataRead,
   Two!Machine!DataRead, DataRead, Three!MemSel, Two!MemSel,
   Three!Machine!MemSel, Two!Machine!MemSel, MemSel, Three!Addr, Two!Addr,
   Three!Machine!Addr, Two!Machine!Addr, Addr, Three!StdinSel, Two!StdinSel,
   Three!Machine!StdinSel, Two!Machine!StdinSel, StdinSel, Three!StdioBase,
   Two!StdioBase, Three!Machine!StdioBase, Two!Machine!StdioBase, StdioBase

LEMMA OneBus ==
  /\ \A m, a, we, w : /\ Three!MemNext(m, a, we, w) = MemNext(m, a, we, w)
                      /\ Two!MemNext(m, a, we, w) = MemNext(m, a, we, w)
                      /\ Three!Machine!MemNext(m, a, we, w)
                           = MemNext(m, a, we, w)
                      /\ Two!Machine!MemNext(m, a, we, w)
                           = MemNext(m, a, we, w)
  /\ \A p, a, re : /\ Three!StdinNext(p, a, re) = StdinNext(p, a, re)
                   /\ Two!StdinNext(p, a, re) = StdinNext(p, a, re)
                   /\ Three!Machine!StdinNext(p, a, re) = StdinNext(p, a, re)
                   /\ Two!Machine!StdinNext(p, a, re) = StdinNext(p, a, re)
  /\ \A o, a, we, w : /\ Three!StdoutNext(o, a, we, w) = StdoutNext(o, a, we, w)
                      /\ Two!StdoutNext(o, a, we, w) = StdoutNext(o, a, we, w)
                      /\ Three!Machine!StdoutNext(o, a, we, w)
                           = StdoutNext(o, a, we, w)
                      /\ Two!Machine!StdoutNext(o, a, we, w)
                           = StdoutNext(o, a, we, w)
<1>1. \A m, a, w : /\ Three!WriteMem(m, a, w) = WriteMem(m, a, w)
                   /\ Two!WriteMem(m, a, w) = WriteMem(m, a, w)
                   /\ Three!Machine!WriteMem(m, a, w) = WriteMem(m, a, w)
                   /\ Two!Machine!WriteMem(m, a, w) = WriteMem(m, a, w)
  <2>1. \A w, k : /\ Three!ByteOf(w, k) = ByteOf(w, k)
                  /\ Two!ByteOf(w, k) = ByteOf(w, k)
                  /\ Three!Machine!ByteOf(w, k) = ByteOf(w, k)
                  /\ Two!Machine!ByteOf(w, k) = ByteOf(w, k)
    BY DEF Three!ByteOf, Two!ByteOf, Three!Machine!ByteOf, Two!Machine!ByteOf,
           ByteOf, Three!Weight, Two!Weight, Three!Machine!Weight,
           Two!Machine!Weight, Weight
  <2>2. ASSUME NEW m, NEW a, NEW w
        PROVE  Three!WriteMem(m, a, w) = WriteMem(m, a, w)
    BY <2>1, OneSum DEF Three!WriteMem, WriteMem, Three!Addr, Addr
  <2>3. ASSUME NEW m, NEW a, NEW w
        PROVE  Two!WriteMem(m, a, w) = WriteMem(m, a, w)
    BY <2>1, OneSum DEF Two!WriteMem, WriteMem, Two!Addr, Addr
  <2>4. ASSUME NEW m, NEW a, NEW w
        PROVE  Three!Machine!WriteMem(m, a, w) = WriteMem(m, a, w)
    BY <2>1, OneSum DEF Three!Machine!WriteMem, WriteMem,
       Three!Machine!Addr, Addr
  <2>5. ASSUME NEW m, NEW a, NEW w
        PROVE  Two!Machine!WriteMem(m, a, w) = WriteMem(m, a, w)
    BY <2>1, OneSum DEF Two!Machine!WriteMem, WriteMem, Two!Machine!Addr, Addr
  <2> QED
    BY <2>2, <2>3, <2>4, <2>5
<1>2. \A m, a, we, w : /\ Three!MemNext(m, a, we, w) = MemNext(m, a, we, w)
                       /\ Two!MemNext(m, a, we, w) = MemNext(m, a, we, w)
                       /\ Three!Machine!MemNext(m, a, we, w)
                            = MemNext(m, a, we, w)
                       /\ Two!Machine!MemNext(m, a, we, w)
                            = MemNext(m, a, we, w)
  BY <1>1 DEF Three!MemNext, Two!MemNext, Three!Machine!MemNext,
     Two!Machine!MemNext, MemNext, Three!MemSel, Two!MemSel,
     Three!Machine!MemSel, Two!Machine!MemSel, MemSel, Three!Addr, Two!Addr,
     Three!Machine!Addr, Two!Machine!Addr, Addr
<1>3. \A p, a, re : /\ Three!StdinNext(p, a, re) = StdinNext(p, a, re)
                    /\ Two!StdinNext(p, a, re) = StdinNext(p, a, re)
                    /\ Three!Machine!StdinNext(p, a, re) = StdinNext(p, a, re)
                    /\ Two!Machine!StdinNext(p, a, re) = StdinNext(p, a, re)
  BY DEF Three!StdinNext, Two!StdinNext, Three!Machine!StdinNext,
     Two!Machine!StdinNext, StdinNext, Three!StdinSel, Two!StdinSel,
     Three!Machine!StdinSel, Two!Machine!StdinSel, StdinSel, Three!StdioBase,
     Two!StdioBase, Three!Machine!StdioBase, Two!Machine!StdioBase, StdioBase
<1>4. \A o, a, we, w :
        /\ Three!StdoutNext(o, a, we, w) = StdoutNext(o, a, we, w)
        /\ Two!StdoutNext(o, a, we, w) = StdoutNext(o, a, we, w)
        /\ Three!Machine!StdoutNext(o, a, we, w) = StdoutNext(o, a, we, w)
        /\ Two!Machine!StdoutNext(o, a, we, w) = StdoutNext(o, a, we, w)
  BY DEF Three!StdoutNext, Two!StdoutNext, Three!Machine!StdoutNext,
     Two!Machine!StdoutNext, StdoutNext, Three!StdoutSel, Two!StdoutSel,
     Three!Machine!StdoutSel, Two!Machine!StdoutSel, StdoutSel,
     Three!StdioBase, Two!StdioBase, Three!Machine!StdioBase,
     Two!Machine!StdioBase, StdioBase
<1> QED
  BY <1>2, <1>3, <1>4

(* An instance in the words of CpuPkg. *)
LEMMA ThreeNames ==
  /\ Three!Word = Word /\ Three!Reg = Reg /\ Three!Mem = Mem
  /\ Three!Instr = Instr /\ Three!ExCtl = ExCtl /\ Three!WbCtl = WbCtl
  /\ Three!RESET_ADDR = RESET_ADDR
  /\ Three!NopInstr = NopInstr /\ Three!ZeroInstr = ZeroInstr
  /\ Three!NopEx = NopEx /\ Three!NopWb = NopWb
  /\ \A a, b : Three!AddW(a, b) = AddW(a, b)
  /\ \A i : /\ Three!DecodeEx(i) = DecodeEx(i)
            /\ Three!Rs1(i) = Rs1(i) /\ Three!Rs2(i) = Rs2(i)
            /\ Three!IsEbreak(i) = IsEbreak(i)
  /\ \A i, h : Three!DecodeWb(i, h) = DecodeWb(i, h)
  /\ \A m, p : Three!Fetch(m, p) = Fetch(m, p)
  /\ \A p : Three!Footprint(p) = Footprint(p)
  /\ \A m, p, a, x : Three!DataRead(m, p, a, x) = DataRead(m, p, a, x)
  /\ \A m, a, we, w : Three!MemNext(m, a, we, w) = MemNext(m, a, we, w)
  /\ \A p, a, re : Three!StdinNext(p, a, re) = StdinNext(p, a, re)
  /\ \A o, a, we, w : Three!StdoutNext(o, a, we, w) = StdoutNext(o, a, we, w)
BY OneWord, OneSum, OneReset, OneDecoder, OneFetch, OneDataRead, OneBus

LEMMA TwoNames ==
  /\ Two!Word = Word /\ Two!Reg = Reg /\ Two!Mem = Mem /\ Two!Instr = Instr
  /\ Two!RESET_ADDR = RESET_ADDR
  /\ Two!NopInstr = NopInstr /\ Two!ZeroInstr = ZeroInstr
  /\ \A a, b : Two!AddW(a, b) = AddW(a, b)
  /\ \A i : /\ Two!DecodeEx(i) = DecodeEx(i)
            /\ Two!Rs1(i) = Rs1(i) /\ Two!Rs2(i) = Rs2(i)
            /\ Two!IsEbreak(i) = IsEbreak(i)
  /\ \A i, h : Two!DecodeWb(i, h) = DecodeWb(i, h)
  /\ \A m, p : Two!Fetch(m, p) = Fetch(m, p)
  /\ \A p : Two!Footprint(p) = Footprint(p)
  /\ \A m, p, a, x : Two!DataRead(m, p, a, x) = DataRead(m, p, a, x)
  /\ \A m, a, we, w : Two!MemNext(m, a, we, w) = MemNext(m, a, we, w)
  /\ \A p, a, re : Two!StdinNext(p, a, re) = StdinNext(p, a, re)
  /\ \A o, a, we, w : Two!StdoutNext(o, a, we, w) = StdoutNext(o, a, we, w)
BY OneWord, OneSum, OneReset, OneDecoder, OneFetch, OneDataRead, OneBus

----------------------------------------------------------------------------
(* The three-stage pipeline: types *)

ThreeIdExType == [PC : Word, ex : ExCtl, wb : WbCtl, rd : Reg, imm : Word,
                  reg_data_1 : Word, reg_data_2 : Word]

LEMMA ThreeConstants == /\ 0 \in Reg /\ 0 \in Word /\ RESET_ADDR \in Word
                        /\ NopEx \in ExCtl /\ NopWb \in WbCtl
BY WordSize, SizesAssumption DEF Reg, RESET_ADDR, NopEx, NopWb, ExCtl, WbCtl,
   AluOp

LEMMA ThreeResetTypes ==
  /\ Three!ResetIF_ID \in [PC : Word, Instruction : Instr]
  /\ Three!ResetID_EX \in ThreeIdExType
  /\ [r \in Reg |-> 0] \in [Reg -> Word]
BY ThreeConstants, XInstrType, ThreeNames DEF Three!ResetIF_ID,
   Three!ResetID_EX, ThreeIdExType

LEMMA ThreeFieldTypes ==
  ASSUME Three!TypeOK
  PROVE  /\ IF_ID3.PC \in Word /\ IF_ID3.Instruction \in Instr
         /\ ID_EX3 \in ThreeIdExType
         /\ ID_EX3.PC \in Word /\ ID_EX3.ex \in ExCtl /\ ID_EX3.wb \in WbCtl
         /\ ID_EX3.rd \in Reg /\ ID_EX3.imm \in Word
         /\ ID_EX3.reg_data_1 \in Word /\ ID_EX3.reg_data_2 \in Word
BY ThreeNames DEF Three!TypeOK, ThreeIdExType

(* The combinational signals, each with its type. *)
LEMMA ThreeSignalTypes ==
  ASSUME Three!TypeOK, NEW x \in XWords
  PROVE  /\ Three!alu_result \in Word /\ Three!PC_src \in BOOLEAN
         /\ Three!PC_alu \in Word
         /\ Three!cpu_halt_n \in BOOLEAN
         /\ Three!reg_write_data(x) \in Word
         /\ Three!rs1 \in Reg /\ Three!rs2 \in Reg
         /\ \A r \in Reg : Three!Bypass(r, x) \in Word
<1>1. Three!alu_data_2 \in Word
  BY ThreeFieldTypes, ThreeNames DEF Three!alu_data_2
<1>2. ID_EX3.ex.alu_operator \in AluOp \cup BranchOp
  BY ThreeFieldTypes DEF ExCtl
<1>3. Three!alu_result \in Word
  BY <1>1, <1>2, ThreeFieldTypes, AluAssumption, ThreeNames DEF
     Three!alu_result
<1>4. Three!PC_src \in BOOLEAN
  BY ThreeNames DEF Three!PC_src
<1>5. Three!PC_alu \in Word
  BY ThreeFieldTypes, AddWType, WordSize, ThreeNames DEF Three!PC_alu
<1>6. Three!cpu_halt_n \in BOOLEAN
  BY ThreeNames DEF Three!cpu_halt_n, IsEbreak
<1>7. Three!reg_write_data(x) \in Word
  BY <1>3, ThreeFieldTypes, AddWType, DataReadType, DataAssumption, WordSize,
     ThreeNames DEF Three!reg_write_data, Three!TypeOK
<1>8. Three!rs1 \in Reg /\ Three!rs2 \in Reg
  BY ThreeFieldTypes, DecodeType, ThreeConstants, ThreeNames DEF Three!rs1,
     Three!rs2
<1>9. \A r \in Reg : Three!Bypass(r, x) \in Word
  BY <1>7, ThreeNames DEF Three!Bypass, Three!TypeOK
<1> QED
  BY <1>3, <1>4, <1>5, <1>6, <1>7, <1>8, <1>9

LEMMA ThreeClockKeepsType ==
  ASSUME Three!TypeOK, NEW x \in XWords, Three!Clock(x)
  PROVE  Three!TypeOK'
<1>1. PC_p3' \in Word /\ IF_ID3' \in [PC : Word, Instruction : Instr]
  BY ThreeFieldTypes, ThreeSignalTypes, AddWType, FetchType, XInstrType,
     ThreeNames DEF Three!Clock, Three!FetchStage, Three!TypeOK
<1>2. ID_EX3' \in ThreeIdExType
  <2>1. /\ (IF Three!PC_src THEN NopEx
            ELSE DecodeEx(IF_ID3.Instruction)) \in ExCtl
        /\ (IF Three!PC_src THEN NopWb
            ELSE DecodeWb(IF_ID3.Instruction, Three!cpu_halt_n)) \in WbCtl
    BY ThreeFieldTypes, DecodeType, ThreeSignalTypes, ThreeConstants
  <2>2. /\ Three!Bypass(Three!rs1, x) \in Word
        /\ Three!Bypass(Three!rs2, x) \in Word
    BY ThreeSignalTypes
  <2>3. IF_ID3.Instruction.rd \in Reg /\ IF_ID3.Instruction.imm \in Word
    BY ThreeFieldTypes DEF Instr
  <2> QED
    BY <2>1, <2>2, <2>3, ThreeFieldTypes, ThreeNames DEF Three!Clock,
       Three!DecodeStage, ThreeIdExType
<1>3. X_p3' \in [Reg -> Word]
  BY ThreeSignalTypes, ThreeNames DEF Three!Clock, Three!ExecuteStage,
     Three!TypeOK
<1>4. /\ mem3' \in Mem /\ stdin_pointer3' \in 0 .. NSTDIN - 1
      /\ stdout3' \in Seq(Word)
  <2>1. ID_EX3.wb.mem_write \in BOOLEAN /\ ID_EX3.wb.mem_read \in BOOLEAN
    BY ThreeFieldTypes DEF WbCtl
  <2> QED
    BY <2>1, ThreeFieldTypes, ThreeSignalTypes, BusType, ThreeNames DEF
       Three!Clock, Three!ExecuteStage, Three!TypeOK
<1>5. v_if3' \in BOOLEAN /\ v_id3' \in BOOLEAN /\ undef3' \in BOOLEAN
  BY ThreeNames DEF Three!Clock, Three!TypeOK, IsEbreak, Three!HitsFetched
<1> QED
  BY <1>1, <1>2, <1>3, <1>4, <1>5, ThreeNames DEF Three!TypeOK, ThreeIdExType

----------------------------------------------------------------------------
(* The three-stage pipeline: bubbles *)

(* Only an instruction of the path acts in the last stage. *)
LEMMA ThreeEffectsNeedValid ==
  ASSUME Three!BubblesInert, ~v_id3
  PROVE  /\ ~Three!PC_src /\ ~Three!cpu_finish
         /\ ~ID_EX3.wb.mem_write /\ ~ID_EX3.wb.mem_read
         /\ ID_EX3.wb.reg_write => ID_EX3.rd = 0
BY ThreeNames DEF Three!BubblesInert, Three!PC_src, Three!cpu_finish

LEMMA ThreeClockKeepsBubbles ==
  ASSUME Three!TypeOK, Three!BubblesInert, NEW x \in XWords, Three!Clock(x)
  PROVE  Three!BubblesInert'
<1>1. v_if3' = ~Three!PC_src /\ v_id3' = (~Three!PC_src /\ v_if3)
  BY ThreeNames DEF Three!Clock
<1>2. ~v_if3' => IF_ID3'.Instruction \in {NopInstr, ZeroInstr}
  BY <1>1, ThreeNames DEF Three!Clock, Three!FetchStage
<1>3. ASSUME ~v_id3'
      PROVE  /\ ID_EX3'.wb.reg_write => ID_EX3'.rd = 0
             /\ ~ID_EX3'.wb.mem_read /\ ~ID_EX3'.wb.mem_write
             /\ ~ID_EX3'.wb.is_branch /\ ~ID_EX3'.wb.is_jump
             /\ ~ID_EX3'.wb.cpu_halt
  <2>1. CASE Three!PC_src
    <3>1. ID_EX3'.wb = NopWb
      BY <2>1, ThreeNames DEF Three!Clock, Three!DecodeStage
    <3> QED
      BY <3>1 DEF NopWb
  <2>2. CASE ~Three!PC_src
    <3>1. IF_ID3.Instruction \in {NopInstr, ZeroInstr}
      BY <1>1, <1>3, <2>2, ThreeNames DEF Three!BubblesInert
    <3>2. /\ ID_EX3'.rd = IF_ID3.Instruction.rd
          /\ ID_EX3'.wb = DecodeWb(IF_ID3.Instruction, Three!cpu_halt_n)
      BY <2>2, ThreeNames DEF Three!Clock, Three!DecodeStage
    <3>3. ~Three!cpu_halt_n
      <4>1. ~IsEbreak(IF_ID3.Instruction)
        BY <3>1 DEF IsEbreak, NopInstr, ZeroInstr
      <4> QED
        BY <4>1, ThreeNames DEF Three!cpu_halt_n
    <3>4. /\ IF_ID3.Instruction.rd = 0
          /\ Op(IF_ID3.Instruction) \in {"IMM", "OTHER"}
      BY <3>1, SMT DEF Op, Legal, NopInstr, ZeroInstr
    <3>5. Three!cpu_halt_n \in BOOLEAN
      BY ThreeSignalTypes
    <3>6. DecodeWb(IF_ID3.Instruction, Three!cpu_halt_n).cpu_halt
            = Three!cpu_halt_n
      BY DEF DecodeWb
    <3> QED
      BY <3>2, <3>3, <3>4, <3>5, <3>6 DEF DecodeWb
  <2> QED
    BY <2>1, <2>2
<1> QED
  BY <1>1, <1>2, <1>3, ThreeNames DEF Three!BubblesInert

----------------------------------------------------------------------------
(* The three-stage pipeline: the program's path *)

(* The one bypass computes what the register file will hold after the      *)
(* edge.                                                                   *)
LEMMA ThreeBypassIsNextRegister ==
  ASSUME Three!TypeOK, NEW x \in XWords, Three!Clock(x), NEW r \in Reg
  PROVE  Three!Bypass(r, x) = X_p3'[r]
<1>1. X_p3'[r] = IF r # 0 /\ ID_EX3.rd = r /\ ID_EX3.wb.reg_write
                 THEN Three!reg_write_data(x) ELSE X_p3[r]
  BY ThreeNames DEF Three!Clock, Three!ExecuteStage
<1> QED
  BY <1>1, ThreeNames DEF Three!Bypass, Three!Forwards

LEMMA ThreeFetchedStable ==
  ASSUME Three!StageInv, NEW x \in XWords, Three!Clock(x), ~undef3',
         NEW p \in {PC_p3, IF_ID3.PC}
  PROVE  Fetch(mem3', p) = Fetch(mem3, p)
<1>1. mem3' = MemNext(mem3, Three!alu_result, ID_EX3.wb.mem_write,
                      ID_EX3.reg_data_2)
  BY ThreeNames DEF Three!Clock, Three!ExecuteStage
<1>2. CASE ~ID_EX3.wb.mem_write
  BY <1>1, <1>2 DEF MemNext
<1>3. CASE ID_EX3.wb.mem_write
  <2>1. v_id3
    BY <1>3, ThreeEffectsNeedValid, ThreeNames DEF Three!StageInv
  <2>2. Footprint(Three!alu_result) \cap Footprint(p) = {}
    BY <1>3, <2>1, ThreeNames DEF Three!Clock, Three!HitsFetched
  <2>3. p \in Word /\ Three!alu_result \in Word /\ ID_EX3.reg_data_2 \in Word
        /\ mem3 \in Mem
    BY ThreeFieldTypes, ThreeSignalTypes, ThreeNames DEF Three!StageInv,
       Three!TypeOK
  <2>4. Fetch(WriteMem(mem3, Three!alu_result, ID_EX3.reg_data_2), p)
          = Fetch(mem3, p)
    BY <2>2, <2>3, FetchUnaffected
  <2> QED
    BY <1>1, <2>4 DEF MemNext
<1> QED
  BY <1>2, <1>3

LEMMA ThreeNoHaltBeforeEbreak ==
  ASSUME Three!StageInv, NEW x \in XWords, Three!Clock(x), ~undef3'
  PROVE  ~undef3 /\ ~Three!cpu_finish
<1>1. ~undef3 /\ ~(v_id3 /\ IsEbreak(Fetch(mem3, ID_EX3.PC)))
  BY ThreeNames DEF Three!Clock
<1>2. Three!cpu_finish => v_id3
  BY ThreeEffectsNeedValid, ThreeNames DEF Three!StageInv
<1> QED
  BY <1>1, <1>2, ThreeNames DEF Three!StageInv, Three!DecodedInOrder,
     Three!Decoded, Three!cpu_finish

LEMMA ThreeClockKeepsPath ==
  ASSUME Three!StageInv, NEW x \in XWords, Three!Clock(x), ~undef3'
  PROVE  Three!FetchedInOrder' /\ Three!DecodedInOrder'
<1>1. ~undef3 /\ ~Three!cpu_finish
  BY ThreeNoHaltBeforeEbreak
<1>2. v_if3' = ~Three!PC_src /\ v_id3' = (~Three!PC_src /\ v_if3)
  BY ThreeNames DEF Three!Clock
<1>3. Fetch(mem3', PC_p3) = Fetch(mem3, PC_p3)
      /\ Fetch(mem3', IF_ID3.PC) = Fetch(mem3, IF_ID3.PC)
  BY ThreeFetchedStable
<1>4. ASSUME v_if3'
      PROVE  /\ IF_ID3'.Instruction = Fetch(mem3', IF_ID3'.PC)
             /\ PC_p3' = AddW(IF_ID3'.PC, 4)
  <2>1. IF_ID3'.PC = PC_p3 /\ IF_ID3'.Instruction = Fetch(mem3, PC_p3)
        /\ PC_p3' = AddW(PC_p3, 4)
    BY <1>1, <1>2, <1>4, ThreeNames DEF Three!Clock, Three!FetchStage
  <2> QED
    BY <1>3, <2>1
<1>5. ASSUME v_id3'
      PROVE  /\ Three!Decoded(Fetch(mem3, ID_EX3.PC))'
             /\ IF_ID3'.PC = AddW(ID_EX3'.PC, 4)
  <2> DEFINE i == IF_ID3.Instruction
  <2>1. ~Three!PC_src /\ v_if3
    BY <1>2, <1>5
  <2>2. i = Fetch(mem3, IF_ID3.PC) /\ PC_p3 = AddW(IF_ID3.PC, 4)
    BY <1>1, <2>1, ThreeNames DEF Three!StageInv, Three!FetchedInOrder
  <2>3. /\ ID_EX3'.PC = IF_ID3.PC /\ ID_EX3'.ex = DecodeEx(i)
        /\ ID_EX3'.wb = DecodeWb(i, Three!cpu_halt_n)
        /\ ID_EX3'.rd = i.rd /\ ID_EX3'.imm = i.imm
        /\ ID_EX3'.reg_data_1 = Three!Bypass(Rs1(i), x)
        /\ ID_EX3'.reg_data_2 = Three!Bypass(Rs2(i), x)
    BY <2>1, ThreeNames DEF Three!Clock, Three!DecodeStage, Three!rs1,
       Three!rs2
  <2>4. /\ Three!Bypass(Rs1(i), x) = X_p3'[Rs1(i)]
        /\ Three!Bypass(Rs2(i), x) = X_p3'[Rs2(i)]
    BY ThreeFieldTypes, DecodeType, ThreeBypassIsNextRegister, ThreeNames DEF
       Three!StageInv
  <2>5. IF_ID3'.PC = PC_p3
    BY ThreeNames DEF Three!Clock, Three!FetchStage
  <2>6. Fetch(mem3', ID_EX3'.PC) = i
    BY <1>3, <2>2, <2>3
  <2>7. /\ ID_EX3'.wb.cpu_halt = Three!cpu_halt_n
        /\ Three!cpu_halt_n => IsEbreak(i)
    BY <2>3, ThreeNames DEF DecodeWb, Three!cpu_halt_n
  <2> HIDE DEF i
  <2> QED
    BY <2>2, <2>3, <2>4, <2>5, <2>6, <2>7, ThreeNames DEF Three!Decoded
<1> QED
  BY <1>4, <1>5, ThreeNames DEF Three!FetchedInOrder, Three!DecodedInOrder

----------------------------------------------------------------------------
(* The three-stage pipeline: the inductive invariant and what it implies *)

LEMMA ThreeInitInv == Three!Init => Three!StageInv
<1> SUFFICES ASSUME Three!Init PROVE Three!StageInv
  OBVIOUS
<1>1. Three!TypeOK
  <2>1. stdin_pointer3 \in 0 .. NSTDIN - 1 /\ mem3 \in Mem
    BY SizesAssumption, ImagesAssumption, ThreeNames DEF SameImages, Three!Init
  <2>2. PC_p3 \in Word /\ stdout3 \in Seq(Word)
    BY ThreeConstants, ThreeNames DEF Three!Init
  <2>3. X_p3 \in [Reg -> Word]
    BY ThreeResetTypes, ThreeNames DEF Three!Init
  <2>4. IF_ID3 \in [PC : Word, Instruction : Instr] /\ ID_EX3 \in ThreeIdExType
    BY ThreeResetTypes DEF Three!Init
  <2>5. v_if3 \in BOOLEAN /\ v_id3 \in BOOLEAN /\ undef3 \in BOOLEAN
    BY DEF Three!Init
  <2> QED
    BY <2>1, <2>2, <2>3, <2>4, <2>5, ThreeNames DEF Three!TypeOK, ThreeIdExType
<1>2. Three!BubblesInert
  BY ThreeNames DEF Three!Init, Three!BubblesInert, Three!ResetIF_ID,
     Three!ResetID_EX, NopWb
<1>3. Three!FetchedInOrder /\ Three!DecodedInOrder
  BY ThreeNames DEF Three!Init, Three!FetchedInOrder, Three!DecodedInOrder
<1> QED
  BY <1>1, <1>2, <1>3, ThreeNames DEF Three!StageInv

LEMMA ThreeResetEstablishesInv ==
  Three!TypeOK /\ Three!Reset => Three!StageInv'
<1> SUFFICES ASSUME Three!TypeOK, Three!Reset PROVE Three!StageInv'
  OBVIOUS
<1>1. Three!TypeOK'
  BY ThreeResetTypes, ThreeConstants, ThreeNames DEF Three!Reset, Three!TypeOK,
     ThreeIdExType
<1>2. Three!BubblesInert'
  BY ThreeNames DEF Three!Reset, Three!BubblesInert, Three!ResetIF_ID,
     Three!ResetID_EX, NopWb
<1>3. Three!FetchedInOrder' /\ Three!DecodedInOrder'
  BY ThreeNames DEF Three!Reset, Three!FetchedInOrder, Three!DecodedInOrder
<1> QED
  BY <1>1, <1>2, <1>3, ThreeNames DEF Three!StageInv

LEMMA ThreeNextKeepsInv ==
  Three!StageInv /\ [Three!Next]_(Three!vars) => Three!StageInv'
<1> SUFFICES ASSUME Three!StageInv, [Three!Next]_(Three!vars)
             PROVE  Three!StageInv'
  OBVIOUS
<1>1. CASE Three!Reset
  BY <1>1, ThreeResetEstablishesInv, ThreeNames DEF Three!StageInv
<1>2. ASSUME NEW x \in XWords, Three!Clock(x) PROVE Three!StageInv'
  BY <1>2, ThreeClockKeepsType, ThreeClockKeepsBubbles, ThreeClockKeepsPath,
     ThreeNames DEF Three!StageInv
<1>3. CASE UNCHANGED Three!vars
  BY <1>3, ThreeNames DEF Three!vars, Three!StageInv, Three!TypeOK,
     Three!BubblesInert, Three!FetchedInOrder, Three!DecodedInOrder,
     Three!Decoded
<1> QED
  BY <1>1, <1>2, <1>3, ThreeNames DEF Three!Next

(* Both stages hold consecutive instructions of the program, decoded with  *)
(* the present contents of the registers, or bubbles without effect.       *)
THEOREM ThreeStageInvariant == Three!Spec => []Three!StageInv
BY ThreeInitInv, ThreeNextKeepsInv, PTL DEF Three!Spec

(* Finish is raised only by an EBREAK the program reached. *)
THEOREM ThreeStageFinish == Three!Spec => []Three!FinishOnlyAtEbreak
<1>1. Three!StageInv => Three!FinishOnlyAtEbreak
  <2> SUFFICES ASSUME Three!StageInv, Three!cpu_finish, ~undef3
               PROVE  v_id3 /\ IsEbreak(Fetch(mem3, ID_EX3.PC))
    BY ThreeNames DEF Three!FinishOnlyAtEbreak
  <2>1. v_id3
    BY ThreeEffectsNeedValid, ThreeNames DEF Three!StageInv
  <2> QED
    BY <2>1, ThreeNames DEF Three!StageInv, Three!DecodedInOrder,
       Three!Decoded, Three!cpu_finish
<1> QED
  BY <1>1, ThreeStageInvariant, PTL

----------------------------------------------------------------------------
(* The three-stage pipeline: the refinement *)

(* The last stage computes what the sequential machine does from the       *)
(* present registers.                                                      *)
LEMMA ThreeLastStage ==
  ASSUME Three!StageInv, v_id3, ~undef3
  PROVE  /\ ID_EX3.PC = Three!arch_pc
         /\ ID_EX3.wb = DecodeWb(Three!Machine!Insn, ID_EX3.wb.cpu_halt)
         /\ ID_EX3.rd = Three!Machine!Insn.rd
         /\ Three!alu_result = Three!Machine!alu_result
         /\ ID_EX3.reg_data_1 = Three!Machine!Arg1
         /\ ID_EX3.reg_data_2 = Three!Machine!Arg2
         /\ Three!PC_alu = Three!Machine!Target
         /\ Three!PC_src = Three!Machine!Taken
<1> DEFINE i == Fetch(mem3, ID_EX3.PC)
<1>1. ID_EX3.PC = Three!arch_pc
  BY ThreeNames DEF Three!arch_pc
<1>2. Three!Machine!Insn = i
  BY <1>1, OneFetch, ThreeNames DEF Three!Machine!Insn
<1>3. Three!Decoded(i)
  BY ThreeNames DEF Three!StageInv, Three!DecodedInOrder
<1> HIDE DEF i
<1>4. /\ ID_EX3.reg_data_1 = Three!Machine!Arg1
      /\ ID_EX3.reg_data_2 = Three!Machine!Arg2
      /\ Three!alu_data_2 = Three!Machine!alu_data_2
      /\ Three!alu_result = Three!Machine!alu_result
      /\ Three!PC_alu = Three!Machine!Target
  BY <1>1, <1>2, <1>3, OneDecoder, OneSum, ThreeNames DEF
     Three!Decoded, Three!Machine!Arg1, Three!Machine!Arg2,
     Three!Machine!alu_data_2, Three!Machine!alu_result, Three!Machine!Target,
     Three!alu_data_2, Three!alu_result, Three!PC_alu
<1>5. Three!PC_src = Three!Machine!Taken
  <2>1. /\ ID_EX3.wb.is_branch = Three!Machine!Ctl.is_branch
        /\ ID_EX3.wb.is_jump = Three!Machine!Ctl.is_jump
    <3>1. Three!Machine!Ctl = DecodeWb(i, FALSE)
      BY <1>2, OneDecoder, ThreeNames DEF Three!Machine!Ctl
    <3>2. ID_EX3.wb = DecodeWb(i, ID_EX3.wb.cpu_halt)
      BY <1>3, ThreeNames DEF Three!Decoded
    <3> QED
      BY <3>1, <3>2, SignalsOfInstruction
  <2>2. ID_EX3.ex = Three!Machine!DecodeEx(Three!Machine!Insn)
    BY <1>2, <1>3, OneDecoder, ThreeNames DEF Three!Decoded
  <2> QED
    BY <1>4, <2>1, <2>2, Zenon, ThreeNames DEF Three!PC_src,
       Three!Machine!Taken
<1> QED
  BY <1>1, <1>2, <1>3, <1>4, <1>5, ThreeNames DEF Three!Decoded

(* The operands in use are the present contents of the registers. *)
THEOREM ThreeStageForwarding == Three!Spec => []Three!OperandsFresh
<1>1. Three!StageInv => Three!OperandsFresh
  BY ThreeLastStage, ThreeNames DEF Three!OperandsFresh
<1> QED
  BY <1>1, ThreeStageInvariant, PTL

LEMMA ThreeCommitExecutes ==
  ASSUME Three!StageInv, NEW x \in XWords, Three!Clock(x), v_id3, ~undef3'
  PROVE  Three!Machine!Execute(x)
<1>1. ~undef3 /\ ~Three!cpu_finish
  BY ThreeNoHaltBeforeEbreak
<1>2. ~IsEbreak(Three!Machine!Insn)
  <2>1. ~IsEbreak(Fetch(mem3, ID_EX3.PC))
    BY ThreeNames DEF Three!Clock
  <2> QED
    BY <2>1, OneFetch, OneDecoder, ThreeNames DEF
       Three!Machine!Insn, Three!arch_pc
<1>3. /\ ID_EX3.wb.reg_write = Three!Machine!Ctl.reg_write
      /\ ID_EX3.wb.mem_read = Three!Machine!Ctl.mem_read
      /\ ID_EX3.wb.mem_write = Three!Machine!Ctl.mem_write
      /\ ID_EX3.wb.mem_to_reg = Three!Machine!Ctl.mem_to_reg
      /\ ID_EX3.wb.is_jump = Three!Machine!Ctl.is_jump
  <2>1. Three!Machine!Ctl = DecodeWb(Three!Machine!Insn, FALSE)
    BY OneDecoder, ThreeNames DEF Three!Machine!Ctl
  <2>2. ID_EX3.wb = DecodeWb(Three!Machine!Insn, ID_EX3.wb.cpu_halt)
    BY <1>1, ThreeLastStage
  <2> QED
    BY <2>1, <2>2, SignalsOfInstruction
<1>4. Three!arch_pc' = IF Three!Machine!Taken THEN Three!Machine!Target
                       ELSE AddW(Three!arch_pc, 4)
  <2>1. v_if3' = ~Three!PC_src /\ v_id3' = (~Three!PC_src /\ v_if3) /\ v_if3
    BY ThreeNames DEF Three!Clock, Three!StageInv, Three!BubblesInert
  <2>2. CASE Three!PC_src
    <3>1. Three!arch_pc' = PC_p3' /\ PC_p3' = Three!PC_alu
      BY <1>1, <2>1, <2>2, ThreeNames DEF Three!arch_pc, Three!Clock,
         Three!FetchStage
    <3> QED
      BY <1>1, <2>2, <3>1, ThreeLastStage
  <2>3. CASE ~Three!PC_src
    <3>1. Three!arch_pc' = IF_ID3.PC
      BY <2>1, <2>3, ThreeNames DEF Three!arch_pc, Three!Clock,
         Three!DecodeStage
    <3>2. IF_ID3.PC = AddW(ID_EX3.PC, 4)
      BY <1>1, ThreeNames DEF Three!StageInv, Three!DecodedInOrder
    <3> QED
      BY <1>1, <2>3, <3>1, <3>2, ThreeLastStage
  <2> QED
    BY <2>2, <2>3
<1>5. Three!reg_write_data(x) = Three!Machine!WriteData(x)
  BY <1>1, <1>3, ThreeLastStage, OneSum, OneDataRead, ThreeNames
     DEF Three!reg_write_data, Three!Machine!WriteData
<1>6. X_p3' = [r \in Reg |->
                 IF Three!Machine!Ctl.reg_write /\ r = Three!Machine!Insn.rd /\ r # 0
                 THEN Three!Machine!WriteData(x) ELSE X_p3[r]]
  <2>1. X_p3' = [r \in Reg |-> IF r # 0 /\ ID_EX3.rd = r /\ ID_EX3.wb.reg_write
                               THEN Three!reg_write_data(x) ELSE X_p3[r]]
    BY ThreeNames DEF Three!Clock, Three!ExecuteStage
  <2>2. ID_EX3.rd = Three!Machine!Insn.rd
    BY <1>1, ThreeLastStage
  <2> QED
    BY <1>3, <1>5, <2>1, <2>2
<1>7. /\ mem3' = MemNext(mem3, Three!Machine!alu_result,
                         Three!Machine!Ctl.mem_write,
                         Three!Machine!Arg2)
      /\ stdin_pointer3' = StdinNext(stdin_pointer3, Three!Machine!alu_result,
                                     Three!Machine!Ctl.mem_read)
      /\ stdout3' = StdoutNext(stdout3, Three!Machine!alu_result,
                               Three!Machine!Ctl.mem_write, Three!Machine!Arg2)
  BY <1>1, <1>3, ThreeLastStage, ThreeNames DEF Three!Clock, Three!ExecuteStage
<1> QED
  BY <1>2, <1>4, <1>6, <1>7, OneWord, OneReset, OneSum, OneBus,
     OneDecoder, ThreeNames DEF Three!Machine!Execute

(* A bubble is no step of the sequential machine. *)
LEMMA ThreeBubbleStutters ==
  ASSUME Three!StageInv, NEW x \in XWords, Three!Clock(x), ~v_id3
  PROVE  UNCHANGED Three!Machine!vars
<1>1. /\ ~Three!PC_src /\ ~Three!cpu_finish
      /\ ~ID_EX3.wb.mem_read /\ ~ID_EX3.wb.mem_write
  BY ThreeEffectsNeedValid, ThreeNames DEF Three!StageInv
<1>2. X_p3' = X_p3
  <2>1. ID_EX3.wb.reg_write => ID_EX3.rd = 0
    BY ThreeEffectsNeedValid, ThreeNames DEF Three!StageInv
  <2>2. X_p3' = [r \in Reg |-> X_p3[r]]
    BY <2>1, ThreeNames DEF Three!Clock, Three!ExecuteStage
  <2> QED
    BY <2>2, ThreeNames DEF Three!StageInv, Three!TypeOK
<1>3. mem3' = mem3 /\ stdin_pointer3' = stdin_pointer3 /\ stdout3' = stdout3
  BY <1>1, ThreeNames DEF Three!Clock, Three!ExecuteStage, MemNext, StdinNext,
     StdoutNext
<1>4. Three!arch_pc' = Three!arch_pc
  <2>1. v_if3' /\ v_id3' = v_if3
    BY <1>1, ThreeNames DEF Three!Clock, Three!StageInv, Three!TypeOK
  <2>2. ID_EX3'.PC = IF_ID3.PC /\ IF_ID3'.PC = PC_p3
    BY ThreeNames DEF Three!Clock, Three!FetchStage, Three!DecodeStage
  <2> QED
    BY <2>1, <2>2, ThreeNames DEF Three!arch_pc
<1> QED
  BY <1>2, <1>3, <1>4, ThreeNames DEF Three!Machine!vars

LEMMA ThreeInitIsInit == Three!Init => Three!Machine!Init
<1> SUFFICES ASSUME Three!Init PROVE Three!Machine!Init
  OBVIOUS
<1>1. Three!arch_pc = RESET_ADDR /\ mem3 \in Mem
  BY ImagesAssumption, ThreeNames DEF SameImages, Three!Init, Three!arch_pc
<1> QED
  BY <1>1, OneWord, OneReset, ThreeNames DEF Three!Init, Three!Machine!Init

LEMMA ThreeStepIsStep ==
  Three!StageInv /\ [Three!Next]_(Three!vars)
    => [Three!Machine!Next \/ undef3']_(Three!Machine!vars)
<1> SUFFICES ASSUME Three!StageInv, [Three!Next]_(Three!vars), ~undef3'
             PROVE  Three!Machine!Next \/ UNCHANGED Three!Machine!vars
  OBVIOUS
<1>1. CASE Three!Reset
  BY <1>1, OneWord, OneReset, ThreeNames DEF Three!Reset, Three!Machine!Next,
     Three!Machine!Reset, Three!arch_pc
<1>2. ASSUME NEW x \in XWords, Three!Clock(x)
      PROVE  Three!Machine!Next \/ UNCHANGED Three!Machine!vars
  BY <1>2, ThreeCommitExecutes, ThreeBubbleStutters, ThreeNames DEF
     Three!Machine!Next
<1>3. CASE UNCHANGED Three!vars
  BY <1>3, ThreeNames DEF Three!vars, Three!Machine!vars, Three!arch_pc
<1> QED
  BY <1>1, <1>2, <1>3, ThreeNames DEF Three!Next

(* The three-stage pipeline implements the sequential machine, until the   *)
(* program passes an EBREAK or overwrites an instruction in flight.        *)
THEOREM ThreeStageRefines == Three!Spec => Three!ImplementsMachine
BY ThreeInitIsInit, ThreeStepIsStep, ThreeStageInvariant, PTL DEF Three!Spec,
   Three!ImplementsMachine
(* The three-stage pipeline recognises and misses the same EBREAKs.        *)
ThreeBubbleAhead == v_if3 /\ ~v_id3 => ID_EX3.rd = 0
ThreeEbreakRule ==
  [][\A x \in XWords :
       Three!Clock(x) /\ ~undef3 /\ v_if3 /\ ~Three!PC_src
         /\ IsEbreak(Fetch(mem3, IF_ID3.PC))
         => (ID_EX3'.wb.cpu_halt <=>
               (v_id3 => Fetch(mem3, ID_EX3.PC).rd = 0))]_(Three!vars)

LEMMA ThreeBubbleAheadHolds == Three!Spec => []ThreeBubbleAhead
<1>1. Three!Init => ThreeBubbleAhead
  BY DEF Three!Init, ThreeBubbleAhead
<1>2. Three!StageInv /\ ThreeBubbleAhead /\ [Three!Next]_(Three!vars)
        => ThreeBubbleAhead'
  <2> SUFFICES ASSUME Three!StageInv, ThreeBubbleAhead,
                      [Three!Next]_(Three!vars)
               PROVE  ThreeBubbleAhead'
    OBVIOUS
  <2>1. CASE Three!Reset
    BY <2>1 DEF Three!Reset, ThreeBubbleAhead
  <2>2. ASSUME NEW x \in XWords, Three!Clock(x) PROVE ThreeBubbleAhead'
    <3>1. ~v_if3 => IF_ID3.Instruction \in {NopInstr, ZeroInstr}
      BY ThreeNames DEF Three!StageInv, Three!BubblesInert
    <3>2. ~v_if3 => IF_ID3.Instruction.rd = 0
      BY <3>1 DEF NopInstr, ZeroInstr
    <3>3. ID_EX3'.rd = IF_ID3.Instruction.rd
      BY <2>2 DEF Three!Clock, Three!DecodeStage
    <3>4. v_if3' /\ ~v_id3' => ~v_if3
      BY <2>2 DEF Three!Clock
    <3> QED
      BY <3>2, <3>3, <3>4 DEF ThreeBubbleAhead
  <2>3. CASE UNCHANGED Three!vars
    BY <2>3 DEF Three!vars, ThreeBubbleAhead
  <2> QED
    BY <2>1, <2>2, <2>3 DEF Three!Next
<1> QED
  BY <1>1, <1>2, ThreeStageInvariant, PTL DEF Three!Spec

THEOREM ThreeStageEbreakRecognised == Three!Spec => ThreeEbreakRule
<1>1. Three!StageInv /\ ThreeBubbleAhead =>
        (\A x \in XWords :
           Three!Clock(x) /\ ~undef3 /\ v_if3 /\ ~Three!PC_src
             /\ IsEbreak(Fetch(mem3, IF_ID3.PC))
             => (ID_EX3'.wb.cpu_halt <=>
                   (v_id3 => Fetch(mem3, ID_EX3.PC).rd = 0)))
  <2> SUFFICES ASSUME Three!StageInv, ThreeBubbleAhead, NEW x \in XWords,
                      Three!Clock(x), ~undef3, v_if3, ~Three!PC_src,
                      IsEbreak(Fetch(mem3, IF_ID3.PC))
               PROVE  ID_EX3'.wb.cpu_halt <=>
                        (v_id3 => Fetch(mem3, ID_EX3.PC).rd = 0)
    OBVIOUS
  <2>1. IF_ID3.Instruction = Fetch(mem3, IF_ID3.PC)
    BY ThreeNames DEF Three!StageInv, Three!FetchedInOrder
  <2>2. v_id3 => ID_EX3.rd = Fetch(mem3, ID_EX3.PC).rd
    BY ThreeNames DEF Three!StageInv, Three!DecodedInOrder, Three!Decoded
  <2>3. ~v_id3 => ID_EX3.rd = 0
    BY DEF ThreeBubbleAhead
  <2>4. Three!cpu_halt_n <=> ID_EX3.rd = 0
    BY <2>1, ThreeNames DEF Three!cpu_halt_n
  <2>5. ID_EX3'.wb.cpu_halt = Three!cpu_halt_n
    <3>1. ID_EX3'.wb = DecodeWb(IF_ID3.Instruction, Three!cpu_halt_n)
      BY ThreeNames DEF Three!Clock, Three!DecodeStage
    <3> QED
      BY <3>1 DEF DecodeWb
  <2> QED
    BY <2>2, <2>3, <2>4, <2>5
<1> QED
  BY <1>1, ThreeBubbleAheadHolds, ThreeStageInvariant, PTL DEF ThreeEbreakRule

----------------------------------------------------------------------------
(* The two-stage pipeline: types *)

LEMMA TwoConstants == 0 \in Reg /\ 0 \in Word /\ RESET_ADDR \in Word
BY WordSize, SizesAssumption DEF Reg, RESET_ADDR

LEMMA TwoFieldTypes ==
  ASSUME Two!TypeOK
  PROVE  /\ IF_ID2.PC \in Word /\ Two!Instruction \in Instr
         /\ Two!ctl \in WbCtl /\ Two!ex \in ExCtl
         /\ Rs1(Two!Instruction) \in Reg /\ Rs2(Two!Instruction) \in Reg
         /\ Two!Instruction.rd \in Reg /\ Two!Instruction.imm \in Word
<1>1. IF_ID2.PC \in Word /\ Two!Instruction \in Instr
  BY TwoNames DEF Two!TypeOK, Two!Instruction
<1> QED
  BY <1>1, DecodeType, TwoNames DEF Two!ctl, Two!ex

(* The combinational signals, each with its type. *)
LEMMA TwoSignalTypes ==
  ASSUME Two!TypeOK, NEW x \in XWords
  PROVE  /\ Two!reg_data_1 \in Word /\ Two!reg_data_2 \in Word
         /\ Two!alu_result \in Word /\ Two!PC_src \in BOOLEAN
         /\ Two!PC_alu \in Word
         /\ Two!reg_write_data(x) \in Word
<1>1. Two!reg_data_1 \in Word /\ Two!reg_data_2 \in Word
  BY TwoFieldTypes, TwoNames DEF Two!reg_data_1, Two!reg_data_2, Two!TypeOK
<1>2. Two!alu_data_2 \in Word
  BY <1>1, TwoFieldTypes, TwoNames DEF Two!alu_data_2
<1>3. Two!ex.alu_operator \in AluOp \cup BranchOp
  BY TwoFieldTypes DEF ExCtl
<1>4. Two!alu_result \in Word
  BY <1>1, <1>2, <1>3, AluAssumption, TwoNames DEF Two!alu_result
<1>5. Two!PC_src \in BOOLEAN
  BY TwoNames DEF Two!PC_src
<1>6. Two!PC_alu \in Word
  BY <1>1, TwoFieldTypes, AddWType, WordSize, TwoNames DEF Two!PC_alu
<1>7. Two!reg_write_data(x) \in Word
  BY <1>4, TwoFieldTypes, AddWType, DataReadType, DataAssumption, WordSize,
     TwoNames DEF Two!reg_write_data, Two!TypeOK
<1> QED
  BY <1>1, <1>4, <1>5, <1>6, <1>7

LEMMA TwoClockKeepsType ==
  ASSUME Two!TypeOK, NEW x \in XWords, Two!Clock(x)
  PROVE  Two!TypeOK'
<1>1. PC_p2' \in Word /\ IF_ID2' \in [PC : Word, Instruction : Instr]
  BY TwoSignalTypes, AddWType, FetchType, XInstrType, TwoNames DEF Two!Clock,
     Two!FetchStage, Two!TypeOK
<1>2. X_p2' \in [Reg -> Word]
  BY TwoSignalTypes, TwoNames DEF Two!Clock, Two!ExecuteStage, Two!TypeOK
<1>3. /\ mem2' \in Mem /\ stdin_pointer2' \in 0 .. NSTDIN - 1
      /\ stdout2' \in Seq(Word)
  <2>1. Two!ctl.mem_write \in BOOLEAN /\ Two!ctl.mem_read \in BOOLEAN
    BY TwoFieldTypes DEF WbCtl
  <2> QED
    BY <2>1, TwoSignalTypes, BusType, TwoNames DEF Two!Clock, Two!ExecuteStage,
       Two!TypeOK
<1>4. v_if2' \in BOOLEAN /\ undef2' \in BOOLEAN
  BY TwoNames DEF Two!Clock, Two!TypeOK, IsEbreak, Two!HitsFetched
<1> QED
  BY <1>1, <1>2, <1>3, <1>4, TwoNames DEF Two!TypeOK

----------------------------------------------------------------------------
(* The two-stage pipeline: bubbles and the program's path *)

(* What stands in place of an instruction does nothing. *)
LEMMA TwoBubbleIsInert ==
  ASSUME Two!Instruction \in {NopInstr, ZeroInstr}
  PROVE  /\ ~Two!PC_src /\ ~Two!cpu_halt
         /\ ~Two!ctl.mem_read /\ ~Two!ctl.mem_write
         /\ Two!Instruction.rd = 0
<1>1. Op(Two!Instruction) \in {"IMM", "OTHER"} /\ Two!Instruction.rd = 0
  BY SMT DEF Op, Legal, NopInstr, ZeroInstr
<1>2. /\ ~Two!ctl.is_branch /\ ~Two!ctl.is_jump
      /\ ~Two!ctl.mem_read /\ ~Two!ctl.mem_write
  BY <1>1, TwoNames DEF Two!ctl, DecodeWb
<1>3. ~IsEbreak(Two!Instruction)
  BY DEF IsEbreak, NopInstr, ZeroInstr
<1> QED
  BY <1>1, <1>2, <1>3, TwoNames DEF Two!PC_src, Two!cpu_halt

LEMMA TwoFetchedStable ==
  ASSUME Two!StageInv, NEW x \in XWords, Two!Clock(x), ~undef2'
  PROVE  Fetch(mem2', PC_p2) = Fetch(mem2, PC_p2)
<1>1. mem2' = MemNext(mem2, Two!alu_result, Two!ctl.mem_write, Two!reg_data_2)
  BY TwoNames DEF Two!Clock, Two!ExecuteStage
<1>2. CASE ~Two!ctl.mem_write
  BY <1>1, <1>2 DEF MemNext
<1>3. CASE Two!ctl.mem_write
  <2>1. v_if2
    BY <1>3, TwoBubbleIsInert, TwoNames DEF Two!StageInv, Two!InFlight
  <2>2. Footprint(Two!alu_result) \cap Footprint(PC_p2) = {}
    BY <1>3, <2>1, TwoNames DEF Two!Clock, Two!HitsFetched
  <2>3. PC_p2 \in Word /\ Two!alu_result \in Word /\ Two!reg_data_2 \in Word
        /\ mem2 \in Mem
    BY TwoSignalTypes, TwoNames DEF Two!StageInv, Two!TypeOK
  <2>4. Fetch(WriteMem(mem2, Two!alu_result, Two!reg_data_2), PC_p2)
          = Fetch(mem2, PC_p2)
    BY <2>2, <2>3, FetchUnaffected
  <2> QED
    BY <1>1, <2>4 DEF MemNext
<1> QED
  BY <1>2, <1>3

LEMMA TwoNoHaltBeforeEbreak ==
  ASSUME Two!StageInv, NEW x \in XWords, Two!Clock(x), ~undef2'
  PROVE  ~undef2 /\ ~Two!cpu_halt
<1>1. ~undef2 /\ ~(v_if2 /\ IsEbreak(Two!Instruction))
  BY TwoNames DEF Two!Clock
<1>2. CASE v_if2
  BY <1>1, <1>2, TwoNames DEF Two!cpu_halt
<1>3. CASE ~v_if2
  BY <1>1, <1>3, TwoBubbleIsInert, TwoNames DEF Two!StageInv, Two!InFlight
<1> QED
  BY <1>2, <1>3

LEMMA TwoClockKeepsPath ==
  ASSUME Two!StageInv, NEW x \in XWords, Two!Clock(x)
  PROVE  Two!InFlight'
<1>1. v_if2' = ~Two!PC_src
  BY TwoNames DEF Two!Clock
<1>2. ASSUME v_if2', ~undef2'
      PROVE  /\ Two!Instruction' = Fetch(mem2', IF_ID2'.PC)
             /\ PC_p2' = AddW(IF_ID2'.PC, 4)
  <2>1. ~Two!cpu_halt /\ ~Two!PC_src
    BY <1>1, <1>2, TwoNoHaltBeforeEbreak
  <2>2. /\ IF_ID2'.PC = PC_p2 /\ IF_ID2'.Instruction = Fetch(mem2, PC_p2)
        /\ PC_p2' = AddW(PC_p2, 4)
    BY <2>1, TwoNames DEF Two!Clock, Two!FetchStage
  <2> QED
    BY <1>2, <2>2, TwoFetchedStable, TwoNames DEF Two!Instruction
<1>3. ASSUME ~v_if2' PROVE Two!Instruction' \in {NopInstr, ZeroInstr}
  <2>1. Two!PC_src
    BY <1>1, <1>3
  <2> QED
    BY <2>1, TwoNames DEF Two!Clock, Two!FetchStage, Two!Instruction
<1> QED
  BY <1>2, <1>3, TwoNames DEF Two!InFlight

----------------------------------------------------------------------------
(* The two-stage pipeline: the inductive invariant and what it implies *)

LEMMA TwoInitInv == Two!Init => Two!StageInv
<1> SUFFICES ASSUME Two!Init PROVE Two!StageInv
  OBVIOUS
<1>1. Two!TypeOK
  <2>1. stdin_pointer2 \in 0 .. NSTDIN - 1 /\ mem2 \in Mem
    BY SizesAssumption, ImagesAssumption, TwoNames DEF SameImages, Two!Init
  <2> QED
    BY <2>1, TwoConstants, XInstrType, TwoNames DEF Two!Init, Two!TypeOK
<1>2. Two!InFlight
  BY TwoNames DEF Two!Init, Two!InFlight, Two!Instruction
<1> QED
  BY <1>1, <1>2, TwoNames DEF Two!StageInv

LEMMA TwoResetEstablishesInv == Two!TypeOK /\ Two!Reset => Two!StageInv'
<1> SUFFICES ASSUME Two!TypeOK, Two!Reset PROVE Two!StageInv'
  OBVIOUS
<1>1. Two!TypeOK'
  BY TwoConstants, XInstrType, TwoNames DEF Two!Reset, Two!TypeOK
<1>2. Two!InFlight'
  BY TwoNames DEF Two!Reset, Two!InFlight, Two!Instruction
<1> QED
  BY <1>1, <1>2, TwoNames DEF Two!StageInv

LEMMA TwoNextKeepsInv == Two!StageInv /\ [Two!Next]_(Two!vars) => Two!StageInv'
<1> SUFFICES ASSUME Two!StageInv, [Two!Next]_(Two!vars) PROVE Two!StageInv'
  OBVIOUS
<1>1. CASE Two!Reset
  BY <1>1, TwoResetEstablishesInv, TwoNames DEF Two!StageInv
<1>2. ASSUME NEW x \in XWords, Two!Clock(x) PROVE Two!StageInv'
  BY <1>2, TwoClockKeepsType, TwoClockKeepsPath, TwoNames DEF Two!StageInv
<1>3. CASE UNCHANGED Two!vars
  BY <1>3, TwoNames DEF Two!vars, Two!StageInv, Two!TypeOK, Two!InFlight,
     Two!Instruction
<1> QED
  BY <1>1, <1>2, <1>3, TwoNames DEF Two!Next

(* The fetched instruction is the one the program reached, or does nothing.*)
THEOREM TwoStageInvariant == Two!Spec => []Two!StageInv
BY TwoInitInv, TwoNextKeepsInv, PTL DEF Two!Spec

(* Finish is raised by every EBREAK the program reaches, and by nothing    *)
(* else.                                                                   *)
THEOREM TwoStageFinish == Two!Spec => []Two!FinishesAtEbreak
<1>1. Two!StageInv => Two!FinishesAtEbreak
  <2> SUFFICES ASSUME Two!StageInv, ~undef2
               PROVE  Two!cpu_halt <=> /\ v_if2
                                       /\ IsEbreak(Fetch(mem2, IF_ID2.PC))
                                       /\ Fetch(mem2, IF_ID2.PC).rd = 0
    BY TwoNames DEF Two!FinishesAtEbreak
  <2>1. CASE v_if2
    BY <2>1, TwoNames DEF Two!StageInv, Two!InFlight, Two!cpu_halt
  <2>2. CASE ~v_if2
    BY <2>2, TwoBubbleIsInert, TwoNames DEF Two!StageInv, Two!InFlight
  <2> QED
    BY <2>1, <2>2
<1> QED
  BY <1>1, TwoStageInvariant, PTL

----------------------------------------------------------------------------
(* The two-stage pipeline: the refinement *)

(* The second stage computes what the sequential machine does. *)
LEMMA TwoLastStage ==
  ASSUME Two!StageInv, v_if2, ~undef2
  PROVE  /\ IF_ID2.PC = Two!arch_pc
         /\ Two!Instruction = Two!Machine!Insn /\ Two!ctl = Two!Machine!Ctl
         /\ Two!reg_data_2 = Two!Machine!Arg2
         /\ Two!alu_result = Two!Machine!alu_result
         /\ Two!PC_alu = Two!Machine!Target
         /\ Two!PC_src = Two!Machine!Taken
<1>1. IF_ID2.PC = Two!arch_pc
  BY TwoNames DEF Two!arch_pc
<1>2. Two!Instruction = Two!Machine!Insn
  BY <1>1, OneFetch, TwoNames DEF Two!Machine!Insn, Two!StageInv,
     Two!InFlight
<1>3. /\ Two!ctl = Two!Machine!Ctl
      /\ Two!ex = Two!Machine!DecodeEx(Two!Machine!Insn)
  BY <1>2, OneDecoder, TwoNames DEF Two!ctl, Two!ex, Two!Machine!Ctl
<1>4. /\ Two!reg_data_1 = Two!Machine!Arg1 /\ Two!reg_data_2 = Two!Machine!Arg2
      /\ Two!alu_data_2 = Two!Machine!alu_data_2
      /\ Two!alu_result = Two!Machine!alu_result
      /\ Two!PC_alu = Two!Machine!Target
  BY <1>1, <1>2, <1>3, OneDecoder, OneSum, TwoNames DEF
     Two!Machine!Arg1, Two!Machine!Arg2, Two!Machine!alu_data_2,
     Two!Machine!alu_result, Two!Machine!Target, Two!reg_data_1,
     Two!reg_data_2, Two!alu_data_2, Two!alu_result, Two!PC_alu
<1>5. Two!PC_src = Two!Machine!Taken
  BY <1>3, <1>4, Zenon, TwoNames DEF Two!PC_src, Two!Machine!Taken
<1> QED
  BY <1>1, <1>2, <1>3, <1>4, <1>5

LEMMA TwoCommitExecutes ==
  ASSUME Two!StageInv, NEW x \in XWords, Two!Clock(x), v_if2, ~undef2'
  PROVE  Two!Machine!Execute(x)
<1>1. ~undef2 /\ ~Two!cpu_halt
  BY TwoNoHaltBeforeEbreak
<1>2. ~IsEbreak(Two!Machine!Insn)
  <2>1. ~IsEbreak(Two!Instruction)
    BY TwoNames DEF Two!Clock
  <2> QED
    BY <1>1, <2>1, TwoLastStage
<1>3. Two!arch_pc' = IF Two!Machine!Taken THEN Two!Machine!Target
                     ELSE AddW(Two!arch_pc, 4)
  <2>1. Two!PC_src => Two!arch_pc' = Two!PC_alu
    BY <1>1, TwoNames DEF Two!Clock, Two!FetchStage, Two!arch_pc
  <2>2. Two!PC_src \/ Two!arch_pc' = PC_p2
    BY TwoNames DEF Two!Clock, Two!FetchStage, Two!arch_pc
  <2>3. PC_p2 = AddW(IF_ID2.PC, 4)
    BY <1>1, TwoNames DEF Two!StageInv, Two!InFlight
  <2> QED
    BY <1>1, <2>1, <2>2, <2>3, TwoLastStage
<1>4. Two!reg_write_data(x) = Two!Machine!WriteData(x)
  BY <1>1, TwoLastStage, OneSum, OneDataRead, TwoNames DEF
     Two!reg_write_data, Two!Machine!WriteData
<1>5. X_p2' = [r \in Reg |->
                 IF Two!Machine!Ctl.reg_write /\ r = Two!Machine!Insn.rd /\ r # 0
                 THEN Two!Machine!WriteData(x) ELSE X_p2[r]]
  BY <1>1, <1>4, TwoLastStage, TwoNames DEF Two!Clock, Two!ExecuteStage
<1>6. /\ mem2' = MemNext(mem2, Two!Machine!alu_result,
                         Two!Machine!Ctl.mem_write,
                         Two!Machine!Arg2)
      /\ stdin_pointer2' = StdinNext(stdin_pointer2, Two!Machine!alu_result,
                                     Two!Machine!Ctl.mem_read)
      /\ stdout2' = StdoutNext(stdout2, Two!Machine!alu_result,
                               Two!Machine!Ctl.mem_write, Two!Machine!Arg2)
  BY <1>1, TwoLastStage, TwoNames DEF Two!Clock, Two!ExecuteStage
<1> QED
  BY <1>2, <1>3, <1>5, <1>6, OneWord, OneReset, OneSum, OneBus,
     OneDecoder, TwoNames DEF Two!Machine!Execute

(* A bubble is no step of the sequential machine. *)
LEMMA TwoBubbleStutters ==
  ASSUME Two!StageInv, NEW x \in XWords, Two!Clock(x), ~v_if2
  PROVE  UNCHANGED Two!Machine!vars
<1>1. /\ ~Two!PC_src /\ ~Two!ctl.mem_read /\ ~Two!ctl.mem_write
      /\ Two!Instruction.rd = 0
  BY TwoBubbleIsInert, TwoNames DEF Two!StageInv, Two!InFlight
<1>2. X_p2' = X_p2
  <2>1. X_p2' = [r \in Reg |-> X_p2[r]]
    BY <1>1, TwoNames DEF Two!Clock, Two!ExecuteStage
  <2> QED
    BY <2>1, TwoNames DEF Two!StageInv, Two!TypeOK
<1>3. mem2' = mem2 /\ stdin_pointer2' = stdin_pointer2 /\ stdout2' = stdout2
  BY <1>1, TwoNames DEF Two!Clock, Two!ExecuteStage, MemNext, StdinNext,
     StdoutNext
<1>4. Two!arch_pc' = Two!arch_pc
  BY <1>1, TwoNames DEF Two!Clock, Two!FetchStage, Two!arch_pc
<1> QED
  BY <1>2, <1>3, <1>4, TwoNames DEF Two!Machine!vars

LEMMA TwoInitIsInit == Two!Init => Two!Machine!Init
<1> SUFFICES ASSUME Two!Init PROVE Two!Machine!Init
  OBVIOUS
<1>1. Two!arch_pc = RESET_ADDR /\ mem2 \in Mem
  BY ImagesAssumption, TwoNames DEF SameImages, Two!Init, Two!arch_pc
<1> QED
  BY <1>1, OneWord, OneReset, TwoNames DEF Two!Init, Two!Machine!Init

LEMMA TwoStepIsStep ==
  Two!StageInv /\ [Two!Next]_(Two!vars)
    => [Two!Machine!Next \/ undef2']_(Two!Machine!vars)
<1> SUFFICES ASSUME Two!StageInv, [Two!Next]_(Two!vars), ~undef2'
             PROVE  Two!Machine!Next \/ UNCHANGED Two!Machine!vars
  OBVIOUS
<1>1. CASE Two!Reset
  BY <1>1, OneWord, OneReset, TwoNames DEF Two!Reset, Two!Machine!Next,
     Two!Machine!Reset, Two!arch_pc
<1>2. ASSUME NEW x \in XWords, Two!Clock(x)
      PROVE  Two!Machine!Next \/ UNCHANGED Two!Machine!vars
  BY <1>2, TwoCommitExecutes, TwoBubbleStutters, TwoNames DEF Two!Machine!Next
<1>3. CASE UNCHANGED Two!vars
  BY <1>3, TwoNames DEF Two!vars, Two!Machine!vars, Two!arch_pc
<1> QED
  BY <1>1, <1>2, <1>3, TwoNames DEF Two!Next

(* The two-stage pipeline implements the sequential machine, until the     *)
(* program passes an EBREAK or overwrites what is being fetched.           *)
THEOREM TwoStageRefines == Two!Spec => Two!ImplementsMachine
BY TwoInitIsInit, TwoStepIsStep, TwoStageInvariant, PTL DEF Two!Spec,
   Two!ImplementsMachine
----------------------------------------------------------------------------
(* Side by side in the testbed *)

(* Every step of the testbed is a clock edge or a reset of each pipeline,  *)
(* or leaves them alone.                                                   *)
LEMMA LockstepRuns ==
  AllSpec => Spec /\ Three!Spec /\ Two!Spec
<1>1. AllInit => Init /\ Three!Init /\ Two!Init
  BY DEF AllInit, TbInit
<1>2. [AllNext]_pipeVars => [Next]_vars
  BY DEF AllNext, AllClock, AllReset, AllFinish, TbEdge, TbReset, TbFinish,
         pipeVars, tbVars, Next
<1>3. [AllNext]_pipeVars => [Three!Next]_(Three!vars)
  BY DEF AllNext, AllClock, AllReset, AllFinish, Three!Next, Three!vars,
         pipeVars, vars3
<1>4. [AllNext]_pipeVars => [Two!Next]_(Two!vars)
  BY DEF AllNext, AllClock, AllReset, AllFinish, Two!Next, Two!vars,
         pipeVars, vars2
<1> QED
  BY <1>1, <1>2, <1>3, <1>4, PTL DEF AllSpec, Spec, Three!Spec, Two!Spec

(* The three-stage pipeline in the testbed: consecutive instructions with  *)
(* fresh operands, and everything else inert.                              *)
THEOREM ThreeStageInLockstep == AllSpec => []ThreeStageInv
BY LockstepRuns, ThreeStageInvariant, PTL DEF ThreeStageInv

(* In the testbed it is the sequential machine. *)
THEOREM ThreeStageIsMachine == AllSpec => ThreeStageImplementsMachine
BY LockstepRuns, ThreeStageRefines, PTL DEF ThreeStageImplementsMachine

(* The two-stage pipeline in the testbed finishes at every EBREAK the      *)
(* program reaches and at nothing else.                                    *)
THEOREM TwoStageInLockstep == AllSpec => []TwoStageFinishes
BY LockstepRuns, TwoStageFinish, PTL DEF TwoStageFinishes

(* In the testbed it is the sequential machine. *)
THEOREM TwoStageIsMachine == AllSpec => TwoStageImplementsMachine
BY LockstepRuns, TwoStageRefines, PTL DEF TwoStageImplementsMachine

(* So is the four-stage pipeline, and it sees an EBREAK at a branch target *)
(* whatever its neighbours in the testbed do.                              *)
THEOREM FourStageInLockstep ==
  AllSpec => []PipeInv /\ ImplementsMachine /\ EbreakAtTargetRecognised
BY LockstepRuns, PipelineInvariant, PipelineImplementsMachine, EbreakAtTarget,
   PTL
----------------------------------------------------------------------------
(* A stage more only delays a program *)

(* The state of the sequential machine as a record, and what the           *)
(* instruction at s.pc makes of it; x is what an undriven bus reads as.    *)
(* The operators are Isa's definitions in the words of CpuPkg.             *)
InsnAt(s) == Fetch(s.mem, s.pc)
Operand2(s) == IF DecodeEx(InsnAt(s)).alu_src THEN InsnAt(s).imm
               ELSE s.X[Rs2(InsnAt(s))]
ResultAt(s) == AluResult(DecodeEx(InsnAt(s)).alu_operator,
                         s.X[Rs1(InsnAt(s))], Operand2(s))
TakenAt(s) ==
  \/ /\ DecodeWb(InsnAt(s), FALSE).is_branch
     /\ AluBranch(DecodeEx(InsnAt(s)).alu_operator,
                  s.X[Rs1(InsnAt(s))], Operand2(s))
  \/ DecodeWb(InsnAt(s), FALSE).is_jump
TargetAt(s) == AddW(IF DecodeEx(InsnAt(s)).alu_pc_reg_src
                    THEN s.X[Rs1(InsnAt(s))] ELSE s.pc, InsnAt(s).imm)
WrittenAt(s, x) ==
  IF DecodeWb(InsnAt(s), FALSE).is_jump THEN AddW(s.pc, 4)
  ELSE IF DecodeWb(InsnAt(s), FALSE).mem_to_reg
  THEN DataRead(s.mem, s.ptr, ResultAt(s), x) ELSE ResultAt(s)
RegistersAt(s, x) ==
  [r \in Reg |-> IF /\ DecodeWb(InsnAt(s), FALSE).reg_write
                    /\ r = InsnAt(s).rd /\ r # 0
                 THEN WrittenAt(s, x) ELSE s.X[r]]
Outcome(s, x) ==
  [pc  |-> IF TakenAt(s) THEN TargetAt(s) ELSE AddW(s.pc, 4),
   X   |-> RegistersAt(s, x),
   mem |-> MemNext(s.mem, ResultAt(s), DecodeWb(InsnAt(s), FALSE).mem_write,
                   s.X[Rs2(InsnAt(s))]),
   ptr |-> StdinNext(s.ptr, ResultAt(s), DecodeWb(InsnAt(s), FALSE).mem_read),
   out |-> StdoutNext(s.out, ResultAt(s),
                      DecodeWb(InsnAt(s), FALSE).mem_write,
                      s.X[Rs2(InsnAt(s))])]

(* The machines the three pipelines refine. *)
State4 == [pc |-> arch_pc, X |-> X_p, mem |-> mem, ptr |-> stdin_pointer,
           out |-> stdout]
State3 == [pc |-> Three!arch_pc, X |-> X_p3, mem |-> mem3,
           ptr |-> stdin_pointer3, out |-> stdout3]
State2 == [pc |-> Two!arch_pc, X |-> X_p2, mem |-> mem2,
           ptr |-> stdin_pointer2, out |-> stdout2]

LEMMA MachineAt4 ==
  /\ InsnAt(State4) = Machine!Insn
  /\ ResultAt(State4) = Machine!alu_result
  /\ TakenAt(State4) = Machine!Taken
  /\ TargetAt(State4) = Machine!Target
  /\ \A x : WrittenAt(State4, x) = Machine!WriteData(x)
<1>1. /\ InsnAt(State4) = Machine!Insn
      /\ DecodeWb(InsnAt(State4), FALSE) = Machine!Ctl
  BY SameFetch, SameDecoder DEF InsnAt, State4, Machine!Insn, Machine!Ctl
<1>2. /\ DecodeEx(InsnAt(State4)) = Machine!DecodeEx(Machine!Insn)
      /\ State4.X[Rs1(InsnAt(State4))] = Machine!Arg1
      /\ State4.X[Rs2(InsnAt(State4))] = Machine!Arg2
  BY <1>1, SameDecoder DEF State4, Machine!Arg1, Machine!Arg2
<1>3. Operand2(State4) = Machine!alu_data_2
  BY <1>1, <1>2 DEF Operand2, Machine!alu_data_2
<1>4. ResultAt(State4) = Machine!alu_result
  BY <1>2, <1>3 DEF ResultAt, Machine!alu_result
<1>5. TakenAt(State4) = Machine!Taken
  BY <1>1, <1>2, <1>3, Zenon DEF TakenAt, Machine!Taken
<1>6. TargetAt(State4) = Machine!Target
  BY <1>1, <1>2, SameAddW DEF TargetAt, Machine!Target, State4
<1>7. ASSUME NEW x PROVE WrittenAt(State4, x) = Machine!WriteData(x)
  BY <1>1, <1>4, SameAddW, SameDataRead
     DEF WrittenAt, Machine!WriteData, State4
<1> QED
  BY <1>1, <1>4, <1>5, <1>6, <1>7

LEMMA Executes4 ==
  ASSUME NEW x, Machine!Execute(x)
  PROVE  State4' = Outcome(State4, x)
<1>1. /\ DecodeWb(InsnAt(State4), FALSE) = Machine!Ctl
      /\ State4.X[Rs2(InsnAt(State4))] = Machine!Arg2
  BY MachineAt4, SameDecoder DEF State4, Machine!Arg2, Machine!Ctl
<1>2. arch_pc' = Outcome(State4, x).pc
  BY MachineAt4, SameAddW DEF Machine!Execute, Outcome, State4
<1>3. X_p' = Outcome(State4, x).X
  BY <1>1, MachineAt4, SameSets
     DEF Machine!Execute, Outcome, RegistersAt, State4
<1>4. mem' = Outcome(State4, x).mem
  BY <1>1, MachineAt4, SameBus DEF Machine!Execute, Outcome, State4
<1>5. stdin_pointer' = Outcome(State4, x).ptr
  BY <1>1, MachineAt4, SameBus DEF Machine!Execute, Outcome, State4
<1>6. stdout' = Outcome(State4, x).out
  BY <1>1, MachineAt4, SameBus DEF Machine!Execute, Outcome, State4
<1> QED
  BY <1>2, <1>3, <1>4, <1>5, <1>6 DEF State4, Outcome

LEMMA MachineAt3 ==
  /\ InsnAt(State3) = Three!Machine!Insn
  /\ ResultAt(State3) = Three!Machine!alu_result
  /\ TakenAt(State3) = Three!Machine!Taken
  /\ TargetAt(State3) = Three!Machine!Target
  /\ \A x : WrittenAt(State3, x) = Three!Machine!WriteData(x)
<1>1. /\ InsnAt(State3) = Three!Machine!Insn
      /\ DecodeWb(InsnAt(State3), FALSE) = Three!Machine!Ctl
  BY OneFetch, OneDecoder
     DEF InsnAt, State3, Three!Machine!Insn, Three!Machine!Ctl
<1>2. /\ DecodeEx(InsnAt(State3)) = Three!Machine!DecodeEx(Three!Machine!Insn)
      /\ State3.X[Rs1(InsnAt(State3))] = Three!Machine!Arg1
      /\ State3.X[Rs2(InsnAt(State3))] = Three!Machine!Arg2
  BY <1>1, OneDecoder DEF State3, Three!Machine!Arg1, Three!Machine!Arg2
<1>3. Operand2(State3) = Three!Machine!alu_data_2
  BY <1>1, <1>2 DEF Operand2, Three!Machine!alu_data_2
<1>4. ResultAt(State3) = Three!Machine!alu_result
  BY <1>2, <1>3 DEF ResultAt, Three!Machine!alu_result
<1>5. TakenAt(State3) = Three!Machine!Taken
  BY <1>1, <1>2, <1>3, Zenon DEF TakenAt, Three!Machine!Taken
<1>6. TargetAt(State3) = Three!Machine!Target
  BY <1>1, <1>2, OneSum DEF TargetAt, Three!Machine!Target, State3
<1>7. ASSUME NEW x PROVE WrittenAt(State3, x) = Three!Machine!WriteData(x)
  BY <1>1, <1>4, OneSum, OneDataRead
     DEF WrittenAt, Three!Machine!WriteData, State3
<1> QED
  BY <1>1, <1>4, <1>5, <1>6, <1>7

LEMMA Executes3 ==
  ASSUME NEW x, Three!Machine!Execute(x)
  PROVE  State3' = Outcome(State3, x)
<1>1. /\ DecodeWb(InsnAt(State3), FALSE) = Three!Machine!Ctl
      /\ State3.X[Rs2(InsnAt(State3))] = Three!Machine!Arg2
  BY MachineAt3, OneDecoder DEF State3, Three!Machine!Arg2, Three!Machine!Ctl
<1>2. Three!arch_pc' = Outcome(State3, x).pc
  BY MachineAt3, OneSum DEF Three!Machine!Execute, Outcome, State3
<1>3. X_p3' = Outcome(State3, x).X
  BY <1>1, MachineAt3, OneWord
     DEF Three!Machine!Execute, Outcome, RegistersAt, State3
<1>4. mem3' = Outcome(State3, x).mem
  BY <1>1, MachineAt3, OneBus DEF Three!Machine!Execute, Outcome, State3
<1>5. stdin_pointer3' = Outcome(State3, x).ptr
  BY <1>1, MachineAt3, OneBus DEF Three!Machine!Execute, Outcome, State3
<1>6. stdout3' = Outcome(State3, x).out
  BY <1>1, MachineAt3, OneBus DEF Three!Machine!Execute, Outcome, State3
<1> QED
  BY <1>2, <1>3, <1>4, <1>5, <1>6 DEF State3, Outcome

LEMMA MachineAt2 ==
  /\ InsnAt(State2) = Two!Machine!Insn
  /\ ResultAt(State2) = Two!Machine!alu_result
  /\ TakenAt(State2) = Two!Machine!Taken
  /\ TargetAt(State2) = Two!Machine!Target
  /\ \A x : WrittenAt(State2, x) = Two!Machine!WriteData(x)
<1>1. /\ InsnAt(State2) = Two!Machine!Insn
      /\ DecodeWb(InsnAt(State2), FALSE) = Two!Machine!Ctl
  BY OneFetch, OneDecoder DEF InsnAt, State2, Two!Machine!Insn, Two!Machine!Ctl
<1>2. /\ DecodeEx(InsnAt(State2)) = Two!Machine!DecodeEx(Two!Machine!Insn)
      /\ State2.X[Rs1(InsnAt(State2))] = Two!Machine!Arg1
      /\ State2.X[Rs2(InsnAt(State2))] = Two!Machine!Arg2
  BY <1>1, OneDecoder DEF State2, Two!Machine!Arg1, Two!Machine!Arg2
<1>3. Operand2(State2) = Two!Machine!alu_data_2
  BY <1>1, <1>2 DEF Operand2, Two!Machine!alu_data_2
<1>4. ResultAt(State2) = Two!Machine!alu_result
  BY <1>2, <1>3 DEF ResultAt, Two!Machine!alu_result
<1>5. TakenAt(State2) = Two!Machine!Taken
  BY <1>1, <1>2, <1>3, Zenon DEF TakenAt, Two!Machine!Taken
<1>6. TargetAt(State2) = Two!Machine!Target
  BY <1>1, <1>2, OneSum DEF TargetAt, Two!Machine!Target, State2
<1>7. ASSUME NEW x PROVE WrittenAt(State2, x) = Two!Machine!WriteData(x)
  BY <1>1, <1>4, OneSum, OneDataRead
     DEF WrittenAt, Two!Machine!WriteData, State2
<1> QED
  BY <1>1, <1>4, <1>5, <1>6, <1>7

LEMMA Executes2 ==
  ASSUME NEW x, Two!Machine!Execute(x)
  PROVE  State2' = Outcome(State2, x)
<1>1. /\ DecodeWb(InsnAt(State2), FALSE) = Two!Machine!Ctl
      /\ State2.X[Rs2(InsnAt(State2))] = Two!Machine!Arg2
  BY MachineAt2, OneDecoder DEF State2, Two!Machine!Arg2, Two!Machine!Ctl
<1>2. Two!arch_pc' = Outcome(State2, x).pc
  BY MachineAt2, OneSum DEF Two!Machine!Execute, Outcome, State2
<1>3. X_p2' = Outcome(State2, x).X
  BY <1>1, MachineAt2, OneWord
     DEF Two!Machine!Execute, Outcome, RegistersAt, State2
<1>4. mem2' = Outcome(State2, x).mem
  BY <1>1, MachineAt2, OneBus DEF Two!Machine!Execute, Outcome, State2
<1>5. stdin_pointer2' = Outcome(State2, x).ptr
  BY <1>1, MachineAt2, OneBus DEF Two!Machine!Execute, Outcome, State2
<1>6. stdout2' = Outcome(State2, x).out
  BY <1>1, MachineAt2, OneBus DEF Two!Machine!Execute, Outcome, State2
<1> QED
  BY <1>2, <1>3, <1>4, <1>5, <1>6 DEF State2, Outcome

----------------------------------------------------------------------------
(* What a program has written of what it is going to write *)

Prefix(s, t) == Len(s) <= Len(t) /\ \A i \in 1 .. Len(s) : s[i] = t[i]

LEMMA PrefixReflexive == \A s : s \in Seq(Word) => Prefix(s, s)
BY DEF Prefix

LEMMA PrefixAppend ==
  ASSUME NEW s \in Seq(Word), NEW t \in Seq(Word), NEW w \in Word,
         Prefix(s, t)
  PROVE  Prefix(s, Append(t, w))
BY DEF Prefix

LEMMA PrefixIsPrefix ==
  ASSUME NEW s \in Seq(Word), NEW t \in Seq(Word), Prefix(s, t)
  PROVE  IsPrefix(s, t)
<1>1. SubSeq(s, 1, Len(s)) = SubSeq(t, 1, Len(s))
  BY DEF Prefix
<1> QED
  BY <1>1 DEF Prefix, IsPrefix

(* A step of the machine keeps what was written. *)
LEMMA OutcomeWrites ==
  ASSUME NEW s, NEW x, NEW t, s.out \in Seq(Word), t = Outcome(s, x),
         t.out \in Seq(Word)
  PROVE  /\ Prefix(s.out, t.out)
         /\ \A u \in Seq(Word) : Prefix(u, s.out) => Prefix(u, t.out)
<1> DEFINE w == s.X[Rs2(InsnAt(s))]
<1>1. t.out = s.out \/ t.out = Append(s.out, w)
  BY DEF Outcome, StdoutNext
<1> HIDE DEF w
<1>2. CASE t.out = s.out
  BY <1>2, PrefixReflexive
<1>3. CASE t.out = Append(s.out, w)
  <2>1. w \in Word
    <3>1. Len(t.out) = Len(s.out) + 1 /\ t.out[Len(s.out) + 1] = w
      BY <1>3
    <3> QED
      BY <3>1
  <2> QED
    BY <1>3, <2>1, PrefixAppend, PrefixReflexive
<1> QED
  BY <1>1, <1>2, <1>3

----------------------------------------------------------------------------
(* The executions between two pipelines *)

(* h leads from the machine f to the machine l in n instructions, whatever *)
(* an undriven bus reads as.                                               *)
Trail(h, n, f, l) ==
  /\ h[0] = f /\ h[n] = l
  /\ \A i \in 1 .. n : \A x \in XWords : h[i] = Outcome(h[i - 1], x)
  /\ \A i \in 0 .. n : h[i].out \in Seq(Word) /\ Prefix(h[i].out, l.out)

(* The follower f is n instructions behind the leader l.  Only when its    *)
(* stages leave it no instruction to finish (early) can it be none behind; *)
(* and when the leader's last stage is empty (not ready), what emptied it  *)
(* is a taken branch that the follower has yet to execute.                 *)
Behind(h, n, f, l, early, ready) ==
  /\ Trail(h, n, f, l)
  /\ n = 0 => early
  /\ n > 0 => ready \/ TakenAt(h[n - 1])
Lag(f, l, early, ready) ==
  \E n \in Nat : \E h : Behind(h, n, f, l, early, ready)

(* The leader executes an instruction. *)
LEMMA TrailGrows ==
  ASSUME NEW n \in Nat, NEW h, NEW f, NEW l, NEW l2, Trail(h, n, f, l),
         \A y \in XWords : l2 = Outcome(l, y), l2.out \in Seq(Word)
  PROVE  LET g == [i \in 0 .. n + 1 |-> IF i <= n THEN h[i] ELSE l2]
         IN  Trail(g, n + 1, f, l2) /\ g[n] = l
<1> DEFINE g == [i \in 0 .. n + 1 |-> IF i <= n THEN h[i] ELSE l2]
<1>1. /\ h[0] = f /\ h[n] = l
      /\ \A i \in 1 .. n : \A x \in XWords : h[i] = Outcome(h[i - 1], x)
      /\ \A i \in 0 .. n : h[i].out \in Seq(Word) /\ Prefix(h[i].out, l.out)
  BY DEF Trail
<1>2. /\ \A i \in 0 .. n : g[i] = h[i]
      /\ g[n + 1] = l2
  OBVIOUS
<1> HIDE DEF g
<1>3. PICK y \in XWords : l2 = Outcome(l, y)
  BY DataAssumption
<1>4. \A i \in 1 .. n + 1 : \A x \in XWords : g[i] = Outcome(g[i - 1], x)
  <2> TAKE i \in 1 .. n + 1
  <2> TAKE x \in XWords
  <2>1. CASE i \in 1 .. n
    BY <1>1, <1>2, <2>1
  <2>2. CASE i = n + 1
    BY <1>1, <1>2, <2>2
  <2> QED
    BY <2>1, <2>2
<1>5. \A i \in 0 .. n + 1 : g[i].out \in Seq(Word) /\ Prefix(g[i].out, l2.out)
  <2>1. l.out \in Seq(Word)
    BY <1>1
  <2>2. \A u \in Seq(Word) : Prefix(u, l.out) => Prefix(u, l2.out)
    BY <1>3, <2>1, OutcomeWrites
  <2> TAKE i \in 0 .. n + 1
  <2>3. CASE i \in 0 .. n
    BY <1>1, <1>2, <2>2, <2>3
  <2>4. CASE i = n + 1
    BY <1>2, <2>4, PrefixReflexive
  <2> QED
    BY <2>3, <2>4
<1>6. g[0] = f /\ g[n] = l
  BY <1>1, <1>2
<1>7. Trail(g, n + 1, f, l2)
  BY <1>2, <1>4, <1>5, <1>6 DEF Trail
<1> QED
  BY <1>6, <1>7 DEF g

(* The follower executes the instruction it was behind by. *)
LEMMA TrailShrinks ==
  ASSUME NEW n \in Nat \ {0}, NEW h, NEW f, NEW l, NEW f2, NEW x \in XWords,
         Trail(h, n, f, l), f2 = Outcome(f, x)
  PROVE  LET g == [i \in 0 .. n - 1 |-> h[i + 1]]
         IN  Trail(g, n - 1, f2, l) /\ (n > 1 => g[n - 2] = h[n - 1])
<1> DEFINE g == [i \in 0 .. n - 1 |-> h[i + 1]]
<1>1. /\ h[0] = f /\ h[n] = l
      /\ \A i \in 1 .. n : \A y \in XWords : h[i] = Outcome(h[i - 1], y)
      /\ \A i \in 0 .. n : h[i].out \in Seq(Word) /\ Prefix(h[i].out, l.out)
  BY DEF Trail
<1>2. \A i \in 0 .. n - 1 : g[i] = h[i + 1]
  OBVIOUS
<1> HIDE DEF g
<1>3. g[0] = f2 /\ g[n - 1] = l
  <2>1. 1 \in 1 .. n /\ 0 \in 0 .. n - 1 /\ n - 1 \in 0 .. n - 1
    OBVIOUS
  <2>2. h[1] = Outcome(h[0], x)
    BY <1>1, <2>1
  <2> QED
    BY <1>1, <1>2, <2>1, <2>2
<1>4. \A i \in 1 .. n - 1 : \A y \in XWords : g[i] = Outcome(g[i - 1], y)
  <2> TAKE i \in 1 .. n - 1
  <2> TAKE y \in XWords
  <2>1. i + 1 \in 1 .. n /\ i \in 0 .. n - 1 /\ i - 1 \in 0 .. n - 1
    OBVIOUS
  <2>2. h[i + 1] = Outcome(h[(i + 1) - 1], y)
    BY <1>1, <2>1
  <2>3. g[i] = h[i + 1] /\ g[i - 1] = h[i]
    BY <1>2, <2>1
  <2> QED
    BY <2>2, <2>3
<1>5. \A i \in 0 .. n - 1 : g[i].out \in Seq(Word) /\ Prefix(g[i].out, l.out)
  BY <1>1, <1>2
<1>6. Trail(g, n - 1, f2, l)
  BY <1>3, <1>4, <1>5 DEF Trail
<1>7. n > 1 => g[n - 2] = h[n - 1]
  BY <1>2
<1> QED
  BY <1>6, <1>7 DEF g

(* One clock edge of two neighbouring pipelines: the follower commits an   *)
(* instruction or not, the leader is ready to or not.                      *)
Edges(f, f2, l, l2, early, early2, ready, ready2, commits, x) ==
  /\ early \in BOOLEAN /\ early2 \in BOOLEAN
  /\ ready \in BOOLEAN /\ ready2 \in BOOLEAN /\ commits \in BOOLEAN
  /\ commits => f2 = Outcome(f, x)
  /\ ~commits => f2 = f
  /\ ready => \A y \in XWords : l2 = Outcome(l, y)
  /\ ~ready => l2 = l
  /\ l2.out \in Seq(Word)
  /\ early => ~commits
  /\ ready => ready2 \/ TakenAt(l)
  /\ commits /\ TakenAt(f) => early2
  /\ early /\ ~commits /\ ~ready => early2

(* Whichever of the two act, the distance between them stays explained.    *)
LEMMA LagKept ==
  ASSUME NEW f, NEW f2, NEW l, NEW l2, NEW early, NEW early2, NEW ready,
         NEW ready2, NEW commits, NEW x \in XWords,
         Edges(f, f2, l, l2, early, early2, ready, ready2, commits, x),
         Lag(f, l, early, ready)
  PROVE  Lag(f2, l2, early2, ready2)
<1> USE DEF Edges
<1>1. PICK n \in Nat : \E h : Behind(h, n, f, l, early, ready)
  BY DEF Lag
<1>2. PICK h : Behind(h, n, f, l, early, ready)
  BY <1>1
<1>3. /\ Trail(h, n, f, l) /\ (n = 0 => early)
      /\ (n > 0 => ready \/ TakenAt(h[n - 1]))
  BY <1>2 DEF Behind
<1>4. commits => n > 0
  BY <1>3
<1>5. CASE ~commits /\ ~ready
  <2>1. n = 0 => early2
    BY <1>3, <1>5
  <2>2. Behind(h, n, f2, l2, early2, ready2)
    BY <1>3, <1>5, <2>1 DEF Behind
  <2> QED
    BY <2>2 DEF Lag
<1>6. CASE ~commits /\ ready
  <2> DEFINE g == [i \in 0 .. n + 1 |-> IF i <= n THEN h[i] ELSE l2]
  <2>1. Trail(g, n + 1, f, l2) /\ g[n] = l
    BY <1>3, <1>6, TrailGrows
  <2> HIDE DEF g
  <2>2. Behind(g, n + 1, f2, l2, early2, ready2)
    BY <1>6, <2>1 DEF Behind
  <2>3. n + 1 \in Nat
    OBVIOUS
  <2> QED
    BY <2>2, <2>3 DEF Lag
<1>7. CASE commits /\ ~ready
  <2> DEFINE g == [i \in 0 .. n - 1 |-> h[i + 1]]
  <2>1. Trail(g, n - 1, f2, l) /\ (n > 1 => g[n - 2] = h[n - 1])
    BY <1>3, <1>4, <1>7, TrailShrinks
  <2> HIDE DEF g
  <2>2. TakenAt(h[n - 1])
    BY <1>3, <1>4, <1>7
  <2>3. n = 1 => early2
    BY <1>3, <1>7, <2>2 DEF Trail
  <2>4. n - 1 \in Nat /\ (n - 1 > 0 => n > 1 /\ (n - 1) - 1 = n - 2)
        /\ (n - 1 = 0 => n = 1)
    BY <1>4, <1>7
  <2>5. Behind(g, n - 1, f2, l2, early2, ready2)
    BY <1>7, <2>1, <2>2, <2>3, <2>4 DEF Behind
  <2> QED
    BY <2>4, <2>5 DEF Lag
<1>8. CASE commits /\ ready
  <2> DEFINE g == [i \in 0 .. n + 1 |-> IF i <= n THEN h[i] ELSE l2]
             k == [i \in 0 .. (n + 1) - 1 |-> g[i + 1]]
  <2>1. Trail(g, n + 1, f, l2) /\ g[n] = l
    BY <1>3, <1>8, TrailGrows
  <2> HIDE DEF g
  <2>2. n + 1 \in Nat \ {0} /\ n + 1 > 1
    BY <1>4, <1>8
  <2>3. Trail(k, (n + 1) - 1, f2, l2) /\ k[(n + 1) - 2] = g[(n + 1) - 1]
    BY <1>8, <2>1, <2>2, TrailShrinks
  <2> HIDE DEF k
  <2>4. (n + 1) - 1 = n /\ (n + 1) - 2 = n - 1
    OBVIOUS
  <2>5. Trail(k, n, f2, l2) /\ k[n - 1] = l
    BY <2>1, <2>3, <2>4
  <2>6. Behind(k, n, f2, l2, early2, ready2)
    BY <1>4, <1>8, <2>5 DEF Behind
  <2> QED
    BY <2>6 DEF Lag
<1> QED
  BY <1>5, <1>6, <1>7, <1>8

----------------------------------------------------------------------------
(* The three pipelines, one behind the other *)

(* A follower finishes no instruction at the next edge but one its leader  *)
(* finishes with it, or has finished. *)
Early43 == ~v_ex /\ (v_id => v_id3) /\ (v_if => v_if3)
Early32 == ~v_id3 /\ (v_if3 => v_if2)

LagInv ==
  resets = 0 =>
    /\ ~undef /\ ~undef3 => Lag(State4, State3, Early43, v_id3)
    /\ ~undef3 /\ ~undef2 => Lag(State3, State2, Early32, v_if2)

(* No instruction that a shorter pipeline is about to finish loads a       *)
(* register from lines that nobody drives: what it writes is the same      *)
(* whatever they read as.                                                  *)
LoadsDriven ==
  /\ v_id3 /\ ~undef3 /\ Three!Machine!Insn.rd # 0 =>
       \A x, y \in XWords :
         Three!Machine!WriteData(x) = Three!Machine!WriteData(y)
  /\ v_if2 /\ ~undef2 /\ Two!Machine!Insn.rd # 0 =>
       \A x, y \in XWords :
         Two!Machine!WriteData(x) = Two!Machine!WriteData(y)

LEMMA OutcomeDriven ==
  ASSUME NEW s, NEW x \in XWords,
         InsnAt(s).rd # 0 =>
           \A a, b \in XWords : WrittenAt(s, a) = WrittenAt(s, b)
  PROVE  \A y \in XWords : Outcome(s, y) = Outcome(s, x)
<1> TAKE y \in XWords
<1>1. InsnAt(s).rd # 0 => WrittenAt(s, y) = WrittenAt(s, x)
  OBVIOUS
<1>2. RegistersAt(s, y) = RegistersAt(s, x)
  BY <1>1 DEF RegistersAt
<1> QED
  BY <1>2 DEF Outcome

(* What a clock edge does to each pipeline's machine. *)
LEMMA Edge4 ==
  ASSUME PipeInv, NEW x \in XWords, Clock(x), ~undef'
  PROVE  /\ ~undef
         /\ v_ex => State4' = Outcome(State4, x)
         /\ ~v_ex => State4' = State4
         /\ v_if' = ~PC_src /\ v_id' = (~PC_src /\ v_if)
         /\ v_ex' = (~PC_src /\ v_id)
         /\ v_ex => PC_src = TakenAt(State4)
         /\ ~v_ex => ~PC_src
<1>1. ~undef
  BY NoHaltBeforeEbreak
<1>2. v_ex => State4' = Outcome(State4, x)
  BY CommitExecutes, Executes4
<1>3. ~v_ex => State4' = State4
  BY BubbleStutters DEF State4, Machine!vars
<1>4. v_ex => PC_src = TakenAt(State4)
  BY <1>1, LastStage, MachineAt4
<1>5. ~v_ex => ~PC_src
  BY EffectsNeedValid DEF PipeInv
<1> QED
  BY <1>1, <1>2, <1>3, <1>4, <1>5 DEF Clock, History

LEMMA Edge3 ==
  ASSUME Three!StageInv, NEW x \in XWords, Three!Clock(x), ~undef3'
  PROVE  /\ ~undef3
         /\ v_id3 => State3' = Outcome(State3, x)
         /\ ~v_id3 => State3' = State3
         /\ v_if3' = ~Three!PC_src /\ v_id3' = (~Three!PC_src /\ v_if3)
         /\ v_id3 => v_if3 /\ Three!PC_src = TakenAt(State3)
         /\ ~v_id3 => ~Three!PC_src
         /\ State3'.out \in Seq(Word)
<1>1. ~undef3
  BY ThreeNoHaltBeforeEbreak
<1>2. v_id3 => State3' = Outcome(State3, x)
  BY ThreeCommitExecutes, Executes3
<1>3. ~v_id3 => State3' = State3
  BY ThreeBubbleStutters DEF State3, Three!Machine!vars
<1>4. v_id3 => v_if3 /\ Three!PC_src = TakenAt(State3)
  BY <1>1, ThreeLastStage, MachineAt3 DEF Three!StageInv, Three!BubblesInert
<1>5. ~v_id3 => ~Three!PC_src
  BY ThreeEffectsNeedValid DEF Three!StageInv
<1>6. State3'.out \in Seq(Word)
  <2>1. Three!StageInv'
    BY ThreeNextKeepsInv DEF Three!Next
  <2>2. stdout3' \in Seq(Three!Word)
    BY <2>1 DEF Three!StageInv, Three!TypeOK
  <2> QED
    BY <2>2, ThreeNames DEF State3
<1> QED
  BY <1>1, <1>2, <1>3, <1>4, <1>5, <1>6 DEF Three!Clock

LEMMA Edge2 ==
  ASSUME Two!StageInv, NEW x \in XWords, Two!Clock(x), ~undef2'
  PROVE  /\ ~undef2
         /\ v_if2 => State2' = Outcome(State2, x)
         /\ ~v_if2 => State2' = State2
         /\ v_if2' = ~Two!PC_src
         /\ v_if2 => Two!PC_src = TakenAt(State2)
         /\ ~v_if2 => ~Two!PC_src
         /\ State2'.out \in Seq(Word)
<1>1. ~undef2
  BY TwoNoHaltBeforeEbreak
<1>2. v_if2 => State2' = Outcome(State2, x)
  BY TwoCommitExecutes, Executes2
<1>3. ~v_if2 => State2' = State2
  BY TwoBubbleStutters DEF State2, Two!Machine!vars
<1>4. v_if2 => Two!PC_src = TakenAt(State2)
  BY <1>1, TwoLastStage, MachineAt2
<1>5. ~v_if2 => ~Two!PC_src
  BY TwoBubbleIsInert, TwoNames DEF Two!StageInv, Two!InFlight
<1>6. State2'.out \in Seq(Word)
  <2>1. Two!StageInv'
    BY TwoNextKeepsInv DEF Two!Next
  <2>2. stdout2' \in Seq(Two!Word)
    BY <2>1 DEF Two!StageInv, Two!TypeOK
  <2> QED
    BY <2>2, TwoNames DEF State2
<1> QED
  BY <1>1, <1>2, <1>3, <1>4, <1>5, <1>6 DEF Two!Clock

(* The four-stage pipeline stays behind the three-stage one ... *)
LEMMA Edge43 ==
  ASSUME PipeInv, Three!StageInv, LoadsDriven, NEW x \in XWords,
         Clock(x), Three!Clock(x), ~undef', ~undef3',
         Lag(State4, State3, Early43, v_id3)
  PROVE  Lag(State4', State3', Early43', v_id3')
<1>1. /\ v_if \in BOOLEAN /\ v_id \in BOOLEAN /\ v_ex \in BOOLEAN
      /\ v_if3 \in BOOLEAN /\ v_id3 \in BOOLEAN
      /\ v_id3' \in BOOLEAN
  <2>1. v_if \in BOOLEAN /\ v_id \in BOOLEAN /\ v_ex \in BOOLEAN
    BY DEF PipeInv, TypeOK
  <2>2. v_if3 \in BOOLEAN /\ v_id3 \in BOOLEAN
    BY DEF Three!StageInv, Three!TypeOK
  <2> QED
    BY <2>1, <2>2, Edge3
<1>2. v_id3 => \A y \in XWords : State3' = Outcome(State3, y)
  <2>1. v_id3 /\ InsnAt(State3).rd # 0 =>
          \A a, b \in XWords : WrittenAt(State3, a) = WrittenAt(State3, b)
    BY Edge3, MachineAt3 DEF LoadsDriven
  <2> QED
    BY <2>1, Edge3, OutcomeDriven
<1>3. v_id3 => v_id3' \/ TakenAt(State3)
  BY Edge3
<1>4. v_ex /\ TakenAt(State4) => Early43'
  BY Edge4 DEF Early43
<1>5. Early43 /\ ~v_ex /\ ~v_id3 => Early43'
  BY <1>1, Edge4, Edge3 DEF Early43
<1>6. Early43 => ~v_ex
  BY DEF Early43
<1>7. Early43 \in BOOLEAN /\ Early43' \in BOOLEAN
  BY DEF Early43
<1>8. /\ v_ex => State4' = Outcome(State4, x)
      /\ ~v_ex => State4' = State4
      /\ ~v_id3 => State3' = State3
      /\ State3'.out \in Seq(Word)
  BY Edge4, Edge3
<1>9. Edges(State4, State4', State3, State3', Early43, Early43',
            v_id3, v_id3', v_ex, x)
  BY <1>1, <1>2, <1>3, <1>4, <1>5, <1>6, <1>7, <1>8 DEF Edges
<1> QED
  BY <1>9, LagKept

(* ... and this one behind the two-stage one. *)
LEMMA Edge32 ==
  ASSUME Three!StageInv, Two!StageInv, LoadsDriven, NEW x \in XWords,
         Three!Clock(x), Two!Clock(x), ~undef3', ~undef2',
         Lag(State3, State2, Early32, v_if2)
  PROVE  Lag(State3', State2', Early32', v_if2')
<1>1. /\ v_if3 \in BOOLEAN /\ v_id3 \in BOOLEAN /\ v_if2 \in BOOLEAN
      /\ v_if2' \in BOOLEAN
  <2>1. v_if3 \in BOOLEAN /\ v_id3 \in BOOLEAN
    BY DEF Three!StageInv, Three!TypeOK
  <2>2. v_if2 \in BOOLEAN
    BY DEF Two!StageInv, Two!TypeOK
  <2> QED
    BY <2>1, <2>2, Edge2
<1>2. v_if2 => \A y \in XWords : State2' = Outcome(State2, y)
  <2>1. v_if2 /\ InsnAt(State2).rd # 0 =>
          \A a, b \in XWords : WrittenAt(State2, a) = WrittenAt(State2, b)
    BY Edge2, MachineAt2 DEF LoadsDriven
  <2> QED
    BY <2>1, Edge2, OutcomeDriven
<1>3. v_if2 => v_if2' \/ TakenAt(State2)
  BY Edge2
<1>4. v_id3 /\ TakenAt(State3) => Early32'
  BY Edge3 DEF Early32
<1>5. Early32 /\ ~v_id3 /\ ~v_if2 => Early32'
  BY <1>1, Edge3, Edge2 DEF Early32
<1>6. Early32 => ~v_id3
  BY DEF Early32
<1>7. Early32 \in BOOLEAN /\ Early32' \in BOOLEAN
  BY DEF Early32
<1>8. /\ v_id3 => State3' = Outcome(State3, x)
      /\ ~v_id3 => State3' = State3
      /\ ~v_if2 => State2' = State2
      /\ State2'.out \in Seq(Word)
  BY Edge3, Edge2
<1>9. Edges(State3, State3', State2, State2', Early32, Early32',
            v_if2, v_if2', v_id3, x)
  BY <1>1, <1>2, <1>3, <1>4, <1>5, <1>6, <1>7, <1>8 DEF Edges
<1> QED
  BY <1>9, LagKept

(* After power-up none of the three has begun. *)
LEMMA LagInit == AllInit => LagInv
<1> SUFFICES ASSUME AllInit PROVE LagInv
  OBVIOUS
<1>1. /\ ~v_if /\ ~v_id /\ ~v_ex /\ ~v_if3 /\ ~v_id3 /\ ~v_if2
      /\ State3 = State4 /\ State2 = State4
      /\ State4.out = << >>
  <2>1. /\ Three!Init /\ Two!Init /\ Init /\ mem3 = mem /\ mem2 = mem
    BY DEF AllInit, TbInit
  <2>2. /\ ~v_if /\ ~v_id /\ ~v_ex /\ ~v_if3 /\ ~v_id3 /\ ~v_if2
    BY <2>1 DEF Init, Three!Init, Two!Init
  <2>3. arch_pc = RESET_ADDR /\ Three!arch_pc = RESET_ADDR
        /\ Two!arch_pc = RESET_ADDR
    BY <2>1, <2>2, ThreeNames, TwoNames
       DEF Init, Three!Init, Two!Init, arch_pc, Three!arch_pc, Two!arch_pc
  <2>4. /\ X_p3 = X_p /\ stdin_pointer3 = stdin_pointer /\ stdout3 = stdout
        /\ X_p2 = X_p /\ stdin_pointer2 = stdin_pointer /\ stdout2 = stdout
        /\ stdout = << >>
    BY <2>1, ThreeNames, TwoNames DEF Init, Three!Init, Two!Init
  <2> QED
    BY <2>1, <2>2, <2>3, <2>4 DEF State4, State3, State2
<1> DEFINE h == [i \in 0 .. 0 |-> State4]
<1>2. State4.out \in Seq(Word)
  BY <1>1
<1>3. h[0] = State4 /\ \A i \in 0 .. 0 : h[i] = State4
  OBVIOUS
<1> HIDE DEF h
<1>4. Trail(h, 0, State4, State4)
  BY <1>2, <1>3, PrefixReflexive DEF Trail
<1>5. Behind(h, 0, State4, State3, Early43, v_id3)
  BY <1>1, <1>4 DEF Behind, Early43
<1>6. Behind(h, 0, State3, State2, Early32, v_if2)
  BY <1>1, <1>4 DEF Behind, Early32
<1> QED
  BY <1>5, <1>6 DEF LagInv, Lag

LagSupport == PipeInv /\ Three!StageInv /\ Two!StageInv /\ resets \in Nat

LEMMA LagStep ==
  LagSupport /\ LoadsDriven /\ LagInv /\ [AllNext]_pipeVars => LagInv'
<1> SUFFICES ASSUME LagSupport, LoadsDriven, LagInv, [AllNext]_pipeVars
             PROVE  LagInv'
  OBVIOUS
<1>1. ASSUME NEW x \in XWords, TbEdge(x), Three!Clock(x), Two!Clock(x)
      PROVE  LagInv'
  <2>1. SUFFICES ASSUME resets' = 0
        PROVE  /\ ~undef' /\ ~undef3' =>
                    Lag(State4', State3', Early43', v_id3')
               /\ ~undef3' /\ ~undef2' =>
                    Lag(State3', State2', Early32', v_if2')
    BY DEF LagInv
  <2>2. resets = 0 /\ Clock(x)
    BY <1>1, <2>1 DEF TbEdge
  <2>3. ASSUME ~undef', ~undef3'
        PROVE  Lag(State4', State3', Early43', v_id3')
    <3>1. ~undef /\ ~undef3
      BY <1>1, <2>2, <2>3, Edge4, Edge3 DEF LagSupport
    <3>2. Lag(State4, State3, Early43, v_id3)
      BY <2>2, <3>1 DEF LagInv
    <3> QED
      BY <1>1, <2>2, <2>3, <3>2, Edge43 DEF LagSupport
  <2>4. ASSUME ~undef3', ~undef2'
        PROVE  Lag(State3', State2', Early32', v_if2')
    <3>1. ~undef3 /\ ~undef2
      BY <1>1, <2>4, Edge3, Edge2 DEF LagSupport
    <3>2. Lag(State3, State2, Early32, v_if2)
      BY <2>2, <3>1 DEF LagInv
    <3> QED
      BY <1>1, <2>4, <3>2, Edge32 DEF LagSupport
  <2> QED
    BY <2>3, <2>4
<1>2. CASE AllReset
  <2>1. resets' # 0
    BY <1>2 DEF AllReset, TbReset, LagSupport
  <2> QED
    BY <2>1 DEF LagInv
<1>3. CASE AllFinish \/ UNCHANGED pipeVars
  <2>1. UNCHANGED <<vars, vars3, vars2, resets>>
    BY <1>3 DEF AllFinish, TbFinish, pipeVars, tbVars
  <2>2. /\ State4' = State4 /\ State3' = State3 /\ State2' = State2
        /\ Early43' = Early43 /\ Early32' = Early32
        /\ v_id3' = v_id3 /\ v_if2' = v_if2 /\ resets' = resets
        /\ undef' = undef /\ undef3' = undef3 /\ undef2' = undef2
    BY <2>1 DEF vars, vars3, vars2, State4, State3, State2, Early43, Early32,
       arch_pc, Three!arch_pc, Two!arch_pc
  <2> QED
    BY <2>2 DEF LagInv
<1> QED
  BY <1>1, <1>2, <1>3 DEF AllNext, AllClock

LEMMA LagPrefix ==
  ASSUME NEW f, NEW l, NEW early, NEW ready, Lag(f, l, early, ready)
  PROVE  IsPrefix(f.out, l.out)
<1>1. PICK n \in Nat : \E h : Behind(h, n, f, l, early, ready)
  BY DEF Lag
<1>2. PICK h : Behind(h, n, f, l, early, ready)
  BY <1>1
<1>3. f.out \in Seq(Word) /\ Prefix(f.out, l.out) /\ l.out \in Seq(Word)
  BY <1>2 DEF Behind, Trail
<1> QED
  BY <1>3, PrefixIsPrefix

LEMMA LagDelays == LagInv => StageMoreOnlyDelays
<1>1. State4.out = stdout /\ State3.out = stdout3 /\ State2.out = stdout2
  BY DEF State4, State3, State2
<1> QED
  BY <1>1, LagPrefix DEF LagInv, StageMoreOnlyDelays

LEMMA ResetsCounted == AllSpec => [](resets \in Nat)
<1>1. AllInit => resets \in Nat
  BY DEF AllInit, TbInit
<1>2. resets \in Nat /\ [AllNext]_pipeVars => (resets \in Nat)'
  BY DEF AllNext, AllClock, AllReset, AllFinish, TbEdge, TbReset, TbFinish,
         pipeVars, tbVars
<1> QED
  BY <1>1, <1>2, PTL DEF AllSpec

(* A longer pipeline has at every clock edge written the beginning of what *)
(* a shorter one has: forwarding and flushing cost time and nothing else.  *)
(* It holds of every program as long as no instruction loads a register    *)
(* from lines that nobody drives; such a load may read another value in    *)
(* each of the processors.                                                 *)
THEOREM StagesOnlyDelay == AllSpec /\ []LoadsDriven => []StageMoreOnlyDelays
<1>1. AllSpec => []LagSupport
  BY LockstepRuns, PipelineInvariant, ThreeStageInvariant, TwoStageInvariant,
     ResetsCounted, PTL DEF LagSupport
<1>2. AllSpec => AllInit /\ [][AllNext]_pipeVars
  BY PTL DEF AllSpec
<1> QED
  BY <1>1, <1>2, LagInit, LagStep, LagDelays, PTL

(* In a simulator that always reads the same word off undriven lines it    *)
(* holds of every program.                                                 *)
THEOREM StagesOnlyDelayOnceDefined ==
  ASSUME \A x, y \in XWords : x = y
  PROVE  AllSpec => []StageMoreOnlyDelays
<1>1. LoadsDriven
  BY DEF LoadsDriven
<1> QED
  BY <1>1, StagesOnlyDelay, PTL
=============================================================================
