------------------------- MODULE SingleCycleProofs -------------------------
(***************************************************************************)
(* Proofs about the single-cycle processor with its divider, for every     *)
(* size of the machine, every program and every encoding.                  *)
(*                                                                         *)
(* A stalled DIVU is private whatever the program does.  That the          *)
(* processor implements the sequential machine is proved of the behaviours *)
(* in which no DIVU writes one of its own sources: DIVU writes its         *)
(* destination on every stalled edge, so one that does divides by          *)
(* something else.                                                         *)
(***************************************************************************)
EXTENDS SingleCycle, CpuPkgLemmas

(* The DIVU being executed leaves its sources alone. *)
NoOverwrite ==
  start_i => \/ Instruction.rd = 0
             \/ Instruction.rd # Instruction.rs1 /\ Instruction.rd # Instruction.rs2

----------------------------------------------------------------------------
(* A stall is private *)

(* StallIsPrivate as a step keeps it: x0 is not written by DIVU either. *)
PrivateInv ==
  /\ state_p # "INIT" => start_i
  /\ \A r \in Reg : X_p[r] # X_arch[r] =>
       start_i /\ r = Instruction.rd /\ r # 0

LEMMA PrivateInit == Init => PrivateInv
BY DEF Init, PrivateInv, divider_i!InitRegs

LEMMA DivuEdgeKeepsPrivate == PrivateInv /\ DivuEdge => PrivateInv'
<1> SUFFICES ASSUME PrivateInv, DivuEdge PROVE PrivateInv'
  OBVIOUS
<1>1. CASE PC_stall
  <2>1. PC_p' = PC_p /\ mem' = mem /\ X_arch' = X_arch
    BY <1>1 DEF DivuEdge
  <2>2. Instruction' = Instruction
    BY <2>1 DEF Instruction
  <2>3. start_i /\ start_i'
    BY <2>2 DEF DivuEdge, start_i
  <2>4. ASSUME NEW r \in Reg, X_p'[r] # X_arch'[r]
        PROVE  r = Instruction.rd /\ r # 0
    <3>1. PICK w \in DivuWriteData :
            X_p' = [q \in Reg |-> IF q = Instruction.rd /\ q # 0
                                  THEN w ELSE X_p[q]]
      BY DEF DivuEdge
    <3> QED
      BY <2>1, <2>4, <3>1 DEF PrivateInv
  <2> QED
    BY <2>2, <2>3, <2>4 DEF PrivateInv
<1>2. CASE ~PC_stall
  <2>1. state_p = "FINISH" /\ X_arch' = X_p'
    BY <1>2 DEF DivuEdge, PC_stall, finish_o, divider_i!finish_o
  <2>2. state_p' = "INIT"
    BY <2>1 DEF DivuEdge, divider_i!ClockEdge, divider_i!state_n
  <2> QED
    BY <2>1, <2>2 DEF PrivateInv
<1> QED
  BY <1>1, <1>2

LEMMA StepKeepsPrivate == PrivateInv /\ [Next]_vars => PrivateInv'
<1> SUFFICES ASSUME PrivateInv, [Next]_vars PROVE PrivateInv'
  OBVIOUS
<1>1. CASE DivuEdge
  BY <1>1, DivuEdgeKeepsPrivate
<1>2. ASSUME NEW x \in XWords, SimpleEdge(x) PROVE PrivateInv'
  <2>1. state_p = "INIT" /\ X_arch' = X_p'
    BY <1>2 DEF SimpleEdge, PrivateInv
  <2>2. state_p' = "INIT"
    BY <1>2, <2>1 DEF SimpleEdge, divider_i!ClockEdge, divider_i!state_n
  <2> QED
    BY <2>1, <2>2 DEF PrivateInv
<1>3. CASE Reset
  BY <1>3 DEF Reset, divider_i!ResetRegs, PrivateInv
<1>4. CASE UNCHANGED vars
  <2>1. Instruction' = Instruction /\ UNCHANGED <<X_p, X_arch, state_p>>
    BY <1>4 DEF vars, divRegs, Instruction
  <2> QED
    BY <2>1 DEF PrivateInv, start_i
<1> QED
  BY <1>1, <1>2, <1>3, <1>4 DEF Next, Clock

(* The processor and its divider fit together under every program: the     *)
(* divider runs only for a DIVU whose start it has seen.                   *)
THEOREM PrivateInvariant == Spec => []PrivateInv
BY PrivateInit, StepKeepsPrivate, PTL DEF Spec

(* While a DIVU is stalled only its own destination changes, and the       *)
(* divider never runs under another instruction, not even after a reset in *)
(* the middle of a division: for every program, whatever it overwrites.    *)
THEOREM StallsArePrivate == Spec => []StallIsPrivate
<1>1. PrivateInv => StallIsPrivate
  BY DEF PrivateInv, StallIsPrivate
<1> QED
  BY <1>1, PrivateInvariant, PTL

----------------------------------------------------------------------------
(* The definitions of CpuPkg, read through the two instances of IsaDivu    *)

LEMMA SameSets ==
  /\ Cpu!Reg = Reg /\ Cpu!RESET_ADDR = RESET_ADDR
  /\ Machine!Reg = Reg /\ Machine!RESET_ADDR = RESET_ADDR
  /\ Machine!Mem = Mem
BY DEF Cpu!Reg, Cpu!RESET_ADDR, Machine!Reg, Machine!RESET_ADDR, Machine!Mem,
       Machine!Addr, Machine!Byte, Reg, RESET_ADDR, Mem, Addr, Byte

LEMMA SameAddW ==
  \A a, b : Cpu!AddW(a, b) = AddW(a, b) /\ Machine!AddW(a, b) = AddW(a, b)
BY DEF Cpu!AddW, Cpu!WORD, Machine!AddW, Machine!WORD, AddW, WORD

LEMMA SameDecoder ==
  ASSUME NEW i
  PROVE  /\ Cpu!DecodeEx(i) = DecodeEx(i) /\ Machine!DecodeEx(i) = DecodeEx(i)
         /\ Cpu!DecodeWb(i, FALSE) = DecodeWb(i, FALSE)
         /\ Machine!DecodeWb(i, FALSE) = DecodeWb(i, FALSE)
         /\ Cpu!Rs1(i) = Rs1(i) /\ Machine!Rs1(i) = Rs1(i)
         /\ Cpu!Rs2(i) = Rs2(i) /\ Machine!Rs2(i) = Rs2(i)
         /\ Cpu!IsEbreak(i) = IsEbreak(i) /\ Machine!IsEbreak(i) = IsEbreak(i)
         /\ Machine!IsDivu(i) = Cpu!IsDivu(i)
<1>1. Cpu!Op(i) = Op(i) /\ Machine!Op(i) = Op(i)
  BY DEF Cpu!Op, Cpu!Legal, Cpu!AluOp, Cpu!BranchOp,
         Machine!Op, Machine!Legal, Machine!AluOp, Machine!BranchOp,
         Op, Legal, AluOp, BranchOp
<1>2. Cpu!DecodeEx(i) = DecodeEx(i) /\ Machine!DecodeEx(i) = DecodeEx(i)
  BY <1>1 DEF Cpu!DecodeEx, Machine!DecodeEx, DecodeEx
<1>3. /\ Cpu!DecodeWb(i, FALSE) = DecodeWb(i, FALSE)
      /\ Machine!DecodeWb(i, FALSE) = DecodeWb(i, FALSE)
  BY <1>1 DEF Cpu!DecodeWb, Machine!DecodeWb, DecodeWb
<1>4. /\ Cpu!Rs1(i) = Rs1(i) /\ Machine!Rs1(i) = Rs1(i)
      /\ Cpu!Rs2(i) = Rs2(i) /\ Machine!Rs2(i) = Rs2(i)
  BY <1>1 DEF Cpu!Rs1, Machine!Rs1, Rs1, Cpu!Rs2, Machine!Rs2, Rs2
<1>5. /\ Cpu!IsEbreak(i) = IsEbreak(i) /\ Machine!IsEbreak(i) = IsEbreak(i)
      /\ Machine!IsDivu(i) = Cpu!IsDivu(i)
  BY DEF Cpu!IsEbreak, Machine!IsEbreak, IsEbreak, Machine!IsDivu, Cpu!IsDivu
<1> QED
  BY <1>2, <1>3, <1>4, <1>5

LEMMA SameBytes ==
  \A w, k : Cpu!ByteOf(w, k) = ByteOf(w, k) /\ Machine!ByteOf(w, k) = ByteOf(w, k)
BY DEF Cpu!ByteOf, Cpu!Weight, Machine!ByteOf, Machine!Weight, ByteOf, Weight

LEMMA SameRead ==
  \A m, a, x : /\ Cpu!ReadMem(m, a, x) = ReadMem(m, a, x)
               /\ Machine!ReadMem(m, a, x) = ReadMem(m, a, x)
<1>1. \A m, a, k, x : /\ Cpu!MemByte(m, a, k, x) = MemByte(m, a, k, x)
                      /\ Machine!MemByte(m, a, k, x) = MemByte(m, a, k, x)
  BY SameBytes, SameAddW
     DEF Cpu!MemByte, Cpu!Addr, Machine!MemByte, Machine!Addr, MemByte, Addr
<1> QED
  BY <1>1 DEF Cpu!ReadMem, Machine!ReadMem, ReadMem

LEMMA SameFetch ==
  \A m, p : Cpu!Fetch(m, p) = Fetch(m, p) /\ Machine!Fetch(m, p) = Fetch(m, p)
<1>1. \A p : Cpu!Footprint(p) = Footprint(p) /\ Machine!Footprint(p) = Footprint(p)
  BY SameAddW DEF Cpu!Footprint, Machine!Footprint, Footprint
<1> QED
  BY <1>1, SameRead
     DEF Cpu!Fetch, Cpu!MemSel, Cpu!Addr, Cpu!XInstr,
         Machine!Fetch, Machine!MemSel, Machine!Addr, Machine!XInstr,
         Fetch, MemSel, Addr, XInstr

LEMMA SameDataRead ==
  \A m, p, a, x : /\ Cpu!DataRead(m, p, a, x) = DataRead(m, p, a, x)
                  /\ Machine!DataRead(m, p, a, x) = DataRead(m, p, a, x)
BY SameRead DEF Cpu!DataRead, Cpu!MemSel, Cpu!Addr, Cpu!StdinSel,
   Cpu!StdioBase, Machine!DataRead, Machine!MemSel, Machine!Addr,
   Machine!StdinSel, Machine!StdioBase, DataRead, MemSel, Addr, StdinSel,
   StdioBase

LEMMA SameBus ==
  /\ \A m, a, we, w : /\ Cpu!MemNext(m, a, we, w) = MemNext(m, a, we, w)
                      /\ Machine!MemNext(m, a, we, w) = MemNext(m, a, we, w)
  /\ \A p, a, re : /\ Cpu!StdinNext(p, a, re) = StdinNext(p, a, re)
                   /\ Machine!StdinNext(p, a, re) = StdinNext(p, a, re)
  /\ \A out, a, we, w :
       /\ Cpu!StdoutNext(out, a, we, w) = StdoutNext(out, a, we, w)
       /\ Machine!StdoutNext(out, a, we, w) = StdoutNext(out, a, we, w)
<1>1. \A m, a, w : /\ Cpu!WriteMem(m, a, w) = WriteMem(m, a, w)
                   /\ Machine!WriteMem(m, a, w) = WriteMem(m, a, w)
  BY SameBytes, SameAddW
     DEF Cpu!WriteMem, Cpu!Addr, Machine!WriteMem, Machine!Addr, WriteMem, Addr
<1>2. \A m, a, we, w : /\ Cpu!MemNext(m, a, we, w) = MemNext(m, a, we, w)
                       /\ Machine!MemNext(m, a, we, w) = MemNext(m, a, we, w)
  BY <1>1 DEF Cpu!MemNext, Cpu!MemSel, Cpu!Addr, Machine!MemNext,
              Machine!MemSel, Machine!Addr, MemNext, MemSel, Addr
<1>3. \A p, a, re : /\ Cpu!StdinNext(p, a, re) = StdinNext(p, a, re)
                    /\ Machine!StdinNext(p, a, re) = StdinNext(p, a, re)
  BY DEF Cpu!StdinNext, Cpu!StdinSel, Cpu!StdioBase, Machine!StdinNext,
         Machine!StdinSel, Machine!StdioBase, StdinNext, StdinSel, StdioBase
<1>4. \A out, a, we, w :
        /\ Cpu!StdoutNext(out, a, we, w) = StdoutNext(out, a, we, w)
        /\ Machine!StdoutNext(out, a, we, w) = StdoutNext(out, a, we, w)
  BY DEF Cpu!StdoutNext, Cpu!StdoutSel, Cpu!StdioBase, Machine!StdoutNext,
         Machine!StdoutSel, Machine!StdioBase, StdoutNext, StdoutSel, StdioBase
<1> QED
  BY <1>2, <1>3, <1>4

----------------------------------------------------------------------------
(* Types *)

TypeInv ==
  /\ PC_p \in Word /\ X_p \in [Reg -> Word] /\ X_arch \in [Reg -> Word]
  /\ mem \in Mem /\ stdin_pointer \in 0 .. NSTDIN - 1 /\ stdout \in Seq(Word)
  /\ state_p \in {"INIT", "BUSY", "FINISH"}
  /\ quotient_p \in 0 .. 2 * BYTE - 1 /\ subtrahend_p \in Byte
  /\ alu_moved \in BOOLEAN

LEMMA ByteSize == /\ BYTE \in Nat /\ 2 <= BYTE /\ 0 \in Byte
                  /\ 2 * BYTE <= WORD
<1>1. BYTE \in Nat /\ 2 <= BYTE
  BY SizesAssumption
<1>2. BYTE * BYTE \in Nat /\ 2 * BYTE <= BYTE * BYTE
  BY <1>1
<1>3. BYTE * BYTE * BYTE \in Nat /\ BYTE * BYTE <= BYTE * BYTE * BYTE
  BY <1>1, <1>2
<1>4. BYTE * BYTE * BYTE * BYTE \in Nat
      /\ BYTE * BYTE * BYTE <= BYTE * BYTE * BYTE * BYTE
  BY <1>1, <1>3
<1> QED
  BY <1>1, <1>2, <1>3, <1>4 DEF WORD, Byte

(* The sources of the instruction are registers, their low bytes bytes. *)
LEMMA OperandTypes ==
  ASSUME TypeInv
  PROVE  /\ Instruction \in Instr /\ rs1 \in Reg /\ rs2 \in Reg
         /\ X_p[rs1] % BYTE \in Byte /\ X_p[rs2] % BYTE \in Byte
<1>1. Instruction \in Instr
  BY FetchType DEF TypeInv, Instruction
<1>2. rs1 \in Reg /\ rs2 \in Reg
  BY <1>1, DecodeType DEF rs1, rs2, Instr
<1>3. X_p[rs1] \in Nat /\ X_p[rs2] \in Nat
  BY <1>2, WordSize DEF TypeInv
<1> QED
  BY <1>1, <1>2, <1>3, ByteSize DEF Byte

(* One edge of the divider keeps its registers in their ranges. *)
LEMMA DividerEdgeType ==
  ASSUME TypeInv, divider_i!ClockEdge
  PROVE  /\ state_p' \in {"INIT", "BUSY", "FINISH"}
         /\ quotient_p' \in 0 .. 2 * BYTE - 1 /\ subtrahend_p' \in Byte
<1> DEFINE a == X_p[rs1] % BYTE
           b == X_p[rs2] % BYTE
<1>1. /\ a \in Byte /\ b \in Byte /\ quotient_p \in 0 .. 2 * BYTE - 1
      /\ subtrahend_p \in Byte
  BY OperandTypes DEF TypeInv
<1>2. /\ state_p' = divider_i!state_n /\ quotient_p' = divider_i!quotient_n
      /\ subtrahend_p' = divider_i!subtrahend_n
  BY DEF divider_i!ClockEdge
<1>3. state_p' \in {"INIT", "BUSY", "FINISH"}
  BY <1>2 DEF divider_i!state_n
<1>4. \/ subtrahend_p' = a \/ subtrahend_p' = subtrahend_p
      \/ subtrahend_p' = subtrahend_p - b /\ subtrahend_p >= b
  BY <1>2 DEF divider_i!subtrahend_n, divider_i!Subtracts
<1>5. quotient_p' \in {2 * BYTE - 1, 0, (quotient_p + 1) % (2 * BYTE), quotient_p}
  BY <1>2 DEF divider_i!quotient_n, divider_i!AllOnes
<1> HIDE DEF a, b
<1>6. subtrahend_p' \in Byte
  BY <1>1, <1>4, ByteSize DEF Byte
<1>7. (quotient_p + 1) % (2 * BYTE) \in 0 .. 2 * BYTE - 1
  <2> DEFINE n == 2 * BYTE
  <2>1. n \in Nat \ {0} /\ quotient_p + 1 \in Nat
    BY <1>1, ByteSize
  <2> HIDE DEF n
  <2>2. (quotient_p + 1) % n \in 0 .. n - 1
    BY <2>1
  <2> QED
    BY <2>2 DEF n
<1> QED
  BY <1>1, <1>3, <1>5, <1>6, <1>7, ByteSize

LEMMA ZerosType == /\ 0 \in Word /\ 0 \in Byte /\ 0 \in 0 .. 2 * BYTE - 1
                   /\ [r \in Reg |-> 0] \in [Reg -> Word]
<1>1. 0 \in Word /\ 0 \in Byte /\ 0 \in 0 .. 2 * BYTE - 1
  BY ByteSize, WordSize
<1> QED
  BY <1>1

LEMMA DivuEdgeKeepsTypes == TypeInv /\ DivuEdge => TypeInv'
<1> SUFFICES ASSUME TypeInv, DivuEdge PROVE TypeInv'
  OBVIOUS
<1>1. /\ state_p' \in {"INIT", "BUSY", "FINISH"}
      /\ quotient_p' \in 0 .. 2 * BYTE - 1 /\ subtrahend_p' \in Byte
  BY DividerEdgeType DEF DivuEdge
<1>2. PC_p' \in Word
  BY AddWType DEF DivuEdge, TypeInv
<1>3. PICK w \in DivuWriteData :
        X_p' = [r \in Reg |-> IF r = Instruction.rd /\ r # 0 THEN w ELSE X_p[r]]
  BY DEF DivuEdge
<1>4. sum(X_p) \in Word
  BY OperandTypes, AluAssumption DEF sum, TypeInv, AluOp
<1>5. quotient_word \in Word
  BY ByteSize, WordSize DEF quotient_word, divider_i!quotient_o, TypeInv, Word
<1>6. w \in Word
  BY <1>4, <1>5 DEF DivuWriteData
<1>7. X_p' \in [Reg -> Word]
  BY <1>3, <1>6 DEF TypeInv
<1>8. X_arch' \in [Reg -> Word] /\ alu_moved' \in BOOLEAN
  BY <1>7 DEF DivuEdge, TypeInv
<1> QED
  BY <1>1, <1>2, <1>7, <1>8 DEF DivuEdge, TypeInv

(* What the ordinary instructions compute, in the definitions of CpuPkg. *)
LEMMA ExecuteType ==
  ASSUME TypeInv, NEW x \in XWords, Cpu!Execute(x)
  PROVE  /\ PC_p' \in Word /\ X_p' \in [Reg -> Word] /\ mem' \in Mem
         /\ stdin_pointer' \in 0 .. NSTDIN - 1 /\ stdout' \in Seq(Word)
<1> DEFINE i == Instruction
<1>1. Cpu!Insn = i /\ i \in Instr
  BY SameFetch, OperandTypes DEF Cpu!Insn, Instruction
<1> HIDE DEF i
<1>2. /\ DecodeEx(i) \in ExCtl /\ DecodeWb(i, FALSE) \in WbCtl
      /\ Rs1(i) \in Reg /\ Rs2(i) \in Reg /\ i.rd \in Reg /\ i.imm \in Word
  BY <1>1, DecodeType
<1>3. Cpu!Arg1 \in Word /\ Cpu!Arg2 \in Word
  BY <1>1, <1>2, SameDecoder DEF Cpu!Arg1, Cpu!Arg2, TypeInv
<1>4. /\ Cpu!alu_data_2 \in Word
      /\ DecodeEx(i).alu_operator \in AluOp \cup BranchOp
  BY <1>1, <1>2, <1>3 DEF Cpu!alu_data_2, ExCtl
<1>5. Cpu!alu_result \in Word
  BY <1>1, <1>3, <1>4, SameDecoder, AluAssumption DEF Cpu!alu_result
<1>6. /\ Cpu!Ctl = DecodeWb(i, FALSE) /\ Cpu!Ctl.mem_read \in BOOLEAN
      /\ Cpu!Ctl.mem_write \in BOOLEAN
  BY <1>1, <1>2, SameDecoder DEF Cpu!Ctl, WbCtl
<1>7. AddW(PC_p, 4) \in Word /\ Cpu!Target \in Word
  <2>1. AddW(PC_p, 4) \in Word /\ i.imm \in Nat
    BY <1>2, AddWType, WordSize DEF TypeInv
  <2>2. Cpu!Target = AddW(Cpu!Arg1, i.imm) \/ Cpu!Target = AddW(PC_p, i.imm)
    BY <1>1, SameAddW DEF Cpu!Target
  <2> QED
    BY <2>1, <2>2, <1>3, AddWType DEF TypeInv
<1>8. Cpu!WriteData(x) \in Word
  <2>1. x \in Word
    BY DataAssumption
  <2>2. DataRead(mem, stdin_pointer, Cpu!alu_result, x) \in Word
    BY <1>5, <2>1, DataReadType DEF TypeInv
  <2> QED
    BY <1>5, <1>7, <2>2, SameDataRead, SameAddW DEF Cpu!WriteData
<1>9. PC_p' \in Word
  BY <1>7, SameAddW DEF Cpu!Execute
<1>10. X_p' \in [Reg -> Word]
  BY <1>8, SameSets DEF Cpu!Execute, TypeInv
<1>11. /\ mem' = MemNext(mem, Cpu!alu_result, Cpu!Ctl.mem_write, Cpu!Arg2)
       /\ stdin_pointer' = StdinNext(stdin_pointer, Cpu!alu_result, Cpu!Ctl.mem_read)
       /\ stdout' = StdoutNext(stdout, Cpu!alu_result, Cpu!Ctl.mem_write, Cpu!Arg2)
  BY SameBus DEF Cpu!Execute
<1>12. /\ mem' \in Mem /\ stdin_pointer' \in 0 .. NSTDIN - 1
       /\ stdout' \in Seq(Word)
  BY <1>3, <1>5, <1>6, <1>11, BusType DEF TypeInv
<1> QED
  BY <1>9, <1>10, <1>12

LEMMA StepKeepsTypes == TypeInv /\ [Next]_vars => TypeInv'
<1> SUFFICES ASSUME TypeInv, [Next]_vars PROVE TypeInv'
  OBVIOUS
<1>1. CASE DivuEdge
  BY <1>1, DivuEdgeKeepsTypes
<1>2. ASSUME NEW x \in XWords, SimpleEdge(x) PROVE TypeInv'
  <2>1. /\ state_p' \in {"INIT", "BUSY", "FINISH"}
        /\ quotient_p' \in 0 .. 2 * BYTE - 1 /\ subtrahend_p' \in Byte
        /\ X_arch' = X_p' /\ alu_moved' \in BOOLEAN
    BY <1>2, DividerEdgeType DEF SimpleEdge
  <2>2. CASE Cpu!Execute(x)
    BY <2>1, <2>2, ExecuteType DEF TypeInv
  <2>3. CASE Cpu!Skip
    <3>1. PC_p' = AddW(PC_p, 4) /\ UNCHANGED <<X_p, mem, stdin_pointer, stdout>>
      BY <2>3, SameAddW DEF Cpu!Skip
    <3> QED
      BY <2>1, <3>1, AddWType DEF TypeInv
  <2>4. CASE UNCHANGED <<PC_p, X_p, mem, stdin_pointer, stdout>>
    BY <2>1, <2>4 DEF TypeInv
  <2> QED
    BY <1>2, <2>2, <2>3, <2>4 DEF SimpleEdge
<1>3. CASE Reset
  <2>1. /\ PC_p' = 0 /\ X_p' = [r \in Reg |-> 0] /\ X_arch' = X_p'
        /\ state_p' = "INIT" /\ quotient_p' = 0 /\ subtrahend_p' = 0
        /\ alu_moved' = FALSE /\ UNCHANGED <<mem, stdin_pointer, stdout>>
    BY <1>3, SameSets DEF Reset, Cpu!Reset, divider_i!ResetRegs, RESET_ADDR
  <2> QED
    BY <2>1, ZerosType DEF TypeInv
<1>4. CASE UNCHANGED vars
  BY <1>4 DEF vars, divRegs, TypeInv
<1> QED
  BY <1>1, <1>2, <1>3, <1>4 DEF Next, Clock

LEMMA TypesInit == Init => TypeInv
<1> SUFFICES ASSUME Init PROVE TypeInv
  OBVIOUS
<1>1. /\ PC_p = 0 /\ X_p = [r \in Reg |-> 0] /\ X_arch = X_p /\ mem \in Mem
      /\ stdin_pointer = 0 /\ stdout = << >> /\ state_p = "INIT"
      /\ quotient_p = 0 /\ subtrahend_p = 0 /\ alu_moved = FALSE
  BY ImagesAssumption DEF Init, divider_i!InitRegs, RESET_ADDR
<1>2. 0 \in 0 .. NSTDIN - 1
  BY SizesAssumption
<1>3. stdout \in Seq(Word)
  BY <1>1
<1> QED
  BY <1>1, <1>2, <1>3, ZerosType DEF TypeInv

(* Every register and every word stays in its range, whatever the program. *)
THEOREM TypesInvariant == Spec => []TypeInv
BY TypesInit, StepKeepsTypes, PTL DEF Spec

----------------------------------------------------------------------------
(* The division *)

(* The operands the DIVU found when it began. *)
Dividend == X_arch[Instruction.rs1] % BYTE
Divisor  == X_arch[Instruction.rs2] % BYTE

(* The divider's registers account for those operands, and while no DIVU   *)
(* overwrites them the write data has only one driver that matters.        *)
DivuInv ==
  /\ TypeInv
  /\ PrivateInv
  /\ ~alu_moved
  /\ state_p = "BUSY" =>
       Dividend = quotient_p * Divisor + subtrahend_p /\ Divisor # 0
  /\ state_p = "FINISH" =>
       quotient_p = IF Divisor = 0 THEN 2 * BYTE - 1 ELSE Dividend \div Divisor

(* Quotient and remainder determine the integer quotient. *)
LEMMA DivisionIsUnique ==
  ASSUME NEW a \in Nat, NEW b \in Nat \ {0},
         NEW q \in Nat, NEW r \in 0 .. b - 1,
         a = q * b + r
  PROVE  a \div b = q
<1> DEFINE d == a \div b
<1>1. d \in Nat /\ b * d <= a /\ a < b * d + b
  OBVIOUS
<1> HIDE DEF d
<1>2. CASE d < q
  <2>1. b * (d + 1) <= b * q
    BY <1>1, <1>2
  <2> QED
    BY <1>1, <2>1
<1>3. CASE q < d
  <2>1. b * (q + 1) <= b * d
    BY <1>1, <1>3
  <2> QED
    BY <1>1, <2>1
<1> QED
  BY <1>1, <1>2, <1>3 DEF d

(* Where no DIVU overwrites its sources they hold, all through the stall,  *)
(* what it found.                                                          *)
LEMMA SourcesKept ==
  ASSUME DivuInv, NoOverwrite, start_i
  PROVE  /\ rs1 = Instruction.rs1 /\ rs2 = Instruction.rs2
         /\ X_p[rs1] = X_arch[rs1] /\ X_p[rs2] = X_arch[rs2]
         /\ X_p[rs1] % BYTE = Dividend /\ X_p[rs2] % BYTE = Divisor
         /\ Dividend \in Byte /\ Divisor \in Byte
<1>1. rs1 = Instruction.rs1 /\ rs2 = Instruction.rs2
  BY DEF rs1, rs2
<1>2. /\ rs1 \in Reg /\ rs2 \in Reg
      /\ X_p[rs1] % BYTE \in Byte /\ X_p[rs2] % BYTE \in Byte
  BY OperandTypes DEF DivuInv
<1>3. X_p[rs1] = X_arch[rs1] /\ X_p[rs2] = X_arch[rs2]
  BY <1>1, <1>2 DEF DivuInv, PrivateInv, NoOverwrite
<1> QED
  BY <1>1, <1>2, <1>3 DEF Dividend, Divisor

(* One edge of the running divider: a subtraction that keeps the account   *)
(* without overflowing the quotient, or the end with the quotient.         *)
LEMMA BusyEdge ==
  ASSUME DivuInv, NoOverwrite, start_i, state_p = "BUSY", divider_i!ClockEdge
  PROVE  /\ state_p' \in {"BUSY", "FINISH"}
         /\ Dividend = quotient_p' * Divisor + subtrahend_p' /\ Divisor # 0
         /\ state_p' = "FINISH" => quotient_p' = Dividend \div Divisor
<1> DEFINE a == Dividend
           b == Divisor
<1>1. /\ a = quotient_p * b + subtrahend_p /\ b # 0
      /\ a \in 0 .. BYTE - 1 /\ b \in 0 .. BYTE - 1
      /\ quotient_p \in Nat /\ subtrahend_p \in 0 .. BYTE - 1
      /\ X_p[rs2] % BYTE = b
  BY SourcesKept, ByteSize DEF DivuInv, TypeInv, Byte
<1>2. /\ subtrahend_p' = IF subtrahend_p >= b THEN subtrahend_p - b
                         ELSE subtrahend_p
      /\ quotient_p' = IF subtrahend_p >= b
                       THEN (quotient_p + 1) % (2 * BYTE) ELSE quotient_p
      /\ state_p' = IF subtrahend_p' >= b THEN "BUSY" ELSE "FINISH"
  BY <1>1 DEF divider_i!ClockEdge, divider_i!state_n, divider_i!quotient_n,
     divider_i!subtrahend_n, divider_i!Subtracts
<1> HIDE DEF a, b
<1>3. /\ a = quotient_p' * b + subtrahend_p'
      /\ quotient_p' \in Nat /\ subtrahend_p' \in Nat
  <2>1. CASE subtrahend_p >= b
    <3>1. quotient_p <= quotient_p * b
      BY <1>1, ByteSize
    <3>2. (quotient_p + 1) % (2 * BYTE) = quotient_p + 1
      BY <1>1, <3>1, ByteSize
    <3>3. (quotient_p + 1) * b = quotient_p * b + b
      BY <1>1, ByteSize
    <3>4. quotient_p' = quotient_p + 1 /\ subtrahend_p' = subtrahend_p - b
      BY <1>2, <2>1, <3>2
    <3> QED
      BY <1>1, <2>1, <3>3, <3>4, ByteSize
  <2>2. CASE ~(subtrahend_p >= b)
    BY <1>1, <1>2, <2>2, ByteSize
  <2> QED
    BY <2>1, <2>2
<1>4. ASSUME state_p' = "FINISH" PROVE quotient_p' = a \div b
  <2>1. subtrahend_p' \in 0 .. b - 1
    BY <1>1, <1>2, <1>3, <1>4, ByteSize
  <2>2. a \in Nat /\ b \in Nat \ {0}
    BY <1>1, ByteSize
  <2> QED
    BY <1>3, <2>1, <2>2, DivisionIsUnique
<1> QED
  BY <1>1, <1>2, <1>3, <1>4 DEF a, b

(* The edge that starts it. *)
LEMMA FirstEdge ==
  ASSUME DivuInv, NoOverwrite, start_i, state_p = "INIT", divider_i!ClockEdge
  PROVE  /\ state_p' = "BUSY" =>
              Dividend = quotient_p' * Divisor + subtrahend_p' /\ Divisor # 0
         /\ state_p' = "FINISH" => quotient_p' = 2 * BYTE - 1 /\ Divisor = 0
         /\ state_p' \in {"BUSY", "FINISH"}
<1>1. /\ subtrahend_p' = Dividend
      /\ quotient_p' = IF Divisor = 0 THEN 2 * BYTE - 1 ELSE 0
      /\ state_p' = IF Divisor # 0 THEN "BUSY" ELSE "FINISH"
  BY SourcesKept DEF divider_i!ClockEdge, divider_i!state_n,
     divider_i!quotient_n, divider_i!subtrahend_n, divider_i!AllOnes
<1>2. 0 * Divisor + Dividend = Dividend
  BY SourcesKept, ByteSize DEF Byte
<1> QED
  BY <1>1, <1>2

LEMMA DivuEdgeKeepsInv == DivuInv /\ NoOverwrite /\ DivuEdge => DivuInv'
<1> SUFFICES ASSUME DivuInv, NoOverwrite, DivuEdge PROVE DivuInv'
  OBVIOUS
<1>1. TypeInv' /\ PrivateInv'
  BY DivuEdgeKeepsTypes, DivuEdgeKeepsPrivate DEF DivuInv
<1>2. start_i /\ divider_i!ClockEdge
  BY DEF DivuEdge
<1>3. PICK w \in DivuWriteData :
        X_p' = [r \in Reg |-> IF r = Instruction.rd /\ r # 0 THEN w ELSE X_p[r]]
  BY DEF DivuEdge
<1>4. ~alu_moved'
  <2>1. rs1 \in Reg /\ rs2 \in Reg
    BY OperandTypes DEF DivuInv
  <2>2. X_p'[rs1] = X_p[rs1] /\ X_p'[rs2] = X_p[rs2]
    BY <1>2, <1>3, <2>1, SourcesKept DEF NoOverwrite
  <2>3. sum(X_p') = sum(X_p)
    BY <2>2 DEF sum
  <2> QED
    BY <2>3 DEF DivuEdge
<1>5. CASE PC_stall
  <2>1. X_arch' = X_arch /\ Instruction' = Instruction
    BY <1>5 DEF DivuEdge, Instruction
  <2>2. Dividend' = Dividend /\ Divisor' = Divisor
    BY <2>1 DEF Dividend, Divisor
  <2>3. state_p \in {"INIT", "BUSY"}
    BY <1>5 DEF PC_stall, finish_o, divider_i!finish_o, DivuInv, TypeInv
  <2>4. CASE state_p = "INIT"
    BY <1>1, <1>2, <1>4, <2>2, <2>4, FirstEdge DEF DivuInv
  <2>5. CASE state_p = "BUSY"
    BY <1>1, <1>2, <1>4, <2>2, <2>5, BusyEdge DEF DivuInv
  <2> QED
    BY <2>3, <2>4, <2>5
<1>6. CASE ~PC_stall
  <2>1. state_p' = "INIT"
    BY <1>2, <1>6 DEF PC_stall, finish_o, divider_i!finish_o,
       divider_i!ClockEdge, divider_i!state_n
  <2> QED
    BY <1>1, <1>4, <2>1 DEF DivuInv
<1> QED
  BY <1>5, <1>6

LEMMA StepKeepsDivuInv ==
  DivuInv /\ NoOverwrite /\ [Next]_vars => DivuInv'
<1> SUFFICES ASSUME DivuInv, NoOverwrite, [Next]_vars PROVE DivuInv'
  OBVIOUS
<1>1. TypeInv' /\ PrivateInv'
  BY StepKeepsTypes, StepKeepsPrivate DEF DivuInv
<1>2. CASE DivuEdge
  BY <1>2, DivuEdgeKeepsInv
<1>3. ASSUME NEW x \in XWords, SimpleEdge(x) PROVE DivuInv'
  <2>1. state_p = "INIT" /\ ~start_i /\ alu_moved' = FALSE
    BY <1>3 DEF SimpleEdge, DivuInv, PrivateInv
  <2>2. state_p' = "INIT"
    BY <1>3, <2>1 DEF SimpleEdge, divider_i!ClockEdge, divider_i!state_n
  <2> QED
    BY <1>1, <2>1, <2>2 DEF DivuInv
<1>4. CASE Reset
  BY <1>1, <1>4 DEF Reset, divider_i!ResetRegs, DivuInv
<1>5. CASE UNCHANGED vars
  <2>1. Dividend' = Dividend /\ Divisor' = Divisor
    BY <1>5 DEF vars, Dividend, Divisor, Instruction
  <2> QED
    BY <1>1, <1>5, <2>1 DEF vars, divRegs, DivuInv
<1> QED
  BY <1>2, <1>3, <1>4, <1>5 DEF Next, Clock

(* In a behaviour without overwriting the divider's registers account for  *)
(* the operands the instruction found.                                     *)
THEOREM DivisionInvariant == Spec /\ []NoOverwrite => []DivuInv
<1>1. Init => DivuInv
  BY TypesInit, PrivateInit DEF Init, divider_i!InitRegs, DivuInv
<1> QED
  BY <1>1, StepKeepsDivuInv, PTL DEF Spec

----------------------------------------------------------------------------
(* The sequential machine with division *)

(* The last edge of a DIVU writes the quotient of what it found. *)
LEMMA LastEdge ==
  ASSUME DivuInv, NoOverwrite, DivuEdge, ~PC_stall
  PROVE  X_p' = [r \in Reg |->
                   IF r = Instruction.rd /\ r # 0
                   THEN Machine!DivuResult(X_arch[Instruction.rs1],
                                           X_arch[Instruction.rs2])
                   ELSE X_arch[r]]
<1>1. start_i /\ finish_o /\ state_p = "FINISH"
  BY DEF DivuEdge, PC_stall, finish_o, divider_i!finish_o
<1>2. DivuWriteData = {quotient_word}
  BY <1>1 DEF DivuWriteData, DivuInv
<1>3. X_p' = [r \in Reg |-> IF r = Instruction.rd /\ r # 0
                           THEN quotient_word ELSE X_p[r]]
  BY <1>2 DEF DivuEdge
<1>4. ASSUME NEW r \in Reg, ~(r = Instruction.rd /\ r # 0)
      PROVE  X_p[r] = X_arch[r]
  BY <1>4 DEF DivuInv, PrivateInv
<1>5. quotient_word = IF Divisor = 0 THEN WORD - 1 ELSE Dividend \div Divisor
  <2>1. quotient_p = IF Divisor = 0 THEN 2 * BYTE - 1 ELSE Dividend \div Divisor
    BY <1>1 DEF DivuInv
  <2>2. Dividend \in Byte /\ Divisor \in Byte
    BY <1>1, SourcesKept
  <2>3. Divisor # 0 => Dividend \div Divisor # 2 * BYTE - 1
    <3> SUFFICES ASSUME Divisor # 0 PROVE Dividend \div Divisor <= Dividend
      BY <2>2, ByteSize DEF Byte
    <3>1. PICK a \in Nat, b \in Nat \ {0} : a = Dividend /\ b = Divisor
      BY <2>2, ByteSize DEF Byte
    <3>2. a \div b <= a
      OBVIOUS
    <3> QED
      BY <3>1, <3>2
  <2> QED
    BY <2>1, <2>3 DEF quotient_word, divider_i!quotient_o
<1>6. Machine!DivuResult(X_arch[Instruction.rs1], X_arch[Instruction.rs2])
        = IF Divisor = 0 THEN WORD - 1 ELSE Dividend \div Divisor
  BY DEF Machine!DivuResult, Machine!WORD, WORD, Dividend, Divisor
<1> QED
  BY <1>3, <1>4, <1>5, <1>6

(* Between instructions both register files are the same. *)
LEMMA NoneInProgress ==
  ASSUME TypeInv, PrivateInv, ~start_i
  PROVE  X_p = X_arch
BY DEF TypeInv, PrivateInv

(* An ordinary instruction is a step of the sequential machine. *)
LEMMA ExecuteIsStep ==
  ASSUME NEW x, Cpu!Execute(x), X_p = X_arch, X_p' = X_arch'
  PROVE  Machine!Execute(x)
<1>1. Cpu!Insn = Machine!Insn
  BY SameFetch DEF Cpu!Insn, Machine!Insn
<1>2. /\ Cpu!Ctl = Machine!Ctl /\ Cpu!Arg1 = Machine!Arg1
      /\ Cpu!Arg2 = Machine!Arg2
  BY <1>1, SameDecoder DEF Cpu!Ctl, Machine!Ctl, Cpu!Arg1, Machine!Arg1,
     Cpu!Arg2, Machine!Arg2
<1>3. Cpu!alu_data_2 = Machine!alu_data_2
  BY <1>1, <1>2, SameDecoder DEF Cpu!alu_data_2, Machine!alu_data_2
<1>4. Cpu!alu_result = Machine!alu_result
  BY <1>1, <1>2, <1>3, SameDecoder DEF Cpu!alu_result, Machine!alu_result
<1>5. Cpu!Taken = Machine!Taken
  BY <1>1, <1>2, <1>3, SameDecoder DEF Cpu!Taken, Machine!Taken
<1>6. Cpu!Target = Machine!Target
  BY <1>1, <1>2, SameDecoder, SameAddW DEF Cpu!Target, Machine!Target
<1>7. Cpu!WriteData(x) = Machine!WriteData(x)
  BY <1>2, <1>4, SameAddW, SameDataRead
     DEF Cpu!WriteData, Machine!WriteData
<1>8. ~Machine!IsEbreak(Machine!Insn)
  BY <1>1, SameDecoder DEF Cpu!Execute
<1>9. PC_p' = IF Machine!Taken THEN Machine!Target ELSE Machine!AddW(PC_p, 4)
  BY <1>5, <1>6, SameAddW DEF Cpu!Execute
<1>10. X_arch' = [r \in Machine!Reg |->
                    IF Machine!Ctl.reg_write /\ r = Machine!Insn.rd /\ r # 0
                    THEN Machine!WriteData(x) ELSE X_arch[r]]
  BY <1>1, <1>2, <1>7, SameSets DEF Cpu!Execute
<1>11. /\ mem' = Machine!MemNext(mem, Machine!alu_result,
                                 Machine!Ctl.mem_write, Machine!Arg2)
       /\ stdin_pointer' = Machine!StdinNext(stdin_pointer,
                              Machine!alu_result, Machine!Ctl.mem_read)
       /\ stdout' = Machine!StdoutNext(stdout, Machine!alu_result,
                              Machine!Ctl.mem_write, Machine!Arg2)
  BY <1>2, <1>4, SameBus DEF Cpu!Execute
<1> QED
  BY <1>8, <1>9, <1>10, <1>11 DEF Machine!Execute

(* Every edge is one instruction of the machine, or none that shows. *)
LEMMA StepIsMachineStep ==
  ASSUME DivuInv, NoOverwrite, [Next]_vars
  PROVE  [Machine!DivuNext]_(Machine!vars)
<1>1. /\ Machine!Insn = Instruction /\ Cpu!Insn = Instruction
      /\ start_i = Machine!IsDivu(Instruction)
  BY SameFetch, SameDecoder DEF Machine!Insn, Cpu!Insn, Instruction, start_i
<1>2. CASE DivuEdge
  <2>1. CASE PC_stall
    BY <1>2, <2>1 DEF DivuEdge, Machine!vars
  <2>2. CASE ~PC_stall
    <3>1. /\ start_i /\ PC_p' = AddW(PC_p, 4) /\ X_arch' = X_p'
          /\ UNCHANGED <<mem, stdin_pointer, stdout>>
      BY <1>2, <2>2 DEF DivuEdge
    <3>2. Machine!Divide
      BY <1>1, <1>2, <2>2, <3>1, LastEdge, SameAddW, SameSets
         DEF Machine!Divide
    <3> QED
      BY <3>2 DEF Machine!DivuNext
  <2> QED
    BY <2>1, <2>2
<1>3. ASSUME NEW x \in XWords, SimpleEdge(x)
      PROVE  [Machine!DivuNext]_(Machine!vars)
  <2>1. ~start_i /\ X_p = X_arch /\ X_p' = X_arch'
    BY <1>3, NoneInProgress DEF SimpleEdge, DivuInv
  <2>2. CASE Cpu!Execute(x)
    BY <1>1, <2>1, <2>2, ExecuteIsStep DEF Machine!DivuNext
  <2>3. CASE Cpu!Skip
    <3>1. Machine!Skip
      BY <1>1, <2>1, <2>3, SameDecoder, SameAddW DEF Cpu!Skip, Machine!Skip
    <3> QED
      BY <3>1 DEF Machine!DivuNext
  <2>4. CASE UNCHANGED <<PC_p, X_p, mem, stdin_pointer, stdout>>
    BY <2>1, <2>4 DEF Machine!vars
  <2> QED
    BY <1>3, <2>2, <2>3, <2>4 DEF SimpleEdge
<1>4. CASE Reset
  <2>1. Machine!Reset
    BY <1>4, SameSets DEF Reset, Cpu!Reset, Machine!Reset
  <2> QED
    BY <2>1 DEF Machine!DivuNext
<1>5. CASE UNCHANGED vars
  BY <1>5 DEF vars, Machine!vars
<1> QED
  BY <1>2, <1>3, <1>4, <1>5 DEF Next, Clock

(* Where no DIVU overwrites its sources, the processor with its divider is *)
(* the sequential machine with division: a stall is no step, and the last  *)
(* edge of a DIVU divides what the instruction found.                      *)
THEOREM ImplementsMachine == Spec /\ []NoOverwrite => ImplementsDivuMachine
<1>1. Init => Machine!Init
  <2> SUFFICES ASSUME Init PROVE Machine!Init
    OBVIOUS
  <2>1. mem \in Mem
    BY ImagesAssumption DEF Init
  <2> QED
    BY <2>1, SameSets DEF Init, Machine!Init
<1>2. DivuInv /\ NoOverwrite /\ [Next]_vars => [Machine!DivuNext]_(Machine!vars)
  BY StepIsMachineStep
<1> QED
  BY DivisionInvariant, <1>1, <1>2, PTL
     DEF Spec, ImplementsDivuMachine, Machine!DivuSpec

(* In particular the register a DIVU leaves behind holds the quotient of   *)
(* what its sources held: the claim the code breaks exactly where a DIVU   *)
(* overwrites them.                                                        *)
THEOREM DivuDivides == Spec /\ []NoOverwrite => DivuIsDivision
<1>1. ASSUME DivuInv, NoOverwrite, DivuEdge, ~PC_stall, Instruction.rd # 0
      PROVE  X_p'[Instruction.rd] = Machine!DivuResult(X_arch[Instruction.rs1],
                                                X_arch[Instruction.rs2])
  <2>1. Instruction.rd \in Reg
    BY <1>1, OperandTypes, DecodeType DEF DivuInv
  <2> QED
    BY <1>1, <2>1, LastEdge
<1>2. DivuInv /\ NoOverwrite =>
        [DivuEdge /\ ~PC_stall /\ Instruction.rd # 0 =>
           X_p'[Instruction.rd] =
             Machine!DivuResult(X_arch[Instruction.rs1],
                                X_arch[Instruction.rs2])]_vars
  BY <1>1
<1> QED
  BY DivisionInvariant, <1>2, PTL DEF DivuIsDivision

----------------------------------------------------------------------------
(* How long a stall may last: the remainder, or on the first edge, which   *)
(* loads the dividend, more than any.                                      *)
StallLeft == IF state_p = "INIT" THEN BYTE ELSE subtrahend_p
StallsCountDown ==
  [][PC_stall => \/ Reset
                 \/ DivuEdge /\ start_i' /\ (PC_stall' => StallLeft' < StallLeft)
    ]_vars

LEMMA StallStep ==
  ASSUME DivuInv, NoOverwrite, Next, PC_stall
  PROVE  \/ Reset
         \/ DivuEdge /\ start_i' /\ (PC_stall' => StallLeft' < StallLeft)
<1>1. start_i /\ ~finish_o
  BY DEF PC_stall
<1>2. SUFFICES ASSUME DivuEdge
               PROVE  start_i' /\ (PC_stall' => StallLeft' < StallLeft)
  BY <1>1 DEF Next, Clock, SimpleEdge
<1>3. Instruction' = Instruction /\ start_i' = start_i
  BY <1>2 DEF DivuEdge, Instruction, start_i
<1>4. divider_i!ClockEdge /\ state_p \in {"INIT", "BUSY"}
  BY <1>1, <1>2 DEF DivuEdge, finish_o, divider_i!finish_o, DivuInv, TypeInv
<1>5. PC_stall' => state_p' # "FINISH"
  BY DEF PC_stall, finish_o, divider_i!finish_o
<1>6. Dividend \in 0 .. BYTE - 1 /\ Divisor \in 0 .. BYTE - 1
  BY <1>1, SourcesKept DEF Byte
<1>7. CASE state_p = "INIT"
  <2>1. subtrahend_p' = Dividend /\ state_p' # "INIT"
    BY <1>1, <1>4, <1>7, FirstEdge, SourcesKept
       DEF divider_i!ClockEdge, divider_i!subtrahend_n
  <2>2. StallLeft' = Dividend /\ StallLeft = BYTE
    BY <1>7, <2>1 DEF StallLeft
  <2> QED
    BY <1>1, <1>3, <1>6, <2>2, ByteSize
<1>8. CASE state_p = "BUSY"
  <2>1. /\ subtrahend_p' = IF subtrahend_p >= Divisor
                           THEN subtrahend_p - Divisor ELSE subtrahend_p
        /\ state_p' = IF subtrahend_p' >= Divisor THEN "BUSY" ELSE "FINISH"
    BY <1>1, <1>4, <1>8, SourcesKept DEF divider_i!ClockEdge,
       divider_i!state_n, divider_i!subtrahend_n, divider_i!Subtracts
  <2>2. Divisor # 0 /\ subtrahend_p \in 0 .. BYTE - 1
    BY <1>8 DEF DivuInv, TypeInv, Byte
  <2>3. StallLeft' = subtrahend_p' /\ StallLeft = subtrahend_p
    BY <1>8, <2>1 DEF StallLeft
  <2>4. PC_stall' => subtrahend_p' < subtrahend_p
    <3> SUFFICES ASSUME state_p' = "BUSY" PROVE subtrahend_p' < subtrahend_p
      BY <1>5, <2>1
    <3>1. subtrahend_p >= Divisor
      BY <2>1
    <3>2. subtrahend_p' = subtrahend_p - Divisor
      BY <2>1, <3>1
    <3> QED
      BY <1>6, <2>2, <3>2, ByteSize
  <2> QED
    BY <1>1, <1>3, <2>3, <2>4
<1> QED
  BY <1>4, <1>7, <1>8

(* Where no DIVU overwrites its sources, a stall that is not reset is over *)
(* after at most as many edges as a byte has values, and one more: each    *)
(* edge leaves less to subtract.  A clock that goes on is all that         *)
(* `StallEnds' needs beside.                                               *)
THEOREM StallsAreShort == Spec /\ []NoOverwrite => StallsCountDown
<1>1. DivuInv /\ NoOverwrite /\ [Next]_vars =>
        [PC_stall =>
           \/ Reset
           \/ DivuEdge /\ start_i' /\ (PC_stall' => StallLeft' < StallLeft)]_vars
  BY StallStep
<1> QED
  BY <1>1, DivisionInvariant, PTL DEF Spec, StallsCountDown
=============================================================================
