---------------------------- MODULE CpuPkgLemmas ----------------------------
(***************************************************************************)
(* What the operators of CpuPkg return and preserve, for every size of the *)
(* machine: the facts the proofs about the processors rest on.             *)
(***************************************************************************)
EXTENDS CpuPkg, TLAPS

(* WORD is large enough for the constants the code adds to addresses. *)
LEMMA WordSize == WORD \in Nat /\ 4 <= WORD /\ 0 \in Word
  /\ MEM_SIZE <= WORD /\ Word \subseteq Nat
<1>1. WORD \in Nat
  BY SizesAssumption DEF WORD
<1>2. MEM_SIZE + PAR_SIZE + 4 <= WORD /\ MEM_SIZE \in Nat /\ PAR_SIZE \in Nat
  BY SizesAssumption
<1> QED
  BY <1>1, <1>2 DEF Word

(* The 32-bit sum of the code stays a word. *)
LEMMA AddWType == ASSUME NEW a \in Word, NEW b \in Nat
                  PROVE  AddW(a, b) \in Word
<1> DEFINE W == WORD
<1>1. W \in Nat /\ W > 0 /\ a \in Nat /\ b \in Nat
  BY WordSize DEF Word
<1>2. (a + b) % W \in 0 .. W - 1
  <2> HIDE DEF W
  <2> QED BY <1>1
<1> QED
  BY <1>2 DEF AddW, Word

(* The bytes of a word are bytes. *)
LEMMA ByteOfType == ASSUME NEW w \in Word, NEW k \in 0 .. 3
                    PROVE  ByteOf(w, k) \in Byte
<1>1. Weight(k) \in Nat /\ Weight(k) > 0
  <2>1. BYTE \in Nat /\ BYTE > 0
    BY SizesAssumption
  <2>2. BYTE * BYTE \in Nat /\ BYTE * BYTE > 0
    BY <2>1
  <2>3. BYTE * BYTE * BYTE \in Nat /\ BYTE * BYTE * BYTE > 0
    BY <2>1, <2>2
  <2> QED
    BY <2>1, <2>2, <2>3 DEF Weight
<1>2. w \in Nat
  BY WordSize DEF Word
<1>3. w \div Weight(k) \in Nat
  BY <1>1, <1>2
<1> QED
  BY <1>3, SizesAssumption DEF ByteOf, Byte

(* One more digit in front of a number below Q gives a number below        *)
(* BYTE * Q.                                                               *)
LEMMA DigitBound ==
  ASSUME NEW Q \in Nat, NEW d \in Byte, NEW q \in 0 .. Q - 1
  PROVE  d + BYTE * q \in 0 .. BYTE * Q - 1
<1>1. BYTE * q <= BYTE * (Q - 1)
  BY SizesAssumption
<1>2. BYTE * (Q - 1) = BYTE * Q - BYTE
  BY SizesAssumption
<1>3. BYTE * q \in Nat /\ BYTE * Q \in Nat
  BY SizesAssumption
<1> QED
  BY <1>1, <1>2, <1>3, SizesAssumption DEF Byte

(* A read of memory returns a word, whatever the undriven bytes are. *)
LEMMA ReadMemType ==
  ASSUME NEW m \in Mem, NEW a \in Word, NEW x \in Word
  PROVE  ReadMem(m, a, x) \in Word
<1> DEFINE d(k) == MemByte(m, a, k, x)
<1>1. \A k \in 0 .. 3 : d(k) \in Byte
  <2> TAKE k \in 0 .. 3
  <2>1. ByteOf(x, k) \in Byte
    BY ByteOfType
  <2> QED
    BY <2>1 DEF MemByte, Mem
<1>2. BYTE \in Nat /\ BYTE > 0
  BY SizesAssumption
<1>3. BYTE * BYTE \in Nat /\ BYTE * BYTE * BYTE \in Nat
  BY <1>2
<1>4. d(0) \in Byte /\ d(1) \in Byte /\ d(2) \in Byte /\ d(3) \in Byte
  BY <1>1
<1> HIDE DEF d
<1>5. d(2) + BYTE * d(3) \in 0 .. BYTE * BYTE - 1
  BY <1>2, <1>4, DigitBound DEF Byte
<1>6. d(1) + BYTE * (d(2) + BYTE * d(3)) \in 0 .. BYTE * (BYTE * BYTE) - 1
  BY <1>3, <1>4, <1>5, DigitBound
<1>7. BYTE * (BYTE * BYTE) \in Nat
  BY <1>2
<1>8. d(0) + BYTE * (d(1) + BYTE * (d(2) + BYTE * d(3)))
        \in 0 .. BYTE * (BYTE * (BYTE * BYTE)) - 1
  BY <1>4, <1>6, <1>7, DigitBound
<1>9. BYTE * (BYTE * (BYTE * BYTE)) = WORD
  BY <1>2 DEF WORD
<1> QED
  BY <1>8, <1>9 DEF ReadMem, d, Word

(* A store leaves a memory. *)
LEMMA WriteMemType ==
  ASSUME NEW m \in Mem, NEW a \in Word, NEW w \in Word
  PROVE  WriteMem(m, a, w) \in Mem
<1>1. \A k \in 0 .. 3 : ByteOf(w, k) \in Byte
  BY ByteOfType
<1>2. ASSUME NEW b \in Addr, \E k \in 0 .. 3 : b = AddW(a, k)
      PROVE  (CHOOSE k \in 0 .. 3 : b = AddW(a, k)) \in 0 .. 3
  BY <1>2
<1> QED
  BY <1>1, <1>2 DEF WriteMem, Mem

(* A fetch returns an instruction, a data read returns a word. *)
LEMMA XInstrType ==
  XInstr \in Instr /\ NopInstr \in Instr /\ ZeroInstr \in Instr
<1>1. 0 \in Word /\ 0 \in Reg /\ 1 \in Reg
  BY WordSize, SizesAssumption DEF Reg
<1> QED
  BY <1>1 DEF XInstr, NopInstr, ZeroInstr, Instr, Funct, Opcode, AluOp, BranchOp

LEMMA FetchType == ASSUME NEW m \in Mem, NEW p \in Word
                   PROVE  Fetch(m, p) \in Instr
BY ReadMemType, XInstrType, DataAssumption, WordSize DEF Fetch

LEMMA DataReadType ==
  ASSUME NEW m \in Mem, NEW ptr \in 0 .. NSTDIN - 1, NEW a \in Word,
         NEW x \in Word
  PROVE  DataRead(m, ptr, a, x) \in Word
BY ReadMemType, DataAssumption DEF DataRead

(* One clock edge keeps the types of the bus devices. *)
LEMMA BusType ==
  ASSUME NEW m \in Mem, NEW ptr \in 0 .. NSTDIN - 1, NEW out \in Seq(Word),
         NEW a \in Word, NEW w \in Word, NEW re \in BOOLEAN, NEW we \in BOOLEAN
  PROVE  /\ MemNext(m, a, we, w) \in Mem
         /\ StdinNext(ptr, a, re) \in 0 .. NSTDIN - 1
         /\ StdoutNext(out, a, we, w) \in Seq(Word)
<1>1. MemNext(m, a, we, w) \in Mem
  BY WriteMemType DEF MemNext
<1>2. StdinNext(ptr, a, re) \in 0 .. NSTDIN - 1
  <2>1. NSTDIN \in Nat /\ NSTDIN > 0
    BY SizesAssumption
  <2>2. (ptr + 1) % NSTDIN \in 0 .. NSTDIN - 1
    BY <2>1
  <2> QED
    BY <2>2 DEF StdinNext
<1>3. StdoutNext(out, a, we, w) \in Seq(Word)
  BY DEF StdoutNext
<1> QED
  BY <1>1, <1>2, <1>3

(* The decoder's outputs have their types; a register that is not read is  *)
(* replaced by x0.                                                         *)
LEMMA DecodeType ==
  ASSUME NEW i \in Instr, NEW halt \in BOOLEAN
  PROVE  /\ DecodeEx(i) \in ExCtl /\ DecodeWb(i, halt) \in WbCtl
         /\ Rs1(i) \in Reg /\ Rs2(i) \in Reg
         /\ i.rd \in Reg /\ i.imm \in Word
<1>1. i.rd \in Reg /\ i.rs1 \in Reg /\ i.rs2 \in Reg /\ i.imm \in Word /\ 0 \in Reg
  BY SizesAssumption DEF Instr, Reg
<1>2. Op(i) \in {"BRANCH", "ALSU"} => i.funct \in AluOp \cup BranchOp
  BY DEF Op, Legal
<1>3. DecodeEx(i) \in ExCtl
  BY <1>2 DEF DecodeEx, ExCtl, AluOp
<1>4. DecodeWb(i, halt) \in WbCtl
  BY DEF DecodeWb, WbCtl
<1> QED
  BY <1>1, <1>3, <1>4 DEF Rs1, Rs2

(* A store whose bytes are disjoint from those of an instruction leaves    *)
(* that instruction as it was.                                             *)
LEMMA FetchUnaffected ==
  ASSUME NEW m \in Mem, NEW a \in Word, NEW w \in Word, NEW p \in Word,
         Footprint(a) \cap Footprint(p) = {}
  PROVE  Fetch(WriteMem(m, a, w), p) = Fetch(m, p)
<1> DEFINE n == WriteMem(m, a, w)
<1>1. ASSUME NEW k \in 0 .. 3, AddW(p, k) \in Addr
      PROVE  n[AddW(p, k)] = m[AddW(p, k)]
  <2>1. AddW(p, k) \notin Footprint(a)
    BY DEF Footprint
  <2> QED
    BY <1>1, <2>1 DEF WriteMem, Footprint
<1>2. \A k \in 0 .. 3 : MemByte(n, p, k, 0) = MemByte(m, p, k, 0)
  BY <1>1 DEF MemByte
<1>3. ReadMem(n, p, 0) = ReadMem(m, p, 0)
  <2> HIDE DEF n
  <2> QED
    BY <1>2 DEF ReadMem
<1> QED
  BY <1>3 DEF Fetch
=============================================================================
