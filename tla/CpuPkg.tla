------------------------------- MODULE CpuPkg -------------------------------
(***************************************************************************)
(* What the processors of the repository share: the machine word, the     *)
(* fields of an instruction, the decoder, and the bus of riscv_core.sv     *)
(* with its memory, its stdin port and its stdout port.                    *)
(*                                                                         *)
(* The code fixes 8-bit bytes, 32 registers and a 0x7ec-byte memory; they  *)
(* are parameters here, so that a theorem holds for the real sizes and TLC *)
(* checks small ones.  An encoding is abstract: Fields maps a word to the  *)
(* fields the decoder slices out of it.  The arithmetic of alu.sv is a     *)
(* pair of constant operators, defined in Alu.tla and instantiated in the  *)
(* MC modules: nothing the pipeline does depends on what they compute.     *)
(***************************************************************************)
EXTENDS Integers, Sequences

CONSTANTS
  BYTE,               \* number of values of a byte (256 in the code)
  NREGS,              \* number of registers (32)
  MEM_SIZE,           \* bytes of memory, from address 0 (0x7ec)
  PAR_SIZE,           \* bytes of the unused parallel ports above it (16)
  stdin_buffer,       \* contents of the stdin buffer, fixed at time 0
  NSTDIN,             \* its length (256): the pointer wraps there
  Fields(_),          \* the instruction fields of a word
  AluResult(_, _, _), \* alu_result_o of alu.sv: operator, operands 1 and 2
  AluBranch(_, _, _), \* alu_branch_o of alu.sv
  XWords,             \* what a read nobody drives may return
  Images              \* memory contents that memory.sv may load at time 0

----------------------------------------------------------------------------
(* Words, registers and instruction fields *)

WORD == BYTE * BYTE * BYTE * BYTE
Byte == 0 .. BYTE - 1
Word == 0 .. WORD - 1
Reg  == 0 .. NREGS - 1
Addr == 0 .. MEM_SIZE - 1

AddW(a, b) == (a + b) % WORD

RESET_ADDR == 0

AluOp == {"ADD", "SUB", "XOR", "OR", "AND", "SRL", "SRA", "SLL"}
BranchOp == {"EQ", "NE", "GES", "LTS"}
Opcode == {"LOAD", "IMM", "STORE", "ALSU", "BRANCH", "SYSTEM", "LUI",
           "JALR", "JAL", "OTHER"}

(* funct stands for funct3, funct7 and funct12 together: the ALU or branch *)
(* operator they select, "DIVU", "EBREAK" for funct12 = 1 and funct3 = 0,  *)
(* or "NONE" for an encoding no decoder knows.  rd is bits 11:7 whatever   *)
(* the format (part of the immediate of a store or a branch).  imm is the  *)
(* immediate of the opcode's format, sign extended.                        *)
Funct == AluOp \cup BranchOp \cup {"DIVU", "EBREAK", "NONE"}
Instr == [opcode : Opcode, funct : Funct, rd : Reg, rs1 : Reg, rs2 : Reg,
          imm : Word]

ASSUME SizesAssumption ==
  /\ BYTE \in Nat \ {0, 1}
  /\ NREGS \in Nat \ {0, 1}
  /\ MEM_SIZE \in Nat
  /\ PAR_SIZE \in Nat
  /\ NSTDIN \in Nat \ {0}
  /\ MEM_SIZE + PAR_SIZE + 4 <= WORD

ASSUME DataAssumption ==
  /\ stdin_buffer \in [0 .. NSTDIN - 1 -> Word]
  /\ XWords \subseteq Word /\ XWords # {}
  /\ \A w \in Word : Fields(w) \in Instr

ASSUME AluAssumption ==
  \A op \in AluOp \cup BranchOp : \A a, b \in Word :
    /\ AluResult(op, a, b) \in Word
    /\ AluBranch(op, a, b) \in BOOLEAN

(* The word 0x13 the pipeline puts in place of a flushed instruction, the  *)
(* word 0 its instruction register holds after a reset, and the word of    *)
(* unknown bits fetched from an address no memory answers.  No field of    *)
(* the last equals any constant it is compared with.                       *)
NopInstr == [opcode |-> "IMM", funct |-> "ADD", rd |-> 0, rs1 |-> 0,
             rs2 |-> 0, imm |-> 0]
ZeroInstr == [opcode |-> "OTHER", funct |-> "NONE", rd |-> 0, rs1 |-> 0,
              rs2 |-> 0, imm |-> 0]
XInstr == [opcode |-> "OTHER", funct |-> "NONE", rd |-> 1, rs1 |-> 1,
           rs2 |-> 1, imm |-> 0]

----------------------------------------------------------------------------
(* Decoder *)

Legal(i) ==
  \/ i.opcode \in {"JAL", "JALR", "LOAD", "STORE", "LUI"}
  \/ i.opcode = "BRANCH" /\ i.funct \in BranchOp
  \/ i.opcode = "IMM" /\ i.funct = "ADD"
  \/ i.opcode = "ALSU" /\ i.funct \in AluOp

(* SYSTEM with funct12 = 1 and funct3 = 0; rs1 always compares equal to 0  *)
(* because the decoder never makes it valid for SYSTEM.                    *)
IsEbreak(i) == i.opcode = "SYSTEM" /\ i.funct = "EBREAK"

(* The opcode as the decoder's outputs show it: an instruction that is not *)
(* legal has all its control signals gated.                                *)
Op(i) == IF Legal(i) THEN i.opcode ELSE "OTHER"

Rs1(i) == IF Op(i) \in {"JALR", "BRANCH", "LOAD", "STORE", "IMM", "ALSU"}
          THEN i.rs1 ELSE 0
Rs2(i) == IF Op(i) \in {"BRANCH", "STORE", "ALSU"} THEN i.rs2 ELSE 0

(* Control signals the execute stage uses ... *)
ExCtl == [alu_operator : AluOp \cup BranchOp, alu_src : BOOLEAN,
          alu_pc_reg_src : BOOLEAN]
DecodeEx(i) ==
  [alu_operator   |-> IF Op(i) \in {"BRANCH", "ALSU"} THEN i.funct ELSE "ADD",
   alu_src        |-> Op(i) \in {"LOAD", "STORE", "LUI", "IMM"},
   alu_pc_reg_src |-> Op(i) = "JALR"]
NopEx == [alu_operator |-> "ADD", alu_src |-> FALSE, alu_pc_reg_src |-> FALSE]

(* ... and those that act on the state of the machine. *)
WbCtl == [is_branch : BOOLEAN, is_jump : BOOLEAN, mem_read : BOOLEAN,
          mem_write : BOOLEAN, reg_write : BOOLEAN, mem_to_reg : BOOLEAN,
          cpu_halt : BOOLEAN]
DecodeWb(i, halt) ==
  [is_branch  |-> Op(i) = "BRANCH",
   is_jump    |-> Op(i) \in {"JAL", "JALR"},
   mem_read   |-> Op(i) = "LOAD",
   mem_write  |-> Op(i) = "STORE",
   reg_write  |-> Op(i) \in {"JAL", "JALR", "LOAD", "LUI", "IMM", "ALSU"},
   mem_to_reg |-> Op(i) = "LOAD",
   cpu_halt   |-> halt]
NopWb == [is_branch |-> FALSE, is_jump |-> FALSE, mem_read |-> FALSE,
          mem_write |-> FALSE, reg_write |-> FALSE, mem_to_reg |-> FALSE,
          cpu_halt |-> FALSE]

----------------------------------------------------------------------------
(* Memory, stdin and stdout on the bus *)

Mem == [Addr -> Byte]

ASSUME ImagesAssumption == Images \subseteq Mem

MemSel(a)   == a \in Addr
StdioBase   == MEM_SIZE + PAR_SIZE
StdinSel(a)  == a >= StdioBase /\ a < StdioBase + 4
StdoutSel(a) == a >= StdioBase /\ a < StdioBase + 4

(* Byte k of a word, the least significant first. *)
Weight(k) == IF k = 0 THEN 1 ELSE IF k = 1 THEN BYTE
             ELSE IF k = 2 THEN BYTE * BYTE ELSE BYTE * BYTE * BYTE
ByteOf(w, k) == (w \div Weight(k)) % BYTE

(* The little-endian word at address a; a byte beyond the array is unknown *)
(* and taken from x.                                                       *)
MemByte(m, a, k, x) ==
  LET b == AddW(a, k) IN IF b \in Addr THEN m[b] ELSE ByteOf(x, k)
ReadMem(m, a, x) ==
  MemByte(m, a, 0, x) + BYTE * (MemByte(m, a, 1, x)
    + BYTE * (MemByte(m, a, 2, x) + BYTE * MemByte(m, a, 3, x)))

(* The addresses of the four bytes of the word at a. *)
Footprint(a) == {AddW(a, k) : k \in 0 .. 3}

(* A word is written byte by byte, bytes beyond the array are dropped. *)
WriteMem(m, a, w) ==
  [b \in Addr |-> IF \E k \in 0 .. 3 : b = AddW(a, k)
                  THEN ByteOf(w, CHOOSE k \in 0 .. 3 : b = AddW(a, k))
                  ELSE m[b]]

(* The instruction the fetch sees: unknown bits unless memory drives all   *)
(* of its four bytes.                                                      *)
Fetch(m, pc) == IF MemSel(pc) /\ Footprint(pc) \subseteq Addr
                THEN Fields(ReadMem(m, pc, 0)) ELSE XInstr

(* data_rdata: memory first, then stdin, then nobody. *)
DataRead(m, ptr, a, x) == IF MemSel(a) THEN ReadMem(m, a, x)
                          ELSE IF StdinSel(a) THEN stdin_buffer[ptr] ELSE x

(* What one clock edge with address a, read enable re, write enable we and *)
(* write data w does to the memory, the stdin pointer and the stdout file. *)
MemNext(m, a, we, w) == IF we /\ MemSel(a) THEN WriteMem(m, a, w) ELSE m
StdinNext(ptr, a, re) == IF re /\ StdinSel(a) THEN (ptr + 1) % NSTDIN ELSE ptr
StdoutNext(out, a, we, w) ==
  IF we /\ StdoutSel(a) THEN Append(out, w) ELSE out
=============================================================================
