SPECIFICATION TbSpec
CONSTANTS
  BYTE = 4
  NREGS = 3
  MEM_SIZE = 24
  PAR_SIZE = 0
  NSTDIN = 2
  stdin_buffer <- Stdin2
  Fields <- McFields
  AluResult <- McAluResult
  AluBranch <- McAluBranch
  XWords <- XZero
  Images <- EbreakImages
  MaxCycles = 18
  DrainEdges = 3
  MaxResets = 0
INVARIANTS EbreakFinishes
CHECK_DEADLOCK FALSE
