SPECIFICATION Spec
CONSTANTS
  BYTE = 4
  NREGS = 4
  MEM_SIZE = 28
  PAR_SIZE = 0
  NSTDIN = 2
  stdin_buffer <- Stdin2
  Fields <- McFields
  AluResult <- McAluResult
  AluBranch <- McAluBranch
  XWords <- XZero
  Images <- OverwriteImages
PROPERTIES DivuIsDivision
