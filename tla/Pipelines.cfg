SPECIFICATION McSpec
CONSTANTS
  BYTE = 4
  NREGS = 3
  MEM_SIZE = 24
  PAR_SIZE = 0
  NSTDIN = 2
  stdin_buffer <- Stdin2
  Fields <- McFields
  AluResult <- McAluResult
  AluBranch <- McAluBranch
  XWords <- XTwo
  Images <- AllImages
  MaxCycles = 18
  DrainEdges = 3
  MaxResets = 2
INVARIANTS FinishOnlyAtEbreak PipeInv ThreeStageInv TwoStageFinishes StageMoreOnlyDelays
PROPERTIES ImplementsMachine EbreakAtTargetRecognised SimulationEnds ThreeStageImplementsMachine TwoStageImplementsMachine
CHECK_DEADLOCK FALSE
