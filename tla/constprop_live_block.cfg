\* Every function of MCPrograms.
CONSTANTS
  Block <- MCBlock
  Entry = 1
  Null = Null
  Width = 3
  GlobalVar <- MCGlobalVar
  Inputs <- MCInputs
  Programs <- WhileFalse
SPECIFICATION Spec
INVARIANT MeaningPreserved
CHECK_DEADLOCK FALSE
