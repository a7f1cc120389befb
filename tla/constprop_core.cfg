\* Every function of MCPrograms.
CONSTANTS
  Block <- MCBlock
  Entry = 1
  Null = Null
  Width = 3
  GlobalVar <- MCGlobalVar
  Inputs <- MCInputs
  Programs <- MCPrograms
SPECIFICATION Spec
INVARIANTS MeaningPreserved UsesInStep BlocksExact NothingLeftToFold PhisMatchPreds
PROPERTY Terminates
CHECK_DEADLOCK FALSE
