\* Every program of MCPrograms, with every graph of Size blocks.
CONSTANTS
  Block <- MCBlock
  Entry = 1
  Null = Null
  Width = 3
  Size = 5
  GlobalVar <- MCGlobalVar
  Inputs <- MCInputs
  Programs <- MCPrograms
SPECIFICATION Spec
INVARIANTS ComponentsExact LoopsAreNatural ParentEncloses MeaningPreserved NothingInvariantLeft
PROPERTY Terminates
CHECK_DEADLOCK FALSE
