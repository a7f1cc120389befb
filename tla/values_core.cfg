\* Every program of MCPrograms.
CONSTANTS
  Block = {1}
  Entry = 1
  Null = Null
  Width = 5
  Programs <- MCPrograms
  InputSeqs <- MCInputSeqs
  ArgSeqs <- MCArgSeqs
SPECIFICATION Spec
INVARIANTS MeaningPreserved InstructionsTyped LvalueForTargetOnly
CHECK_DEADLOCK FALSE
