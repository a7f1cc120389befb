\* Every function of MCPrograms.
CONSTANTS
  Block <- MCBlock
  Entry = 1
  Null = Null
  Width = 3
  Programs <- MCPrograms
SPECIFICATION Spec
INVARIANTS NothingTooMuch LivenessExact
PROPERTY Terminates
CHECK_DEADLOCK FALSE
