\* a[input()] = input(): which input is the subscript?
CONSTANTS
  Block = {1}
  Entry = 1
  Null = Null
  Width = 5
  Programs <- AssignOrder
  InputSeqs <- MCInputSeqs
  ArgSeqs <- MCArgSeqs
SPECIFICATION Spec
INVARIANT MeaningPreserved
CHECK_DEADLOCK FALSE
