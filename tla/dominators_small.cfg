\* Every clean graph of four blocks.
CONSTANTS
  N = 4
  Block <- MCBlock
  Entry = 1
  Null = Null
  Graphs <- CleanGraphs
SPECIFICATION Spec
INVARIANTS AssertionsHold IdomClimbs IdomCorrect FrontierCorrect TreeCorrect
PROPERTY Terminates
CHECK_DEADLOCK FALSE
