\* Every program of MCPrograms.
CONSTANTS
  Block <- MCBlock
  Var <- MCVar
  Entry = 1
  Null = Null
  Programs <- MCPrograms
SPECIFICATION Spec
INVARIANTS InitialisedRunsThrough MeaningPreserved PhisComplete StacksFollowCalls InSSAForm
CHECK_DEADLOCK FALSE
