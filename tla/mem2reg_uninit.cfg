\* int x; if (c) x = 1;
CONSTANTS
  Block <- MCBlock
  Var <- MCVar
  Entry = 1
  Null = Null
  Programs <- MaybeSet
SPECIFICATION Spec
INVARIANT AssertionHolds
CHECK_DEADLOCK FALSE
