\* All programs of two declarations, five statements and nine blocks per function.
CONSTANTS
  MaxBlocks = 9
  MaxDecls = 2
  MaxStmts = 5
SPECIFICATION Spec
INVARIANTS TypeOK TerminatorIsLast EdgesMatchBranches FunctionComplete EntryHasNoPred ScopesBalanced SingleEntryLoops
CHECK_DEADLOCK FALSE
