\* while (c) if (a) return; else return;
CONSTANTS
  N = 7
  Block <- MCBlock
  Entry = 1
  Null = Null
  Graphs <- DeadJoin
SPECIFICATION Spec
PROPERTY Terminates
CHECK_DEADLOCK FALSE
