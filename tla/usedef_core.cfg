\* Every edit sequence of one phi and two other instructions.
CONSTANTS
  c1 = c1
  b1 = b1
  b2 = b2
  p1 = p1
  u1 = u1
  u2 = u2
  Phi <- MCPhi
  Block <- MCBlock
  User <- MCUser
  Value <- MCValue
  MaxArgs = 1
  MaxPairs = 2
SPECIFICATION Spec
INVARIANTS DefUseExact NoDanglingOperand SetOperandInRange
PROPERTY ImplementsOperandMap
SYMMETRY Symmetry
CHECK_DEADLOCK FALSE
