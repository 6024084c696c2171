SPECIFICATION Spec
CONSTANTS
  Users = {u1, u2}
  Values = {a}
  BUFFER_SIZE = 2
  Lengths = {1, 2}
  Positions = {1, 3, 9}
  HalfInt = 4
  Junk = Junk
  NULL = NULL
  Freed = Freed
  Closed = Closed
  Idle = Idle
  MaxOpens = 2
INVARIANTS TypeOK OnlyPositionedLeave BufferOutlivesFiles
 
SYMMETRY Symmetric
CHECK_DEADLOCK FALSE
