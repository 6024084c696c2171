SPECIFICATION ProgramSpec
CONSTANTS
  Users = {u1}
  Values = {a, b}
  BUFFER_SIZE = 3
  Lengths = {0, 1, 2, 3, 4}
  Positions = {}
  HalfInt = 4
  Junk = Junk
  NULL = NULL
  Freed = Freed
  Closed = Closed
  Idle = Idle
  MaxOpens = 2
  MaxRefused = 2
INVARIANTS BufferOutlivesCall LeaksOnlyRefused
PROPERTIES KeepsPromise
CHECK_DEADLOCK FALSE
