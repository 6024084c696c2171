SPECIFICATION Spec
CONSTANTS
  Requesters = {r1, r2}
  Resolvers = {v1, v2}
  ArraySize = 2
  Args <- Mixed
  SpuriousWakeups = FALSE
  Free = Free
  Main = Main
  NoFile = NoFile
  NoName = NoName
  NullName = NullName
  Wild = Wild
INVARIANTS TakesAnItem
CHECK_DEADLOCK FALSE
