SPECIFICATION FairSpec
CONSTANTS
  Requesters = {r1, r2}
  Resolvers = {v1, v2}
  ArraySize = 2
  Args <- AllBogus
  SpuriousWakeups = FALSE
  Free = Free
  Main = Main
  NoFile = NoFile
  NoName = NoName
  NullName = NullName
  Wild = Wild
PROPERTIES FreezesOrFaults
CHECK_DEADLOCK FALSE
