SPECIFICATION FairSpec
CONSTANTS
  Requesters = {r1}
  Resolvers = {v1}
  ArraySize = 1
  Args <- OneFile
  SpuriousWakeups = FALSE
  Free = Free
  Main = Main
  NoFile = NoFile
  NoName = NoName
  NullName = NullName
  Wild = Wild
PROPERTIES ResolversEnd
CHECK_DEADLOCK FALSE
