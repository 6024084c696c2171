SPECIFICATION FairSpec
CONSTANTS
  Requesters = {r1, r2}
  Resolvers = {v1, v2}
  ArraySize = 1
  Args <- TwoLong
  SpuriousWakeups = FALSE
  Free = Free
  Main = Main
  NoFile = NoFile
  NoName = NoName
  NullName = NullName
  Wild = Wild
PROPERTIES Delivers RequestersFinish
CHECK_DEADLOCK FALSE
