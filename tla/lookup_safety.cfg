SPECIFICATION Spec
CONSTANTS
  Requesters = {r1, r2}
  Resolvers = {v1, v2}
  ArraySize = 2
  Args <- Mixed
  SpuriousWakeups = TRUE
  Free = Free
  Main = Main
  NoFile = NoFile
  NoName = NoName
  NullName = NullName
  Wild = Wild
SYMMETRY Alike
INVARIANTS TypeOK ClaimedOnce ServiceLogAdds NamesAccounted ResolverExitsLast NoNameStranded NoMidwayDeadlock UnderflowIsFatal
CHECK_DEADLOCK FALSE
PROPERTIES DeliversSafely
