SPECIFICATION LruSpec
CONSTANTS
  Programs <- LoopAndStraight
  Copies = 2
  procs = 2
  MAXPROCPAGES = 5
  PAGESIZE = 1
  PAGEWAIT = 5
  PHYSICALPAGES = 3
  NoProcess = NoProcess
  Load <- Drawn
  Decide <- Decisions
PROPERTIES SendsLeastRecent
CHECK_DEADLOCK FALSE
