SPECIFICATION FairPredictSpec
CONSTANTS
  Programs <- LoopsAndBranch
  Copies = 1
  procs = 2
  MAXPROCPAGES = 15
  PAGESIZE = 3
  PAGEWAIT = 2
  PHYSICALPAGES = 6
  NoProcess = NoProcess
  Load <- Drawn
  Decide <- Decisions
PROPERTIES NoStandstill SendsForRoom OnlyNeededComeIn Ends
CHECK_DEADLOCK FALSE
