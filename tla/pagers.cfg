SPECIFICATION FairLinkedSpec
CONSTANTS
  Programs <- Kinds
  Copies = 1
  procs = 2
  MAXPROCPAGES = 5
  PAGESIZE = 1
  PAGEWAIT = 5
  PHYSICALPAGES = 5
  NoProcess = NoProcess
  Load <- process_load
  Decide <- bcontext_decide
  MAXBRINGS = 2
  MaxRun = 2
  MAXITERATIONS = 5
INVARIANTS TypeOK FramesConserved BusyUntilEmpty PcInProgram ServesFirst TestFlags
PROPERTIES QueueServed ImplementsSimulator QueueEnds OnlyWaitersServed SentForRoom TestEnds
CHECK_DEADLOCK FALSE
