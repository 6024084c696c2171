------------------------------ MODULE MultiLookup ------------------------------
(***************************************************************************)
(* The concurrent DNS resolver of PA-Three/PA3: requester threads read the *)
(* host names of the input files into a bounded stack shared under         *)
(* buffer_lock, resolver threads take them out, look them up and write one *)
(* result line each, and main joins both.  The two condition variables     *)
(* carry the names of the code: requesters sleep on isFull, resolvers on   *)
(* isEmpty.                                                                *)
(*                                                                         *)
(* A step is one critical section, or the part of it between two accesses  *)
(* another thread can observe.  threadsFinished is counted, and isEmpty    *)
(* broadcast, without buffer_lock, so those are steps of their own.        *)
(***************************************************************************)
EXTENDS Integers, Sequences, FiniteSets, Functions

CONSTANTS
  Requesters,         \* requester threads, threadCount of them
  Resolvers,          \* resolver threads
  ArraySize,          \* ARRAY_SIZE, the slots of the shared buffer
  Args,               \* argv[5..]: one record per file argument, see FileArg
  SpuriousWakeups,    \* may pthread_cond_wait return unsignalled (POSIX)?
  Free,               \* no thread holds the mutex
  Main,               \* the thread that runs main
  NoFile,             \* currentFile before any fopen: an uninitialised pointer
  NoName,             \* a slot of the malloc'd buffer that was never written
  NullName,           \* a NULL pointer read from below the buffer
  Wild                \* a pointer to no mapped memory read from below it

\* What the program can tell about a file argument: whether fopen(.., "r") works
\* and the path is longer than six characters (isValidFile), whether
\* fopen(.., "r+") works too, and how many lines it holds.
FileArg == [readable : BOOLEAN, longPath : BOOLEAN, writable : BOOLEAN, lines : Nat]

Threads == Requesters \cup Resolvers

ASSUME ThreadsAssumption ==
  /\ IsFiniteSet(Requesters) /\ Requesters # {}
  /\ IsFiniteSet(Resolvers)  /\ Resolvers # {}
  /\ Requesters \cap Resolvers = {}
  /\ Free \notin Threads /\ Main \notin Threads
ASSUME SizeAssumption == ArraySize \in Nat \ {0}
ASSUME ArgsAssumption == Args \in Seq(FileArg)
ASSUME SpuriousAssumption == SpuriousWakeups \in BOOLEAN
ASSUME NoFileAssumption == NoFile \notin Nat

-----------------------------------------------------------------------------
(* The list of input files and the names in them.                          *)

isValidFile(arg) == arg.readable /\ arg.longPath

\* The files array keeps the valid arguments in command-line order.
Files == {f \in DOMAIN Args : isValidFile(Args[f])}

\* One name per line: <<f, l>> is line l of file f.
Names == UNION {{f} \X (1..Args[f].lines) : f \in Files}

\* The words the threads index as buffer[i].  Below slot 0 lie, on x86-64,
\* currentPosition at -1 and then buffer_lock from its end: two unused list
\* pointers (-2, -3) and its kind (-4), all zero, and words in use.
Slots      == 0..(ArraySize - 1)
ListWords  == {-2, -3}
KindWord   == -4
ZeroWords  == ListWords \cup {KindWord}

ASSUME NamesAssumption ==
  /\ NoName \notin Names /\ NullName \notin Names /\ Wild \notin Names
  /\ NoName # NullName /\ NoName # Wild /\ NullName # Wild

VARIABLES
  pc,               \* where each thread is
  fileLock,         \* owner of inputFiles.file_lock
  serviceLock,      \* owner of service_lock
  bufferLock,       \* owner of sharedBuffer.buffer_lock
  resultsLock,      \* owner of results_lock
  serviced,         \* files[f].serviced
  current,          \* per requester: currentFile
  line,             \* per requester: the line getline returns next
  serviceCount,     \* per requester: files it claimed
  threadsFinished,  \* sharedBuffer.threadsFinished
  position,         \* sharedBuffer.currentPosition
  buffer,           \* sharedBuffer.buffer (a taken slot keeps its pointer) and the
                    \* zero words below it
  domainName,       \* per resolver: the pointer it took
  results,          \* result lines written, per name (and for NULL)
  status            \* the process: running, returned from main, or killed

fileVars    == <<fileLock, serviceLock, serviced, serviceCount, threadsFinished>>
readerVars  == <<current, line>>
bufferVars  == <<position, buffer>>
resolveVars == <<resultsLock, domainName, results>>
vars == <<pc, bufferLock, status, fileVars, readerVars, bufferVars, resolveVars>>

RequesterLabels == {"lockFile", "search", "claim", "lockService", "finish",
                    "broadcast", "lockBuffer", "fill", "waitFull", "wokenFull",
                    "done", "left"}
ResolverLabels  == {"lockBuffer", "check", "wait", "waitEmpty", "wokenEmpty",
                    "take", "lockResults", "resolve", "exited"}
MainLabels      == {"joinRequesters", "joinResolvers", "cleanup"}

PcOK(f) ==
  /\ f \in [Threads \cup {Main} -> RequesterLabels \cup ResolverLabels \cup MainLabels]
  /\ \A r \in Requesters : f[r] \in RequesterLabels
  /\ \A v \in Resolvers : f[v] \in ResolverLabels

TypeOK ==
  /\ PcOK(pc)
  /\ fileLock \in Requesters \cup {Free} /\ serviceLock \in Requesters \cup {Free}
  /\ bufferLock \in Threads \cup {Free}  /\ resultsLock \in Resolvers \cup {Free}
  /\ serviced \in [Files -> BOOLEAN]
  /\ current \in [Requesters -> Files \cup {NoFile}]
  /\ line \in [Requesters -> Nat \ {0}]
  /\ serviceCount \in [Requesters -> Nat]
  /\ threadsFinished \in Nat
  /\ position \in Int
  /\ buffer \in [Slots \cup ZeroWords -> Names \cup {NoName, NullName}]
  /\ domainName \in [Resolvers -> Names \cup {NoName, NullName, Wild}]
  /\ results \in [Names \cup {NullName} -> Nat]
  /\ status \in {"running", "returned", "killed"}

Init ==
  /\ pc = [t \in Threads \cup {Main} |->
             IF t \in Requesters THEN "lockFile"
             ELSE IF t \in Resolvers THEN "lockBuffer" ELSE "joinRequesters"]
  /\ fileLock = Free /\ serviceLock = Free /\ bufferLock = Free /\ resultsLock = Free
  /\ serviced = [f \in Files |-> FALSE]
  /\ current = [r \in Requesters |-> NoFile]
  /\ line = [r \in Requesters |-> 1]
  /\ serviceCount = [r \in Requesters |-> 0]
  /\ threadsFinished = 0
  /\ position = 0
  /\ buffer = [i \in Slots \cup ZeroWords |-> IF i \in Slots THEN NoName ELSE NullName]
  /\ domainName = [v \in Resolvers |-> NoName]
  /\ results = [n \in Names \cup {NullName} |-> 0]
  /\ status = "running"

-----------------------------------------------------------------------------
(* Mutexes and condition variables.                                        *)

At(t, label) == status = "running" /\ pc[t] = label

Goto(t, label) == pc' = [pc EXCEPT ![t] = label]

\* The program counters after pthread_cond_signal: one sleeper, if any, wakes.
Signalled(f, asleep, awake) ==
  LET sleepers == {t \in Threads : f[t] = asleep}
  IN  IF sleepers = {} THEN {f} ELSE {[f EXCEPT ![t] = awake] : t \in sleepers}

SignalIsEmpty(f) == Signalled(f, "waitEmpty", "wokenEmpty")
SignalIsFull(f)  == Signalled(f, "waitFull", "wokenFull")

BroadcastIsEmpty(f) ==
  [t \in DOMAIN f |-> IF f[t] = "waitEmpty" THEN "wokenEmpty" ELSE f[t]]

\* A thread that wants buffer_lock, or was woken and must have it back, gets it.
LockBuffer(t, from, to) ==
  /\ At(t, from)
  /\ bufferLock = Free /\ bufferLock' = t
  /\ Goto(t, to)
  /\ UNCHANGED <<status, fileVars, readerVars, bufferVars, resolveVars>>

SpuriousWake(t) ==
  /\ SpuriousWakeups
  /\ \/ At(t, "waitFull") /\ Goto(t, "wokenFull")
     \/ At(t, "waitEmpty") /\ Goto(t, "wokenEmpty")
  /\ UNCHANGED <<bufferLock, status, fileVars, readerVars, bufferVars, resolveVars>>

\* A memory fault ends the process whatever its threads are doing.
Kill ==
  /\ status' = "killed"
  /\ UNCHANGED <<pc, bufferLock, fileVars, readerVars, bufferVars, resolveVars>>

-----------------------------------------------------------------------------
(* requesterThreads: claim a file.                                         *)

\* Mutant: the search starts without waiting for file_lock.
LockFileUnguarded(r) ==
  /\ At(r, "lockFile")
  /\ fileLock' = r
  /\ Goto(r, "search")
  /\ UNCHANGED <<bufferLock, status, serviceLock, serviced, serviceCount,
                 threadsFinished, readerVars, bufferVars, resolveVars>>

LockFile(r) ==
  /\ At(r, "lockFile")
  /\ fileLock = Free /\ fileLock' = r
  /\ Goto(r, "search")
  /\ UNCHANGED <<bufferLock, status, serviceLock, serviced, serviceCount,
                 threadsFinished, readerVars, bufferVars, resolveVars>>

Unserviced == {f \in Files : ~serviced[f]}

\* The loop stops at the first file nobody serviced yet.
FindFile(r) ==
  /\ At(r, "search")
  /\ \E f \in Unserviced :
        /\ \A g \in Unserviced : f <= g
        /\ current' = [current EXCEPT ![r] = f]
  /\ Goto(r, "claim")
  /\ UNCHANGED <<bufferLock, status, fileVars, line, bufferVars, resolveVars>>

\* It marks the file and opens it before the lock is released.
ClaimFile(r) ==
  /\ At(r, "claim")
  /\ serviced' = [serviced EXCEPT ![current[r]] = TRUE]
  /\ line' = [line EXCEPT ![r] = 1]
  /\ serviceCount' = [serviceCount EXCEPT ![r] = @ + 1]
  /\ fileLock' = Free
  /\ Goto(r, "lockBuffer")
  /\ UNCHANGED <<bufferLock, status, serviceLock, threadsFinished, current,
                 bufferVars, resolveVars>>

\* The last file is serviced: the thread goes on to log its count and leave.
FindNothing(r) ==
  /\ At(r, "search")
  /\ Files # {} /\ Unserviced = {}
  /\ Goto(r, "lockService")
  /\ UNCHANGED <<bufferLock, status, fileVars, readerVars, bufferVars, resolveVars>>

\* Mutant: an empty list is left with file_lock held.
FindNoListKeepsLock(r) ==
  /\ At(r, "search")
  /\ Files = {}
  /\ Goto(r, "lockBuffer")
  /\ UNCHANGED <<bufferLock, status, fileVars, readerVars, bufferVars, resolveVars>>

\* No valid argument at all: the loop body never runs, so canService is 0 but
\* the thread goes on to the buffer with currentFile uninitialised.
FindNoList(r) ==
  /\ At(r, "search")
  /\ Files = {}
  /\ fileLock' = Free
  /\ Goto(r, "lockBuffer")
  /\ UNCHANGED <<bufferLock, status, serviceLock, serviced, serviceCount,
                 threadsFinished, readerVars, bufferVars, resolveVars>>

LockService(r) ==
  /\ At(r, "lockService")
  /\ serviceLock = Free /\ serviceLock' = r
  /\ Goto(r, "finish")
  /\ UNCHANGED <<bufferLock, status, fileLock, serviced, serviceCount,
                 threadsFinished, readerVars, bufferVars, resolveVars>>

\* Mutant: the threads left are counted down from zero.
FinishCountsDown(r) ==
  /\ At(r, "finish")
  /\ threadsFinished' = threadsFinished - 1
  /\ Goto(r, "broadcast")
  /\ UNCHANGED <<bufferLock, status, fileLock, serviceLock, serviced, serviceCount,
                 readerVars, bufferVars, resolveVars>>

\* The line "serviced n files" is serviceCount[r] from here on.
Finish(r) ==
  /\ At(r, "finish")
  /\ threadsFinished' = threadsFinished + 1
  /\ Goto(r, "broadcast")
  /\ UNCHANGED <<bufferLock, status, fileLock, serviceLock, serviced, serviceCount,
                 readerVars, bufferVars, resolveVars>>

\* Mutant: pthread_exit with file_lock held.
BroadcastKeepsLock(r) ==
  /\ At(r, "broadcast")
  /\ pc' = BroadcastIsEmpty([pc EXCEPT ![r] = "done"])
  /\ serviceLock' = Free
  /\ UNCHANGED <<bufferLock, status, fileLock, serviced, serviceCount,
                 threadsFinished, readerVars, bufferVars, resolveVars>>

Broadcast(r) ==
  /\ At(r, "broadcast")
  /\ pc' = BroadcastIsEmpty([pc EXCEPT ![r] = "done"])
  /\ serviceLock' = Free /\ fileLock' = Free
  /\ UNCHANGED <<bufferLock, status, serviced, serviceCount, threadsFinished,
                 readerVars, bufferVars, resolveVars>>

-----------------------------------------------------------------------------
(* requesterThreads: copy the file into the buffer, buffer_lock held.      *)

Opened(r)   == current[r] # NoFile /\ Args[current[r]].writable
HasLine(r)  == Opened(r) /\ line[r] <= Args[current[r]].lines

Put(r) ==
  /\ At(r, "fill")
  /\ HasLine(r) /\ position \in Slots \cup ListWords
  /\ buffer' = [buffer EXCEPT ![position] = <<current[r], line[r]>>]
  /\ position' = position + 1
  /\ line' = [line EXCEPT ![r] = @ + 1]
  /\ UNCHANGED <<pc, bufferLock, status, fileVars, current, resolveVars>>

\* Mutant: no signal before the sleep.
WaitFullSilently(r) ==
  /\ At(r, "fill")
  /\ HasLine(r) /\ position = ArraySize
  /\ Goto(r, "waitFull")
  /\ bufferLock' = Free
  /\ UNCHANGED <<status, fileVars, readerVars, bufferVars, resolveVars>>

\* Full: wake a resolver, sleep on isFull, and test again once awake.
WaitFull(r) ==
  /\ At(r, "fill")
  /\ HasLine(r) /\ position = ArraySize
  /\ pc' \in SignalIsEmpty([pc EXCEPT ![r] = "waitFull"])
  /\ bufferLock' = Free
  /\ UNCHANGED <<status, fileVars, readerVars, bufferVars, resolveVars>>

\* A store over currentPosition, or over the fields of buffer_lock in use, by a
\* process that is past saving: see UnderflowIsFatal.  Taken to end the process at
\* once, where the code may also go on for a while with an index it has overwritten.
PutBelow(r) ==
  /\ At(r, "fill")
  /\ HasLine(r) /\ position < 0 /\ position \notin ListWords
  /\ Kill

\* getline on NULL (the file opens "r" but not "r+"), or on an uninitialised
\* FILE pointer.
ReadUnopened(r) ==
  /\ At(r, "fill")
  /\ ~Opened(r)
  /\ Kill

\* Mutant: no signal at the end of a file.
EndFileSilently(r) ==
  /\ At(r, "fill")
  /\ Opened(r) /\ ~HasLine(r)
  /\ Goto(r, "lockFile")
  /\ bufferLock' = Free
  /\ UNCHANGED <<status, fileVars, readerVars, bufferVars, resolveVars>>

EndFile(r) ==
  /\ At(r, "fill")
  /\ Opened(r) /\ ~HasLine(r)
  /\ pc' \in SignalIsEmpty([pc EXCEPT ![r] = "lockFile"])
  /\ bufferLock' = Free
  /\ UNCHANGED <<status, fileVars, readerVars, bufferVars, resolveVars>>

\* An uninitialised FILE pointer may also read as an ended stream; canService is
\* 0, so the thread returns without having been counted in threadsFinished.
LeaveUncounted(r) ==
  /\ At(r, "fill")
  /\ current[r] = NoFile
  /\ pc' \in SignalIsEmpty([pc EXCEPT ![r] = "left"])
  /\ bufferLock' = Free
  /\ UNCHANGED <<status, fileVars, readerVars, bufferVars, resolveVars>>

requesterThreads(r) ==
  \/ LockFile(r) \/ FindFile(r) \/ ClaimFile(r) \/ FindNothing(r) \/ FindNoList(r)
  \/ LockService(r) \/ Finish(r) \/ Broadcast(r)
  \/ LockBuffer(r, "lockBuffer", "fill") \/ LockBuffer(r, "wokenFull", "fill")
  \/ Put(r) \/ WaitFull(r) \/ PutBelow(r) \/ ReadUnopened(r)
  \/ EndFile(r) \/ LeaveUncounted(r)

-----------------------------------------------------------------------------
(* resolverThreads.                                                        *)

\* Mutant: a resolver leaves as soon as any requester is counted.
CheckBufferEarly(v) ==
  /\ At(v, "check")
  /\ \/ position # 0 /\ Goto(v, "take") /\ UNCHANGED bufferLock
     \/ /\ position = 0 /\ threadsFinished # 0
        /\ Goto(v, "exited") /\ bufferLock' = Free
     \/ /\ position = 0 /\ threadsFinished = 0
        /\ Goto(v, "wait") /\ UNCHANGED bufferLock
  /\ UNCHANGED <<status, fileVars, readerVars, bufferVars, resolveVars>>

\* The buffer is empty: leave if the last requester is counted, else get ready
\* to sleep.  The count is read here, and may change before the thread sleeps.
CheckBuffer(v) ==
  /\ At(v, "check")
  /\ \/ position # 0 /\ Goto(v, "take") /\ UNCHANGED bufferLock
     \/ /\ position = 0 /\ threadsFinished = Cardinality(Requesters)
        /\ Goto(v, "exited") /\ bufferLock' = Free
     \/ /\ position = 0 /\ threadsFinished # Cardinality(Requesters)
        /\ Goto(v, "wait") /\ UNCHANGED bufferLock
  /\ UNCHANGED <<status, fileVars, readerVars, bufferVars, resolveVars>>

\* Mutant: no signal before the sleep.
WaitEmptySilently(v) ==
  /\ At(v, "wait")
  /\ Goto(v, "waitEmpty")
  /\ bufferLock' = Free
  /\ UNCHANGED <<status, fileVars, readerVars, bufferVars, resolveVars>>

WaitEmpty(v) ==
  /\ At(v, "wait")
  /\ pc' \in SignalIsFull([pc EXCEPT ![v] = "waitEmpty"])
  /\ bufferLock' = Free
  /\ UNCHANGED <<status, fileVars, readerVars, bufferVars, resolveVars>>

\* The word at buffer[i] read as a char pointer.
WordAt(i) == IF i \in DOMAIN buffer THEN buffer[i] ELSE Wild

\* Mutant: the slot is read before the index is decremented.
TakeBeforeDecrement(v) ==
  /\ At(v, "take")
  /\ position' = position - 1
  /\ domainName' = [domainName EXCEPT ![v] = WordAt(position)]
  /\ bufferLock' = Free
  /\ Goto(v, "lockResults")
  /\ UNCHANGED <<status, fileVars, readerVars, buffer, resultsLock, results>>

\* A woken thread comes here without testing position again.
Take(v) ==
  /\ At(v, "take")
  /\ position' = position - 1
  /\ domainName' = [domainName EXCEPT ![v] = WordAt(position - 1)]
  /\ bufferLock' = Free
  /\ Goto(v, "lockResults")
  /\ UNCHANGED <<status, fileVars, readerVars, buffer, resultsLock, results>>

LockResults(v) ==
  /\ At(v, "lockResults")
  /\ resultsLock = Free /\ resultsLock' = v
  /\ Goto(v, "resolve")
  /\ UNCHANGED <<bufferLock, status, fileVars, readerVars, bufferVars,
                 domainName, results>>

\* dnslookup and one line in the results, whether or not the name resolves.
Resolve(v) ==
  /\ At(v, "resolve")
  /\ domainName[v] \in Names \cup {NullName}
  /\ results' = [results EXCEPT ![domainName[v]] = @ + 1]
  /\ resultsLock' = Free
  /\ Goto(v, "lockBuffer")
  /\ UNCHANGED <<bufferLock, status, fileVars, readerVars, bufferVars, domainName>>

\* Mutant: the lookup of a bad pointer merely fails.
ResolveWildFails(v) ==
  /\ At(v, "resolve")
  /\ domainName[v] \notin Names \cup {NullName}
  /\ resultsLock' = Free
  /\ Goto(v, "lockBuffer")
  /\ UNCHANGED <<bufferLock, status, fileVars, readerVars, bufferVars, domainName,
                 results>>

\* dnslookup dereferences a pointer that is no string.
ResolveWild(v) ==
  /\ At(v, "resolve")
  /\ domainName[v] \notin Names \cup {NullName}
  /\ Kill

resolverThreads(v) ==
  \/ LockBuffer(v, "lockBuffer", "check") \/ LockBuffer(v, "wokenEmpty", "take")
  \/ CheckBuffer(v) \/ WaitEmpty(v) \/ Take(v)
  \/ LockResults(v) \/ Resolve(v) \/ ResolveWild(v)

-----------------------------------------------------------------------------
(* main: join both kinds of thread, then clean up and return.              *)

RequesterEnded(r) == pc[r] \in {"done", "left"}
ResolverEnded(v)  == pc[v] = "exited"

JoinRequesters ==
  /\ At(Main, "joinRequesters")
  /\ \A r \in Requesters : RequesterEnded(r)
  /\ Goto(Main, "joinResolvers")
  /\ UNCHANGED <<bufferLock, status, fileVars, readerVars, bufferVars, resolveVars>>

\* Mutant: the resolvers are not waited for.
JoinNoResolver ==
  /\ At(Main, "joinResolvers")
  /\ Goto(Main, "cleanup")
  /\ UNCHANGED <<bufferLock, status, fileVars, readerVars, bufferVars, resolveVars>>

JoinResolvers ==
  /\ At(Main, "joinResolvers")
  /\ \A v \in Resolvers : ResolverEnded(v)
  /\ Goto(Main, "cleanup")
  /\ UNCHANGED <<bufferLock, status, fileVars, readerVars, bufferVars, resolveVars>>

\* free() is called on two arrays of the stack: the allocator either stops the
\* process or takes no notice.
Cleanup ==
  /\ At(Main, "cleanup")
  /\ status' \in {"returned", "killed"}
  /\ UNCHANGED <<pc, bufferLock, fileVars, readerVars, bufferVars, resolveVars>>

main == JoinRequesters \/ JoinResolvers \/ Cleanup

Next ==
  \/ \E r \in Requesters : requesterThreads(r)
  \/ \E v \in Resolvers : resolverThreads(v)
  \/ \E t \in Threads : SpuriousWake(t)
  \/ main

\* The scheduler runs every thread that is not blocked, and dnslookup returns.
Fairness ==
  /\ \A r \in Requesters : WF_vars(requesterThreads(r))
  /\ \A v \in Resolvers : WF_vars(resolverThreads(v))
  /\ WF_vars(main)

Spec     == Init /\ [][Next]_vars
FairSpec == Spec /\ Fairness

-----------------------------------------------------------------------------
(* Where each name is.                                                     *)

\* The requesters working on a file they claimed.
Reading == {r \in Requesters : /\ pc[r] \in {"lockBuffer", "fill", "waitFull", "wokenFull"}
                               /\ current[r] # NoFile}

\* The first line of a file that is not in the buffer yet.
Unread(f) ==
  IF ~serviced[f] THEN 1
  ELSE IF \E r \in Reading : current[r] = f
       THEN line[CHOOSE r \in Reading : current[r] = f]
       ELSE Args[f].lines + 1

Stack    == [i \in 1..position |-> buffer[i - 1]]
Working  == {v \in Resolvers : pc[v] \in {"lockResults", "resolve"}}
HeldBy   == [v \in Working |-> domainName[v]]
Outcome  == IF status = "killed" \/ position < 0 THEN "failed" ELSE status

Asleep(t) == pc[t] \in {"waitFull", "waitEmpty"}
Counted(r) == pc[r] \in {"broadcast", "done"}

-----------------------------------------------------------------------------
(* Properties.                                                             *)

\* No two requesters work on one file at a time: the search and the mark under
\* file_lock are one step for the others (files[i].serviced, lines 39-63).
ClaimedOnce ==
  \A r, s \in Requesters :
    r # s /\ r \in Reading /\ s \in Reading => current[r] # current[s]

\* The counts in the service log add up to the number of files serviced, at
\* every moment (serviceCount, lines 45 and 54).
ServiceLogAdds ==
  FoldFunction(+, 0, serviceCount) = Cardinality({f \in Files : serviced[f]})

\* As long as the index has not run below the buffer, every name read from a
\* file is in exactly one place: once in the live part of the buffer, once in the
\* hands of a resolver, or once in the results; a name not read is in none.
NamesAccounted ==
  position >= 0 =>
    \A n \in Names :
      results[n] + Cardinality({i \in 1..position : Stack[i] = n})
                 + Cardinality({v \in Working : HeldBy[v] = n})
        = IF n[2] < Unread(n[1]) THEN 1 ELSE 0

\* A resolver leaves (lines 103-107) only when every requester is counted, every
\* file is read, and no name is left that would need it.
ResolverExitsLast ==
  (\E v \in Resolvers : pc[v] = "exited") =>
    /\ \A r \in Requesters : Counted(r)
    /\ \A f \in Files : serviced[f] /\ Unread(f) > Args[f].lines
    /\ position <= 0

\* While buffer_lock is free and names are in the buffer, some resolver is on its
\* way to take them: a requester that added any signalled isEmpty before it let
\* the lock go (lines 69, 74, 88), and a resolver sleeps only on an empty buffer.
NoNameStranded ==
  bufferLock = Free /\ position > 0 =>
    \E v \in Resolvers : pc[v] \notin {"waitEmpty", "exited"}

\* The threads never all end up asleep in the middle of the work: when every
\* thread sleeps or has ended, every requester has ended and the buffer is empty.
\* The signals of lines 69, 74, 88 and 108 keep one thread of each kind going.
NoMidwayDeadlock ==
  (\A t \in Threads : Asleep(t) \/ pc[t] \in {"done", "left", "exited"}) =>
    /\ \A r \in Requesters : RequesterEnded(r)
    /\ position <= 0

\* Once the index is below the buffer (a resolver woken by the broadcast or after
\* a name was taken in its place does not test it again, lines 103-114), the
\* process is doomed: some resolver holds the pointer read at buffer[-1] and will
\* pass it to dnslookup.
UnderflowIsFatal ==
  position < 0 /\ status # "killed" =>
    \E v \in Working : domainName[v] = Wild

-----------------------------------------------------------------------------
(* The inductive invariant behind ClaimedOnce, ResolverExitsLast and           *)
(* NoNameStranded.                                                             *)

HoldsFileLock(r)   == pc[r] \in {"search", "claim", "lockService", "finish", "broadcast"}
HoldsBufferLock(t) == pc[t] \in {"fill", "check", "wait", "take"}

LockInv ==
  /\ \A r \in Requesters : HoldsFileLock(r) <=> fileLock = r
  /\ \A t \in Threads : HoldsBufferLock(t) <=> bufferLock = t

FileInv ==
  /\ \A r \in Requesters :
       pc[r] = "claim" => current[r] # NoFile /\ ~serviced[current[r]]
  /\ \A r \in Reading : serviced[current[r]]
  /\ ClaimedOnce

CountInv ==
  /\ threadsFinished = Cardinality({r \in Requesters : Counted(r)})
  /\ \A r \in Requesters :
       pc[r] \in {"lockService", "finish", "broadcast", "done"} =>
         \A f \in Files : serviced[f]
  /\ (\E v \in Resolvers : pc[v] = "exited") =>
       (\A r \in Requesters : Counted(r)) /\ position <= 0

SleepInv ==
  /\ \A v \in Resolvers : pc[v] = "wait" => position = 0
  /\ NoNameStranded

\* Who holds which lock, what the holder has seen, and what a thread that is
\* asleep or gone may rely on (the critical sections of lines 38-63, 66-89 and
\* 102-115).
IInv == LockInv /\ FileInv /\ CountInv /\ SleepInv

-----------------------------------------------------------------------------
(* The abstract specification, and liveness.                                   *)

Delivery ==
  INSTANCE NameDelivery WITH
    Lines    <- [f \in Files |-> Args[f].lines],
    Capacity <- ArraySize,
    Workers  <- Cardinality(Resolvers),
    unread   <- [f \in Files |-> Unread(f)],
    stack    <- Stack,
    held     <- {HeldBy[v] : v \in {w \in Working : HeldBy[w] \in Names}},
    written  <- {n \in Names : results[n] > 0},
    outcome  <- Outcome

\* The threads implement NameDelivery: every step is a put, a take of the newest
\* name, a write, the return of main with every name written, or none of these.
DeliversSafely == Delivery!Safe

\* They also get every name written, unless the process fails.
Delivers == Delivery!Spec

\* Every requester ends and is counted, unless the process is killed: none keeps a
\* lock another needs, and each full buffer is emptied (lines 34-91).
RequestersFinish == <>(status = "killed" \/ \A r \in Requesters : pc[r] = "done")

\* What line 114 says of itself, "get the next avaiable item": a resolver that is
\* about to take an item finds one.
TakesAnItem == \A v \in Resolvers : At(v, "take") => position > 0

\* What lines 56 and 104 say of threadsFinished: "need this to know when resolvers
\* should end", "keep all resolver threads alive until the last requestor thread".
ResolversEnd ==
  (\A r \in Requesters : pc[r] = "done")
    ~> (status = "killed" \/ \A v \in Resolvers : pc[v] = "exited")

\* PA3/README.md line 16 lists "when you are given a bunch of bogus filenames, the
\* programs freezes" as FIXED.  Without a single valid file, the process either faults
\* or freezes: the requesters leave uncounted (lines 39-67), so that every resolver
\* sleeps on isEmpty and main sleeps in the join for good.  No run ends by itself.
Frozen ==
  /\ \A r \in Requesters : pc[r] = "left"
  /\ \A v \in Resolvers : pc[v] = "waitEmpty"
  /\ pc[Main] = "joinResolvers"

FreezesOrFaults == Files = {} => <>[](status = "killed" \/ Frozen)

=============================================================================
