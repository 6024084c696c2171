---------------------------- MODULE MultiLookupProofs --------------------------
(***************************************************************************)
(* Theorems about MultiLookup for any number of threads, files and lines   *)
(* and any buffer size.                                                    *)
(***************************************************************************)
EXTENDS MultiLookup, Induction

-----------------------------------------------------------------------------
(* Condition variables: a signal moves at most one sleeper, and only to its   *)
(* woken label; if there is a sleeper, one is moved.                          *)

LEMMA SignalledStep ==
  ASSUME NEW f, NEW asleep, NEW awake, NEW g \in Signalled(f, asleep, awake)
  PROVE  \/ g = f /\ (\A t \in Threads : f[t] # asleep)
         \/ \E t \in Threads : f[t] = asleep /\ g = [f EXCEPT ![t] = awake]
  BY DEF Signalled

LEMMA SignalIsEmptyType ==
  ASSUME NEW f, PcOK(f), NEW g \in SignalIsEmpty(f)
  PROVE  /\ PcOK(g)
         /\ \A t \in Threads \cup {Main} :
              g[t] = f[t] \/ (f[t] = "waitEmpty" /\ g[t] = "wokenEmpty")
         /\ \/ \A t \in Threads : f[t] # "waitEmpty"
            \/ \E t \in Threads : g[t] = "wokenEmpty"
<1>1. CASE g = f /\ (\A t \in Threads : f[t] # "waitEmpty")
  BY <1>1
<1>2. ASSUME NEW u \in Threads, f[u] = "waitEmpty", g = [f EXCEPT ![u] = "wokenEmpty"]
      PROVE  /\ PcOK(g)
             /\ \A t \in Threads \cup {Main} :
                  g[t] = f[t] \/ (f[t] = "waitEmpty" /\ g[t] = "wokenEmpty")
             /\ g[u] = "wokenEmpty"
  BY <1>2, ThreadsAssumption
     DEF PcOK, RequesterLabels, ResolverLabels, MainLabels, Threads
<1> QED BY <1>1, <1>2, SignalledStep DEF SignalIsEmpty

LEMMA SignalIsFullType ==
  ASSUME NEW f, PcOK(f), NEW g \in SignalIsFull(f)
  PROVE  /\ PcOK(g)
         /\ \A t \in Threads \cup {Main} :
              g[t] = f[t] \/ (f[t] = "waitFull" /\ g[t] = "wokenFull")
         /\ \/ \A t \in Threads : f[t] # "waitFull"
            \/ \E t \in Threads : g[t] = "wokenFull"
<1>1. CASE g = f /\ (\A t \in Threads : f[t] # "waitFull")
  BY <1>1
<1>2. ASSUME NEW u \in Threads, f[u] = "waitFull", g = [f EXCEPT ![u] = "wokenFull"]
      PROVE  /\ PcOK(g)
             /\ \A t \in Threads \cup {Main} :
                  g[t] = f[t] \/ (f[t] = "waitFull" /\ g[t] = "wokenFull")
             /\ g[u] = "wokenFull"
  BY <1>2, ThreadsAssumption
     DEF PcOK, RequesterLabels, ResolverLabels, MainLabels, Threads
<1> QED BY <1>1, <1>2, SignalledStep DEF SignalIsFull

LEMMA BroadcastIsEmptyType ==
  ASSUME NEW f, PcOK(f)
  PROVE  /\ PcOK(BroadcastIsEmpty(f))
         /\ \A t \in Threads \cup {Main} :
              BroadcastIsEmpty(f)[t] =
                IF f[t] = "waitEmpty" THEN "wokenEmpty" ELSE f[t]
  BY ThreadsAssumption
     DEF BroadcastIsEmpty, PcOK, RequesterLabels, ResolverLabels, MainLabels, Threads

\* What a thread of each kind may do to the program counters.
LEMMA GotoRequester ==
  ASSUME PcOK(pc), NEW r \in Requesters, NEW label \in RequesterLabels
  PROVE  PcOK([pc EXCEPT ![r] = label])
  BY ThreadsAssumption DEF PcOK, Threads

LEMMA GotoResolver ==
  ASSUME PcOK(pc), NEW v \in Resolvers, NEW label \in ResolverLabels
  PROVE  PcOK([pc EXCEPT ![v] = label])
  BY ThreadsAssumption DEF PcOK, Threads

LEMMA GotoMain ==
  ASSUME PcOK(pc), NEW label \in MainLabels
  PROVE  PcOK([pc EXCEPT ![Main] = label])
  BY ThreadsAssumption DEF PcOK, Threads

-----------------------------------------------------------------------------
(* Type correctness.                                                       *)

USE DEF vars, fileVars, readerVars, bufferVars, resolveVars, At, Goto, Kill

LEMMA TypeRequester ==
  ASSUME TypeOK, NEW r \in Requesters, requesterThreads(r)
  PROVE  TypeOK'
<1> USE DEF TypeOK
<1> r \in Threads /\ Free \notin Threads
  BY ThreadsAssumption DEF Threads
<1>1. CASE LockFile(r)
  BY <1>1, GotoRequester DEF LockFile, RequesterLabels
<1>2. CASE FindFile(r)
  BY <1>2, GotoRequester DEF FindFile, Unserviced, RequesterLabels
<1>3. CASE ClaimFile(r)
  <2>1. PcOK(pc')
    BY <1>3, GotoRequester DEF ClaimFile, RequesterLabels
  <2>2. serviceCount' \in [Requesters -> Nat] /\ line' \in [Requesters -> Nat \ {0}]
    BY <1>3 DEF ClaimFile
  <2>3. serviced' \in [Files -> BOOLEAN]
    BY <1>3 DEF ClaimFile
  <2> QED BY <1>3, <2>1, <2>2, <2>3 DEF ClaimFile
<1>4. CASE FindNothing(r)
  BY <1>4, GotoRequester DEF FindNothing, RequesterLabels
<1>5. CASE FindNoList(r)
  BY <1>5, GotoRequester DEF FindNoList, RequesterLabels
<1>6. CASE LockService(r)
  BY <1>6, GotoRequester DEF LockService, RequesterLabels
<1>7. CASE Finish(r)
  <2>1. PcOK(pc')
    BY <1>7, GotoRequester DEF Finish, RequesterLabels
  <2>2. threadsFinished' \in Nat
    BY <1>7 DEF Finish
  <2> QED BY <1>7, <2>1, <2>2 DEF Finish
<1>8. CASE Broadcast(r)
  <2>1. PcOK([pc EXCEPT ![r] = "done"])
    BY GotoRequester DEF RequesterLabels
  <2> QED BY <1>8, <2>1, BroadcastIsEmptyType DEF Broadcast
<1>9. CASE LockBuffer(r, "lockBuffer", "fill") \/ LockBuffer(r, "wokenFull", "fill")
  BY <1>9, GotoRequester DEF LockBuffer, RequesterLabels
<1>10. CASE Put(r)
  <2>1. <<current[r], line[r]>> \in Names
    <3>1. current[r] \in Files /\ line[r] \in 1..Args[current[r]].lines
      BY <1>10 DEF Put, HasLine, Opened, Files, FileArg
    <3> QED BY <3>1 DEF Names
  <2>2. buffer' \in [Slots \cup ZeroWords -> Names \cup {NoName, NullName}]
    BY <1>10, <2>1 DEF Put
  <2>3. position' \in Int /\ line' \in [Requesters -> Nat \ {0}]
    BY <1>10 DEF Put
  <2> QED BY <1>10, <2>2, <2>3 DEF Put
<1>11. CASE WaitFull(r)
  <2>1. PcOK([pc EXCEPT ![r] = "waitFull"])
    BY GotoRequester DEF RequesterLabels
  <2> QED BY <1>11, <2>1, SignalIsEmptyType DEF WaitFull
<1>12. CASE PutBelow(r) \/ ReadUnopened(r)
  BY <1>12 DEF PutBelow, ReadUnopened
<1>13. CASE EndFile(r)
  <2>1. PcOK([pc EXCEPT ![r] = "lockFile"])
    BY GotoRequester DEF RequesterLabels
  <2> QED BY <1>13, <2>1, SignalIsEmptyType DEF EndFile
<1>14. CASE LeaveUncounted(r)
  <2>1. PcOK([pc EXCEPT ![r] = "left"])
    BY GotoRequester DEF RequesterLabels
  <2> QED BY <1>14, <2>1, SignalIsEmptyType DEF LeaveUncounted
<1> QED BY <1>1, <1>2, <1>3, <1>4, <1>5, <1>6, <1>7, <1>8, <1>9, <1>10, <1>11, <1>12,
           <1>13, <1>14 DEF requesterThreads

LEMMA TypeResolver ==
  ASSUME TypeOK, NEW v \in Resolvers, resolverThreads(v)
  PROVE  TypeOK'
<1> USE DEF TypeOK
<1> v \in Threads /\ Free \notin Threads
  BY ThreadsAssumption DEF Threads
<1>1. CASE LockBuffer(v, "lockBuffer", "check") \/ LockBuffer(v, "wokenEmpty", "take")
  BY <1>1, GotoResolver DEF LockBuffer, ResolverLabels
<1>2. CASE CheckBuffer(v)
  BY <1>2, GotoResolver DEF CheckBuffer, ResolverLabels
<1>3. CASE WaitEmpty(v)
  <2>1. PcOK([pc EXCEPT ![v] = "waitEmpty"])
    BY GotoResolver DEF ResolverLabels
  <2> QED BY <1>3, <2>1, SignalIsFullType DEF WaitEmpty
<1>4. CASE Take(v)
  <2>1. PcOK(pc')
    BY <1>4, GotoResolver DEF Take, ResolverLabels
  <2>2. WordAt(position - 1) \in Names \cup {NoName, NullName, Wild}
    BY DEF WordAt
  <2>3. domainName' \in [Resolvers -> Names \cup {NoName, NullName, Wild}]
    BY <1>4, <2>2 DEF Take
  <2>4. position' \in Int
    BY <1>4 DEF Take
  <2> QED BY <1>4, <2>1, <2>3, <2>4 DEF Take
<1>5. CASE LockResults(v)
  BY <1>5, GotoResolver DEF LockResults, ResolverLabels
<1>6. CASE Resolve(v)
  <2>1. PcOK(pc')
    BY <1>6, GotoResolver DEF Resolve, ResolverLabels
  <2>2. results' \in [Names \cup {NullName} -> Nat]
    BY <1>6 DEF Resolve
  <2> QED BY <1>6, <2>1, <2>2 DEF Resolve
<1>7. CASE ResolveWild(v)
  BY <1>7 DEF ResolveWild
<1> QED BY <1>1, <1>2, <1>3, <1>4, <1>5, <1>6, <1>7 DEF resolverThreads

LEMMA TypeOther ==
  ASSUME TypeOK, (\E t \in Threads : SpuriousWake(t)) \/ main
  PROVE  TypeOK'
<1> USE DEF TypeOK
<1>1. ASSUME NEW t \in Threads, SpuriousWake(t)
      PROVE  TypeOK'
  <2>1. PcOK(pc')
    BY <1>1, ThreadsAssumption
       DEF SpuriousWake, PcOK, Threads, RequesterLabels, ResolverLabels, MainLabels
  <2> QED BY <1>1, <2>1 DEF SpuriousWake
<1>2. CASE main
  BY <1>2, GotoMain DEF main, JoinRequesters, JoinResolvers, Cleanup, MainLabels
<1> QED BY <1>1, <1>2

LEMMA TypeInit == Init => TypeOK
BY ThreadsAssumption
   DEF Init, TypeOK, PcOK, Threads, RequesterLabels, ResolverLabels, MainLabels

\* Every variable of MultiLookup keeps its type, in every instance.
THEOREM TypeCorrect == Spec => []TypeOK
<1>1. TypeOK /\ [Next]_vars => TypeOK'
  <2> SUFFICES ASSUME TypeOK, [Next]_vars PROVE TypeOK'
    OBVIOUS
  <2>1. CASE Next
    BY <2>1, TypeRequester, TypeResolver, TypeOther DEF Next
  <2>2. CASE UNCHANGED vars
    BY <2>2 DEF TypeOK
  <2> QED BY <2>1, <2>2
<1> QED BY <1>1, TypeInit, PTL DEF Spec

-----------------------------------------------------------------------------
(* What a step does to the program counters.                               *)

\* Only t moves, except that sleepers may be woken.
Moves(t, label, asleep, awake) ==
  /\ pc'[t] = label
  /\ \A u \in Threads : u # t =>
       pc'[u] = pc[u] \/ (pc[u] = asleep /\ pc'[u] = awake)

LEMMA RequesterSignals ==
  ASSUME PcOK(pc), NEW r \in Requesters, NEW label \in RequesterLabels,
         pc' \in SignalIsEmpty([pc EXCEPT ![r] = label])
  PROVE  /\ Moves(r, label, "waitEmpty", "wokenEmpty")
         /\ \/ \A v \in Resolvers : pc[v] # "waitEmpty"
            \/ \E v \in Resolvers : pc'[v] = "wokenEmpty"
<1> DEFINE f == [pc EXCEPT ![r] = label]
<1>1. PcOK(f)
  BY GotoRequester
<1>2. f[r] = label /\ \A u \in Threads : u # r => f[u] = pc[u]
  BY ThreadsAssumption DEF PcOK, Threads
<1>3. label # "waitEmpty" /\ "wokenEmpty" \notin RequesterLabels
  BY DEF RequesterLabels
<1>4. /\ PcOK(pc')
      /\ \A t \in Threads \cup {Main} :
           pc'[t] = f[t] \/ (f[t] = "waitEmpty" /\ pc'[t] = "wokenEmpty")
      /\ \/ \A t \in Threads : f[t] # "waitEmpty"
         \/ \E t \in Threads : pc'[t] = "wokenEmpty"
  BY <1>1, SignalIsEmptyType
<1>5. \A v \in Resolvers : v \in Threads /\ v # r
  BY ThreadsAssumption DEF Threads
<1>6. \A t \in Threads : pc'[t] = "wokenEmpty" => t \in Resolvers
  BY <1>3, <1>4 DEF PcOK, Threads
<1> HIDE DEF f
<1> QED BY <1>2, <1>3, <1>4, <1>5, <1>6 DEF Moves, Threads

LEMMA ResolverSignals ==
  ASSUME PcOK(pc), NEW v \in Resolvers,
         pc' \in SignalIsFull([pc EXCEPT ![v] = "waitEmpty"])
  PROVE  /\ Moves(v, "waitEmpty", "waitFull", "wokenFull")
         /\ \/ \A r \in Requesters : pc[r] # "waitFull"
            \/ \E r \in Requesters : pc'[r] = "wokenFull"
<1> DEFINE f == [pc EXCEPT ![v] = "waitEmpty"]
<1>1. PcOK(f)
  BY GotoResolver DEF ResolverLabels
<1>2. f[v] = "waitEmpty" /\ \A u \in Threads : u # v => f[u] = pc[u]
  BY ThreadsAssumption DEF PcOK, Threads
<1>3. /\ PcOK(pc')
      /\ \A t \in Threads : pc'[t] = f[t] \/ (f[t] = "waitFull" /\ pc'[t] = "wokenFull")
      /\ \/ \A t \in Threads : f[t] # "waitFull"
         \/ \E t \in Threads : pc'[t] = "wokenFull"
  BY <1>1, SignalIsFullType
<1>4. \A r \in Requesters : r \in Threads /\ r # v
  BY ThreadsAssumption DEF Threads
<1>5. \A t \in Threads : pc'[t] = "wokenFull" => t \in Requesters
  BY <1>3 DEF PcOK, Threads, ResolverLabels
<1> HIDE DEF f
<1> QED BY <1>2, <1>3, <1>4, <1>5 DEF Moves, Threads

LEMMA RequesterBroadcasts ==
  ASSUME PcOK(pc), NEW r \in Requesters, pc' = BroadcastIsEmpty([pc EXCEPT ![r] = "done"])
  PROVE  /\ Moves(r, "done", "waitEmpty", "wokenEmpty")
         /\ \A v \in Resolvers : pc'[v] # "waitEmpty"
<1> DEFINE f == [pc EXCEPT ![r] = "done"]
<1>1. PcOK(f)
  BY GotoRequester DEF RequesterLabels
<1>2. f[r] = "done" /\ \A u \in Threads : u # r => f[u] = pc[u]
  BY ThreadsAssumption DEF PcOK, Threads
<1>3. \A t \in Threads : pc'[t] = IF f[t] = "waitEmpty" THEN "wokenEmpty" ELSE f[t]
  BY <1>1, BroadcastIsEmptyType
<1> HIDE DEF f
<1> QED BY <1>2, <1>3 DEF Moves, Threads

LEMMA OneMoves ==
  ASSUME PcOK(pc), NEW t \in Threads, NEW label, Goto(t, label),
         NEW asleep, NEW awake
  PROVE  /\ Moves(t, label, asleep, awake)
         /\ \A u \in Threads : u # t => pc'[u] = pc[u]
  BY ThreadsAssumption DEF PcOK, Moves, Threads

\* Each step of a requester, seen from the locks.
LEMMA RequesterMoves ==
  ASSUME TypeOK, NEW r \in Requesters, requesterThreads(r)
  PROVE  \/ UNCHANGED pc
         \/ \E label \in RequesterLabels : Moves(r, label, "waitEmpty", "wokenEmpty")
<1> r \in Threads /\ PcOK(pc)
  BY DEF Threads, TypeOK
<1>1. ASSUME NEW label \in RequesterLabels, Goto(r, label)
      PROVE  \E l \in RequesterLabels : Moves(r, l, "waitEmpty", "wokenEmpty")
  BY <1>1, OneMoves
<1>2. ASSUME NEW label \in RequesterLabels, pc' \in SignalIsEmpty([pc EXCEPT ![r] = label])
      PROVE  \E l \in RequesterLabels : Moves(r, l, "waitEmpty", "wokenEmpty")
  BY <1>2, RequesterSignals
<1>3. ASSUME pc' = BroadcastIsEmpty([pc EXCEPT ![r] = "done"])
      PROVE  \E l \in RequesterLabels : Moves(r, l, "waitEmpty", "wokenEmpty")
  BY <1>3, RequesterBroadcasts DEF RequesterLabels
<1>4. CASE \/ LockFile(r) \/ FindFile(r) \/ ClaimFile(r) \/ FindNothing(r)
           \/ FindNoList(r) \/ LockService(r) \/ Finish(r)
           \/ LockBuffer(r, "lockBuffer", "fill") \/ LockBuffer(r, "wokenFull", "fill")
  BY <1>4, <1>1
     DEF LockFile, FindFile, ClaimFile, FindNothing, FindNoList, LockService, Finish,
         LockBuffer, RequesterLabels
<1>5. CASE Put(r) \/ PutBelow(r) \/ ReadUnopened(r)
  BY <1>5 DEF Put, PutBelow, ReadUnopened
<1>6. CASE WaitFull(r) \/ EndFile(r) \/ LeaveUncounted(r)
  BY <1>6, <1>2 DEF WaitFull, EndFile, LeaveUncounted, RequesterLabels
<1>7. CASE Broadcast(r)
  BY <1>7, <1>3 DEF Broadcast
<1> QED BY <1>4, <1>5, <1>6, <1>7 DEF requesterThreads

-----------------------------------------------------------------------------
(* The locks: a thread is inside a critical section iff it owns the lock.  *)

LEMMA LockRequester ==
  ASSUME TypeOK, LockInv, NEW r \in Requesters, requesterThreads(r)
  PROVE  LockInv'
<1> USE DEF LockInv, HoldsFileLock, HoldsBufferLock, Moves
<1> r \in Threads /\ PcOK(pc) /\ Free \notin Threads /\ Requesters \subseteq Threads
  BY ThreadsAssumption DEF Threads, TypeOK
<1>a. ASSUME NEW label, Goto(r, label) PROVE Moves(r, label, "waitEmpty", "wokenEmpty")
  BY <1>a, OneMoves
<1>1. CASE LockFile(r)
  <2>1. Moves(r, "search", "waitEmpty", "wokenEmpty")
    BY <1>1, <1>a DEF LockFile
  <2> QED BY <1>1, <2>1 DEF LockFile
<1>2. CASE FindFile(r)
  <2>1. Moves(r, "claim", "waitEmpty", "wokenEmpty")
    BY <1>2, <1>a DEF FindFile
  <2> QED BY <1>2, <2>1 DEF FindFile
<1>3. CASE ClaimFile(r) \/ FindNoList(r)
  <2>1. Moves(r, "lockBuffer", "waitEmpty", "wokenEmpty")
    BY <1>3, <1>a DEF ClaimFile, FindNoList
  <2> QED BY <1>3, <2>1 DEF ClaimFile, FindNoList
<1>4. CASE FindNothing(r)
  <2>1. Moves(r, "lockService", "waitEmpty", "wokenEmpty")
    BY <1>4, <1>a DEF FindNothing
  <2> QED BY <1>4, <2>1 DEF FindNothing
<1>5. CASE LockService(r)
  <2>1. Moves(r, "finish", "waitEmpty", "wokenEmpty")
    BY <1>5, <1>a DEF LockService
  <2> QED BY <1>5, <2>1 DEF LockService
<1>6. CASE Finish(r)
  <2>1. Moves(r, "broadcast", "waitEmpty", "wokenEmpty")
    BY <1>6, <1>a DEF Finish
  <2> QED BY <1>6, <2>1 DEF Finish
<1>7. CASE Broadcast(r)
  <2>1. Moves(r, "done", "waitEmpty", "wokenEmpty")
    BY <1>7, RequesterBroadcasts DEF Broadcast
  <2> QED BY <1>7, <2>1 DEF Broadcast
<1>8. CASE LockBuffer(r, "lockBuffer", "fill") \/ LockBuffer(r, "wokenFull", "fill")
  <2>1. Moves(r, "fill", "waitEmpty", "wokenEmpty")
    BY <1>8, <1>a DEF LockBuffer
  <2> QED BY <1>8, <2>1 DEF LockBuffer
<1>9. CASE Put(r) \/ PutBelow(r) \/ ReadUnopened(r)
  BY <1>9 DEF Put, PutBelow, ReadUnopened
<1>10. CASE WaitFull(r) \/ EndFile(r) \/ LeaveUncounted(r)
  <2>1. PICK label \in {"waitFull", "lockFile", "left"} :
           Moves(r, label, "waitEmpty", "wokenEmpty")
    BY <1>10, RequesterSignals DEF WaitFull, EndFile, LeaveUncounted, RequesterLabels
  <2>2. bufferLock = r /\ bufferLock' = Free /\ UNCHANGED fileLock /\ pc[r] = "fill"
    BY <1>10 DEF WaitFull, EndFile, LeaveUncounted
  <2> QED BY <2>1, <2>2
<1> QED BY <1>1, <1>2, <1>3, <1>4, <1>5, <1>6, <1>7, <1>8, <1>9, <1>10
        DEF requesterThreads

LEMMA LockResolver ==
  ASSUME TypeOK, LockInv, NEW v \in Resolvers, resolverThreads(v)
  PROVE  LockInv'
<1> USE DEF LockInv, HoldsFileLock, HoldsBufferLock, Moves
<1> /\ v \in Threads /\ PcOK(pc) /\ Free \notin Threads
    /\ Requesters \subseteq Threads /\ v \notin Requesters
  BY ThreadsAssumption DEF Threads, TypeOK
<1>a. ASSUME NEW label, Goto(v, label) PROVE Moves(v, label, "waitFull", "wokenFull")
  BY <1>a, OneMoves
<1>1. CASE LockBuffer(v, "lockBuffer", "check") \/ LockBuffer(v, "wokenEmpty", "take")
  <2>1. PICK label \in {"check", "take"} : Moves(v, label, "waitFull", "wokenFull")
    BY <1>1, <1>a DEF LockBuffer
  <2> QED BY <1>1, <2>1 DEF LockBuffer
<1>2. CASE CheckBuffer(v)
  <2>1. CASE Goto(v, "exited") /\ bufferLock' = Free
    <3>1. Moves(v, "exited", "waitFull", "wokenFull") /\ bufferLock = v /\ UNCHANGED fileLock
      BY <1>2, <1>a, <2>1 DEF CheckBuffer
    <3> QED BY <2>1, <3>1
  <2>2. ASSUME NEW label \in {"take", "wait"}, Goto(v, label), UNCHANGED bufferLock
        PROVE  LockInv'
    BY <1>2, <1>a, <2>2 DEF CheckBuffer
  <2> QED BY <1>2, <2>1, <2>2 DEF CheckBuffer
<1>3. CASE WaitEmpty(v)
  <2>1. Moves(v, "waitEmpty", "waitFull", "wokenFull")
    BY <1>3, ResolverSignals DEF WaitEmpty
  <2> QED BY <1>3, <2>1 DEF WaitEmpty
<1>4. CASE Take(v)
  BY <1>4, <1>a DEF Take
<1>5. CASE LockResults(v)
  BY <1>5, <1>a DEF LockResults
<1>6. CASE Resolve(v)
  BY <1>6, <1>a DEF Resolve
<1>7. CASE ResolveWild(v)
  BY <1>7 DEF ResolveWild
<1> QED BY <1>1, <1>2, <1>3, <1>4, <1>5, <1>6, <1>7 DEF resolverThreads

\* A spurious wakeup, or a step of main, seen from the threads.
LEMMA OtherMoves ==
  ASSUME TypeOK, (\E t \in Threads : SpuriousWake(t)) \/ main
  PROVE  /\ \A t \in Threads :
              \/ pc'[t] = pc[t]
              \/ pc[t] = "waitFull" /\ pc'[t] = "wokenFull"
              \/ pc[t] = "waitEmpty" /\ pc'[t] = "wokenEmpty"
         /\ UNCHANGED <<bufferLock, fileVars, readerVars, bufferVars, resolveVars>>
         /\ status' \in {status, "returned", "killed"}
<1>1. ASSUME NEW t \in Threads, SpuriousWake(t)
      PROVE  /\ \A u \in Threads :
                  \/ pc'[u] = pc[u]
                  \/ pc[u] = "waitFull" /\ pc'[u] = "wokenFull"
                  \/ pc[u] = "waitEmpty" /\ pc'[u] = "wokenEmpty"
             /\ UNCHANGED <<bufferLock, status, fileVars, readerVars, bufferVars, resolveVars>>
  BY <1>1 DEF SpuriousWake, TypeOK, PcOK
<1>2. CASE main
  <2>1. \A t \in Threads : t # Main
    BY ThreadsAssumption
  <2>2. ASSUME NEW label, Goto(Main, label) PROVE \A t \in Threads : pc'[t] = pc[t]
    BY <2>1, <2>2 DEF TypeOK, PcOK
  <2>3. CASE JoinRequesters
    BY <2>2, <2>3 DEF JoinRequesters
  <2>4. CASE JoinResolvers
    BY <2>2, <2>4 DEF JoinResolvers
  <2>5. CASE Cleanup
    BY <2>5 DEF Cleanup
  <2> QED BY <1>2, <2>3, <2>4, <2>5 DEF main
<1> QED BY <1>1, <1>2

LEMMA LockOther ==
  ASSUME TypeOK, LockInv, (\E t \in Threads : SpuriousWake(t)) \/ main
  PROVE  LockInv'
<1>1. Requesters \subseteq Threads
  BY DEF Threads
<1> QED BY <1>1, OtherMoves DEF LockInv, HoldsFileLock, HoldsBufferLock

LEMMA LockInit == Init => LockInv
BY ThreadsAssumption DEF Init, LockInv, HoldsFileLock, HoldsBufferLock, Threads

-----------------------------------------------------------------------------
(* Claims: file_lock makes the search and the mark one step for the others. *)

ReadingLabels == {"lockBuffer", "fill", "waitFull", "wokenFull"}

\* A step that changes no claim keeps FileInv: no file is unmarked, no requester
\* takes up another file, and none starts to read or to claim.
LEMMA FileKept ==
  ASSUME FileInv, UNCHANGED <<serviced, current>>,
         \A s \in Requesters :
           /\ pc'[s] = "claim" => pc[s] = "claim"
           /\ pc'[s] \in ReadingLabels => pc[s] \in ReadingLabels \/ current[s] = NoFile
  PROVE  FileInv'
BY DEF FileInv, ClaimedOnce, Reading, ReadingLabels

LEMMA FileRequester ==
  ASSUME TypeOK, LockInv, FileInv, NEW r \in Requesters, requesterThreads(r)
  PROVE  FileInv'
<1> r \in Threads /\ PcOK(pc) /\ Requesters \subseteq Threads
  BY DEF Threads, TypeOK
<1>a. ASSUME NEW label, Goto(r, label)
      PROVE  pc'[r] = label /\ \A s \in Requesters : s # r => pc'[s] = pc[s]
  BY <1>a, OneMoves DEF Moves
<1>b. ASSUME NEW label, Moves(r, label, "waitEmpty", "wokenEmpty")
      PROVE  pc'[r] = label /\ \A s \in Requesters : s # r => pc'[s] = pc[s]
  BY <1>b DEF Moves, PcOK, RequesterLabels
<1>1. CASE LockFile(r) \/ FindNothing(r) \/ LockService(r) \/ Finish(r)
  <2>1. PICK label \in {"search", "lockService", "finish", "broadcast"} : Goto(r, label)
    BY <1>1 DEF LockFile, FindNothing, LockService, Finish
  <2>2. UNCHANGED <<serviced, current>>
    BY <1>1 DEF LockFile, FindNothing, LockService, Finish
  <2> QED BY <2>1, <2>2, <1>a, FileKept DEF ReadingLabels
<1>2. CASE FindFile(r)
  <2>1. PICK f \in Unserviced : current' = [current EXCEPT ![r] = f]
    BY <1>2 DEF FindFile
  <2>2. f # NoFile /\ ~serviced[f]
    BY NoFileAssumption, ArgsAssumption DEF Unserviced, Files
  <2>3. current'[r] = f /\ \A s \in Requesters : s # r => current'[s] = current[s]
    BY <2>1 DEF TypeOK
  <2>4. /\ pc'[r] = "claim" /\ \A s \in Requesters : s # r => pc'[s] = pc[s]
        /\ UNCHANGED serviced
    BY <1>2, <1>a DEF FindFile
  <2> QED BY <2>2, <2>3, <2>4 DEF FileInv, ClaimedOnce, Reading
<1>3. CASE ClaimFile(r)
  <2>1. /\ pc[r] = "claim" /\ UNCHANGED current
        /\ pc'[r] = "lockBuffer" /\ \A s \in Requesters : s # r => pc'[s] = pc[s]
    BY <1>3, <1>a DEF ClaimFile
  <2>2. current[r] \in Files /\ current[r] # NoFile /\ ~serviced[current[r]]
    BY <2>1 DEF FileInv, TypeOK
  <2>3. /\ serviced'[current[r]]
        /\ \A f \in Files : f # current[r] => serviced'[f] = serviced[f]
    BY <1>3, <2>2 DEF ClaimFile, TypeOK
  <2>4. \A s \in Requesters : s # r => pc[s] # "claim"
    BY <2>1 DEF LockInv, HoldsFileLock
  <2>5. \A s \in Reading : s # r /\ current[s] \in Files /\ current[s] # current[r]
    BY <2>1, <2>2 DEF FileInv, Reading, TypeOK
  <2>6. Reading' = Reading \cup {r}
    BY <2>1, <2>2 DEF Reading
  <2> QED BY <2>1, <2>3, <2>4, <2>5, <2>6 DEF FileInv, ClaimedOnce
<1>4. CASE FindNoList(r)
  <2>1. current[r] = NoFile
    BY <1>4 DEF FindNoList, TypeOK
  <2>2. /\ UNCHANGED <<serviced, current>>
        /\ pc'[r] = "lockBuffer" /\ \A s \in Requesters : s # r => pc'[s] = pc[s]
    BY <1>4, <1>a DEF FindNoList
  <2> QED BY <2>1, <2>2, FileKept
<1>5. CASE Broadcast(r)
  <2>1. pc'[r] = "done" /\ \A s \in Requesters : s # r => pc'[s] = pc[s]
    BY <1>5, <1>b, RequesterBroadcasts DEF Broadcast
  <2> QED BY <1>5, <2>1, FileKept DEF Broadcast, ReadingLabels
<1>6. CASE LockBuffer(r, "lockBuffer", "fill") \/ LockBuffer(r, "wokenFull", "fill")
  <2>1. pc[r] \in ReadingLabels /\ pc'[r] = "fill" /\ UNCHANGED <<serviced, current>>
    BY <1>6, <1>a DEF LockBuffer, ReadingLabels
  <2>2. \A s \in Requesters : s # r => pc'[s] = pc[s]
    BY <1>6, <1>a DEF LockBuffer
  <2> QED BY <2>1, <2>2, FileKept
<1>7. CASE Put(r) \/ PutBelow(r) \/ ReadUnopened(r)
  BY <1>7, FileKept DEF Put, PutBelow, ReadUnopened
<1>8. CASE WaitFull(r) \/ EndFile(r) \/ LeaveUncounted(r)
  <2>1. PICK label \in {"waitFull", "lockFile", "left"} :
           Moves(r, label, "waitEmpty", "wokenEmpty")
    BY <1>8, RequesterSignals DEF WaitFull, EndFile, LeaveUncounted, RequesterLabels
  <2>2. pc[r] = "fill" /\ UNCHANGED <<serviced, current>>
    BY <1>8 DEF WaitFull, EndFile, LeaveUncounted
  <2> QED BY <2>1, <2>2, <1>b, FileKept DEF ReadingLabels
<1> QED BY <1>1, <1>2, <1>3, <1>4, <1>5, <1>6, <1>7, <1>8 DEF requesterThreads

\* A step of a resolver, seen from the requesters.
LEMMA ResolverLeavesRequesters ==
  ASSUME TypeOK, NEW v \in Resolvers, resolverThreads(v)
  PROVE  /\ \A r \in Requesters :
              pc'[r] = pc[r] \/ (pc[r] = "waitFull" /\ pc'[r] = "wokenFull")
         /\ UNCHANGED <<fileVars, readerVars, buffer>>
<1> v \in Threads /\ PcOK(pc) /\ \A r \in Requesters : r \in Threads /\ r # v
  BY ThreadsAssumption DEF Threads, TypeOK
<1>1. CASE WaitEmpty(v)
  <2>1. Moves(v, "waitEmpty", "waitFull", "wokenFull")
    BY <1>1, ResolverSignals DEF WaitEmpty
  <2> QED BY <1>1, <2>1 DEF WaitEmpty, Moves
<1>2. ASSUME NEW label, Goto(v, label) PROVE \A r \in Requesters : pc'[r] = pc[r]
  BY <1>2, OneMoves
<1>3. CASE \/ LockBuffer(v, "lockBuffer", "check") \/ LockBuffer(v, "wokenEmpty", "take")
           \/ LockResults(v) \/ Resolve(v) \/ Take(v) \/ ResolveWild(v)
  BY <1>3, <1>2 DEF LockBuffer, LockResults, Resolve, Take, ResolveWild
<1>4. CASE CheckBuffer(v)
  <2>1. Goto(v, "take") \/ Goto(v, "exited") \/ Goto(v, "wait")
    BY <1>4 DEF CheckBuffer
  <2>2. UNCHANGED <<fileVars, readerVars, buffer>>
    BY <1>4 DEF CheckBuffer
  <2> QED BY <2>1, <2>2, <1>2
<1> QED BY <1>1, <1>3, <1>4 DEF resolverThreads

LEMMA FileOther ==
  ASSUME TypeOK, FileInv,
         \/ \E v \in Resolvers : resolverThreads(v)
         \/ (\E t \in Threads : SpuriousWake(t)) \/ main
  PROVE  FileInv'
<1>1. Requesters \subseteq Threads
  BY DEF Threads
<1>2. \A r \in Requesters : pc[r] # "waitEmpty"
  BY DEF TypeOK, PcOK, RequesterLabels
<1>3. /\ UNCHANGED <<serviced, current>>
      /\ \A r \in Requesters :
           pc'[r] = pc[r] \/ (pc[r] = "waitFull" /\ pc'[r] = "wokenFull")
  BY <1>1, <1>2, ResolverLeavesRequesters, OtherMoves
<1> QED BY <1>3, FileKept DEF ReadingLabels

LEMMA FileInit == Init => FileInv
BY ThreadsAssumption DEF Init, FileInv, ClaimedOnce, Reading, Threads

-----------------------------------------------------------------------------
(* The count of finished requesters, and what an exited resolver knows.    *)

LeavingLabels == {"lockService", "finish", "broadcast", "done"}

\* A step that counts nobody and lets no resolver out keeps CountInv, if it lets
\* a requester leave only when every file is serviced and raises the index only
\* while no resolver is out.
LEMMA CountKept ==
  ASSUME CountInv, UNCHANGED threadsFinished,
         \A s \in Requesters : (pc'[s] \in {"broadcast", "done"}) <=> Counted(s),
         \A f \in Files : serviced[f] => serviced'[f],
         \A s \in Requesters :
           pc'[s] \in LeavingLabels => pc[s] \in LeavingLabels \/ \A f \in Files : serviced[f],
         \A v \in Resolvers : pc'[v] = "exited" => pc[v] = "exited",
         position <= 0 => position' <= 0 \/ \E s \in Requesters : ~Counted(s)
  PROVE  CountInv'
<1>1. {s \in Requesters : Counted(s)}' = {s \in Requesters : Counted(s)}
  BY DEF Counted
<1> QED BY <1>1 DEF CountInv, Counted, LeavingLabels

LEMMA CountRequester ==
  ASSUME TypeOK, CountInv, NEW r \in Requesters, requesterThreads(r)
  PROVE  CountInv'
<1> r \in Threads /\ PcOK(pc) /\ Requesters \subseteq Threads /\ Resolvers \subseteq Threads
  BY DEF Threads, TypeOK
<1>e. \A v \in Resolvers : v # r /\ v \notin Requesters
  BY ThreadsAssumption
<1>a. ASSUME NEW label, Goto(r, label)
      PROVE  pc'[r] = label /\ \A t \in Threads : t # r => pc'[t] = pc[t]
  BY <1>a, OneMoves DEF Moves
<1>b. ASSUME NEW label, Moves(r, label, "waitEmpty", "wokenEmpty")
      PROVE  /\ pc'[r] = label
             /\ \A s \in Requesters : s # r => pc'[s] = pc[s]
             /\ \A v \in Resolvers : pc'[v] = "exited" => pc[v] = "exited"
  BY <1>b, <1>e DEF Moves, PcOK, RequesterLabels
<1>1. CASE LockFile(r) \/ FindFile(r) \/ FindNoList(r)
           \/ LockBuffer(r, "lockBuffer", "fill") \/ LockBuffer(r, "wokenFull", "fill")
  <2>1. PICK label \in {"search", "claim", "lockBuffer", "fill"} : Goto(r, label)
    BY <1>1 DEF LockFile, FindFile, FindNoList, LockBuffer
  <2>2. /\ pc[r] \in {"lockFile", "search", "lockBuffer", "wokenFull"}
        /\ UNCHANGED <<serviced, threadsFinished, position>>
    BY <1>1 DEF LockFile, FindFile, FindNoList, LockBuffer
  <2> QED BY <2>1, <2>2, <1>a, <1>e, CountKept DEF LeavingLabels, Counted
<1>2. CASE ClaimFile(r)
  <2>1. /\ pc[r] = "claim" /\ Goto(r, "lockBuffer")
        /\ serviced' = [serviced EXCEPT ![current[r]] = TRUE]
        /\ UNCHANGED <<threadsFinished, position>>
    BY <1>2 DEF ClaimFile
  <2>2. \A f \in Files : serviced[f] => serviced'[f]
    BY <2>1 DEF TypeOK
  <2> QED BY <2>1, <2>2, <1>a, <1>e, CountKept DEF LeavingLabels, Counted
<1>3. CASE FindNothing(r)
  <2>1. \A f \in Files : serviced[f]
    BY <1>3 DEF FindNothing, Unserviced
  <2>2. pc[r] = "search" /\ Goto(r, "lockService") /\ UNCHANGED <<serviced, threadsFinished, position>>
    BY <1>3 DEF FindNothing
  <2> QED BY <2>1, <2>2, <1>a, <1>e, CountKept DEF LeavingLabels, Counted
<1>4. CASE LockService(r)
  <2>1. pc[r] = "lockService" /\ Goto(r, "finish") /\ UNCHANGED <<serviced, threadsFinished, position>>
    BY <1>4 DEF LockService
  <2> QED BY <2>1, <1>a, <1>e, CountKept DEF LeavingLabels, Counted
<1>5. CASE Finish(r)
  <2> DEFINE C == {s \in Requesters : Counted(s)}
  <2>1. /\ pc[r] = "finish" /\ Goto(r, "broadcast") /\ threadsFinished' = threadsFinished + 1
        /\ UNCHANGED <<serviced, position>>
    BY <1>5 DEF Finish
  <2>2. C' = C \cup {r} /\ r \notin C
    BY <2>1, <1>a DEF Counted
  <2>3. IsFiniteSet(C)
    BY FS_Subset, ThreadsAssumption
  <2>4. Cardinality(C') = Cardinality(C) + 1
    BY <2>2, <2>3, FS_AddElement
  <2>5. \A v \in Resolvers : pc'[v] = pc[v]
    BY <2>1, <1>a, <1>e
  <2> QED BY <2>1, <2>2, <2>4, <2>5, <1>a DEF CountInv, Counted
<1>6. CASE Broadcast(r)
  <2>1. Moves(r, "done", "waitEmpty", "wokenEmpty")
    BY <1>6, RequesterBroadcasts DEF Broadcast
  <2>2. pc[r] = "broadcast" /\ UNCHANGED <<serviced, threadsFinished, position>>
    BY <1>6 DEF Broadcast
  <2> QED BY <2>1, <2>2, <1>b, CountKept DEF LeavingLabels, Counted
<1>7. CASE Put(r)
  <2>1. ~Counted(r) /\ UNCHANGED <<pc, serviced, threadsFinished>>
    BY <1>7 DEF Put, Counted
  <2> QED BY <2>1, CountKept DEF Counted
<1>8. CASE PutBelow(r) \/ ReadUnopened(r)
  BY <1>8, CountKept DEF PutBelow, ReadUnopened, Counted
<1>9. CASE WaitFull(r) \/ EndFile(r) \/ LeaveUncounted(r)
  <2>1. PICK label \in {"waitFull", "lockFile", "left"} :
           Moves(r, label, "waitEmpty", "wokenEmpty")
    BY <1>9, RequesterSignals DEF WaitFull, EndFile, LeaveUncounted, RequesterLabels
  <2>2. pc[r] = "fill" /\ UNCHANGED <<serviced, threadsFinished, position>>
    BY <1>9 DEF WaitFull, EndFile, LeaveUncounted
  <2> QED BY <2>1, <2>2, <1>b, CountKept DEF LeavingLabels, Counted
<1> QED BY <1>1, <1>2, <1>3, <1>4, <1>5, <1>6, <1>7, <1>8, <1>9 DEF requesterThreads

LEMMA CountResolver ==
  ASSUME TypeOK, CountInv, NEW v \in Resolvers, resolverThreads(v)
  PROVE  CountInv'
<1> /\ v \in Threads /\ PcOK(pc) /\ Requesters \subseteq Threads /\ Resolvers \subseteq Threads
    /\ position \in Int
  BY DEF Threads, TypeOK
<1>1. /\ UNCHANGED <<serviced, threadsFinished>>
      /\ \A s \in Requesters :
           /\ (pc'[s] \in {"broadcast", "done"}) <=> Counted(s)
           /\ pc'[s] \in LeavingLabels => pc[s] \in LeavingLabels
  BY ResolverLeavesRequesters DEF Counted, LeavingLabels
<1>a. ASSUME NEW label, Goto(v, label)
      PROVE  pc'[v] = label /\ \A t \in Threads : t # v => pc'[t] = pc[t]
  BY <1>a, OneMoves DEF Moves
<1>2. CASE CheckBuffer(v) /\ pc'[v] = "exited"
  <2>1. position = 0 /\ threadsFinished = Cardinality(Requesters) /\ UNCHANGED position
    BY <1>2, <1>a DEF CheckBuffer
  <2>2. Cardinality({s \in Requesters : Counted(s)}) = Cardinality(Requesters)
    BY <2>1 DEF CountInv
  <2>3. {s \in Requesters : Counted(s)} = Requesters
    BY <2>2, FS_Subset, ThreadsAssumption
  <2>4. {s \in Requesters : Counted(s)}' = {s \in Requesters : Counted(s)}
    BY <1>1 DEF Counted
  <2>5. \A s \in Requesters : Counted(s)'
    BY <2>3, <1>1 DEF Counted
  <2> QED BY <2>1, <2>4, <2>5, <1>1 DEF CountInv, LeavingLabels
<1>3. CASE CheckBuffer(v) /\ pc'[v] # "exited"
  <2>1. UNCHANGED position
    BY <1>3 DEF CheckBuffer
  <2>2. \A t \in Threads : t # v => pc'[t] = pc[t]
    <3>1. Goto(v, "take") \/ Goto(v, "exited") \/ Goto(v, "wait")
      BY <1>3 DEF CheckBuffer
    <3> QED BY <3>1, <1>a
  <2> QED BY <1>1, <1>3, <2>1, <2>2, CountKept
<1>4. CASE LockBuffer(v, "lockBuffer", "check") \/ LockBuffer(v, "wokenEmpty", "take")
           \/ LockResults(v) \/ Resolve(v) \/ Take(v)
  <2>1. PICK label \in {"check", "take", "resolve", "lockBuffer", "lockResults"} : Goto(v, label)
    BY <1>4 DEF LockBuffer, LockResults, Resolve, Take
  <2>2. position' = position \/ position' = position - 1
    BY <1>4 DEF LockBuffer, LockResults, Resolve, Take
  <2> QED BY <2>1, <2>2, <1>1, <1>a, CountKept
<1>5. CASE WaitEmpty(v)
  <2>1. Moves(v, "waitEmpty", "waitFull", "wokenFull") /\ UNCHANGED position
    BY <1>5, ResolverSignals DEF WaitEmpty
  <2> QED BY <2>1, <1>1, CountKept DEF Moves
<1>6. CASE ResolveWild(v)
  BY <1>6, CountKept DEF ResolveWild, Counted
<1> QED BY <1>2, <1>3, <1>4, <1>5, <1>6 DEF resolverThreads

LEMMA CountOther ==
  ASSUME TypeOK, CountInv, (\E t \in Threads : SpuriousWake(t)) \/ main
  PROVE  CountInv'
<1>1. Requesters \subseteq Threads /\ Resolvers \subseteq Threads
  BY DEF Threads
<1> QED BY <1>1, OtherMoves, CountKept DEF Counted, LeavingLabels

LEMMA CountInit == Init => CountInv
<1> SUFFICES ASSUME Init PROVE CountInv
  OBVIOUS
<1>1. {r \in Requesters : Counted(r)} = {}
  BY DEF Init, Counted, Threads
<1>2. \A v \in Resolvers : pc[v] # "exited"
  BY ThreadsAssumption DEF Init, Threads
<1>3. \A r \in Requesters : pc[r] = "lockFile"
  BY DEF Init, Threads
<1> QED BY <1>1, <1>2, <1>3, FS_EmptySet DEF Init, CountInv

-----------------------------------------------------------------------------
(* Sleeping resolvers: none sleeps while there is a name nobody else takes. *)

LEMMA SleepKept ==
  ASSUME SleepInv, UNCHANGED <<bufferLock, position>>,
         \A v \in Resolvers :
           pc'[v] = pc[v] \/ (pc[v] = "waitEmpty" /\ pc'[v] = "wokenEmpty")
  PROVE  SleepInv'
BY DEF SleepInv, NoNameStranded

LEMMA SleepRequester ==
  ASSUME TypeOK, LockInv, CountInv, SleepInv, NEW r \in Requesters, requesterThreads(r)
  PROVE  SleepInv'
<1> /\ r \in Threads /\ PcOK(pc) /\ r # Free
    /\ \A v \in Resolvers : v \in Threads /\ v # r
  BY ThreadsAssumption DEF Threads, TypeOK
<1>a. ASSUME NEW label, Goto(r, label) PROVE \A v \in Resolvers : pc'[v] = pc[v]
  BY <1>a, OneMoves
<1>1. CASE \/ LockFile(r) \/ FindFile(r) \/ ClaimFile(r) \/ FindNothing(r)
           \/ FindNoList(r) \/ LockService(r) \/ Finish(r)
  <2>1. \E label : Goto(r, label)
    BY <1>1 DEF LockFile, FindFile, ClaimFile, FindNothing, FindNoList, LockService, Finish
  <2>2. UNCHANGED <<bufferLock, position>>
    BY <1>1 DEF LockFile, FindFile, ClaimFile, FindNothing, FindNoList, LockService, Finish
  <2> QED BY <2>1, <2>2, <1>a, SleepKept
<1>2. CASE Broadcast(r)
  <2>1. Moves(r, "done", "waitEmpty", "wokenEmpty")
    BY <1>2, RequesterBroadcasts DEF Broadcast
  <2> QED BY <1>2, <2>1, SleepKept DEF Broadcast, Moves
<1>3. CASE LockBuffer(r, "lockBuffer", "fill") \/ LockBuffer(r, "wokenFull", "fill")
  <2>1. bufferLock' = r /\ UNCHANGED position /\ \A v \in Resolvers : pc'[v] = pc[v]
    BY <1>3, <1>a DEF LockBuffer
  <2> QED BY <2>1 DEF SleepInv, NoNameStranded
<1>4. CASE Put(r)
  <2>1. UNCHANGED <<pc, bufferLock>> /\ bufferLock = r
    BY <1>4 DEF Put, LockInv, HoldsBufferLock
  <2>2. \A v \in Resolvers : pc[v] # "wait"
    BY <2>1 DEF LockInv, HoldsBufferLock
  <2> QED BY <2>1, <2>2 DEF SleepInv, NoNameStranded
<1>5. CASE PutBelow(r) \/ ReadUnopened(r)
  BY <1>5, SleepKept DEF PutBelow, ReadUnopened
<1>6. CASE WaitFull(r) \/ EndFile(r) \/ LeaveUncounted(r)
  <2>1. PICK label \in {"waitFull", "lockFile", "left"} :
           pc' \in SignalIsEmpty([pc EXCEPT ![r] = label])
    BY <1>6 DEF WaitFull, EndFile, LeaveUncounted
  <2>2. pc[r] = "fill" /\ UNCHANGED position
    BY <1>6 DEF WaitFull, EndFile, LeaveUncounted
  <2>3. /\ Moves(r, label, "waitEmpty", "wokenEmpty")
        /\ \/ \A v \in Resolvers : pc[v] # "waitEmpty"
           \/ \E v \in Resolvers : pc'[v] = "wokenEmpty"
    BY <2>1, RequesterSignals DEF RequesterLabels
  <2>4. \A v \in Resolvers : pc[v] # "exited"
    BY <2>2 DEF CountInv, Counted
  <2>5. \E v \in Resolvers : pc'[v] \notin {"waitEmpty", "exited"}
    BY <2>3, <2>4, ThreadsAssumption DEF Moves
  <2>6. \A v \in Resolvers : pc'[v] = "wait" => pc[v] = "wait"
    BY <2>3 DEF Moves
  <2> QED BY <2>2, <2>5, <2>6 DEF SleepInv, NoNameStranded
<1> QED BY <1>1, <1>2, <1>3, <1>4, <1>5, <1>6 DEF requesterThreads

LEMMA SleepResolver ==
  ASSUME TypeOK, LockInv, SleepInv, NEW v \in Resolvers, resolverThreads(v)
  PROVE  SleepInv'
<1> v \in Threads /\ PcOK(pc) /\ v # Free /\ Resolvers \subseteq Threads
  BY ThreadsAssumption DEF Threads, TypeOK
<1>a. ASSUME NEW label, Goto(v, label)
      PROVE  pc'[v] = label /\ \A t \in Threads : t # v => pc'[t] = pc[t]
  BY <1>a, OneMoves DEF Moves
<1>1. CASE LockBuffer(v, "lockBuffer", "check") \/ LockBuffer(v, "wokenEmpty", "take")
  <2>1. /\ bufferLock' = v /\ UNCHANGED position
        /\ pc'[v] # "wait" /\ \A t \in Threads : t # v => pc'[t] = pc[t]
    BY <1>1, <1>a DEF LockBuffer
  <2> QED BY <2>1 DEF SleepInv, NoNameStranded
<1>2. CASE CheckBuffer(v)
  <2>1. bufferLock = v /\ UNCHANGED position
    BY <1>2 DEF CheckBuffer, LockInv, HoldsBufferLock
  <2>2. CASE Goto(v, "take") /\ UNCHANGED bufferLock
    BY <2>1, <2>2, <1>a DEF SleepInv, NoNameStranded
  <2>3. CASE Goto(v, "exited") /\ position = 0
    BY <2>1, <2>3, <1>a DEF SleepInv, NoNameStranded
  <2>4. CASE Goto(v, "wait") /\ position = 0
    BY <2>1, <2>4, <1>a DEF SleepInv, NoNameStranded
  <2> QED BY <1>2, <2>2, <2>3, <2>4 DEF CheckBuffer
<1>3. CASE WaitEmpty(v)
  <2>1. Moves(v, "waitEmpty", "waitFull", "wokenFull")
    BY <1>3, ResolverSignals DEF WaitEmpty
  <2>2. position = 0 /\ UNCHANGED position
    BY <1>3 DEF WaitEmpty, SleepInv
  <2> QED BY <2>1, <2>2 DEF Moves, SleepInv, NoNameStranded
<1>4. CASE Take(v)
  <2>1. bufferLock = v /\ pc'[v] = "lockResults" /\ \A t \in Threads : t # v => pc'[t] = pc[t]
    BY <1>4, <1>a DEF Take, LockInv, HoldsBufferLock
  <2>2. \A w \in Resolvers : w # v => pc[w] # "wait"
    BY <2>1 DEF LockInv, HoldsBufferLock
  <2> QED BY <2>1, <2>2 DEF SleepInv, NoNameStranded
<1>5. CASE LockResults(v) \/ Resolve(v)
  <2>1. /\ pc'[v] \in {"resolve", "lockBuffer"} /\ UNCHANGED position
        /\ \A t \in Threads : t # v => pc'[t] = pc[t]
    BY <1>5, <1>a DEF LockResults, Resolve
  <2> QED BY <2>1 DEF SleepInv, NoNameStranded
<1>6. CASE ResolveWild(v)
  BY <1>6, SleepKept DEF ResolveWild
<1> QED BY <1>1, <1>2, <1>3, <1>4, <1>5, <1>6 DEF resolverThreads

LEMMA SleepOther ==
  ASSUME TypeOK, SleepInv, (\E t \in Threads : SpuriousWake(t)) \/ main
  PROVE  SleepInv'
<1>1. Resolvers \subseteq Threads /\ \A v \in Resolvers : pc[v] # "waitFull"
  BY DEF Threads, TypeOK, PcOK, ResolverLabels
<1> QED BY <1>1, OtherMoves, SleepKept

LEMMA SleepInit == Init => SleepInv
BY ThreadsAssumption DEF Init, SleepInv, NoNameStranded, Threads

-----------------------------------------------------------------------------
(* The inductive invariant, and what follows from it.                      *)

\* The inductive invariant IInv holds in every reachable state, for any threads,
\* files and buffer size: who holds which lock, what its holder has seen, and what
\* sleeping and exited resolvers rely on.
THEOREM InductiveInvariant == Spec => []IInv
<1>1. Init => IInv
  BY LockInit, FileInit, CountInit, SleepInit DEF IInv
<1>2. TypeOK /\ IInv /\ [Next]_vars => IInv'
  <2> SUFFICES ASSUME TypeOK, LockInv, FileInv, CountInv, SleepInv, [Next]_vars
               PROVE  LockInv' /\ FileInv' /\ CountInv' /\ SleepInv'
    BY DEF IInv
  <2>1. CASE \E r \in Requesters : requesterThreads(r)
    BY <2>1, LockRequester, FileRequester, CountRequester, SleepRequester
  <2>2. CASE \E v \in Resolvers : resolverThreads(v)
    BY <2>2, LockResolver, FileOther, CountResolver, SleepResolver
  <2>3. CASE (\E t \in Threads : SpuriousWake(t)) \/ main
    BY <2>3, LockOther, FileOther, CountOther, SleepOther
  <2>4. CASE UNCHANGED vars
    <3>1. LockInv'
      BY <2>4 DEF LockInv, HoldsFileLock, HoldsBufferLock
    <3>2. FileInv' /\ CountInv'
      BY <2>4, FileKept, CountKept DEF Counted
    <3>3. SleepInv'
      BY <2>4, SleepKept
    <3> QED BY <3>1, <3>2, <3>3
  <2> QED BY <2>1, <2>2, <2>3, <2>4 DEF Next
<1> QED BY <1>1, <1>2, TypeCorrect, PTL DEF Spec

\* No two requesters ever work on one file, whatever the number of threads and
\* files: each claims a file under file_lock and marks it before letting go.
THEOREM NoDoubleClaim == Spec => []ClaimedOnce
<1>1. IInv => ClaimedOnce
  BY DEF IInv, FileInv
<1> QED BY <1>1, InductiveInvariant, PTL

\* A resolver that has left was not needed any more: all requesters were counted,
\* all files read, and the buffer empty, and they stay so.
THEOREM NoEarlyExit == Spec => []ResolverExitsLast
<1>1. IInv => ResolverExitsLast
  <2> SUFFICES ASSUME IInv, NEW v \in Resolvers, pc[v] = "exited"
               PROVE  /\ \A r \in Requesters : Counted(r)
                      /\ \A f \in Files : serviced[f] /\ Unread(f) > Args[f].lines
                      /\ position <= 0
    BY DEF ResolverExitsLast
  <2>1. (\A r \in Requesters : Counted(r)) /\ position <= 0
    BY DEF IInv, CountInv
  <2>2. \A f \in Files : serviced[f]
    BY <2>1, ThreadsAssumption DEF IInv, CountInv, Counted
  <2>3. Reading = {}
    BY <2>1 DEF Reading, Counted
  <2>4. \A f \in Files : Args[f].lines \in Nat
    <3>1. \A f \in Files : f \in 1..Len(Args)
      BY ArgsAssumption DEF Files
    <3>2. \A i \in 1..Len(Args) : Args[i] \in FileArg
      BY ArgsAssumption
    <3> QED BY <3>1, <3>2 DEF FileArg
  <2>5. \A f \in Files : Unread(f) > Args[f].lines
    BY <2>2, <2>3, <2>4 DEF Unread
  <2> QED BY <2>1, <2>2, <2>5
<1> QED BY <1>1, InductiveInvariant, PTL

\* No lost wakeup while there is work: whenever names are in the buffer and its
\* lock is free, a resolver is awake to take them.
THEOREM NoLostWakeup == Spec => []NoNameStranded
<1>1. IInv => NoNameStranded
  BY DEF IInv, SleepInv
<1> QED BY <1>1, InductiveInvariant, PTL

-----------------------------------------------------------------------------
(* Sleeping requesters: each of them has somebody awake to signal isFull.   *)

\* While a requester sleeps on isFull, a resolver is awake that will signal it
\* before it sleeps, or a requester that will wake a resolver before it lets
\* buffer_lock go.
Rouses(v) == pc[v] \notin {"waitEmpty", "exited"}
Fills(r)  == pc[r] \in {"wokenFull", "fill"}
PartnerAwake ==
  (\E r \in Requesters : pc[r] = "waitFull") =>
    (\E v \in Resolvers : Rouses(v)) \/ (\E r \in Requesters : Fills(r))

LEMMA PartnerKept ==
  ASSUME PartnerAwake,
         \A r \in Requesters : pc'[r] = "waitFull" => pc[r] = "waitFull",
         \A r \in Requesters : Fills(r) => Fills(r)',
         \A v \in Resolvers : Rouses(v) => Rouses(v)'
  PROVE  PartnerAwake'
BY DEF PartnerAwake

LEMMA PartnerRequester ==
  ASSUME TypeOK, CountInv, PartnerAwake, NEW r \in Requesters, requesterThreads(r)
  PROVE  PartnerAwake'
<1> r \in Threads /\ PcOK(pc) /\ Requesters \subseteq Threads
  BY DEF Threads, TypeOK
<1>a. \A v \in Resolvers : v \in Threads /\ v # r
  BY ThreadsAssumption DEF Threads
<1>b. ASSUME NEW label \in RequesterLabels, Moves(r, label, "waitEmpty", "wokenEmpty"),
             label # "waitFull", Fills(r) => label \in {"wokenFull", "fill"}
      PROVE  PartnerAwake'
  <2>1. \A s \in Requesters : s # r => pc'[s] = pc[s]
    BY <1>b DEF Moves, PcOK, RequesterLabels
  <2>2. \A v \in Resolvers : Rouses(v) => Rouses(v)'
    BY <1>a, <1>b DEF Moves, Rouses
  <2> QED BY <2>1, <2>2, <1>b, PartnerKept DEF Moves, Fills
<1>c. ASSUME NEW label \in RequesterLabels, Goto(r, label)
      PROVE  Moves(r, label, "waitEmpty", "wokenEmpty")
  BY <1>c, OneMoves
<1>1. CASE \/ LockFile(r) \/ FindFile(r) \/ ClaimFile(r) \/ FindNothing(r)
           \/ FindNoList(r) \/ LockService(r) \/ Finish(r)
  <2>1. \E label \in RequesterLabels \ {"waitFull"} : Goto(r, label)
    BY <1>1 DEF LockFile, FindFile, ClaimFile, FindNothing, FindNoList, LockService,
                Finish, RequesterLabels
  <2>2. ~Fills(r)
    BY <1>1 DEF LockFile, FindFile, ClaimFile, FindNothing, FindNoList, LockService,
                Finish, Fills
  <2> QED BY <2>1, <2>2, <1>b, <1>c
<1>2. CASE Broadcast(r)
  <2>1. Moves(r, "done", "waitEmpty", "wokenEmpty") /\ ~Fills(r)
    BY <1>2, RequesterBroadcasts DEF Broadcast, Fills
  <2> QED BY <2>1, <1>b DEF RequesterLabels
<1>3. CASE LockBuffer(r, "lockBuffer", "fill") \/ LockBuffer(r, "wokenFull", "fill")
  <2>1. Goto(r, "fill")
    BY <1>3 DEF LockBuffer
  <2> QED BY <2>1, <1>b, <1>c DEF RequesterLabels
<1>4. CASE Put(r) \/ PutBelow(r) \/ ReadUnopened(r)
  <2>1. UNCHANGED pc
    BY <1>4 DEF Put, PutBelow, ReadUnopened
  <2> QED BY <2>1 DEF PartnerAwake, Fills, Rouses
<1>5. CASE WaitFull(r) \/ EndFile(r) \/ LeaveUncounted(r)
  <2>1. PICK label \in RequesterLabels : pc' \in SignalIsEmpty([pc EXCEPT ![r] = label])
    BY <1>5 DEF WaitFull, EndFile, LeaveUncounted, RequesterLabels
  <2>2. /\ Moves(r, label, "waitEmpty", "wokenEmpty")
        /\ \/ \A v \in Resolvers : pc[v] # "waitEmpty"
           \/ \E v \in Resolvers : pc'[v] = "wokenEmpty"
    BY <2>1, RequesterSignals
  <2>3. \A v \in Resolvers : pc[v] # "exited"
    BY <1>5 DEF WaitFull, EndFile, LeaveUncounted, CountInv, Counted
  <2>4. \E v \in Resolvers : Rouses(v)'
    BY <2>2, <2>3, <1>a, ThreadsAssumption DEF Moves, Rouses
  <2> QED BY <2>4 DEF PartnerAwake
<1> QED BY <1>1, <1>2, <1>3, <1>4, <1>5 DEF requesterThreads

LEMMA PartnerResolver ==
  ASSUME TypeOK, CountInv, PartnerAwake, NEW v \in Resolvers, resolverThreads(v)
  PROVE  PartnerAwake'
<1> v \in Threads /\ PcOK(pc) /\ Resolvers \subseteq Threads
  BY DEF Threads, TypeOK
<1>a. \A r \in Requesters : r \in Threads /\ r # v
  BY ThreadsAssumption DEF Threads
<1>b. ASSUME NEW label, Goto(v, label)
      PROVE  pc'[v] = label /\ \A t \in Threads : t # v => pc'[t] = pc[t]
  BY <1>b, OneMoves DEF Moves
<1>1. CASE WaitEmpty(v)
  <2>1. /\ Moves(v, "waitEmpty", "waitFull", "wokenFull")
        /\ \/ \A r \in Requesters : pc[r] # "waitFull"
           \/ \E r \in Requesters : pc'[r] = "wokenFull"
    BY <1>1, ResolverSignals DEF WaitEmpty
  <2>2. \A r \in Requesters : pc'[r] = "waitFull" => pc[r] = "waitFull"
    BY <2>1, <1>a DEF Moves
  <2> QED BY <2>1, <2>2 DEF PartnerAwake, Fills
<1>2. CASE threadsFinished = Cardinality(Requesters) /\ Goto(v, "exited")
  <2>1. {r \in Requesters : Counted(r)} = Requesters
    <3>1. {r \in Requesters : Counted(r)} \subseteq Requesters
      OBVIOUS
    <3> QED BY <3>1, <1>2, ThreadsAssumption, FS_Subset DEF CountInv
  <2>2. \A r \in Requesters : pc'[r] # "waitFull"
    BY <2>1, <1>2, <1>a, <1>b DEF Counted
  <2> QED BY <2>2 DEF PartnerAwake
<1>3. CASE ResolveWild(v)
  BY <1>3, PartnerKept DEF ResolveWild, Rouses, Fills
<1>4. CASE \/ LockBuffer(v, "lockBuffer", "check") \/ LockBuffer(v, "wokenEmpty", "take")
           \/ At(v, "check") /\ (Goto(v, "take") \/ Goto(v, "wait"))
           \/ Take(v) \/ LockResults(v) \/ Resolve(v)
  <2>1. PICK label \in {"check", "take", "wait", "lockResults", "resolve", "lockBuffer"} :
          Goto(v, label)
    BY <1>4 DEF LockBuffer, Take, LockResults, Resolve
  <2>2. Rouses(v)'
    BY <2>1, <1>b DEF Rouses
  <2> QED BY <2>2 DEF PartnerAwake
<1> QED BY <1>1, <1>2, <1>3, <1>4 DEF resolverThreads, CheckBuffer

LEMMA PartnerOther ==
  ASSUME TypeOK, PartnerAwake, (\E t \in Threads : SpuriousWake(t)) \/ main
  PROVE  PartnerAwake'
<1>1. Requesters \subseteq Threads /\ Resolvers \subseteq Threads
  BY DEF Threads
<1>2. \A r \in Requesters : pc[r] # "waitEmpty"
  BY DEF TypeOK, PcOK, RequesterLabels
<1>3. \A v \in Resolvers : pc[v] # "waitFull"
  BY DEF TypeOK, PcOK, ResolverLabels
<1> QED BY <1>1, <1>2, <1>3, OtherMoves, PartnerKept DEF Fills, Rouses

\* No deadlock in the middle of the work, for any threads, files and buffer size:
\* when every thread sleeps or has ended, all requesters have ended and no name is
\* left.  One signal before each sleep and after each file is enough: the thread it
\* wakes, or one that was awake already, gives the next.
THEOREM NoSleepingRing == Spec => []NoMidwayDeadlock
<1>1. Init => PartnerAwake
  BY DEF Init, PartnerAwake, Threads
<1>2. TypeOK /\ IInv /\ PartnerAwake /\ [Next]_vars => PartnerAwake'
  <2> SUFFICES ASSUME TypeOK, CountInv, PartnerAwake, [Next]_vars PROVE PartnerAwake'
    BY DEF IInv
  <2>1. CASE UNCHANGED vars
    BY <2>1, PartnerKept DEF Fills, Rouses
  <2> QED BY <2>1, PartnerRequester, PartnerResolver, PartnerOther DEF Next
<1>3. TypeOK /\ IInv /\ PartnerAwake => NoMidwayDeadlock
  <2> SUFFICES ASSUME TypeOK, IInv, PartnerAwake,
                      \A t \in Threads : Asleep(t) \/ pc[t] \in {"done", "left", "exited"}
               PROVE  (\A r \in Requesters : RequesterEnded(r)) /\ position <= 0
    BY DEF NoMidwayDeadlock
  <2>1. Requesters \subseteq Threads /\ Resolvers \subseteq Threads
    BY DEF Threads
  <2>2. \A r \in Requesters : pc[r] \in {"waitFull", "done", "left"}
    BY <2>1 DEF Asleep, TypeOK, PcOK, RequesterLabels
  <2>3. \A v \in Resolvers : pc[v] \in {"waitEmpty", "exited"}
    BY <2>1 DEF Asleep, TypeOK, PcOK, ResolverLabels
  <2>4. bufferLock = Free
    BY DEF Asleep, TypeOK, IInv, LockInv, HoldsBufferLock
  <2>5. position <= 0
    BY <2>3, <2>4 DEF IInv, SleepInv, NoNameStranded, TypeOK
  <2>6. \A r \in Requesters : pc[r] # "waitFull"
    BY <2>2, <2>3 DEF PartnerAwake, Rouses, Fills
  <2> QED BY <2>2, <2>5, <2>6 DEF RequesterEnded
<1> QED BY <1>1, <1>2, <1>3, TypeCorrect, InductiveInvariant, PTL DEF Spec

-----------------------------------------------------------------------------
(* An index below the buffer: no step of another thread saves the process. *)

LEMMA FatalKept ==
  ASSUME UnderflowIsFatal, status' = status \/ status' = "killed",
         position' < 0 => position < 0,
         \A v \in Working : v \in Working' /\ domainName'[v] = domainName[v]
  PROVE  UnderflowIsFatal'
BY DEF UnderflowIsFatal

LEMMA FatalRequester ==
  ASSUME TypeOK, UnderflowIsFatal, NEW r \in Requesters, requesterThreads(r)
  PROVE  UnderflowIsFatal'
<1>1. \A v \in Resolvers : v \in Threads /\ v # r
  BY ThreadsAssumption DEF Threads
<1>2. \A v \in Working : v \in Working'
  BY <1>1, RequesterMoves DEF Working, Moves
<1>3. /\ position' \in {position, position + 1} /\ UNCHANGED domainName
      /\ status' \in {status, "killed"}
  BY DEF requesterThreads, LockFile, FindFile, ClaimFile, FindNothing, FindNoList, LockService,
         Finish, Broadcast, LockBuffer, Put, WaitFull, PutBelow, ReadUnopened, EndFile,
         LeaveUncounted
<1>4. position \in Int
  BY DEF TypeOK
<1> QED BY <1>2, <1>3, <1>4, FatalKept

LEMMA FatalResolver ==
  ASSUME TypeOK, UnderflowIsFatal, NEW v \in Resolvers, resolverThreads(v)
  PROVE  UnderflowIsFatal'
<1> v \in Threads /\ PcOK(pc) /\ position \in Int /\ Resolvers \subseteq Threads
  BY DEF Threads, TypeOK
<1>a. ASSUME NEW label, Goto(v, label)
      PROVE  pc'[v] = label /\ \A t \in Threads : t # v => pc'[t] = pc[t]
  BY <1>a, OneMoves DEF Moves
<1>1. CASE \/ LockBuffer(v, "lockBuffer", "check") \/ LockBuffer(v, "wokenEmpty", "take")
           \/ CheckBuffer(v)
  <2>1. /\ pc[v] \in {"lockBuffer", "wokenEmpty", "check"}
        /\ UNCHANGED <<status, position, domainName>>
    BY <1>1 DEF LockBuffer, CheckBuffer
  <2>2. Goto(v, "check") \/ Goto(v, "take") \/ Goto(v, "exited") \/ Goto(v, "wait")
    BY <1>1 DEF LockBuffer, CheckBuffer
  <2>3. \A w \in Working : w \in Working'
    BY <2>1, <2>2, <1>a DEF Working
  <2> QED BY <2>1, <2>3, FatalKept
<1>2. CASE WaitEmpty(v)
  <2>1. Moves(v, "waitEmpty", "waitFull", "wokenFull") /\ pc[v] = "wait"
    BY <1>2, ResolverSignals DEF WaitEmpty
  <2>2. \A w \in Working : w \in Working'
    BY <2>1 DEF Working, Moves
  <2> QED BY <1>2, <2>2, FatalKept DEF WaitEmpty
<1>3. CASE Take(v)
  <2>1. /\ pc[v] = "take" /\ pc'[v] = "lockResults"
        /\ \A t \in Threads : t # v => pc'[t] = pc[t]
        /\ position' = position - 1 /\ UNCHANGED status
        /\ domainName' = [domainName EXCEPT ![v] = WordAt(position - 1)]
    BY <1>3, <1>a DEF Take
  <2>2. \A w \in Working : w \in Working' /\ domainName'[w] = domainName[w]
    BY <2>1 DEF Working, TypeOK
  <2>3. CASE position = 0
    <3>1. DOMAIN buffer = Slots \cup ZeroWords /\ -1 \notin Slots \cup ZeroWords
      BY SizeAssumption DEF TypeOK, Slots, ZeroWords, ListWords, KindWord
    <3>2. domainName'[v] = Wild /\ v \in Working'
      BY <2>1, <2>3, <3>1 DEF WordAt, TypeOK, Working
    <3> QED BY <3>2 DEF UnderflowIsFatal
  <2>4. CASE position # 0
    <3>1. position' < 0 => position < 0
      BY <2>1, <2>4
    <3> QED BY <2>1, <2>2, <3>1, FatalKept
  <2> QED BY <2>3, <2>4
<1>4. CASE LockResults(v)
  <2>1. /\ pc[v] = "lockResults" /\ pc'[v] = "resolve"
        /\ \A t \in Threads : t # v => pc'[t] = pc[t]
        /\ UNCHANGED <<status, position, domainName>>
    BY <1>4, <1>a DEF LockResults
  <2> QED BY <2>1, FatalKept DEF Working
<1>5. CASE Resolve(v)
  <2>1. /\ domainName[v] # Wild /\ \A t \in Threads : t # v => pc'[t] = pc[t]
        /\ UNCHANGED <<status, position, domainName>>
    BY <1>5, <1>a, NamesAssumption DEF Resolve
  <2> QED BY <2>1 DEF UnderflowIsFatal, Working
<1>6. CASE ResolveWild(v)
  BY <1>6 DEF ResolveWild, UnderflowIsFatal
<1> QED BY <1>1, <1>2, <1>3, <1>4, <1>5, <1>6 DEF resolverThreads

LEMMA FatalOther ==
  ASSUME TypeOK, UnderflowIsFatal, (\E t \in Threads : SpuriousWake(t)) \/ main
  PROVE  UnderflowIsFatal'
<1>1. Resolvers \subseteq Threads /\ \A v \in Working : pc'[v] = pc[v]
  BY OtherMoves DEF Threads, Working
<1>2. status' = "returned" => status = "running"
  BY DEF SpuriousWake, main, JoinRequesters, JoinResolvers, Cleanup
<1> QED BY <1>1, <1>2, OtherMoves DEF UnderflowIsFatal, Working

\* A program whose index has run below the buffer cannot return: as long as it
\* lives, some resolver holds the pointer that dnslookup will fault on.
THEOREM NoRecovery == Spec => []UnderflowIsFatal
<1>1. Init => UnderflowIsFatal
  BY DEF Init, UnderflowIsFatal
<1>2. TypeOK /\ UnderflowIsFatal /\ [Next]_vars => UnderflowIsFatal'
  <2> SUFFICES ASSUME TypeOK, UnderflowIsFatal, [Next]_vars PROVE UnderflowIsFatal'
    OBVIOUS
  <2>1. CASE UNCHANGED vars
    BY <2>1, FatalKept DEF Working
  <2> QED BY <2>1, FatalRequester, FatalResolver, FatalOther DEF Next
<1> QED BY <1>1, <1>2, TypeCorrect, PTL DEF Spec

-----------------------------------------------------------------------------
(* The service log.                                                        *)

\* The counts of the requesters, added up as ServiceLogAdds does, in this state and the
\* next.
Logged == Sums(serviceCount)[DOMAIN serviceCount] = Cardinality({f \in Files : serviced[f]})

LEMMA LogIsSum ==
  /\ ServiceLogAdds <=> Logged
  /\ ServiceLogAdds' <=> Logged'
BY DEF ServiceLogAdds, Logged, FoldFunction, FoldFunctionOnSet, MapThenFoldSet, Sums, Picked

LEMMA FilesFinite == IsFiniteSet(Files)
<1>1. Files \in SUBSET (1..Len(Args)) BY ArgsAssumption DEF Files
<1>2. IsFiniteSet(1..Len(Args))
  <2>1. Len(Args) \in Nat BY ArgsAssumption
  <2> QED BY <2>1, FS_Interval
<1> QED BY <1>1, <1>2, FS_Subset

\* A file that was not marked is, and one count goes up.
LEMMA ClaimAdds ==
  ASSUME TypeOK, FileInv, ServiceLogAdds, NEW r \in Requesters, ClaimFile(r)
  PROVE  ServiceLogAdds'
<1> DEFINE marked == {f \in Files : serviced[f]}
           file   == current[r]
<1>1. /\ serviceCount \in [Requesters -> Nat]
      /\ serviceCount' = [serviceCount EXCEPT ![r] = @ + 1]
      /\ serviced' = [serviced EXCEPT ![file] = TRUE]
      /\ serviced \in [Files -> BOOLEAN]
      /\ file \in Files /\ ~serviced[file]
  BY DEF ClaimFile, FileInv, TypeOK, At
<1>2. serviceCount' \in [Requesters -> Nat] BY <1>1
<1>3. Sums(serviceCount')[Requesters] = Sums(serviceCount)[Requesters] + 1
  BY <1>1, SumsAdd, ThreadsAssumption
<1>4. marked' = marked \cup {file} /\ file \notin marked
  <2>1. \A f \in Files : serviced'[f] <=> serviced[f] \/ f = file BY <1>1
  <2> HIDE DEF file
  <2> QED BY <1>1, <2>1
<1>5. Cardinality(marked') = Cardinality(marked) + 1
  <2>1. IsFiniteSet(marked) BY FilesFinite, FS_Subset
  <2> HIDE DEF marked
  <2> QED BY <1>4, <2>1, FS_AddElement
<1>6. Sums(serviceCount)[Requesters] = Cardinality(marked)
  <2>1. DOMAIN serviceCount = Requesters BY <1>1
  <2> QED BY <2>1, LogIsSum DEF Logged
<1>7. DOMAIN serviceCount' = Requesters BY <1>2
<1>8. Logged' BY <1>3, <1>5, <1>6, <1>7 DEF Logged
<1> QED BY <1>8, LogIsSum

\* The line each requester writes at its end (multi-lookup.c:54) counts the files it
\* serviced: the counts add up to the files marked at every moment, for any number of
\* threads and files, as no file is claimed twice.
THEOREM LogAddsUp == Spec => []ServiceLogAdds
<1>1. Init => ServiceLogAdds
  <2> SUFFICES ASSUME Init PROVE ServiceLogAdds
    OBVIOUS
  <2>1. /\ serviceCount \in [Requesters -> Nat] /\ \A r \in Requesters : serviceCount[r] = 0
        /\ {f \in Files : serviced[f]} = {}
    BY DEF Init
  <2>2. Sums(serviceCount)[DOMAIN serviceCount] = 0
    BY <2>1, SumsZero, ThreadsAssumption
  <2> QED BY <2>1, <2>2, LogIsSum, FS_EmptySet DEF Logged
<1>2. TypeOK /\ IInv /\ ServiceLogAdds /\ [Next]_vars => ServiceLogAdds'
  <2> SUFFICES ASSUME TypeOK, FileInv, ServiceLogAdds, [Next]_vars PROVE ServiceLogAdds'
    BY DEF IInv
  <2>1. CASE UNCHANGED <<serviced, serviceCount>>
    BY <2>1, LogIsSum DEF Logged
  <2>2. ASSUME NEW r \in Requesters, requesterThreads(r), ~ClaimFile(r)
        PROVE  UNCHANGED <<serviced, serviceCount>>
    BY <2>2 DEF requesterThreads, LockFile, FindFile, FindNothing, FindNoList, LockService, Finish,
       Broadcast, LockBuffer, Put, WaitFull, PutBelow, ReadUnopened, EndFile, LeaveUncounted,
       Kill, fileVars
  <2>3. ASSUME NEW v \in Resolvers, resolverThreads(v)
        PROVE  UNCHANGED <<serviced, serviceCount>>
    BY <2>3, ResolverLeavesRequesters DEF fileVars
  <2>4. (\E t \in Threads : SpuriousWake(t)) \/ main => UNCHANGED <<serviced, serviceCount>>
    BY DEF SpuriousWake, main, JoinRequesters, JoinResolvers, Cleanup, fileVars
  <2>5. UNCHANGED vars => UNCHANGED <<serviced, serviceCount>>
    BY DEF vars, fileVars
  <2> QED BY <2>1, <2>2, <2>3, <2>4, <2>5, ClaimAdds DEF Next
<1> QED BY <1>1, <1>2, TypeCorrect, InductiveInvariant, PTL DEF Spec

================================================================================
