------------------------------ MODULE DeliveryProofs --------------------------
(***************************************************************************)
(* What becomes of the names of multi-lookup, for any threads, files and   *)
(* buffer size: none is lost and none is there twice, and the threads keep *)
(* the promise of NameDelivery.                                            *)
(***************************************************************************)
EXTENDS MultiLookupProofs, SequenceTheorems

USE DEF vars, fileVars, readerVars, bufferVars, resolveVars, At, Goto, Kill

-----------------------------------------------------------------------------
(* NamesAccounted put in a form a step can be compared with.               *)

OnStack(n) == {i \in 1..position : buffer[i - 1] = n}
Holding(n) == {v \in Working : domainName[v] = n}
Places(n)  == results[n] + Cardinality(OnStack(n)) + Cardinality(Holding(n))

\* The name was put on the stack: its file is marked, and whoever reads that file
\* is past its line.
Added(n) ==
  /\ serviced[n[1]]
  /\ \A r \in Reading : current[r] = n[1] => n[2] < line[r]

Accounted ==
  position >= 0 => \A n \in Names : Places(n) = IF Added(n) THEN 1 ELSE 0

AccountInv == position <= ArraySize /\ Accounted

LEMMA FileLines ==
  ASSUME NEW f \in Files
  PROVE  Args[f].lines \in Nat
<1>1. f \in 1..Len(Args)
  BY ArgsAssumption DEF Files
<1>2. Args[f] \in FileArg
  BY <1>1, ArgsAssumption
<1> QED BY <1>2 DEF FileArg

LEMMA NamesType ==
  ASSUME NEW n \in Names
  PROVE  /\ n[1] \in Files /\ n[2] \in Nat /\ Args[n[1]].lines \in Nat
         /\ 1 <= n[2] /\ n[2] <= Args[n[1]].lines
<1>1. PICK f \in Files : n \in {f} \X (1..Args[f].lines)
  BY DEF Names
<1> QED BY <1>1, FileLines

LEMMA CountsFinite ==
  ASSUME TypeOK, NEW n
  PROVE  /\ IsFiniteSet(OnStack(n)) /\ Cardinality(OnStack(n)) \in Nat
         /\ IsFiniteSet(Holding(n)) /\ Cardinality(Holding(n)) \in Nat
<1>1. IsFiniteSet(1..position)
  BY FS_Interval DEF TypeOK
<1>2. OnStack(n) \in SUBSET (1..position) /\ Holding(n) \in SUBSET Resolvers
  BY DEF OnStack, Holding, Working
<1>3. IsFiniteSet(OnStack(n)) /\ IsFiniteSet(Holding(n))
  BY <1>1, <1>2, FS_Subset, ThreadsAssumption
<1> QED BY <1>3, FS_CardinalityType

\* The two say the same of a name, since one requester at most reads its file.
LEMMA AddedIsRead ==
  ASSUME TypeOK, FileInv, NEW n \in Names
  PROVE  Added(n) <=> n[2] < Unread(n[1])
<1> DEFINE readers == {r \in Reading : current[r] = n[1]}
<1>1. /\ n[1] \in Files /\ n[2] \in Nat /\ 1 <= n[2]
      /\ Args[n[1]].lines \in Nat /\ n[2] <= Args[n[1]].lines
  BY NamesType
<1>2. CASE ~serviced[n[1]]
  BY <1>1, <1>2 DEF Added, Unread
<1>3. CASE serviced[n[1]] /\ \A r \in Reading : current[r] # n[1]
  BY <1>1, <1>3 DEF Added, Unread
<1>4. ASSUME serviced[n[1]], NEW r \in Reading, current[r] = n[1]
      PROVE  Added(n) <=> n[2] < Unread(n[1])
  <2>1. \A s \in Reading : current[s] = n[1] => s = r
    BY <1>4 DEF FileInv, ClaimedOnce, Reading
  <2>2. (CHOOSE s \in Reading : current[s] = n[1]) = r
    BY <1>4, <2>1
  <2>3. Unread(n[1]) = line[r]
    BY <1>4, <2>2 DEF Unread
  <2> QED BY <1>4, <2>1, <2>3 DEF Added
<1> QED BY <1>2, <1>3, <1>4

LEMMA AccountedForm ==
  ASSUME TypeOK, FileInv, Accounted
  PROVE  NamesAccounted
<1> SUFFICES ASSUME position >= 0, NEW n \in Names
             PROVE  results[n] + Cardinality({i \in 1..position : Stack[i] = n})
                               + Cardinality({v \in Working : HeldBy[v] = n})
                      = IF n[2] < Unread(n[1]) THEN 1 ELSE 0
  BY DEF NamesAccounted
<1>1. {i \in 1..position : Stack[i] = n} = OnStack(n)
  BY DEF Stack, OnStack
<1>2. {v \in Working : HeldBy[v] = n} = Holding(n)
  BY DEF HeldBy, Holding
<1> QED BY <1>1, <1>2, AddedIsRead DEF Accounted, Places

-----------------------------------------------------------------------------
(* Steps that move no name, whatever they do to the process.               *)

Settled ==
  /\ UNCHANGED <<position, buffer, results, serviced, line>>
  /\ Working' = Working /\ \A v \in Working : domainName'[v] = domainName[v]
  /\ Reading' = Reading /\ \A r \in Reading : current'[r] = current[r]

LEMMA AccountKept ==
  ASSUME AccountInv, UNCHANGED <<position, buffer, results>>, Working' = Working,
         \A v \in Working : domainName'[v] = domainName[v],
         \A n \in Names : Added(n)' <=> Added(n)
  PROVE  AccountInv'
<1>1. \A n : OnStack(n)' = OnStack(n)
  BY DEF OnStack
<1>2. \A n : Holding(n)' = Holding(n)
  BY DEF Holding
<1> QED BY <1>1, <1>2 DEF AccountInv, Accounted, Places

LEMMA AccountSettled ==
  ASSUME AccountInv, Settled
  PROVE  AccountInv'
<1>1. \A n \in Names : Added(n)' <=> Added(n)
  BY DEF Settled, Added
<1> QED BY <1>1, AccountKept DEF Settled

\* What a requester's step does to the sets of threads the count is about.
LEMMA RequesterSets ==
  ASSUME TypeOK, NEW r \in Requesters, NEW label,
         Moves(r, label, "waitEmpty", "wokenEmpty")
  PROVE  /\ Working' = Working
         /\ \A s \in Requesters : s # r => pc'[s] = pc[s]
         /\ pc'[r] = label
<1>1. \A s \in Requesters : s \in Threads /\ pc[s] # "waitEmpty"
  BY DEF TypeOK, PcOK, RequesterLabels, Threads
<1>2. \A v \in Resolvers : v \in Threads /\ v # r
  BY ThreadsAssumption DEF Threads
<1>3. \A v \in Resolvers : pc'[v] \in {"lockResults", "resolve"}
                             <=> pc[v] \in {"lockResults", "resolve"}
  BY <1>2 DEF Moves
<1> QED BY <1>1, <1>3 DEF Working, Moves

\* A step of a requester that reads no file, or goes on with the one it reads.
LEMMA ReadersKept ==
  ASSUME TypeOK, NEW r \in Requesters, NEW label,
         Moves(r, label, "waitEmpty", "wokenEmpty"),
         UNCHANGED <<position, buffer, results, domainName, serviced, line>>,
         \A s \in Requesters : s # r => current'[s] = current[s],
         \/ label \in ReadingLabels /\ pc[r] \in ReadingLabels /\ current'[r] = current[r]
         \/ label \notin ReadingLabels /\ pc[r] \notin ReadingLabels
         \/ current[r] = NoFile /\ current'[r] = NoFile
  PROVE  Settled
<1>1. /\ Working' = Working /\ pc'[r] = label
      /\ \A s \in Requesters : s # r => pc'[s] = pc[s]
  BY RequesterSets
<1>2. Reading' = Reading /\ \A s \in Reading : current'[s] = current[s]
  BY <1>1 DEF Reading, ReadingLabels
<1> QED BY <1>1, <1>2 DEF Settled

LEMMA SettledRequester ==
  ASSUME TypeOK, NEW r \in Requesters, requesterThreads(r),
         ~ClaimFile(r), ~Put(r), ~EndFile(r)
  PROVE  Settled
<1> r \in Threads /\ PcOK(pc)
  BY DEF Threads, TypeOK
<1>a. ASSUME NEW label, Goto(r, label) PROVE Moves(r, label, "waitEmpty", "wokenEmpty")
  BY <1>a, OneMoves
<1>1. CASE \/ LockFile(r) \/ FindFile(r) \/ FindNothing(r) \/ LockService(r) \/ Finish(r)
  <2>1. PICK label : Goto(r, label) /\ label \in RequesterLabels \ ReadingLabels
    BY <1>1 DEF LockFile, FindFile, FindNothing, LockService, Finish, RequesterLabels,
                ReadingLabels
  <2>2. pc[r] \notin ReadingLabels
    BY <1>1 DEF LockFile, FindFile, FindNothing, LockService, Finish, ReadingLabels
  <2>3. /\ UNCHANGED <<position, buffer, results, domainName, serviced, line>>
        /\ \A s \in Requesters : s # r => current'[s] = current[s]
    BY <1>1 DEF LockFile, FindFile, FindNothing, LockService, Finish, TypeOK
  <2> QED BY <2>1, <2>2, <2>3, <1>a, ReadersKept
<1>2. CASE Broadcast(r)
  <2>1. Moves(r, "done", "waitEmpty", "wokenEmpty")
    BY <1>2, RequesterBroadcasts DEF Broadcast
  <2> QED BY <1>2, <2>1, ReadersKept DEF Broadcast, ReadingLabels
<1>3. CASE LockBuffer(r, "lockBuffer", "fill") \/ LockBuffer(r, "wokenFull", "fill")
  <2>1. Moves(r, "fill", "waitEmpty", "wokenEmpty")
    BY <1>3, <1>a DEF LockBuffer
  <2> QED BY <1>3, <2>1, ReadersKept DEF LockBuffer, ReadingLabels
<1>4. CASE WaitFull(r)
  <2>1. Moves(r, "waitFull", "waitEmpty", "wokenEmpty")
    BY <1>4, RequesterSignals DEF WaitFull, RequesterLabels
  <2> QED BY <1>4, <2>1, ReadersKept DEF WaitFull, ReadingLabels
<1>5. CASE LeaveUncounted(r)
  <2>1. Moves(r, "left", "waitEmpty", "wokenEmpty")
    BY <1>5, RequesterSignals DEF LeaveUncounted, RequesterLabels
  <2> QED BY <1>5, <2>1, ReadersKept DEF LeaveUncounted
<1>6. CASE FindNoList(r)
  <2>1. Moves(r, "lockBuffer", "waitEmpty", "wokenEmpty")
    BY <1>6, <1>a DEF FindNoList
  <2>2. current[r] = NoFile
    BY <1>6 DEF FindNoList, TypeOK
  <2> QED BY <1>6, <2>1, <2>2, ReadersKept DEF FindNoList
<1>7. CASE PutBelow(r) \/ ReadUnopened(r)
  <2>1. UNCHANGED <<pc, serviced, current, line, position, buffer, results, domainName>>
    BY <1>7 DEF PutBelow, ReadUnopened
  <2> QED BY <2>1 DEF Settled, Working, Reading
<1> QED BY <1>1, <1>2, <1>3, <1>4, <1>5, <1>6, <1>7 DEF requesterThreads

LEMMA SettledResolver ==
  ASSUME TypeOK, NEW v \in Resolvers, resolverThreads(v), ~Take(v), ~Resolve(v)
  PROVE  Settled
<1> v \in Threads /\ PcOK(pc) /\ Resolvers \subseteq Threads
  BY DEF Threads, TypeOK
<1>a. \A r \in Requesters : r \in Threads /\ r # v
  BY ThreadsAssumption DEF Threads
<1>b. ASSUME Working' = Working,
             \A r \in Requesters : pc'[r] \in ReadingLabels <=> pc[r] \in ReadingLabels,
             UNCHANGED <<serviced, current, line, position, buffer, results, domainName>>
      PROVE  Settled
  <2>1. Reading' = Reading
    BY <1>b DEF Reading, ReadingLabels
  <2> QED BY <1>b, <2>1 DEF Settled
<1>c. ASSUME NEW label, Goto(v, label)
      PROVE  pc'[v] = label /\ \A t \in Threads : t # v => pc'[t] = pc[t]
  BY <1>c, OneMoves DEF Moves
<1>1. CASE \/ LockBuffer(v, "lockBuffer", "check") \/ LockBuffer(v, "wokenEmpty", "take")
           \/ CheckBuffer(v)
  <2>1. /\ pc[v] \in {"lockBuffer", "wokenEmpty", "check"}
        /\ \E label \in {"check", "take", "exited", "wait"} : Goto(v, label)
        /\ UNCHANGED <<serviced, current, line, position, buffer, results, domainName>>
    BY <1>1 DEF LockBuffer, CheckBuffer
  <2>2. Working' = Working
    BY <2>1, <1>c DEF Working
  <2> QED BY <2>1, <2>2, <1>a, <1>b, <1>c
<1>2. CASE LockResults(v)
  <2>1. /\ pc[v] = "lockResults" /\ Goto(v, "resolve")
        /\ UNCHANGED <<serviced, current, line, position, buffer, results, domainName>>
    BY <1>2 DEF LockResults
  <2>2. Working' = Working
    BY <2>1, <1>c DEF Working
  <2> QED BY <2>1, <2>2, <1>a, <1>b, <1>c
<1>3. CASE WaitEmpty(v)
  <2>1. Moves(v, "waitEmpty", "waitFull", "wokenFull") /\ pc[v] = "wait"
    BY <1>3, ResolverSignals DEF WaitEmpty
  <2>2. Working' = Working
    BY <2>1 DEF Working, Moves
  <2>3. \A r \in Requesters : pc'[r] \in ReadingLabels <=> pc[r] \in ReadingLabels
    BY <2>1, <1>a DEF Moves, ReadingLabels
  <2> QED BY <1>3, <2>2, <2>3, <1>b DEF WaitEmpty
<1>4. CASE ResolveWild(v)
  <2>1. UNCHANGED <<pc, serviced, current, line, position, buffer, results, domainName>>
    BY <1>4 DEF ResolveWild
  <2> QED BY <2>1, <1>b DEF Working
<1> QED BY <1>1, <1>2, <1>3, <1>4 DEF resolverThreads

LEMMA SettledOther ==
  ASSUME TypeOK, (\E t \in Threads : SpuriousWake(t)) \/ main
  PROVE  Settled
<1>1. /\ \A t \in Threads :
           \/ pc'[t] = pc[t]
           \/ pc[t] = "waitFull" /\ pc'[t] = "wokenFull"
           \/ pc[t] = "waitEmpty" /\ pc'[t] = "wokenEmpty"
      /\ UNCHANGED <<serviced, current, line, position, buffer, results, domainName>>
  BY OtherMoves
<1>2. Requesters \subseteq Threads /\ Resolvers \subseteq Threads
  BY DEF Threads
<1>3. \A r \in Requesters : pc[r] # "waitEmpty"
  BY DEF TypeOK, PcOK, RequesterLabels
<1>4. Reading' = Reading /\ Working' = Working
  BY <1>1, <1>2, <1>3 DEF Reading, Working
<1> QED BY <1>1, <1>4 DEF Settled

-----------------------------------------------------------------------------
(* Steps that do: a file is claimed, a line is put, a file ends.           *)

LEMMA AccountClaim ==
  ASSUME TypeOK, FileInv, AccountInv, NEW r \in Requesters, ClaimFile(r)
  PROVE  AccountInv'
<1> r \in Threads /\ PcOK(pc)
  BY DEF Threads, TypeOK
<1>1. Moves(r, "lockBuffer", "waitEmpty", "wokenEmpty") /\ pc[r] = "claim"
  BY OneMoves DEF ClaimFile
<1>2. /\ Working' = Working /\ pc'[r] = "lockBuffer"
      /\ \A s \in Requesters : s # r => pc'[s] = pc[s]
  BY <1>1, RequesterSets
<1>3. current[r] \in Files /\ ~serviced[current[r]]
  BY <1>1 DEF FileInv, TypeOK
<1>4. Reading' = Reading \cup {r} /\ r \notin Reading
  BY <1>1, <1>2, <1>3, NoFileAssumption DEF Reading, ClaimFile, FileInv
<1>5. ASSUME NEW n \in Names PROVE Added(n)' <=> Added(n)
  <2>1. n[1] \in Files /\ n[2] \in Nat /\ 1 <= n[2]
    BY NamesType
  <2>2. CASE n[1] = current[r]
    <3>1. ~Added(n)
      BY <2>2, <1>3 DEF Added
    <3>2. r \in Reading' /\ current'[r] = n[1] /\ line'[r] = 1
      BY <2>2, <1>4 DEF ClaimFile, TypeOK
    <3> QED BY <2>1, <3>1, <3>2 DEF Added
  <2>3. CASE n[1] # current[r]
    <3>1. serviced'[n[1]] = serviced[n[1]]
      BY <2>1, <2>3 DEF ClaimFile, TypeOK
    <3>2. \A s \in Reading : line'[s] = line[s]
      BY <1>4 DEF ClaimFile, TypeOK, Reading
    <3> QED BY <2>3, <3>1, <3>2, <1>4 DEF Added, ClaimFile
  <2> QED BY <2>2, <2>3
<1> QED BY <1>2, <1>5, AccountKept DEF ClaimFile

LEMMA AccountEndFile ==
  ASSUME TypeOK, FileInv, AccountInv, NEW r \in Requesters, EndFile(r)
  PROVE  AccountInv'
<1> r \in Threads /\ PcOK(pc)
  BY DEF Threads, TypeOK
<1>1. Moves(r, "lockFile", "waitEmpty", "wokenEmpty") /\ pc[r] = "fill"
  BY RequesterSignals DEF EndFile, RequesterLabels
<1>2. /\ Working' = Working /\ pc'[r] = "lockFile"
      /\ \A s \in Requesters : s # r => pc'[s] = pc[s]
  BY <1>1, RequesterSets
<1>3. Reading' = Reading \ {r} /\ r \in Reading
  BY <1>1, <1>2 DEF Reading, EndFile, Opened
<1>4. ASSUME NEW n \in Names PROVE Added(n)' <=> Added(n)
  <2>1. /\ n[1] \in Files /\ n[2] \in Nat /\ Args[n[1]].lines \in Nat
        /\ n[2] <= Args[n[1]].lines
    BY NamesType
  <2>2. current[r] = n[1] => n[2] < line[r]
    BY <2>1 DEF EndFile, HasLine, TypeOK
  <2> QED BY <1>3, <2>2 DEF Added, EndFile
<1> QED BY <1>2, <1>4, AccountKept DEF EndFile

\* The line that is put was on no stack, in no hand and in no result before.
LEMMA AccountPut ==
  ASSUME TypeOK, FileInv, AccountInv, NEW r \in Requesters, Put(r)
  PROVE  AccountInv'
<1> DEFINE new == <<current[r], line[r]>>
<1>1. /\ position' = position + 1 /\ position \in Slots \cup ListWords
      /\ buffer' = [buffer EXCEPT ![position] = new]
      /\ UNCHANGED <<pc, serviced, current, results, domainName>>
      /\ line' = [line EXCEPT ![r] = @ + 1]
  BY DEF Put
<1>2. position' <= ArraySize /\ (position' >= 0 => position \in Slots)
  BY <1>1, SizeAssumption DEF Slots, ListWords
<1>3. r \in Reading /\ current[r] \in Files /\ serviced[current[r]] /\ line[r] \in Nat
  BY DEF Put, HasLine, Opened, Reading, FileInv, TypeOK
<1>4. \A s \in Reading : s # r => current[s] # current[r]
  BY <1>3 DEF FileInv, ClaimedOnce, Reading
<1>5. Reading' = Reading /\ \A n : Holding(n)' = Holding(n)
  BY <1>1 DEF Reading, Holding, Working
<1>6. \A s \in Reading : line'[s] = IF s = r THEN line[r] + 1 ELSE line[s]
  BY <1>1 DEF TypeOK, Reading
<1>7. ASSUME position' >= 0, NEW n \in Names
      PROVE  Places(n)' = IF Added(n)' THEN 1 ELSE 0
  <2>1. position \in Nat /\ position \in Slots /\ position >= 0
    BY <1>1, <1>2, <1>7 DEF Slots
  <2>2. \A i \in 1..position : buffer'[i - 1] = buffer[i - 1]
    BY <1>1, <2>1 DEF TypeOK
  <2>3. buffer'[position] = new
    BY <1>1, <2>1 DEF TypeOK
  <2>4. 1..(position + 1) = (1..position) \cup {position + 1}
    BY <2>1
  <2>5. /\ results[n] \in Nat
        /\ IsFiniteSet(OnStack(n)) /\ Cardinality(OnStack(n)) \in Nat
        /\ Cardinality(Holding(n)) \in Nat
    BY CountsFinite DEF TypeOK
  <2>6. Places(n) = IF Added(n) THEN 1 ELSE 0
    BY <2>1 DEF AccountInv, Accounted
  <2>7. n[1] \in Files /\ n[2] \in Nat /\ n = <<n[1], n[2]>>
    BY NamesType DEF Names
  <2>8. CASE n = new
    <3>1. ~Added(n)
      BY <2>8, <1>3 DEF Added
    <3>2. Added(n)'
      BY <2>8, <1>1, <1>3, <1>4, <1>5, <1>6 DEF Added
    <3>3. OnStack(n)' = OnStack(n) \cup {position + 1}
      BY <2>1, <2>2, <2>3, <2>4, <2>8, <1>1 DEF OnStack
    <3>4. position + 1 \notin OnStack(n)
      BY <2>1 DEF OnStack
    <3>5. Cardinality(OnStack(n)') = Cardinality(OnStack(n)) + 1
      BY <2>5, <3>3, <3>4, FS_AddElement
    <3>6. Places(n)' = results[n] + Cardinality(OnStack(n)') + Cardinality(Holding(n))
      BY <1>1, <1>5 DEF Places
    <3> QED BY <2>5, <2>6, <3>1, <3>2, <3>5, <3>6 DEF Places
  <2>9. CASE n # new
    <3>1. Added(n)' <=> Added(n)
      <4>1. current[r] = n[1] => n[2] # line[r]
        BY <2>7, <2>9
      <4>2. current[r] = n[1] => (n[2] < line[r] + 1 <=> n[2] < line[r])
        BY <4>1, <2>7, <1>3
      <4> QED BY <4>2, <1>1, <1>5, <1>6 DEF Added
    <3>2. OnStack(n)' = OnStack(n)
      BY <2>1, <2>2, <2>3, <2>4, <2>9, <1>1 DEF OnStack
    <3> QED BY <2>6, <3>1, <3>2, <1>1, <1>5 DEF Places
  <2> QED BY <2>8, <2>9
<1> QED BY <1>2, <1>7 DEF AccountInv, Accounted

-----------------------------------------------------------------------------
(* A name is taken off the stack, a name is resolved.                      *)

LEMMA AccountTake ==
  ASSUME TypeOK, AccountInv, NEW v \in Resolvers, Take(v)
  PROVE  AccountInv'
<1> v \in Threads /\ PcOK(pc) /\ Resolvers \subseteq Threads /\ position \in Int
  BY DEF Threads, TypeOK
<1>1. /\ pc[v] = "take" /\ pc'[v] = "lockResults"
      /\ \A t \in Threads : t # v => pc'[t] = pc[t]
      /\ position' = position - 1
      /\ domainName' = [domainName EXCEPT ![v] = WordAt(position - 1)]
      /\ UNCHANGED <<serviced, current, line, buffer, results>>
  BY DEF Take, PcOK
<1>2. Working' = Working \cup {v} /\ v \notin Working
  BY <1>1 DEF Working
<1>3. Reading' = Reading
  BY <1>1, ThreadsAssumption DEF Reading, Threads
<1>4. \A n : Added(n)' <=> Added(n)
  BY <1>1, <1>3 DEF Added
<1>5. ASSUME position' >= 0, NEW n \in Names
      PROVE  Places(n)' = Places(n)
  <2>1. position \in Nat \ {0} /\ position <= ArraySize
    BY <1>1, <1>5 DEF AccountInv
  <2>2. domainName'[v] = buffer[position - 1]
    BY <2>1, <1>1, SizeAssumption DEF TypeOK, WordAt, Slots
  <2>3. \A w \in Working : domainName'[w] = domainName[w]
    BY <1>1, <1>2 DEF TypeOK, Working
  <2>4. 1..(position - 1) = (1..position) \ {position}
    BY <2>1
  <2>5. OnStack(n)' = OnStack(n) \ {position}
    BY <1>1, <2>4 DEF OnStack
  <2>6. /\ results[n] \in Nat
        /\ IsFiniteSet(OnStack(n)) /\ Cardinality(OnStack(n)) \in Nat
        /\ IsFiniteSet(Holding(n)) /\ Cardinality(Holding(n)) \in Nat
    BY CountsFinite DEF TypeOK
  <2>7. CASE buffer[position - 1] = n
    <3>1. position \in OnStack(n)
      BY <2>1, <2>7 DEF OnStack
    <3>2. Holding(n)' = Holding(n) \cup {v} /\ v \notin Holding(n)
      BY <2>2, <2>3, <2>7, <1>2 DEF Holding
    <3>3. Cardinality(OnStack(n)') = Cardinality(OnStack(n)) - 1
      BY <2>5, <2>6, <3>1, FS_RemoveElement
    <3>4. Cardinality(Holding(n)') = Cardinality(Holding(n)) + 1
      BY <2>6, <3>2, FS_AddElement
    <3>5. Places(n)' = results[n] + Cardinality(OnStack(n)') + Cardinality(Holding(n)')
      BY <1>1 DEF Places
    <3> QED BY <2>6, <3>3, <3>4, <3>5 DEF Places
  <2>8. CASE buffer[position - 1] # n
    <3>1. position \notin OnStack(n)
      BY <2>8 DEF OnStack
    <3>2. OnStack(n)' = OnStack(n) /\ Holding(n)' = Holding(n)
      BY <3>1, <2>2, <2>3, <2>5, <2>8, <1>2 DEF Holding
    <3> QED BY <3>2, <1>1 DEF Places
  <2> QED BY <2>7, <2>8
<1>6. position' >= 0 => position >= 0
  BY <1>1
<1>7. position' <= ArraySize
  BY <1>1, SizeAssumption DEF AccountInv
<1> QED BY <1>4, <1>5, <1>6, <1>7 DEF AccountInv, Accounted

LEMMA AccountResolve ==
  ASSUME TypeOK, AccountInv, NEW v \in Resolvers, Resolve(v)
  PROVE  AccountInv'
<1> v \in Threads /\ PcOK(pc) /\ Resolvers \subseteq Threads
  BY DEF Threads, TypeOK
<1>1. /\ pc[v] = "resolve" /\ pc'[v] = "lockBuffer"
      /\ \A t \in Threads : t # v => pc'[t] = pc[t]
      /\ results' = [results EXCEPT ![domainName[v]] = @ + 1]
      /\ UNCHANGED <<serviced, current, line, position, buffer, domainName>>
  BY DEF Resolve, PcOK
<1>2. Working' = Working \ {v} /\ v \in Working
  BY <1>1 DEF Working
<1>3. Reading' = Reading
  BY <1>1, ThreadsAssumption DEF Reading, Threads
<1>4. \A n : (Added(n)' <=> Added(n)) /\ OnStack(n)' = OnStack(n)
  BY <1>1, <1>3 DEF Added, OnStack
<1>5. ASSUME NEW n \in Names
      PROVE  Places(n)' = Places(n)
  <2>1. /\ results[n] \in Nat /\ Cardinality(OnStack(n)) \in Nat
        /\ IsFiniteSet(Holding(n)) /\ Cardinality(Holding(n)) \in Nat
    BY CountsFinite DEF TypeOK
  <2>2. Holding(n)' = Holding(n) \ {v}
    BY <1>1, <1>2 DEF Holding
  <2>3. CASE domainName[v] = n
    <3>1. v \in Holding(n) /\ results'[n] = results[n] + 1
      BY <2>3, <1>1, <1>2 DEF Holding, TypeOK
    <3>2. Cardinality(Holding(n)') = Cardinality(Holding(n)) - 1
      BY <2>1, <2>2, <3>1, FS_RemoveElement
    <3>3. Places(n)' = results'[n] + Cardinality(OnStack(n)) + Cardinality(Holding(n)')
      BY <1>4 DEF Places
    <3> QED BY <2>1, <3>1, <3>2, <3>3 DEF Places
  <2>4. CASE domainName[v] # n
    <3>1. v \notin Holding(n) /\ results'[n] = results[n]
      BY <2>4, <1>1 DEF Holding, TypeOK
    <3>2. Holding(n)' = Holding(n)
      BY <2>2, <3>1
    <3> QED BY <3>1, <3>2, <1>4 DEF Places
  <2> QED BY <2>3, <2>4
<1> QED BY <1>1, <1>4, <1>5 DEF AccountInv, Accounted

LEMMA AccountInit == Init => AccountInv
<1> SUFFICES ASSUME Init PROVE AccountInv
  OBVIOUS
<1>1. position = 0 /\ position <= ArraySize
  BY SizeAssumption DEF Init
<1>2. ASSUME NEW n \in Names PROVE Places(n) = 0 /\ ~Added(n)
  <2>1. OnStack(n) = {} /\ Holding(n) = {}
    BY <1>1, ThreadsAssumption DEF OnStack, Holding, Working, Init, Threads
  <2>2. results[n] = 0 /\ ~serviced[n[1]]
    BY NamesType DEF Init
  <2> QED BY <2>1, <2>2, FS_EmptySet DEF Places, Added
<1> QED BY <1>1, <1>2 DEF AccountInv, Accounted

-----------------------------------------------------------------------------

\* Whatever the threads do, the counts of a name agree with what was read of its
\* file, and the index never passes the end of the buffer.
LEMMA CountsAgree == Spec => []AccountInv
<1>1. TypeOK /\ IInv /\ AccountInv /\ [Next]_vars => AccountInv'
  <2> SUFFICES ASSUME TypeOK, FileInv, AccountInv, [Next]_vars PROVE AccountInv'
    BY DEF IInv
  <2>1. CASE UNCHANGED vars
    BY <2>1 DEF AccountInv, Accounted, Places, OnStack, Holding, Working, Added, Reading
  <2>2. CASE \E r \in Requesters : requesterThreads(r)
    BY <2>2, SettledRequester, AccountSettled, AccountClaim, AccountPut, AccountEndFile
  <2>3. CASE \E v \in Resolvers : resolverThreads(v)
    BY <2>3, SettledResolver, AccountSettled, AccountTake, AccountResolve
  <2> QED BY <2>1, <2>2, <2>3, SettledOther, AccountSettled DEF Next
<1> QED BY <1>1, AccountInit, TypeCorrect, InductiveInvariant, PTL DEF Spec

\* No name is lost and none is there twice: as long as the index is not below the
\* buffer, each name read is once in the buffer, with a resolver or in the results.
THEOREM NoNameLost == Spec => []NamesAccounted
<1>1. TypeOK /\ IInv /\ AccountInv => NamesAccounted
  BY AccountedForm DEF IInv, AccountInv
<1> QED BY <1>1, CountsAgree, TypeCorrect, InductiveInvariant, PTL

-----------------------------------------------------------------------------
(* The refinement of NameDelivery: what else a step relies on.             *)

\* A reader is at most one line past the end of its file; what lies on the stack
\* are names; main cleans up only when every resolver has left.
StackInv == \A i \in 0..(position - 1) : buffer[i] \in Names
ReadInv  == \A r \in Reading : line[r] <= Args[current[r]].lines + 1
MainInv  == pc[Main] = "cleanup" => \A v \in Resolvers : pc[v] = "exited"

DeliveryInv == StackInv /\ ReadInv /\ MainInv

LEMMA DeliverySettled ==
  ASSUME TypeOK, StackInv, ReadInv, Settled
  PROVE  StackInv' /\ ReadInv'
BY DEF StackInv, ReadInv, Settled, Reading

LEMMA DeliveryClaim ==
  ASSUME TypeOK, StackInv, ReadInv, NEW r \in Requesters, ClaimFile(r)
  PROVE  StackInv' /\ ReadInv'
<1>1. StackInv'
  BY DEF ClaimFile, StackInv
<1>2. ASSUME NEW s \in Reading' PROVE line'[s] <= Args[current'[s]].lines + 1
  <2>1. s \in Requesters /\ current'[s] = current[s] /\ current[s] \in Files
    BY <1>2 DEF Reading, ClaimFile, TypeOK
  <2>2. Args[current[s]].lines \in Nat
    BY <2>1, FileLines
  <2>3. CASE s = r
    BY <2>1, <2>2, <2>3 DEF ClaimFile, TypeOK
  <2>4. CASE s # r
    <3>1. pc'[s] = pc[s] /\ line'[s] = line[s]
      BY <2>1, <2>4 DEF ClaimFile, TypeOK, PcOK
    <3> QED BY <1>2, <2>1, <3>1 DEF ReadInv, Reading
  <2> QED BY <2>3, <2>4
<1> QED BY <1>1, <1>2 DEF ReadInv

LEMMA DeliveryPut ==
  ASSUME TypeOK, StackInv, ReadInv, NEW r \in Requesters, Put(r)
  PROVE  StackInv' /\ ReadInv'
<1>1. current[r] \in Files /\ line[r] \in 1..Args[current[r]].lines
  <2>1. current[r] \in Files /\ line[r] \in Nat \ {0}
    BY DEF Put, HasLine, Opened, TypeOK
  <2> QED BY <2>1, FileLines DEF Put, HasLine
<1>2. <<current[r], line[r]>> \in Names
  BY <1>1 DEF Names
<1>3. StackInv'
  BY <1>2 DEF StackInv, Put, TypeOK, Slots, ListWords
<1>4. ASSUME NEW s \in Reading' PROVE line'[s] <= Args[current'[s]].lines + 1
  <2>1. s \in Reading /\ current'[s] = current[s] /\ s \in Requesters
    BY <1>4 DEF Reading, Put
  <2>2. s # r => line'[s] = line[s]
    BY <2>1 DEF Put, TypeOK
  <2>3. line'[r] = line[r] + 1
    BY DEF Put, TypeOK
  <2>4. Args[current[r]].lines \in Nat
    BY <1>1, FileLines
  <2> QED BY <2>1, <2>2, <2>3, <2>4, <1>1 DEF ReadInv
<1> QED BY <1>3, <1>4 DEF ReadInv

LEMMA DeliveryEndFile ==
  ASSUME TypeOK, StackInv, ReadInv, NEW r \in Requesters, EndFile(r)
  PROVE  StackInv' /\ ReadInv'
<1>1. \A s \in Reading' : s \in Reading
  <2>1. Moves(r, "lockFile", "waitEmpty", "wokenEmpty")
    BY RequesterSignals DEF EndFile, RequesterLabels, TypeOK
  <2> QED BY <2>1, RequesterSets DEF Reading, EndFile
<1> QED BY <1>1 DEF StackInv, ReadInv, EndFile

LEMMA DeliveryResolver ==
  ASSUME TypeOK, StackInv, ReadInv, NEW v \in Resolvers, Take(v) \/ Resolve(v)
  PROVE  StackInv' /\ ReadInv'
<1>1. \A r \in Requesters : pc'[r] = pc[r]
  BY ThreadsAssumption DEF Take, Resolve, TypeOK, PcOK, Threads
<1> QED BY <1>1 DEF Take, Resolve, StackInv, ReadInv, Reading, TypeOK

LEMMA MainKept ==
  ASSUME TypeOK, MainInv, [Next]_vars
  PROVE  MainInv'
<1> Main \notin Threads /\ PcOK(pc) /\ Resolvers \subseteq Threads /\ Requesters \subseteq Threads
  BY ThreadsAssumption DEF TypeOK, Threads
<1>1. ASSUME NEW r \in Requesters, requesterThreads(r) PROVE MainInv'
  <2>1. pc'[Main] = "cleanup" => pc[Main] = "cleanup"
    BY <1>1 DEF requesterThreads, LockFile, FindFile, ClaimFile, FindNothing, FindNoList,
      LockService, Finish, Broadcast, LockBuffer, Put, WaitFull, PutBelow, ReadUnopened, EndFile,
      LeaveUncounted, SignalIsEmpty, Signalled, BroadcastIsEmpty, PcOK
  <2>2. \A v \in Resolvers : pc[v] = "exited" => pc'[v] = "exited"
    BY <1>1, RequesterMoves, ThreadsAssumption DEF Moves, Threads
  <2> QED BY <2>1, <2>2 DEF MainInv
<1>2. ASSUME NEW v \in Resolvers, resolverThreads(v) PROVE MainInv'
  <2>1. pc'[Main] = pc[Main]
    BY <1>2 DEF resolverThreads, LockBuffer, CheckBuffer, WaitEmpty, Take, LockResults, Resolve,
      ResolveWild, SignalIsFull, Signalled, PcOK
  <2>2. pc[v] # "exited" \/ UNCHANGED pc
    BY <1>2 DEF resolverThreads, LockBuffer, CheckBuffer, WaitEmpty, Take, LockResults, Resolve,
      ResolveWild
  <2> QED BY <2>1, <2>2 DEF MainInv
<1>3. ASSUME NEW t \in Threads, SpuriousWake(t) PROVE MainInv'
  BY <1>3 DEF SpuriousWake, MainInv, PcOK
<1>4. CASE main
  BY <1>4 DEF main, JoinRequesters, JoinResolvers, Cleanup, MainInv, PcOK, ResolverEnded
<1>5. CASE UNCHANGED vars
  BY <1>5 DEF MainInv
<1> QED BY <1>1, <1>2, <1>3, <1>4, <1>5 DEF Next

\* The names on the stack, the lines of the readers and the order of main's joins
\* are as the refinement needs them.
LEMMA DeliveryReady == Spec => []DeliveryInv
<1>1. Init => DeliveryInv
  <2> SUFFICES ASSUME Init PROVE DeliveryInv
    OBVIOUS
  <2>1. Reading = {}
    BY DEF Reading, Init, Threads
  <2> QED BY <2>1, ThreadsAssumption DEF Init, DeliveryInv, StackInv, ReadInv, MainInv, Threads
<1>2. TypeOK /\ DeliveryInv /\ [Next]_vars => DeliveryInv'
  <2> SUFFICES ASSUME TypeOK, StackInv, ReadInv, MainInv, [Next]_vars
               PROVE  StackInv' /\ ReadInv' /\ MainInv'
    BY DEF DeliveryInv
  <2>1. CASE UNCHANGED vars
    BY <2>1, MainKept DEF StackInv, ReadInv, Reading
  <2>2. CASE \E r \in Requesters : requesterThreads(r)
    BY <2>2, SettledRequester, DeliverySettled, DeliveryClaim, DeliveryPut, DeliveryEndFile,
       MainKept
  <2>3. CASE \E v \in Resolvers : resolverThreads(v)
    BY <2>3, SettledResolver, DeliverySettled, DeliveryResolver, MainKept
  <2> QED BY <2>1, <2>2, <2>3, SettledOther, DeliverySettled, MainKept DEF Next
<1> QED BY <1>1, <1>2, TypeCorrect, PTL DEF Spec

-----------------------------------------------------------------------------
(* The refinement of NameDelivery: the values of the mapping.              *)

UnreadOf  == [f \in Files |-> Unread(f)]
HeldNames == {HeldBy[v] : v \in {w \in Working : HeldBy[w] \in Names}}
Written   == {n \in Names : results[n] > 0}

UnreadFacts ==
  \A f \in Files :
    /\ ~serviced[f] => Unread(f) = 1
    /\ \A r \in Reading : current[r] = f => Unread(f) = line[r]
    /\ serviced[f] /\ (\A r \in Reading : current[r] # f) => Unread(f) = Args[f].lines + 1

LEMMA UnreadIs == TypeOK /\ FileInv => UnreadFacts
<1> SUFFICES ASSUME TypeOK, FileInv, NEW f \in Files
             PROVE  /\ ~serviced[f] => Unread(f) = 1
                    /\ \A r \in Reading : current[r] = f => Unread(f) = line[r]
                    /\ serviced[f] /\ (\A r \in Reading : current[r] # f)
                         => Unread(f) = Args[f].lines + 1
  BY DEF UnreadFacts
<1>1. ASSUME NEW r \in Reading, current[r] = f PROVE Unread(f) = line[r]
  <2>1. \A s \in Reading : current[s] = f => s = r
    BY <1>1 DEF FileInv, ClaimedOnce, Reading
  <2>2. (CHOOSE s \in Reading : current[s] = f) = r
    BY <1>1, <2>1
  <2> QED BY <1>1, <2>2 DEF Unread, FileInv
<1> QED BY <1>1 DEF Unread

LEMMA HeldAre == HeldNames = {domainName[v] : v \in {w \in Working : domainName[w] \in Names}}
BY DEF HeldNames, HeldBy

LEMMA UnreadSettled ==
  ASSUME TypeOK, UnreadFacts, UnreadFacts', Settled
  PROVE  UnreadOf' = UnreadOf
<1> SUFFICES ASSUME NEW f \in Files PROVE Unread(f)' = Unread(f)
  BY DEF UnreadOf
<1>1. /\ serviced' = serviced /\ line' = line /\ Reading' = Reading
      /\ \A r \in Reading : current'[r] = current[r]
  BY DEF Settled
<1>2. CASE ~serviced[f]
  BY <1>1, <1>2 DEF UnreadFacts
<1>3. CASE serviced[f] /\ \A r \in Reading : current[r] # f
  BY <1>1, <1>3 DEF UnreadFacts
<1>4. CASE \E r \in Reading : current[r] = f
  <2>1. PICK r \in Reading : current[r] = f
    BY <1>4
  <2>2. r \in Reading' /\ current'[r] = f /\ line'[r] = line[r]
    BY <2>1, <1>1
  <2>3. Unread(f) = line[r]
    BY <2>1 DEF UnreadFacts
  <2>4. Unread(f)' = line'[r]
    BY <2>2 DEF UnreadFacts
  <2> QED BY <2>2, <2>3, <2>4
<1> QED BY <1>2, <1>3, <1>4

USE DEF Outcome

LEMMA MapKept ==
  ASSUME UnreadOf' = UnreadOf, Stack' = Stack, HeldNames' = HeldNames, Written' = Written,
         Outcome' = Outcome \/ (Outcome = "running" /\ Outcome' = "failed")
  PROVE  [Delivery!Next]_(Delivery!vars)
BY DEF UnreadOf, HeldNames, Written, Delivery!Next, Delivery!vars, Delivery!Fail

LEMMA MapCollapses ==
  ASSUME Outcome = "failed", Outcome' = "failed", Written \subseteq Written'
  PROVE  [Delivery!Next]_(Delivery!vars)
BY DEF Written, Delivery!Next, Delivery!Collapse

LEMMA MapSettled ==
  ASSUME TypeOK, UnreadFacts, UnreadFacts', Settled,
         Outcome' = Outcome \/ (Outcome = "running" /\ Outcome' = "failed")
  PROVE  [Delivery!Next]_(Delivery!vars)
<1>1. Stack' = Stack /\ Written' = Written
  BY DEF Settled, Stack, Written
<1>2. HeldNames' = HeldNames
  BY DEF Settled, HeldNames, HeldBy
<1> QED BY <1>1, <1>2, UnreadSettled, MapKept

-----------------------------------------------------------------------------
(* The refinement of NameDelivery: the steps.                              *)

\* Appending to, and cutting, the live part of the buffer.
LEMMA StackGrows ==
  ASSUME TypeOK, position \in Nat, position' = position + 1, NEW n \in Names,
         StackInv, buffer' = [buffer EXCEPT ![position] = n], position \in Slots
  PROVE  /\ Stack' = Append(Stack, n) /\ Len(Stack) = position
<1>1. position \in DOMAIN buffer
  BY DEF TypeOK
<1>2. Stack \in Seq(Names) /\ Len(Stack) = position
  BY DEF Stack, StackInv
<1>3. Stack' = [i \in 1..(position + 1) |-> IF i = position + 1 THEN n ELSE Stack[i]]
  BY <1>1 DEF Stack, TypeOK
<1>4. Stack' \in Seq(Names) /\ Len(Stack') = position + 1
  BY <1>2, <1>3
<1>5. /\ Append(Stack, n) \in Seq(Names) /\ Len(Append(Stack, n)) = position + 1
      /\ \A i \in 1..position : Append(Stack, n)[i] = Stack[i]
      /\ Append(Stack, n)[position + 1] = n
  BY <1>2, AppendProperties
<1>6. \A i \in 1..(position + 1) : Stack'[i] = Append(Stack, n)[i]
  BY <1>3, <1>5
<1> QED BY <1>2, <1>4, <1>5, <1>6, SeqEqual

LEMMA StackShrinks ==
  ASSUME StackInv, position \in Nat \ {0}, position' = position - 1, buffer' = buffer
  PROVE  /\ Stack # << >> /\ Stack[Len(Stack)] = buffer[position - 1]
         /\ Stack' = SubSeq(Stack, 1, Len(Stack) - 1)
<1>1. Stack \in Seq(Names) /\ Len(Stack) = position
  BY DEF Stack, StackInv
<1>2. Stack' \in Seq(Names) /\ Len(Stack') = position - 1
  BY DEF Stack, StackInv
<1>3. \A i \in 1..(position - 1) : Stack[i] \in Names /\ Stack'[i] = Stack[i]
  BY DEF Stack, StackInv
<1>4. /\ SubSeq(Stack, 1, position - 1) \in Seq(Names)
      /\ Len(SubSeq(Stack, 1, position - 1)) = position - 1
      /\ \A i \in 1..(position - 1) : SubSeq(Stack, 1, position - 1)[i] = Stack[i]
  BY <1>3, SubSeqProperties
<1>5. Stack' = SubSeq(Stack, 1, position - 1)
  BY <1>2, <1>3, <1>4, SeqEqual
<1> QED BY <1>1, <1>5 DEF Stack

\* Cardinality is the same operator inside the instance.
LEMMA SameCardinality == \A S : Delivery!Cardinality(S) = Cardinality(S)
BY Zenon DEF Delivery!Cardinality, Cardinality

LEMMA MapPut ==
  ASSUME TypeOK, FileInv, StackInv, UnreadFacts, UnreadFacts', NEW r \in Requesters, Put(r)
  PROVE  [Delivery!Next]_(Delivery!vars)
<1>0. current[r] \in Files
  BY DEF Put, HasLine, Opened, TypeOK
<1> PICK f \in Files : f = current[r]
  BY <1>0
<1> DEFINE n == <<f, line[r]>>
<1>1. /\ position' = position + 1 /\ position \in Slots \cup ListWords
      /\ buffer' = [buffer EXCEPT ![position] = n]
      /\ UNCHANGED <<pc, serviced, current, results, domainName, status>>
      /\ line' = [line EXCEPT ![r] = @ + 1] /\ status = "running"
  BY DEF Put
<1>2. r \in Reading /\ f \in Files /\ Args[f].writable /\ line[r] \in Nat \ {0}
      /\ line[r] <= Args[f].lines
  BY DEF Put, HasLine, Opened, Reading, TypeOK
<1>3. Args[f].lines \in Nat
  BY <1>2, FileLines
<1>4. n \in Names
  BY <1>2, <1>3 DEF Names
<1>5. CASE position \in ListWords
  <2>1. Outcome = "failed" /\ Outcome' = "failed" /\ Written' = Written
    BY <1>1, <1>5 DEF ListWords, Written
  <2> QED BY <2>1, MapCollapses
<1>6. CASE position \in Slots
  <2>1. position \in Nat /\ position < ArraySize
    BY <1>6, SizeAssumption DEF Slots
  <2>2. Stack' = Append(Stack, n) /\ Len(Stack) < ArraySize
    BY <2>1, <1>1, <1>4, <1>6, StackGrows
  <2>3. Outcome = "running" /\ Outcome' = Outcome /\ Written' = Written
    BY <2>1, <1>1 DEF Written
  <2>4. HeldNames' = HeldNames
    BY <1>1 DEF HeldNames, HeldBy, Working
  <2>5. Reading' = Reading
    BY <1>1 DEF Reading
  <2>6. Unread(f) = line[r] /\ Unread(f)' = line[r] + 1
    <3>1. line'[r] = line[r] + 1 /\ r \in Reading' /\ current'[r] = f
      BY <1>1, <1>2, <2>5 DEF TypeOK
    <3> QED BY <3>1, <1>2 DEF UnreadFacts
  <2>7. ASSUME NEW g \in Files, g # f PROVE Unread(g)' = Unread(g)
    <3>1. \A s \in Reading : current[s] = g => line'[s] = line[s]
      BY <2>7, <1>1 DEF Reading, TypeOK
    <3>2. CASE ~serviced[g]
      BY <3>2, <1>1 DEF UnreadFacts
    <3>3. CASE serviced[g] /\ \A s \in Reading : current[s] # g
      BY <3>3, <1>1, <2>5 DEF UnreadFacts
    <3>4. CASE \E s \in Reading : current[s] = g
      BY <3>1, <3>4, <1>1, <2>5 DEF UnreadFacts
    <3> QED BY <3>2, <3>3, <3>4
  <2>8. UnreadOf' = [UnreadOf EXCEPT ![f] = @ + 1] /\ UnreadOf[f] = line[r]
    <3>1. \A g \in Files : Unread(g)' = IF g = f THEN line[r] + 1 ELSE Unread(g)
      BY <2>6, <2>7
    <3>2. UnreadOf' = [g \in Files |-> IF g = f THEN line[r] + 1 ELSE Unread(g)]
      BY <3>1 DEF UnreadOf
    <3> QED BY <3>2, <2>6, <1>2 DEF UnreadOf
  <2>9. Delivery!Put(f)
    BY <2>2, <2>3, <2>4, <2>8, <1>2 DEF Delivery!Put, UnreadOf, HeldNames, Written
  <2> QED BY <2>9, <1>2 DEF Delivery!Next, Delivery!Deliver
<1> QED BY <1>1, <1>5, <1>6

\* A claim and the end of a file change who reads it, and not which line is next.
LEMMA MapClaim ==
  ASSUME TypeOK, FileInv, UnreadFacts, UnreadFacts', NEW r \in Requesters, ClaimFile(r)
  PROVE  [Delivery!Next]_(Delivery!vars)
<1> r \in Threads /\ PcOK(pc)
  BY DEF Threads, TypeOK
<1>1. Moves(r, "lockBuffer", "waitEmpty", "wokenEmpty") /\ pc[r] = "claim"
  BY OneMoves DEF ClaimFile
<1>2. /\ Working' = Working /\ pc'[r] = "lockBuffer"
      /\ \A s \in Requesters : s # r => pc'[s] = pc[s]
  BY <1>1, RequesterSets
<1>3. /\ current[r] \in Files /\ ~serviced[current[r]]
      /\ UNCHANGED <<current, position, buffer, results, domainName, status>>
      /\ serviced' = [serviced EXCEPT ![current[r]] = TRUE]
      /\ line' = [line EXCEPT ![r] = 1]
  BY <1>1 DEF FileInv, TypeOK, ClaimFile
<1>4. Reading' = Reading \cup {r} /\ r \notin Reading
  BY <1>1, <1>2, <1>3, NoFileAssumption DEF Reading, FileInv
<1>5. ASSUME NEW f \in Files PROVE Unread(f)' = Unread(f)
  <2>1. CASE f = current[r]
    <3>1. r \in Reading' /\ current'[r] = f /\ line'[r] = 1
      BY <2>1, <1>3, <1>4 DEF TypeOK
    <3> QED BY <2>1, <3>1, <1>3 DEF UnreadFacts
  <2>2. CASE f # current[r]
    <3>1. serviced'[f] = serviced[f]
      BY <2>2, <1>3 DEF TypeOK
    <3>2. \A s \in Reading : s \in Reading' /\ line'[s] = line[s]
      BY <1>3, <1>4 DEF TypeOK, Reading
    <3>3. \A s \in Reading' : current'[s] = f => s \in Reading /\ current[s] = f
      BY <2>2, <1>3, <1>4
    <3>4. CASE \E s \in Reading : current[s] = f
      BY <3>2, <3>4, <1>3 DEF UnreadFacts
    <3>5. CASE \A s \in Reading : current[s] # f
      BY <3>1, <3>3, <3>5 DEF UnreadFacts, TypeOK
    <3> QED BY <3>4, <3>5
  <2> QED BY <2>1, <2>2
<1>6. UnreadOf' = UnreadOf /\ Stack' = Stack /\ Written' = Written /\ Outcome' = Outcome
  BY <1>3, <1>5 DEF UnreadOf, Stack, Written
<1>7. HeldNames' = HeldNames
  BY <1>2, <1>3 DEF HeldNames, HeldBy
<1> QED BY <1>6, <1>7, MapKept

LEMMA MapEndFile ==
  ASSUME TypeOK, FileInv, ReadInv, UnreadFacts, UnreadFacts', NEW r \in Requesters, EndFile(r)
  PROVE  [Delivery!Next]_(Delivery!vars)
<1> r \in Threads /\ PcOK(pc)
  BY DEF Threads, TypeOK
<1>1. Moves(r, "lockFile", "waitEmpty", "wokenEmpty") /\ pc[r] = "fill"
  BY RequesterSignals DEF EndFile, RequesterLabels
<1>2. /\ Working' = Working /\ pc'[r] = "lockFile"
      /\ \A s \in Requesters : s # r => pc'[s] = pc[s]
  BY <1>1, RequesterSets
<1>3. /\ UNCHANGED <<serviced, line, current, position, buffer, results, domainName, status>>
      /\ current[r] \in Files /\ line[r] \in Nat
  BY DEF EndFile, Opened, TypeOK
<1>4. Reading' = Reading \ {r} /\ r \in Reading
  BY <1>1, <1>2, <1>3 DEF Reading, EndFile, Opened
<1>5. Args[current[r]].lines \in Nat
  BY <1>3, FileLines
<1>6. line[r] = Args[current[r]].lines + 1
  BY <1>3, <1>4, <1>5 DEF EndFile, HasLine, ReadInv
<1>7. \A s \in Reading : s # r => current[s] # current[r]
  BY <1>4 DEF FileInv, ClaimedOnce, Reading
<1>8. ASSUME NEW f \in Files PROVE Unread(f)' = Unread(f)
  <2>1. CASE f = current[r]
    <3>1. Unread(f) = line[r]
      BY <2>1, <1>4 DEF UnreadFacts
    <3>2. Unread(f)' = Args[f].lines + 1
      <4>1. serviced'[f] /\ \A s \in Reading' : current'[s] # f
        BY <2>1, <1>3, <1>4, <1>7 DEF FileInv
      <4> QED BY <4>1 DEF UnreadFacts
    <3> QED BY <2>1, <3>1, <3>2, <1>6
  <2>2. CASE f # current[r]
    <3>1. CASE \E s \in Reading : current[s] = f
      BY <2>2, <3>1, <1>3, <1>4 DEF UnreadFacts
    <3>2. CASE \A s \in Reading : current[s] # f
      BY <3>2, <1>3, <1>4 DEF UnreadFacts, TypeOK
    <3> QED BY <3>1, <3>2
  <2> QED BY <2>1, <2>2
<1>9. UnreadOf' = UnreadOf /\ Stack' = Stack /\ Written' = Written /\ Outcome' = Outcome
  BY <1>3, <1>8 DEF UnreadOf, Stack, Written
<1>10. HeldNames' = HeldNames
  BY <1>2, <1>3 DEF HeldNames, HeldBy
<1> QED BY <1>9, <1>10, MapKept

\* The newest name goes from the stack into the hands of a resolver; with an
\* empty stack the process fails instead.
LEMMA MapTake ==
  ASSUME TypeOK, AccountInv, StackInv, UnreadFacts, UnreadFacts', NEW v \in Resolvers, Take(v)
  PROVE  [Delivery!Next]_(Delivery!vars)
<1> v \in Threads /\ PcOK(pc) /\ Resolvers \subseteq Threads /\ position \in Int
  BY DEF Threads, TypeOK
<1>1. /\ pc[v] = "take" /\ pc'[v] = "lockResults"
      /\ \A t \in Threads : t # v => pc'[t] = pc[t]
      /\ position' = position - 1
      /\ domainName' = [domainName EXCEPT ![v] = WordAt(position - 1)]
      /\ UNCHANGED <<serviced, current, line, buffer, results, status>> /\ status = "running"
  BY DEF Take, PcOK
<1>2. Working' = Working \cup {v} /\ v \notin Working
  BY <1>1 DEF Working
<1>3. \A w \in Working : domainName'[w] = domainName[w]
  BY <1>1, <1>2 DEF TypeOK, Working
<1>4. domainName'[v] = WordAt(position - 1)
  BY <1>1 DEF TypeOK
<1>5. Reading' = Reading
  BY <1>1, ThreadsAssumption DEF Reading, Threads
<1>6. UnreadOf' = UnreadOf /\ Written' = Written
  BY <1>1, <1>5 DEF UnreadOf, Unread, Written
<1>7. CASE position < 0
  <2>1. Outcome = "failed" /\ Outcome' = "failed"
    BY <1>1, <1>7
  <2> QED BY <2>1, <1>6, MapCollapses
<1>8. CASE position = 0
  <2>1. Outcome = "running" /\ Outcome' = "failed"
    BY <1>1, <1>8
  <2>2. Stack = << >> /\ Stack' = << >>
    BY <1>1, <1>8 DEF Stack
  <2>3. domainName'[v] \notin Names
    <3>1. DOMAIN buffer = Slots \cup ZeroWords /\ -1 \notin Slots \cup ZeroWords
      BY SizeAssumption DEF TypeOK, Slots, ZeroWords, ListWords, KindWord
    <3> QED BY <3>1, <1>4, <1>8, NamesAssumption DEF WordAt
  <2>4. HeldNames' = HeldNames
    BY <2>3, <1>2, <1>3 DEF HeldNames, HeldBy
  <2> QED BY <2>1, <2>2, <2>4, <1>6, MapKept
<1>9. CASE position > 0
  <2>1. position \in Nat \ {0} /\ position <= ArraySize /\ position - 1 \in Slots
    BY <1>9, SizeAssumption DEF AccountInv, Slots
  <2>2. buffer[position - 1] \in Names /\ domainName'[v] = buffer[position - 1]
    BY <2>1, <1>4 DEF StackInv, WordAt, TypeOK
  <2>3. /\ Stack # << >> /\ Stack[Len(Stack)] = buffer[position - 1]
        /\ Stack' = SubSeq(Stack, 1, Len(Stack) - 1)
    BY <2>1, <1>1, StackShrinks
  <2>4. HeldNames' = HeldNames \cup {Stack[Len(Stack)]}
    BY <2>2, <2>3, <1>2, <1>3 DEF HeldNames, HeldBy
  <2>5. Cardinality(HeldNames) < Cardinality(Resolvers)
    <3> DEFINE H == {w \in Working : domainName[w] \in Names}
    <3>1. H \in SUBSET (Resolvers \ {v})
      BY <1>2 DEF Working
    <3>2. /\ IsFiniteSet(Resolvers \ {v})
          /\ Cardinality(Resolvers \ {v}) = Cardinality(Resolvers) - 1
      BY ThreadsAssumption, FS_RemoveElement
    <3>3. IsFiniteSet(H) /\ Cardinality(H) <= Cardinality(Resolvers) - 1
      BY <3>1, <3>2, FS_Subset
    <3>4. [w \in H |-> domainName[w]] \in Surjection(H, HeldNames)
      BY HeldAre DEF Surjection
    <3>5. IsFiniteSet(HeldNames) /\ Cardinality(HeldNames) <= Cardinality(H)
      BY <3>3, <3>4, FS_Surjection
    <3>6. /\ Cardinality(H) \in Nat /\ Cardinality(HeldNames) \in Nat
          /\ Cardinality(Resolvers) \in Nat
      BY <3>3, <3>5, ThreadsAssumption, FS_CardinalityType
    <3> HIDE DEF H
    <3> QED BY <3>3, <3>5, <3>6
  <2>6. Outcome = "running" /\ Outcome' = Outcome
    BY <1>1, <1>9
  <2>7. Delivery!Take
    BY <2>3, <2>4, <2>5, <2>6, <1>6, SameCardinality
       DEF Delivery!Take, UnreadOf, HeldNames, Written
  <2> QED BY <2>7 DEF Delivery!Next, Delivery!Deliver
<1> QED BY <1>7, <1>8, <1>9

LEMMA MapResolve ==
  ASSUME TypeOK, AccountInv, UnreadFacts, UnreadFacts', NEW v \in Resolvers, Resolve(v)
  PROVE  [Delivery!Next]_(Delivery!vars)
<1> v \in Threads /\ PcOK(pc) /\ Resolvers \subseteq Threads /\ position \in Int
  BY DEF Threads, TypeOK
<1> PICK n : n = domainName[v]
  OBVIOUS
<1>1. /\ pc[v] = "resolve" /\ pc'[v] = "lockBuffer"
      /\ \A t \in Threads : t # v => pc'[t] = pc[t]
      /\ results' = [results EXCEPT ![n] = @ + 1] /\ n \in Names \cup {NullName}
      /\ UNCHANGED <<serviced, current, line, position, buffer, domainName, status>>
      /\ status = "running"
  BY DEF Resolve, PcOK
<1>2. Working' = Working \ {v} /\ v \in Working
  BY <1>1 DEF Working
<1>3. Reading' = Reading
  BY <1>1, ThreadsAssumption DEF Reading, Threads
<1>4. UnreadOf' = UnreadOf /\ Stack' = Stack /\ Outcome' = Outcome
  BY <1>1, <1>3 DEF UnreadOf, Unread, Stack
<1>5. Written' = Written \cup ({n} \cap Names)
  BY <1>1 DEF Written, TypeOK
<1>6. CASE position < 0
  BY <1>1, <1>4, <1>5, <1>6, MapCollapses
<1>7. CASE n = NullName
  <2>1. HeldNames' = HeldNames
    BY <1>1, <1>2, <1>7, NamesAssumption DEF HeldNames, HeldBy
  <2>2. Written' = Written
    BY <1>5, <1>7, NamesAssumption
  <2> QED BY <2>1, <2>2, <1>4, MapKept
<1>8. CASE position >= 0 /\ n \in Names
  <2>1. \A w \in Working : w # v => domainName[w] # n
    <3>1. Places(n) \in {0, 1}
      BY <1>8 DEF AccountInv, Accounted
    <3>2. /\ results[n] \in Nat /\ Cardinality(OnStack(n)) \in Nat
          /\ IsFiniteSet(Holding(n)) /\ Cardinality(Holding(n)) \in Nat
      BY <1>8, CountsFinite DEF TypeOK
    <3>3. Cardinality(Holding(n)) <= 1
      BY <3>1, <3>2 DEF Places
    <3> SUFFICES ASSUME NEW w \in Working, w # v, domainName[w] = n PROVE FALSE
      OBVIOUS
    <3>4. {v} \in SUBSET Holding(n) /\ {v} # Holding(n)
      BY <1>2 DEF Holding
    <3>5. Cardinality({v}) = 1
      BY FS_Singleton
    <3> QED BY <3>2, <3>3, <3>4, <3>5, FS_Subset
  <2>2. HeldNames' = HeldNames \ {n} /\ n \in HeldNames
    BY <2>1, <1>1, <1>2, <1>8 DEF HeldNames, HeldBy
  <2>3. Outcome = "running"
    BY <1>1, <1>8
  <2>4. Written' = Written \cup {n}
    BY <1>5, <1>8
  <2>5. Delivery!Write(n)
    BY <2>2, <2>3, <2>4, <1>4 DEF Delivery!Write, UnreadOf, HeldNames, Written
  <2>6. n \in Delivery!Names
    BY <1>8 DEF Delivery!Names, Names
  <2> QED BY <2>5, <2>6 DEF Delivery!Next, Delivery!Deliver
<1> QED BY <1>1, <1>6, <1>7, <1>8

\* main returns: every thread has ended, so every name is in the results, unless
\* the process has failed.
LEMMA MapReturn ==
  ASSUME TypeOK, CountInv, AccountInv, MainInv, UnreadFacts, UnreadFacts', Settled,
         Cleanup, status' = "returned"
  PROVE  [Delivery!Next]_(Delivery!vars)
<1>1. \A v \in Resolvers : pc[v] = "exited"
  BY DEF Cleanup, MainInv
<1>2. /\ \A r \in Requesters : Counted(r) /\ \A f \in Files : serviced[f]
      /\ position <= 0
  BY <1>1, ThreadsAssumption DEF CountInv, Counted
<1>3. CASE position < 0
  <2>1. Outcome' = Outcome
    BY <1>3 DEF Settled
  <2> QED BY <2>1, MapSettled
<1>4. CASE position = 0
  <2>1. Working = {} /\ Reading = {}
    BY <1>1, <1>2 DEF Working, Reading, Counted
  <2>2. ASSUME NEW n \in Names PROVE results[n] = 1
    <3>1. OnStack(n) = {} /\ Holding(n) = {}
      BY <2>1, <1>4 DEF OnStack, Holding
    <3>2. Added(n)
      BY <2>1, <1>2, NamesType, ThreadsAssumption DEF Added
    <3>3. Places(n) = 1
      BY <3>2, <1>4 DEF AccountInv, Accounted
    <3>4. results[n] \in Nat
      BY DEF TypeOK
    <3> QED BY <3>1, <3>3, <3>4, FS_EmptySet DEF Places
  <2>3. Written = Names
    BY <2>2 DEF Written
  <2>4. Stack' = Stack /\ Written' = Written /\ HeldNames' = HeldNames
    BY DEF Settled, Stack, Written, HeldNames, HeldBy
  <2>5. Outcome = "running" /\ Outcome' = "returned"
    BY <1>4 DEF Settled, Cleanup
  <2>6. Delivery!Names = Names
    BY DEF Delivery!Names, Names
  <2>7. Delivery!Return
    BY <2>3, <2>4, <2>5, <2>6, UnreadSettled DEF Delivery!Return, UnreadOf, HeldNames, Written
  <2> QED BY <2>7 DEF Delivery!Next
<1> QED BY <1>2, <1>3, <1>4 DEF TypeOK

\* Every step of the threads is a step of NameDelivery, or changes nothing in it.
LEMMA MapStep ==
  ASSUME TypeOK, IInv, AccountInv, DeliveryInv, UnreadFacts, UnreadFacts', [Next]_vars
  PROVE  [Delivery!Next]_(Delivery!vars)
<1> USE DEF IInv, DeliveryInv
<1>a. ASSUME Settled, status' = status \/ (status = "running" /\ status' = "killed")
      PROVE  [Delivery!Next]_(Delivery!vars)
  <2>1. Outcome' = Outcome \/ (Outcome = "running" /\ Outcome' = "failed")
    BY <1>a DEF Settled
  <2> QED BY <2>1, <1>a, MapSettled
<1>1. ASSUME NEW r \in Requesters, requesterThreads(r)
      PROVE  [Delivery!Next]_(Delivery!vars)
  <2>1. status = "running" /\ status' \in {"running", "killed"}
    BY <1>1 DEF requesterThreads, LockFile, FindFile, ClaimFile, FindNothing, FindNoList,
      LockService, Finish, Broadcast, LockBuffer, Put, WaitFull, PutBelow, ReadUnopened, EndFile,
      LeaveUncounted
  <2> QED BY <2>1, <1>1, <1>a, SettledRequester, MapClaim, MapPut, MapEndFile
<1>2. ASSUME NEW v \in Resolvers, resolverThreads(v)
      PROVE  [Delivery!Next]_(Delivery!vars)
  <2>1. status = "running" /\ status' \in {"running", "killed"}
    BY <1>2 DEF resolverThreads, LockBuffer, CheckBuffer, WaitEmpty, Take, LockResults, Resolve,
      ResolveWild
  <2> QED BY <2>1, <1>2, <1>a, SettledResolver, MapTake, MapResolve
<1>3. CASE (\E t \in Threads : SpuriousWake(t)) \/ main
  <2>1. Settled
    BY <1>3, SettledOther
  <2>2. \/ status' = status \/ (status = "running" /\ status' = "killed")
        \/ Cleanup /\ status' = "returned"
    BY <1>3 DEF SpuriousWake, main, JoinRequesters, JoinResolvers, Cleanup
  <2> QED BY <2>1, <2>2, <1>a, MapReturn
<1>4. CASE UNCHANGED vars
  <2>1. Settled /\ status' = status
    BY <1>4 DEF Settled, Working, Reading
  <2> QED BY <2>1, <1>a
<1> QED BY <1>1, <1>2, <1>3, <1>4 DEF Next

LEMMA MapInit == Init => Delivery!Init
<1> SUFFICES ASSUME Init PROVE Delivery!Init
  OBVIOUS
<1>1. [f \in Files |-> Unread(f)] = [f \in Files |-> 1]
  BY DEF Init, Unread
<1>2. Stack = << >> /\ Outcome = "running"
  BY DEF Init, Stack
<1>3. Working = {}
  BY ThreadsAssumption DEF Init, Working, Threads
<1>4. {n \in Names : results[n] > 0} = {}
  BY DEF Init
<1> QED BY <1>1, <1>2, <1>3, <1>4 DEF Delivery!Init

\* The threads keep the promise of NameDelivery, for any threads, files and buffer
\* size: they put each file's names on the stack in order, take the newest, write
\* each once, and main returns only when all are written, unless the process fails.
THEOREM ThreadsDeliver == Spec => DeliversSafely
<1>1. TypeOK /\ IInv => UnreadFacts
  BY UnreadIs DEF IInv
<1>2. TypeOK /\ IInv /\ AccountInv /\ DeliveryInv /\ UnreadFacts /\ UnreadFacts' /\ [Next]_vars
        => [Delivery!Next]_(Delivery!vars)
  BY MapStep
<1>3. Spec => Delivery!Safe
  BY <1>1, <1>2, MapInit, TypeCorrect, InductiveInvariant, CountsAgree, DeliveryReady, PTL
     DEF Spec, Delivery!Safe
<1> QED BY <1>3 DEF DeliversSafely

=============================================================================
