------------------------------ MODULE LinkedProofs -----------------------------
(***************************************************************************)
(* Theorems about the pagers linked with the simulator, for any programs   *)
(* and sizes.  The three pagers keep to the interface of the simulator,    *)
(* and each has the habits its comments promise, whatever the branching    *)
(* engines decide; and the engines of the code, with their rings of run    *)
(* lengths, decide as Branching says.                                      *)
(***************************************************************************)
EXTENDS LinkedSimulator, SimulatorProofs, Induction

-----------------------------------------------------------------------------
(* One call at most, of one process.                                       *)

\* The effect of a pageit: nothing, a page that starts in, or one that starts out.
LEMMA PageitEffects ==
  ASSUME TypeOK, pageit
  PROVE  \/ UNCHANGED frameVars
         \/ \E i \in Slots, g \in Pages :
              /\ i = Lowest(Active) /\ Addressed(i, g) /\ g = Needed(i)
              /\ pages[i][g] < -PAGEWAIT /\ pagesavail # 0
              /\ pages' = [pages EXCEPT ![i][g] = PAGEWAIT] /\ pagesavail' = pagesavail - 1
         \/ \E i \in Slots, g \in Pages :
              /\ i = Lowest(Active) /\ Addressed(i, g) /\ pages[i][g] = 0
              /\ ~InMemory(i, Needed(i)) /\ ~PageinOk(Table, i, Needed(i))
              /\ pages' = [pages EXCEPT ![i][g] = -1] /\ pagesavail' = pagesavail
<1> DEFINE proc == Lowest(Active)
           page == Needed(proc)
<1>1. CASE pages' = Table.pages /\ pagesavail' = Table.avail
  BY <1>1 DEF Table, frameVars
<1>2. CASE Leaves(pagein(Table, proc, page))
  BY <1>1, <1>2 DEF Leaves, pagein, Table, Addressed
<1>3. CASE /\ ~InMemory(proc, page) /\ ~PageinOk(Table, proc, page)
           /\ Leaves(pageout(Table, proc, Lowest(Victims(Table, proc, page))))
  BY <1>1, <1>3 DEF Leaves, pageout, Table, Addressed
<1>4. Leaves(Table) => pages' = Table.pages /\ pagesavail' = Table.avail
  BY DEF Leaves
<1> QED BY <1>1, <1>2, <1>3, <1>4 DEF pageit, Serve

\* One call at most is something that any pager may do.
OneCall ==
  \/ UNCHANGED frameVars
  \/ \E i \in Slots, g \in Pages :
       /\ Addressed(i, g) /\ pages[i][g] < -PAGEWAIT /\ pagesavail # 0
       /\ pages' = [pages EXCEPT ![i][g] = PAGEWAIT] /\ pagesavail' = pagesavail - 1
  \/ \E i \in Slots, g \in Pages :
       /\ Addressed(i, g) /\ pages[i][g] = 0
       /\ pages' = [pages EXCEPT ![i][g] = -1] /\ pagesavail' = pagesavail

LEMMA OneCallIsCallPager ==
  ASSUME TypeOK, PagerReturns, OneCall
  PROVE  CallPager
<1>1. pages \in [Slots -> [Pages -> PageState]] /\ pagesavail \in Nat
  BY DEF TypeOK
<1> DEFINE In  == {x \in Slots \X Pages : Addressed(x[1], x[2]) /\ pages[x[1]][x[2]] = 0}
           Off == {x \in Slots \X Pages : Addressed(x[1], x[2]) /\ pages[x[1]][x[2]] = Out}
           Moved(outs, ins) ==
             [i \in Slots |-> [g \in Pages |->
                IF <<i, g>> \in outs THEN -1
                ELSE IF <<i, g>> \in ins THEN PAGEWAIT ELSE pages[i][g]]]
<1>2. SUFFICES \E outs \in SUBSET In : \E ins \in SUBSET Off :
                  /\ Cardinality(ins) <= pagesavail
                  /\ pages' = Moved(outs, ins)
                  /\ pagesavail' = pagesavail - Cardinality(ins)
  BY <1>1 DEF CallPager
<1>3. Cardinality({}) = 0 /\ \A x : Cardinality({x}) = 1
  BY FS_EmptySet, FS_Singleton
<1>4. CASE UNCHANGED frameVars
  <2>1. pages' = Moved({}, {}) BY <1>1, <1>4 DEF frameVars
  <2>2. pagesavail' = pagesavail - Cardinality({}) /\ Cardinality({}) <= pagesavail
    BY <1>1, <1>3, <1>4 DEF frameVars
  <2>3. {} \in SUBSET In /\ {} \in SUBSET Off OBVIOUS
  <2> HIDE DEF In, Off, Moved
  <2> QED BY <2>1, <2>2, <2>3
<1>5. ASSUME NEW i \in Slots, NEW g \in Pages, Addressed(i, g),
             pages[i][g] < -PAGEWAIT, pagesavail # 0,
             pages' = [pages EXCEPT ![i][g] = PAGEWAIT], pagesavail' = pagesavail - 1
      PROVE  \E outs \in SUBSET In : \E ins \in SUBSET Off :
                /\ Cardinality(ins) <= pagesavail
                /\ pages' = Moved(outs, ins)
                /\ pagesavail' = pagesavail - Cardinality(ins)
  <2>1. pages[i][g] = Out
    BY <1>1, <1>5, SizesAreNat DEF PageState
  <2>2. {} \in SUBSET In /\ {<<i, g>>} \in SUBSET Off
    BY <1>5, <2>1
  <2>3. pages' = Moved({}, {<<i, g>>})
    BY <1>1, <1>5
  <2>4. Cardinality({<<i, g>>}) <= pagesavail /\ pagesavail' = pagesavail - Cardinality({<<i, g>>})
    <3>1. Cardinality({<<i, g>>}) = 1 BY <1>3
    <3> QED BY <1>1, <1>5, <3>1
  <2> HIDE DEF In, Off, Moved
  <2> QED BY <2>2, <2>3, <2>4
<1>6. ASSUME NEW i \in Slots, NEW g \in Pages, Addressed(i, g), pages[i][g] = 0,
             pages' = [pages EXCEPT ![i][g] = -1], pagesavail' = pagesavail
      PROVE  \E outs \in SUBSET In : \E ins \in SUBSET Off :
                /\ Cardinality(ins) <= pagesavail
                /\ pages' = Moved(outs, ins)
                /\ pagesavail' = pagesavail - Cardinality(ins)
  <2>1. {<<i, g>>} \in SUBSET In /\ {} \in SUBSET Off
    BY <1>6
  <2>2. pages' = Moved({<<i, g>>}, {})
    BY <1>1, <1>6
  <2>3. Cardinality({}) <= pagesavail /\ pagesavail' = pagesavail - Cardinality({})
    BY <1>1, <1>3, <1>6
  <2> HIDE DEF In, Off, Moved
  <2> QED BY <2>1, <2>2, <2>3
<1> HIDE DEF In, Off, Moved
<1> QED BY <1>4, <1>5, <1>6 DEF OneCall

\* The refinement: what the basic pager does is something that any pager may do.
LEMMA PageitIsCallPager ==
  ASSUME TypeOK, pageit
  PROVE  CallPager
BY PageitEffects, OneCallIsCallPager DEF OneCall, pageit, Leaves

LEMMA BasicStep == TypeOK /\ [BasicNext]_vars => [Next]_vars
  BY PageitIsCallPager DEF BasicNext, Next

\* The basic pager keeps to the interface: under it the simulator is the simulator with
\* any pager, and everything proved of that holds (pager-basic.c:21-58).
THEOREM KeepsToInterface == BasicSpec => Spec
<1>1. FramesInv /\ [BasicNext]_vars => FramesInv' /\ [Next]_vars
  BY FramesStep, BasicStep DEF FramesInv
<1> QED BY <1>1, InitFrames, PTL DEF BasicSpec, Spec

-----------------------------------------------------------------------------
(* The first active process.                                               *)

\* What OneAtATime and NeverSendsOut need to be inductive.
BasicInv ==
  /\ FramesInv /\ QueueInv /\ PcInProgram
  /\ IdleHoldsNothing /\ OneAtATime /\ NeverSendsOut

\* Every frame is held for the first active process.
LEMMA HeldByFirst ==
  ASSUME IdleHoldsNothing, OneAtATime
  PROVE  \A x \in Held : pid[x[1]] # NoProcess /\ x[1] = Lowest(Active)
<1> SUFFICES ASSUME NEW x \in Held PROVE pid[x[1]] # NoProcess
  BY DEF OneAtATime
<1>1. x \in Slots \X Pages /\ pages[x[1]][x[2]] >= -PAGEWAIT
  BY DEF Held
<1>2. x[1] \in Slots /\ x[2] \in Pages
  BY <1>1
<1> QED BY <1>1, <1>2, AllOutHoldsNothing DEF IdleHoldsNothing

\* Steps that move no page and change no process.
LEMMA IdleStep ==
  ASSUME BasicInv, UNCHANGED frameVars, pid' = pid
  PROVE  IdleHoldsNothing' /\ OneAtATime' /\ NeverSendsOut'
<1>1. Held' = Held /\ Lowest(Active)' = Lowest(Active)
  BY DEF Held, frameVars, Active, Lowest
<1> QED BY <1>1 DEF BasicInv, IdleHoldsNothing, OneAtATime, NeverSendsOut, frameVars

LEMMA EmptyStep ==
  ASSUME BasicInv, NEW i \in Slots, StepEmpty(i)
  PROVE  pid' = pid
<1>1. empty BY DEF StepEmpty, BasicInv, QueueInv, BusyUntilEmpty
<1>2. pid' = [pid EXCEPT ![i] = NoProcess]
  BY <1>1 DEF StepEmpty, Dequeue
<1> QED BY <1>2 DEF StepEmpty, BasicInv, QueueInv, TypeOK

\* The process that ends is the first active one, for it has a page in memory; after it
\* nothing is held.
LEMMA ExitStep ==
  ASSUME BasicInv, NEW i \in Slots, StepExit(i), TypeOK', PcInProgram
  PROVE  IdleHoldsNothing' /\ OneAtATime' /\ NeverSendsOut'
<1>1. /\ pages \in [Slots -> [Pages -> PageState]]
      /\ pages' = [pages EXCEPT ![i] = AllOut]
      /\ pid \in [Slots -> 0..(QUEUESIZE - 1) \cup {NoProcess}]
  BY DEF BasicInv, FramesInv, TypeOK, StepExit
<1>2. \A k \in Slots \ {i} : pages'[k] = pages[k] /\ pid'[k] = pid[k]
  <2>1. Dequeue(i) BY DEF StepExit
  <2>2. PICK v : pid' = [pid EXCEPT ![i] = v] BY <2>1 DEF Dequeue
  <2>3. \A k \in Slots \ {i} : pid'[k] = pid[k] BY <1>1, <2>2
  <2>4. \A k \in Slots \ {i} : pages'[k] = pages[k] BY <1>1
  <2> QED BY <2>3, <2>4
<1>3. Needed(i) \in Pages /\ pages[i][Needed(i)] = 0
  <2>1. pages[i][Needed(i)] = 0 /\ pid[i] # NoProcess BY DEF StepExit, Runs
  <2>2. Needed(i) \in Pages BY <2>1, NeededIsPage DEF BasicInv, FramesInv
  <2> QED BY <2>1, <2>2
<1>4. i = Lowest(Active)
  <2>1. <<i, Needed(i)>> \in Held
    BY <1>3, SizesAreNat DEF Held
  <2> QED BY <2>1, HeldByFirst DEF BasicInv
<1>5. Held' = {}
  <2> SUFFICES ASSUME NEW k \in Slots, NEW g \in Pages, pages'[k][g] >= -PAGEWAIT
               PROVE  FALSE
    BY DEF Held
  <2>1. k # i BY <1>1, AllOutHoldsNothing
  <2>2. <<k, g>> \in Held BY <1>2, <2>1 DEF Held
  <2> QED BY <1>4, <2>1, <2>2, HeldByFirst DEF BasicInv
<1>6. IdleHoldsNothing'
  <2>1. pages'[i] = AllOut BY <1>1
  <2> QED BY <1>2, <2>1 DEF BasicInv, IdleHoldsNothing
<1>7. NeverSendsOut'
  <2>1. \A g \in Pages : pages'[i][g] = Out BY <1>1, AllOutHoldsNothing
  <2> QED BY <1>2, <2>1 DEF BasicInv, NeverSendsOut
<1> QED BY <1>5, <1>6, <1>7 DEF OneAtATime

\* A tick keeps every page of the idle, moves the others towards being in, and frees
\* nothing that was not held.
LEMMA TickStep ==
  ASSUME BasicInv, allage
  PROVE  IdleHoldsNothing' /\ OneAtATime' /\ NeverSendsOut'
<1>1. /\ pages \in [Slots -> [Pages -> PageState]] /\ pid' = pid
      /\ pages' = [i \in Slots |-> IF pid[i] = NoProcess THEN pages[i]
                                   ELSE [g \in Pages |-> Age(pages[i][g])]]
  BY DEF BasicInv, FramesInv, TypeOK, allage, processVars
<1>2. IdleHoldsNothing'
  BY <1>1 DEF BasicInv, IdleHoldsNothing
<1>3. \A s \in {Out} \cup 0..PAGEWAIT : Age(s) \in {Out} \cup 0..PAGEWAIT
  BY SizesAreNat DEF Age
<1>4. NeverSendsOut'
  BY <1>1, <1>3 DEF BasicInv, NeverSendsOut
<1>5. Held' \subseteq Held
  <2>1. \A i \in Slots, g \in Pages :
          pages[i][g] \in PageState /\ pages'[i][g] \in {pages[i][g], Age(pages[i][g])}
    BY <1>1
  <2>2. \A s \in PageState : Age(s) >= -PAGEWAIT => s >= -PAGEWAIT
    BY AgeHolds
  <2> QED BY <2>1, <2>2 DEF Held
<1>6. Lowest(Active)' = Lowest(Active)
  BY <1>1 DEF Active, Lowest
<1> QED BY <1>1, <1>2, <1>4, <1>5, <1>6 DEF BasicInv, OneAtATime

\* While the process that is served waits for a page that is out, some frame is free:
\* only its other pages can hold one.
LEMMA FrameFree ==
  ASSUME BasicInv, NEW i \in Slots, i = Lowest(Active), pid[i] # NoProcess,
         pages[i][Needed(i)] = Out
  PROVE  pagesavail # 0
<1>1. Needed(i) \in Pages
  BY NeededIsPage DEF BasicInv, FramesInv
<1> DEFINE others == {i} \X (Pages \ {Needed(i)})
<1>2. Held \subseteq others
  <2> SUFFICES ASSUME NEW x \in Held PROVE x \in others
    OBVIOUS
  <2>1. x \in Slots \X Pages /\ x[1] = i
    BY HeldByFirst DEF BasicInv, Held
  <2>2. x[2] # Needed(i)
    BY <2>1, SizesAreNat DEF Held
  <2> QED BY <2>1, <2>2
<1>3. Cardinality(Pages) = MAXPROCPAGES /\ IsFiniteSet(Pages)
  BY FS_Interval, SizesAssumption DEF Pages
<1>4. /\ IsFiniteSet(Pages \ {Needed(i)})
      /\ Cardinality(Pages \ {Needed(i)}) = MAXPROCPAGES - 1
  BY <1>1, <1>3, FS_RemoveElement
<1>5. IsFiniteSet(others) /\ Cardinality(others) = 1 * (MAXPROCPAGES - 1)
  <2>1. IsFiniteSet({i}) /\ Cardinality({i}) = 1 BY FS_Singleton
  <2> QED BY <1>4, <2>1, FS_Product
<1>6. Cardinality(Held) <= MAXPROCPAGES - 1
  BY <1>2, <1>5, FS_Subset, SizesAssumption
<1>7. Cardinality(Held) \in Nat
  BY HeldFinite DEF Held, HeldIn
<1> QED BY <1>6, <1>7, EnoughFrames, SizesAssumption
        DEF BasicInv, FramesInv, FramesConserved

LEMMA PagerStep ==
  ASSUME BasicInv, pageit
  PROVE  IdleHoldsNothing' /\ OneAtATime' /\ NeverSendsOut'
<1>1. /\ pages \in [Slots -> [Pages -> PageState]] /\ pid' = pid
      /\ Lowest(Active)' = Lowest(Active) /\ TypeOK
  BY DEF BasicInv, FramesInv, TypeOK, pageit, Leaves, PagerReturns, processVars, Active, Lowest
<1>2. CASE UNCHANGED frameVars
  BY <1>1, <1>2, IdleStep
<1>3. ASSUME NEW i \in Slots, NEW g \in Pages, i = Lowest(Active), Addressed(i, g),
             pages' = [pages EXCEPT ![i][g] = PAGEWAIT]
      PROVE  IdleHoldsNothing' /\ OneAtATime' /\ NeverSendsOut'
  <2>1. /\ \A k \in Slots \ {i} : pages'[k] = pages[k]
        /\ \A h \in Pages : pages'[i][h] = IF h = g THEN PAGEWAIT ELSE pages[i][h]
    BY <1>1, <1>3
  <2>2. pid[i] # NoProcess BY <1>3 DEF Addressed
  <2>3. IdleHoldsNothing' BY <1>1, <2>1, <2>2 DEF BasicInv, IdleHoldsNothing
  <2>4. NeverSendsOut' BY <2>1, SizesAreNat DEF BasicInv, NeverSendsOut
  <2>5. \A x \in Held' : x[1] = i \/ x \in Held
    BY <2>1 DEF Held
  <2>6. OneAtATime' BY <1>1, <1>3, <2>5 DEF BasicInv, OneAtATime
  <2> QED BY <2>3, <2>4, <2>6
<1>4. ASSUME NEW i \in Slots, NEW g \in Pages, i = Lowest(Active), Addressed(i, g),
             ~InMemory(i, Needed(i)), ~PageinOk(Table, i, Needed(i))
      PROVE  FALSE
  <2>1. pid[i] # NoProcess BY <1>4 DEF Addressed
  <2>2. Needed(i) \in Pages BY <2>1, NeededIsPage DEF BasicInv, FramesInv
  <2>3. pages[i][Needed(i)] = Out
    <3>1. ~(pages[i][Needed(i)] >= 0)
      BY <1>4, <2>1, <2>2 DEF PageinOk, Addressed, Table
    <3> QED BY <2>2, <3>1, SizesAreNat DEF BasicInv, NeverSendsOut
  <2>4. pagesavail # 0 BY <1>4, <2>1, <2>3, FrameFree
  <2> QED BY <1>4, <2>1, <2>2, <2>3, <2>4, SizesAreNat DEF PageinOk, Addressed, Table
<1> QED BY <1>1, <1>2, <1>3, <1>4, PageitEffects

LEMMA BasicInvStep == BasicInv /\ [BasicNext]_vars => BasicInv'
<1> SUFFICES ASSUME BasicInv, [BasicNext]_vars PROVE BasicInv'
  OBVIOUS
<1>1. [Next]_vars BY BasicStep DEF BasicInv, FramesInv
<1>2. FramesInv' BY <1>1, FramesStep DEF BasicInv
<1>3. QueueInv' /\ PcInProgram'
  BY <1>1, <1>2, QueueStep, PcStep DEF BasicInv, FramesInv
<1>4. IdleHoldsNothing' /\ OneAtATime' /\ NeverSendsOut'
  <2>1. ASSUME NEW i \in Slots, process_step(i)
        PROVE  IdleHoldsNothing' /\ OneAtATime' /\ NeverSendsOut'
    <3>1. CASE StepExit(i)
      BY <1>2, <3>1, ExitStep DEF BasicInv, FramesInv
    <3>2. CASE StepEmpty(i)
      BY <3>2, EmptyStep, IdleStep DEF StepEmpty
    <3>3. CASE StepBlocked(i) \/ StepBranch(i) \/ StepNext(i)
      BY <3>3, IdleStep DEF StepBlocked, StepBranch, StepNext, processVars
    <3> QED BY <2>1, <3>1, <3>2, <3>3 DEF process_step
  <2>2. CASE LoopHead BY <2>2, IdleStep DEF LoopHead, processVars
  <2>3. CASE UNCHANGED vars BY <2>3, IdleStep DEF vars, processVars
  <2> QED BY <2>1, <2>2, <2>3, TickStep, PagerStep DEF BasicNext, Simulate
<1> QED BY <1>2, <1>3, <1>4 DEF BasicInv

LEMMA InitBasic == Init => BasicInv
<1>1. Init => IdleHoldsNothing /\ Held = {} /\ NeverSendsOut
  BY AllOutHoldsNothing DEF Init, IdleHoldsNothing, Held, NeverSendsOut
<1> QED BY <1>1, InitFrames, InitQueue, InitPc DEF BasicInv, FramesInv, QueueInv, OneAtATime

LEMMA BasicInvHolds == BasicSpec => []BasicInv
  BY InitBasic, BasicInvStep, PTL DEF BasicSpec

\* Frames are held for the first active process only: the programs of the queue run one
\* after the other, whatever the number of processors (pager-basic.c:34).
THEOREM FirstServedOnly == BasicSpec => []OneAtATime
<1>1. BasicInv => OneAtATime BY DEF BasicInv
<1> QED BY <1>1, BasicInvHolds, PTL

\* With a frame for every page of a process pagein never fails, and the search for a
\* page to send out (pager-basic.c:41-51) does not run.
THEOREM NothingSentOut == BasicSpec => []NeverSendsOut
<1>1. BasicInv => NeverSendsOut BY DEF BasicInv
<1> QED BY <1>1, BasicInvHolds, PTL

-----------------------------------------------------------------------------
(* The LRU pager.  pageit gives each processor a turn; the table after n   *)
(* turns is the value at n of a function defined by recursion.             *)

\* The instances have the definitions of the simulator over again.
LEMMA LruCalls ==
  /\ Lru!Table = Table
  /\ \A t : Lru!Leaves(t) <=> Leaves(t)
  /\ \A i : Lru!Needed(i) = Needed(i)
  /\ \A i, g : Lru!InMemory(i, g) <=> InMemory(i, g)
  /\ \A t, i, g : /\ Lru!pagein(t, i, g) = pagein(t, i, g)
                  /\ Lru!pageout(t, i, g) = pageout(t, i, g)
                  /\ Lru!PageinOk(t, i, g) <=> PageinOk(t, i, g)
<1>1. \A i, g : Lru!Addressed(i, g) <=> Addressed(i, g)
  BY DEF Lru!Addressed, Addressed, Lru!Slots, Slots, Lru!Pages, Pages
<1> QED BY <1>1 DEF Lru!Table, Table, Lru!Leaves, Leaves, Lru!PagerReturns, PagerReturns,
                    Lru!processVars, processVars, Lru!Needed, Needed, Lru!InMemory, InMemory,
                    Lru!pagein, pagein, Lru!pageout, pageout, Lru!PageinOk, PageinOk

LEMMA LruSimulate == Lru!Simulate => Simulate
<1>1. \A i : (Lru!Runs(i) <=> Runs(i)) /\ Lru!Kind(i) = Kind(i)
  BY DEF Lru!Runs, Runs, Lru!Turn, Turn, Lru!Needed, Needed, Lru!Kind, Kind
<1>2. \A i : Lru!Dequeue(i) <=> Dequeue(i)
  BY DEF Lru!Dequeue, Dequeue, Lru!empty, empty, Lru!QUEUESIZE, QUEUESIZE, Lru!Engines, Engines
<1>3. \A i : Lru!StepEmpty(i) <=> StepEmpty(i)
  BY DEF Lru!StepEmpty, StepEmpty, Lru!Turn, Turn, Lru!Dequeue, Dequeue, Lru!empty, empty,
         Lru!QUEUESIZE, QUEUESIZE, Lru!Engines, Engines, Lru!frameVars, frameVars
<1>4. \A i : Lru!StepBlocked(i) <=> StepBlocked(i)
  BY DEF Lru!StepBlocked, StepBlocked, Lru!Turn, Turn, Lru!Needed, Needed,
         Lru!processVars, processVars, Lru!frameVars, frameVars
<1>5. \A i : Lru!StepExit(i) <=> StepExit(i)
  <2>1. Lru!AllOut = AllOut /\ \A i : Lru!Cardinality(Lru!Holding(i)) = Cardinality(Holding(i))
    BY DEF Lru!AllOut, AllOut, Lru!Pages, Pages, Lru!Out, Out, Lru!Holding, Holding,
           Lru!Cardinality, Cardinality
  <2> QED BY <1>1, <1>2, <2>1 DEF Lru!StepExit, StepExit
<1>6. \A i : Lru!StepBranch(i) <=> StepBranch(i)
  BY DEF Lru!StepBranch, StepBranch, Lru!Runs, Runs, Lru!Turn, Turn, Lru!Kind, Kind, Lru!Needed,
         Needed, Lru!Branches, Branches, Lru!ZeroBranch, ZeroBranch, Lru!frameVars, frameVars
<1>7. \A i : Lru!StepNext(i) <=> StepNext(i)
  BY DEF Lru!StepNext, StepNext, Lru!Runs, Runs, Lru!Turn, Turn, Lru!Kind, Kind, Lru!Needed,
         Needed, Lru!Branches, Branches, Lru!ZeroBranch, ZeroBranch, Lru!frameVars, frameVars
<1>8. \A i : Lru!process_step(i) => process_step(i)
  BY <1>3, <1>4, <1>5, <1>6, <1>7 DEF Lru!process_step, process_step
<1>9. Lru!allage => allage
  BY DEF Lru!allage, allage, Lru!Slots, Slots, Lru!Pages, Pages, Lru!Age, Age, Lru!Expiring,
         Expiring, Lru!Cardinality, Cardinality, Lru!processVars, processVars
<1>10. Lru!LoopHead => LoopHead
  BY DEF Lru!LoopHead, LoopHead, Lru!alldone, alldone, Lru!Slots, Slots,
         Lru!processVars, processVars, Lru!frameVars, frameVars
<1>11. Lru!Slots = Slots BY DEF Lru!Slots, Slots
<1> QED BY <1>8, <1>9, <1>10, <1>11 DEF Lru!Simulate, Simulate

LruFcn ==
  CHOOSE served : served = [n \in 0..procs |-> IF n = 0 THEN Lru!Table
                                               ELSE Lru!Serve(served[n - 1], n - 1)]

Tables == [pages : [Slots -> [Pages -> PageState]], avail : Nat]

\* The result of a turn is a table again.
LEMMA LruTables ==
  ASSUME NEW t \in Tables, NEW i
  PROVE  Lru!Serve(t, i) \in Tables
<1>1. PAGEWAIT \in PageState /\ -1 \in PageState
  BY SizesAreNat DEF PageState
<1>2. ASSUME NEW u \in Tables, NEW g PROVE pagein(u, i, g) \in Tables
  <2>1. CASE ~(Addressed(i, g) /\ u.avail # 0 /\ u.pages[i][g] < -PAGEWAIT)
    BY <2>1 DEF pagein
  <2>2. CASE Addressed(i, g) /\ u.avail # 0
    <3>1. u.avail - 1 \in Nat BY <2>2 DEF Tables
    <3>2. [u.pages EXCEPT ![i][g] = PAGEWAIT] \in [Slots -> [Pages -> PageState]]
      BY <1>1, <2>2 DEF Tables, Addressed
    <3>3. [pages |-> [u.pages EXCEPT ![i][g] = PAGEWAIT], avail |-> u.avail - 1] \in Tables
      BY <3>1, <3>2 DEF Tables
    <3> QED BY <3>3 DEF pagein
  <2> QED BY <2>1, <2>2
<1>3. ASSUME NEW u \in Tables, NEW g PROVE pageout(u, i, g) \in Tables
  <2>1. CASE ~Addressed(i, g) BY <2>1 DEF pageout
  <2>2. CASE Addressed(i, g)
    <3>1. [u EXCEPT !.pages[i][g] = -1] = [u EXCEPT !.pages = [u.pages EXCEPT ![i][g] = -1]]
      BY DEF Tables
    <3>2. [u.pages EXCEPT ![i][g] = -1] \in [Slots -> [Pages -> PageState]]
      BY <1>1, <2>2 DEF Tables, Addressed
    <3>3. [u EXCEPT !.pages[i][g] = -1] \in Tables BY <3>1, <3>2 DEF Tables
    <3> QED BY <3>3 DEF pageout
  <2> QED BY <2>1, <2>2
<1> QED BY <1>2, <1>3, LruCalls DEF Lru!Serve

LEMMA LruRecursion ==
  ASSUME TypeOK
  PROVE  /\ LruFcn[0] = Table
         /\ \A n \in 1..procs : LruFcn[n] = Lru!Serve(LruFcn[n - 1], n - 1)
<1> DEFINE next == [x \in (1..procs) \X Tables |-> Lru!Serve(x[2], x[1] - 1)]
           G == LruFcn
<1>1. procs \in Nat /\ Table \in Tables
  BY SizesAreNat DEF TypeOK, Table, Tables
<1>2. next \in [(1..procs) \X Tables -> Tables]
  BY LruTables
<1>3. \A n \in 1..procs, t \in Tables : next[<<n, t>>] = Lru!Serve(t, n - 1)
  OBVIOUS
<1>4. G = CHOOSE served : served = [n \in 0..procs |-> IF n = 0 THEN Table
                                                       ELSE Lru!Serve(served[n - 1], n - 1)]
  BY LruCalls DEF LruFcn
<1> HIDE DEF next, G
<1>5. PICK F \in [0..procs -> Tables] :
        F[0] = Table /\ \A i \in 1..procs : F[i] = next[<<i, F[i - 1]>>]
  <2>1. \E F : Recursive(F, procs, Tables, Table, next) BY <1>1, <1>2, Recursion
  <2> QED BY <2>1 DEF Recursive
<1>6. \A n \in 1..procs : F[n] = Lru!Serve(F[n - 1], n - 1)
  <2>1. \A n \in 1..procs : n - 1 \in 0..procs BY <1>1
  <2>2. \A n \in 1..procs : F[n - 1] \in Tables BY <1>5, <2>1
  <2> QED BY <1>3, <1>5, <2>2
<1>7. F = [n \in 0..procs |-> IF n = 0 THEN Table ELSE Lru!Serve(F[n - 1], n - 1)]
  <2>1. \A n \in 0..procs : F[n] = IF n = 0 THEN Table ELSE Lru!Serve(F[n - 1], n - 1)
    BY <1>1, <1>5, <1>6
  <2> QED BY <1>5, <2>1
<1>8. G = [n \in 0..procs |-> IF n = 0 THEN Table ELSE Lru!Serve(G[n - 1], n - 1)]
  BY <1>4, <1>7
<1>9. G[0] = Table /\ \A n \in 1..procs : G[n] = Lru!Serve(G[n - 1], n - 1)
  BY <1>1, <1>8
<1> QED BY <1>9 DEF G

\* A page to swap is looked for when no frame is left, and the pagein after it fails.
LEMMA LruTurn ==
  ASSUME ServingInv, NEW n \in Slots, NEW t, ServedUpTo(n, t)
  PROVE  TurnEffect(n, t, Lru!Serve(t, n))
<1> DEFINE u == Lru!Serve(t, n)
<1>1. CASE pid[n] = NoProcess \/ InMemory(n, Needed(n))
  BY <1>1, LruCalls DEF Lru!Serve, TurnEffect
<1>2. CASE pid[n] # NoProcess /\ ~InMemory(n, Needed(n)) /\ PageinOk(t, n, Needed(n))
  <2>1. u = pagein(t, n, Needed(n)) BY <1>2, LruCalls DEF Lru!Serve
  <2> QED BY <1>2, <2>1, Asked DEF TurnEffect
<1>3. CASE pid[n] # NoProcess /\ ~InMemory(n, Needed(n)) /\ ~PageinOk(t, n, Needed(n))
  <2>1. PICK v : u = pagein(pageout(t, n, v), n, Needed(n))
    BY <1>3, LruCalls DEF Lru!Serve
  <2>2. t.pages[n][Needed(n)] = Out /\ t.avail = 0 /\ Addressed(n, Needed(n))
    BY <1>3, Asked
  <2>3. t \in [pages : [Slots -> [Pages -> PageState]], avail : 0..pagesavail]
    BY DEF ServedUpTo
  <2>4. CASE ~(Addressed(n, v) /\ t.pages[n][v] = 0)
    BY <2>1, <2>2, <2>4 DEF pageout, pagein, TurnEffect
  <2>5. CASE Addressed(n, v) /\ t.pages[n][v] = 0
    <3>1. pageout(t, n, v) = [pages |-> [t.pages EXCEPT ![n][v] = -1], avail |-> t.avail]
      BY <2>3, <2>5 DEF pageout
    <3>2. u = [pages |-> [t.pages EXCEPT ![n][v] = -1], avail |-> 0]
      BY <2>1, <2>2, <3>1 DEF pagein
    <3>3. -1 \in PageState BY SizesAreNat DEF PageState
    <3>4. /\ u \in [pages : [Slots -> [Pages -> PageState]], avail : {0}]
          /\ \A i \in Slots \ {n} : u.pages[i] = t.pages[i]
          /\ \A g \in Pages : \/ u.pages[n][g] = t.pages[n][g]
                              \/ t.pages[n][g] = 0 /\ u.pages[n][g] = -1
      BY <2>3, <2>5, <3>2, <3>3 DEF Addressed
    <3> HIDE DEF u
    <3>5. TurnEffect(n, t, u) BY <2>2, <3>4 DEF TurnEffect
    <3> QED BY <3>5 DEF u
  <2> QED BY <2>4, <2>5
<1> QED BY <1>1, <1>2, <1>3

LEMMA LruPageit ==
  ASSUME ServingInv, Lru!pageit
  PROVE  /\ CallPager /\ Waits' /\ TakesFromWaiter /\ TakesForRoom
         /\ \A i \in Slots, g \in Pages :
              pages[i][g] = Out /\ pages'[i][g] = PAGEWAIT => g = Needed(i)
<1>1. Leaves(LruFcn[procs])
  BY LruCalls DEF Lru!pageit, LruFcn
<1>2. TypeOK /\ procs \in Nat BY SizesAreNat DEF ServingInv, FramesInv
<1> DEFINE H == {n \in 0..procs : ServedUpTo(n, LruFcn[n])}
<1>3. 0 \in H
  BY <1>2, LruRecursion, NoTurnYet
<1>4. \A n \in 0..(procs - 1) : n \in H => n + 1 \in H
  <2> SUFFICES ASSUME NEW n \in 0..(procs - 1), ServedUpTo(n, LruFcn[n])
               PROVE  ServedUpTo(n + 1, LruFcn[n + 1]) /\ n + 1 \in 0..procs
    OBVIOUS
  <2>1. n \in Slots /\ n + 1 \in 1..procs /\ n + 1 \in 0..procs /\ (n + 1) - 1 = n
    BY <1>2 DEF Slots
  <2>2. LruFcn[n + 1] = Lru!Serve(LruFcn[n], n) BY <1>2, <2>1, LruRecursion
  <2> QED BY <2>1, <2>2, LruTurn, TurnServes
<1> HIDE DEF H
<1>5. 0..procs \subseteq H BY <1>2, <1>3, <1>4, InductiveUpTo
<1>6. procs \in 0..procs BY <1>2
<1>7. ServedUpTo(procs, LruFcn[procs]) BY <1>5, <1>6 DEF H
<1> QED BY <1>1, <1>7, ServedEffect

-----------------------------------------------------------------------------
(* The test of the API.  Only the page it moves is ever in memory, and no  *)
(* program ends there, so that the first program stays on processor 0.     *)

LEMMA ApiSimulate == Api!Simulate => Simulate
<1>1. \A i : (Api!Runs(i) <=> Runs(i)) /\ Api!Kind(i) = Kind(i)
  BY DEF Api!Runs, Runs, Api!Turn, Turn, Api!Needed, Needed, Api!Kind, Kind
<1>2. \A i : Api!Dequeue(i) <=> Dequeue(i)
  BY DEF Api!Dequeue, Dequeue, Api!empty, empty, Api!QUEUESIZE, QUEUESIZE, Api!Engines, Engines
<1>3. \A i : Api!StepEmpty(i) <=> StepEmpty(i)
  BY DEF Api!StepEmpty, StepEmpty, Api!Turn, Turn, Api!Dequeue, Dequeue, Api!empty, empty,
         Api!QUEUESIZE, QUEUESIZE, Api!Engines, Engines, Api!frameVars, frameVars
<1>4. \A i : Api!StepBlocked(i) <=> StepBlocked(i)
  BY DEF Api!StepBlocked, StepBlocked, Api!Turn, Turn, Api!Needed, Needed,
         Api!processVars, processVars, Api!frameVars, frameVars
<1>5. \A i : Api!StepExit(i) <=> StepExit(i)
  <2>1. Api!AllOut = AllOut /\ \A i : Api!Cardinality(Api!Holding(i)) = Cardinality(Holding(i))
    BY DEF Api!AllOut, AllOut, Api!Pages, Pages, Api!Out, Out, Api!Holding, Holding,
           Api!Cardinality, Cardinality
  <2> QED BY <1>1, <1>2, <2>1 DEF Api!StepExit, StepExit
<1>6. \A i : Api!StepBranch(i) <=> StepBranch(i)
  BY DEF Api!StepBranch, StepBranch, Api!Runs, Runs, Api!Turn, Turn, Api!Kind, Kind, Api!Needed,
         Needed, Api!Branches, Branches, Api!ZeroBranch, ZeroBranch, Api!frameVars, frameVars
<1>7. \A i : Api!StepNext(i) <=> StepNext(i)
  BY DEF Api!StepNext, StepNext, Api!Runs, Runs, Api!Turn, Turn, Api!Kind, Kind, Api!Needed,
         Needed, Api!Branches, Branches, Api!ZeroBranch, ZeroBranch, Api!frameVars, frameVars
<1>8. \A i : Api!process_step(i) => process_step(i)
  BY <1>3, <1>4, <1>5, <1>6, <1>7 DEF Api!process_step, process_step
<1>9. Api!allage => allage
  BY DEF Api!allage, allage, Api!Slots, Slots, Api!Pages, Pages, Api!Age, Age, Api!Expiring,
         Expiring, Api!Cardinality, Cardinality, Api!processVars, processVars
<1>10. Api!LoopHead => LoopHead
  BY DEF Api!LoopHead, LoopHead, Api!alldone, alldone, Api!Slots, Slots,
         Api!processVars, processVars, Api!frameVars, frameVars
<1>11. Api!Slots = Slots BY DEF Api!Slots, Slots
<1> QED BY <1>8, <1>9, <1>10, <1>11 DEF Api!Simulate, Simulate

OnlyTested == \A i \in Slots, g \in Pages : <<i, g>> # <<0, 0>> => pages[i][g] = Out

TestInv ==
  /\ FramesInv /\ QueueInv /\ PcInProgram
  /\ OnlyTested /\ Api!FlagsFollowPage /\ iterations \in Nat

LEMMA ZeroIsTested == 0 \in Slots /\ 0 \in Pages
  BY SizesAssumption DEF Slots, Pages

LEMMA InitTest == Init /\ Api!TestInit => TestInv
<1> SUFFICES ASSUME Init, Api!TestInit PROVE TestInv
  OBVIOUS
<1>1. OnlyTested
  BY AllOutHoldsNothing DEF Init, OnlyTested
<1>2. Api!FlagsFollowPage /\ iterations \in Nat
  BY DEF Api!TestInit, Api!FlagsFollowPage
<1> QED BY <1>1, <1>2, InitFrames, InitQueue, InitPc DEF TestInv, FramesInv, QueueInv

\* No program ends: it would need another page.
LEMMA NoExit ==
  ASSUME TestInv, NEW i \in Slots
  PROVE  ~StepExit(i)
<1> SUFFICES ASSUME StepExit(i) PROVE FALSE
  OBVIOUS
<1>1. pid[i] # NoProcess /\ pages[i][Needed(i)] = 0 /\ pc[i] \in Programs[Kind(i)].exits
  BY DEF StepExit, Runs
<1>2. Needed(i) \in Pages /\ Kind(i) \in DOMAIN Programs
  BY <1>1, NeededIsPage DEF TestInv, FramesInv, TypeOK, Kind
<1>3. Needed(i) = 0
  BY <1>1, <1>2, SizesAreNat DEF TestInv, OnlyTested
<1> QED BY <1>1, <1>2, <1>3, TestAssumption DEF Needed, Api!testPage

LEMMA SimulateKeepsTest ==
  ASSUME TestInv, Simulate, UNCHANGED <<outTestRun, inTestRun, iterations>>
  PROVE  OnlyTested' /\ Api!FlagsFollowPage' /\ iterations' \in Nat
<1>1. pages \in [Slots -> [Pages -> PageState]] /\ iterations \in Nat
  BY DEF TestInv, FramesInv, TypeOK
<1>2. CASE pages' = pages
  BY <1>2 DEF TestInv, OnlyTested, Api!FlagsFollowPage, Api!testProc, Api!testPage
<1>3. CASE allage
  <2>1. \A i \in Slots, g \in Pages : pages'[i][g] \in {pages[i][g], Age(pages[i][g])}
    BY <1>3 DEF allage
  <2>2. \A s \in PageState : (s >= 0 => Age(s) >= 0) /\ (s < 0 => Age(s) < 0) /\ Age(Out) = Out
    BY SizesAreNat DEF PageState, Age
  <2>3. OnlyTested' BY <1>1, <2>1, <2>2 DEF TestInv, OnlyTested
  <2>4. pages[0][0] \in PageState /\ pages'[0][0] \in {pages[0][0], Age(pages[0][0])}
    BY <1>1, <2>1, ZeroIsTested
  <2> QED BY <1>1, <2>2, <2>3, <2>4 DEF TestInv, Api!FlagsFollowPage, Api!testProc, Api!testPage
<1>4. ASSUME NEW k \in Slots, process_step(k) PROVE pages' = pages
  BY <1>4, StepOfOne, NoExit DEF TestInv
<1>5. LoopHead => pages' = pages BY DEF LoopHead, frameVars
<1> QED BY <1>2, <1>3, <1>4, <1>5 DEF Simulate

\* The calls of one pageit, and the flags after them.
LEMMA TestPageit ==
  ASSUME TestInv, Api!pageit
  PROVE  CallPager /\ OnlyTested' /\ Api!FlagsFollowPage' /\ iterations' \in Nat
<1>1. /\ pages \in [Slots -> [Pages -> PageState]] /\ pagesavail \in Nat /\ TypeOK
      /\ iterations \in Nat /\ pages[0][0] \in PageState /\ 0 \in Slots /\ 0 \in Pages
  BY ZeroIsTested DEF TestInv, FramesInv, TypeOK
<1>2. /\ Api!Table = Table /\ \A t : Api!Leaves(t) <=> Leaves(t)
      /\ \A i, g : Api!Addressed(i, g) <=> Addressed(i, g)
  BY DEF Api!Table, Table, Api!Leaves, Leaves, Api!PagerReturns, PagerReturns,
         Api!processVars, processVars, Api!Addressed, Addressed, Api!Slots, Slots, Api!Pages, Pages
<1>3. PagerReturns /\ iterations' \in Nat
  BY <1>1, <1>2 DEF Api!pageit, Api!SwappedIn, Api!SwappedOut, Api!Waiting, Leaves, Api!testVars
<1>4. /\ Api!pagein(Table, 0, 0) =
           IF Addressed(0, 0) /\ pagesavail # 0 /\ pages[0][0] < -PAGEWAIT
           THEN [pages |-> [pages EXCEPT ![0][0] = PAGEWAIT], avail |-> pagesavail - 1]
           ELSE Table
      /\ Api!PageinOk(Table, 0, 0) <=>
           /\ Addressed(0, 0)
           /\ pages[0][0] >= 0 \/ (pagesavail # 0 /\ pages[0][0] < -PAGEWAIT)
      /\ Api!pageout(Table, 0, 0) =
           IF Addressed(0, 0) /\ pages[0][0] = 0
           THEN [pages |-> [pages EXCEPT ![0][0] = -1], avail |-> pagesavail] ELSE Table
  BY <1>2 DEF Api!pagein, Api!PageinOk, Api!pageout, Table
<1>5. CASE Api!SwappedIn
  <2>1. pages[0][0] = 0 /\ Addressed(0, 0)
    BY <1>1, <1>5 DEF Api!SwappedIn, Api!Tested, Api!InMemory, Api!Active, Api!testProc,
       Api!testPage, Addressed
  <2>2. Leaves([pages |-> [pages EXCEPT ![0][0] = -1], avail |-> pagesavail])
    <3>1. Api!pagein(Table, 0, 0) = Table BY <1>4, <2>1, SizesAreNat
    <3> QED BY <1>2, <1>4, <1>5, <2>1, <3>1 DEF Api!SwappedIn, Api!testProc, Api!testPage
  <2>3. pages' = [pages EXCEPT ![0][0] = -1] /\ pagesavail' = pagesavail
    BY <2>2 DEF Leaves
  <2>4. CallPager BY <1>1, <1>3, <2>1, <2>3, OneCallIsCallPager DEF OneCall
  <2>5. pages'[0][0] = -1 BY <1>1, <2>3
  <2>6. OnlyTested' BY <1>1, <2>3 DEF TestInv, OnlyTested
  <2>7. ~outTestRun' /\ inTestRun' /\ iterations' > 0
    BY <1>1, <1>5 DEF Api!SwappedIn
  <2> QED BY <1>3, <2>4, <2>5, <2>6, <2>7 DEF Api!FlagsFollowPage, Api!testProc, Api!testPage
<1>6. CASE Api!SwappedOut
  <2>1. /\ Leaves(Api!pagein(Table, 0, 0)) /\ Addressed(0, 0)
        /\ pages[0][0] >= 0 \/ (pagesavail # 0 /\ pages[0][0] < -PAGEWAIT)
    BY <1>2, <1>4, <1>6 DEF Api!SwappedOut, Api!testProc, Api!testPage
  <2>2. outTestRun' /\ ~inTestRun' /\ iterations' > 0
    BY <1>1, <1>6 DEF Api!SwappedOut
  <2>3. CASE pages[0][0] >= 0
    <3>1. UNCHANGED frameVars
      <4>1. ~(pages[0][0] < -PAGEWAIT) BY <1>1, <2>3, SizesAreNat DEF PageState
      <4>2. Api!pagein(Table, 0, 0) = Table BY <1>4, <4>1
      <4>3. Leaves(Table) BY <2>1, <4>2
      <4> QED BY <4>3 DEF Leaves, Table, frameVars
    <3>2. CallPager BY <1>1, <1>3, <3>1, OneCallIsCallPager DEF OneCall
    <3>3. OnlyTested' BY <3>1 DEF TestInv, OnlyTested, frameVars
    <3> QED BY <1>3, <2>2, <2>3, <3>1, <3>2, <3>3
            DEF Api!FlagsFollowPage, Api!testProc, Api!testPage, frameVars
  <2>4. CASE pagesavail # 0 /\ pages[0][0] < -PAGEWAIT
    <3>1. pages' = [pages EXCEPT ![0][0] = PAGEWAIT] /\ pagesavail' = pagesavail - 1
      <4>1. Leaves([pages |-> [pages EXCEPT ![0][0] = PAGEWAIT], avail |-> pagesavail - 1])
        <5>1. Api!pagein(Table, 0, 0) =
                [pages |-> [pages EXCEPT ![0][0] = PAGEWAIT], avail |-> pagesavail - 1]
          BY <1>4, <2>1, <2>4
        <5>2. Leaves(Api!pagein(Table, 0, 0)) BY <2>1
        <5> QED BY <5>1, <5>2
      <4> QED BY <4>1 DEF Leaves
    <3>2. CallPager BY <1>1, <1>3, <2>1, <2>4, <3>1, OneCallIsCallPager DEF OneCall
    <3>3. pages'[0][0] = PAGEWAIT BY <1>1, <3>1
    <3>4. OnlyTested' BY <1>1, <3>1 DEF TestInv, OnlyTested
    <3> QED BY <1>3, <2>2, <3>2, <3>3, <3>4, SizesAreNat
            DEF Api!FlagsFollowPage, Api!testProc, Api!testPage
  <2> QED BY <2>1, <2>3, <2>4
<1>7. CASE Api!Waiting
  <2>1. UNCHANGED frameVars /\ UNCHANGED <<outTestRun, inTestRun, iterations>>
    BY <1>2, <1>7 DEF Api!Waiting, Leaves, Table, frameVars, Api!testVars
  <2>2. CallPager BY <1>1, <1>3, <2>1, OneCallIsCallPager DEF OneCall
  <2> QED BY <1>3, <2>1, <2>2
          DEF TestInv, OnlyTested, Api!FlagsFollowPage, Api!testProc, Api!testPage, frameVars
<1> QED BY <1>5, <1>6, <1>7 DEF Api!pageit

-----------------------------------------------------------------------------
(* The executables.                                                        *)

LinkedInv ==
  /\ linked \in {"pager-basic", "pager-lru", "api-test"}
  /\ linked = "pager-basic" => BasicInv
  /\ linked = "pager-lru"   => ServingInv
  /\ linked = "api-test"    => TestInv

LEMMA InitLinked == LinkedInit => LinkedInv
<1> SUFFICES ASSUME LinkedInit PROVE LinkedInv
  OBVIOUS
<1>1. Init /\ Api!TestInit /\ linked \in {"pager-basic", "pager-lru", "api-test"}
  BY DEF LinkedInit
<1> QED BY <1>1, InitBasic, InitServing, InitTest DEF LinkedInv

\* What the pagers that serve programs never do in a step.
Considerate == TakesFromWaiter /\ TakesForRoom

LEMMA NotCalled == ASSUME phase # "pager" PROVE Considerate
  BY DEF Considerate, TakesFromWaiter, TakesForRoom, SendsOut

LEMMA BasicConsiderate ==
  ASSUME BasicInv, BasicInv', pageit
  PROVE  Considerate
<1>1. \A i \in Slots, g \in Pages : pages[i][g] = 0 => pages'[i][g] \in {0, -1}
  <2>1. CallPager BY PageitIsCallPager DEF BasicInv, FramesInv
  <2>2. pid' = pid BY <2>1 DEF CallPager, PagerReturns, processVars
  <2>3. \A i \in Slots, g \in Pages : StaysCourse(i, g) \/ UNCHANGED vars
    BY <2>1, CourseStep DEF Next, BasicInv
  <2>4. UNCHANGED vars => pages' = pages BY DEF vars, frameVars
  <2> QED BY <2>2, <2>3, <2>4, SizesAreNat DEF StaysCourse
<1>2. \A i \in Slots, g \in Pages : pages'[i][g] # -1
  BY SizesAreNat DEF BasicInv, NeverSendsOut
<1> QED BY <1>1, <1>2 DEF Considerate, TakesFromWaiter, TakesForRoom, SendsOut, InMemory

LEMMA StepWithBasic ==
  ASSUME BasicInv, BasicNext
  PROVE  BasicInv' /\ Next /\ Considerate
<1>1. BasicInv' BY BasicInvStep
<1>2. Next BY PageitIsCallPager DEF BasicNext, Next, BasicInv, FramesInv
<1> QED BY <1>1, <1>2, BasicConsiderate, SimulateSendsNothing, NotCalled DEF BasicNext

LEMMA StepWithLru ==
  ASSUME ServingInv, Lru!LruNext
  PROVE  ServingInv' /\ Next /\ Considerate
<1>1. CASE Simulate
  BY <1>1, ServingStep, SimulateSendsNothing, NotCalled DEF Next
<1>2. CASE Lru!pageit
  BY <1>2, ServingStep, LruPageit DEF Next, Considerate
<1> QED BY <1>1, <1>2, LruSimulate DEF Lru!LruNext

LEMMA StepWithTest ==
  ASSUME TestInv, Api!TestNext
  PROVE  TestInv' /\ Next
<1>1. Next /\ OnlyTested' /\ Api!FlagsFollowPage' /\ iterations' \in Nat
  <2>1. CASE Api!Simulate /\ UNCHANGED Api!testVars
    BY <2>1, ApiSimulate, SimulateKeepsTest DEF Api!testVars, Next
  <2>2. CASE Api!pageit
    BY <2>2, TestPageit DEF Next
  <2> QED BY <2>1, <2>2 DEF Api!TestNext
<1>2. FramesInv' BY <1>1, FramesStep DEF TestInv
<1>3. QueueInv' /\ PcInProgram'
  BY <1>1, <1>2, QueueStep, PcStep DEF TestInv, FramesInv
<1> QED BY <1>1, <1>2, <1>3 DEF TestInv

LEMMA NoStep == ASSUME LinkedInv, UNCHANGED linkedVars PROVE LinkedInv'
<1>1. UNCHANGED vars /\ UNCHANGED <<linked, outTestRun, inTestRun, iterations>>
  BY DEF linkedVars, testVars
<1>2. ASSUME BasicInv PROVE BasicInv' BY <1>1, <1>2, BasicInvStep
<1>3. ASSUME ServingInv PROVE ServingInv' BY <1>1, <1>3, ServingStep
<1>4. ASSUME TestInv PROVE TestInv'
  <2>1. FramesInv' BY <1>1, <1>4, FramesStep DEF TestInv
  <2>2. QueueInv' /\ PcInProgram'
    BY <1>1, <1>4, <2>1, QueueStep, PcStep DEF TestInv, FramesInv
  <2>3. OnlyTested' /\ Api!FlagsFollowPage' /\ iterations' \in Nat
    BY <1>1, <1>4 DEF TestInv, OnlyTested, Api!FlagsFollowPage, vars, frameVars
  <2> QED BY <2>1, <2>2, <2>3 DEF TestInv
<1> QED BY <1>1, <1>2, <1>3, <1>4 DEF LinkedInv

LEMMA LinkedStep ==
  ASSUME LinkedInv, [LinkedNext]_linkedVars
  PROVE  /\ LinkedInv' /\ [Next]_vars
         /\ [linked # "api-test" => Considerate]_linkedVars
<1>1. CASE UNCHANGED linkedVars
  BY <1>1, NoStep DEF linkedVars
<1>2. CASE LinkedNext
  <2>1. linked' = linked BY <1>2 DEF LinkedNext
  <2>2. CASE linked = "pager-basic" /\ BasicNext
    BY <2>1, <2>2, StepWithBasic DEF LinkedInv
  <2>3. CASE linked = "pager-lru" /\ Lru!LruNext
    BY <2>1, <2>3, StepWithLru DEF LinkedInv
  <2>4. CASE linked = "api-test" /\ Api!TestNext
    BY <2>1, <2>4, StepWithTest DEF LinkedInv
  <2> QED BY <1>2, <2>2, <2>3, <2>4 DEF LinkedNext
<1> QED BY <1>1, <1>2

\* The step lemma as an implication between actions.
LEMMA LinkedSteps ==
  LinkedInv /\ [LinkedNext]_linkedVars =>
    /\ LinkedInv' /\ [Next]_vars
    /\ [linked # "api-test" => Considerate]_linkedVars
  BY LinkedStep

\* Each executable keeps to the interface of the simulator, so that what is proved of
\* the simulator with any pager holds of the three (pager-basic.c:21-58, pager-lru.c:20-106
\* and api-test.c:23-105).
THEOREM AllKeepToInterface == LinkedSpec => Spec
<1>1. LinkedInit => Init BY DEF LinkedInit
<1> QED BY <1>1, InitLinked, LinkedSteps, PTL DEF LinkedSpec, Spec

\* test-basic serves the first active process only and never needs a pageout, with
\* any programs and any number of processors (pager-basic.c:32-55).
THEOREM BasicExecutable == LinkedSpec => []ServesFirst
<1>1. LinkedInv => ServesFirst
  BY DEF LinkedInv, ServesFirst, BasicInv
<1> QED BY <1>1, InitLinked, LinkedSteps, PTL DEF LinkedSpec

\* The flags of test-api follow the page it moves, with any sizes: no program ends, and
\* no move is started before the one under way is over (api-test.c:57-58 and 85-86).
THEOREM FlagsKept == LinkedSpec => []TestFlags
<1>1. LinkedInv => TestFlags
  BY DEF LinkedInv, TestFlags, TestInv
<1> QED BY <1>1, InitLinked, LinkedSteps, PTL DEF LinkedSpec

\* The pagers that serve programs take a page from a process only while it waits for
\* another: pageit of pager-lru.c looks at the page needed before it looks for one to
\* swap (lines 80 and 83-97).
THEOREM OnlyWaitersGive == LinkedSpec => OnlyWaitersServed
<1>1. [linked # "api-test" => Considerate]_linkedVars =>
        [linked # "api-test" => TakesFromWaiter]_linkedVars
  BY DEF Considerate
<1> QED BY <1>1, InitLinked, LinkedSteps, PTL DEF LinkedSpec, OnlyWaitersServed

\* They send a page out only when no frame is left, although a pagein also fails for a
\* page on its way out: a process that waits has none that it needs.
THEOREM NothingSentForFun == LinkedSpec => SentForRoom
<1>1. [linked # "api-test" => Considerate]_linkedVars =>
        [linked # "api-test" => TakesForRoom]_linkedVars
  BY DEF Considerate
<1> QED BY <1>1, InitLinked, LinkedSteps, PTL DEF LinkedSpec, SentForRoom

-----------------------------------------------------------------------------
(* The rings.  A context in the middle of its rings stands for the engine  *)
(* that still goes its way as often as its present run is long.            *)

\* The executables are linked with the branching engines of the code.
CodeEngines ==
  /\ \A k \in DOMAIN Programs : Engines(k) = process_load(Programs[k].branches)
  /\ \A b \in Branch, c \in Bcontext : Decide(b, c) = bcontext_decide(b, c)

\* A context of a FOR or NFOR: at the even places of its ring are counts, and it goes
\* its own way there; at the odd ones is the 1 of the escape.
InRing(b, c) ==
  /\ c.bsize = MAXBRINGS
  /\ c.bvalue = (b.btype = "FOR") <=> c.boffset % 2 = 0
  /\ \A o \in Offsets : IF o % 2 = 0 THEN c.brings[o] \in Counts(b) ELSE c.brings[o] = 1
  /\ c.bcount = 0 \/ c.bcount < c.brings[c.boffset]

Fits(b, c) ==
  /\ c \in Bcontext /\ c.btype = b.btype
  /\ b.btype = "GOTO" => c.boffset = 0 /\ c.bsize = 1 /\ c.bvalue /\ c.brings[0] = Forever
  /\ b.btype \in {"FOR", "NFOR"} => InRing(b, c)

\* The context of a program without branches.
Clear(c) == c \in Bcontext /\ c.boffset = 0 /\ c.bsize = 1 /\ c.bcount = 0 /\ c.brings[0] = 1

\* The contexts l are those of program k.
EngineOf(k, l) ==
  /\ l \in [DOMAIN Branches(k) -> Bcontext]
  /\ \A j \in DOMAIN Branches(k) :
       IF Programs[k].branches = << >> THEN Clear(l[j]) ELSE Fits(Branches(k)[j], l[j])

EnginesInv ==
  /\ bcontexts = [i \in Slots |-> bcontexts[i]]
  /\ \A i \in Slots : IF pid[i] = NoProcess THEN bcontexts[i] = << >>
                      ELSE EngineOf(Kind(i), bcontexts[i])

\* "keep going forever" (simulator.c:190) is 2^31-1 times: the decision after is that a
\* GOTO is not taken.
TicksLeft ==
  \A i \in Slots : pid[i] # NoProcess =>
    \A j \in DOMAIN bcontexts[i] :
      bcontexts[i][j].btype = "GOTO" => bcontexts[i][j].bcount + 1 < Forever

\* A branch is a record of the right types.
LEMMA CountsAreNat ==
  ASSUME NEW b \in Branch
  PROVE  /\ Counts(b) \subseteq Nat /\ Counts(b) # {}
         /\ b.btype \in {"GOTO", "IF", "FOR", "NFOR"}
<1>1. b.min \in Nat /\ b.max \in Nat /\ b.btype \in {"GOTO", "IF", "FOR", "NFOR"}
  BY DEF Branch
<1>2. \A m, n \in Nat : /\ n > m => m..(n - 1) \subseteq Nat /\ m \in m..(n - 1)
                        /\ {m} \subseteq Nat
  OBVIOUS
<1> QED BY <1>1, <1>2 DEF Counts

LEMMA OffsetZero == 0 \in Offsets /\ Offsets \subseteq Nat /\ MAXBRINGS \in Nat \ {0}
  BY EngineAssumption DEF Offsets

\* The offset goes round the ring, from even places to odd ones and back.
LEMMA NextOffset ==
  ASSUME NEW o \in Offsets
  PROVE  /\ (o + 1) % MAXBRINGS \in Offsets
         /\ ((o + 1) % MAXBRINGS) % 2 = 0 <=> o % 2 # 0
<1>1. \A m \in Nat \ {0} : \A n \in 0..(m - 1) : (n + 1) % m = IF n + 1 = m THEN 0 ELSE n + 1
  OBVIOUS
<1>2. \A n \in Nat : (n + 1) % 2 = 0 <=> n % 2 # 0
  OBVIOUS
<1>3. MAXBRINGS \in Nat \ {0} /\ MAXBRINGS % 2 = 0 /\ o \in 0..(MAXBRINGS - 1)
  BY EngineAssumption DEF Offsets
<1> DEFINE u == (o + 1) % MAXBRINGS
<1>4. u = IF o + 1 = MAXBRINGS THEN 0 ELSE o + 1
  BY <1>1, <1>3
<1> HIDE DEF u
<1>5. CASE o + 1 = MAXBRINGS
  <2>1. o % 2 # 0 BY <1>2, <1>3, <1>5
  <2>2. u = 0 /\ 0 % 2 = 0 BY <1>4, <1>5
  <2>3. u % 2 = 0 /\ u \in Offsets BY <2>2, OffsetZero
  <2> QED BY <2>1, <2>3 DEF u
<1>6. CASE o + 1 # MAXBRINGS
  <2>1. u = o + 1 BY <1>4, <1>6
  <2>2. u \in Offsets BY <1>3, <1>6, <2>1 DEF Offsets
  <2>3. u % 2 = 0 <=> o % 2 # 0 BY <1>2, <1>3, <2>1
  <2> QED BY <2>2, <2>3 DEF u
<1> QED BY <1>5, <1>6

\* A context that has been initialised is at the start of its own way.
LEMMA InitFits ==
  ASSUME NEW b \in Branch, NEW c \in bcontext_init(b)
  PROVE  Fits(b, c) /\ Remaining(b, c) \in Draws(b)
<1>1. PICK v \in FirstValues(b), r \in Rings(b) :
        c = [btype |-> b.btype, boffset |-> 0, bsize |-> IF b.btype = "GOTO" THEN 1 ELSE MAXBRINGS,
             bvalue |-> v, bcount |-> 0, brings |-> r]
  BY DEF bcontext_init
<1>2. /\ c.btype = b.btype /\ c.boffset = 0 /\ c.bvalue = v /\ c.bcount = 0 /\ c.brings = r
      /\ c.bsize = IF b.btype = "GOTO" THEN 1 ELSE MAXBRINGS
  BY <1>1
<1>3. v \in BOOLEAN BY DEF FirstValues
<1>4. r \in [Offsets -> Nat]
  <2>1. CASE b.btype = "GOTO"
    <3>1. r = One(Forever) BY <2>1 DEF Rings
    <3> QED BY <3>1 DEF One, Forever
  <2>2. CASE b.btype = "IF"
    <3>1. r \in [Offsets -> 1..MaxRun] BY <2>2 DEF Rings
    <3>2. 1..MaxRun \subseteq Nat BY EngineAssumption
    <3> QED BY <3>1, <3>2
  <2>3. CASE b.btype # "GOTO" /\ b.btype # "IF"
    <3>1. r \in [Offsets -> Counts(b) \cup {1}] BY <2>3 DEF Rings
    <3>2. Counts(b) \cup {1} \subseteq Nat BY CountsAreNat
    <3> QED BY <3>1, <3>2
  <2> QED BY <2>1, <2>2, <2>3
<1>5. 1 \in 1..MAXBRINGS /\ MAXBRINGS \in 1..MAXBRINGS BY OffsetZero
<1>6. c \in Bcontext
  BY <1>1, <1>3, <1>4, <1>5, OffsetZero, CountsAreNat DEF Bcontext
<1>7. CASE b.btype = "GOTO"
  <2>1. r = One(Forever) /\ v = TRUE BY <1>7 DEF Rings, FirstValues
  <2>2. r[0] = Forever BY <2>1, OffsetZero DEF One
  <2>3. Fits(b, c) BY <1>2, <1>6, <1>7, <2>1, <2>2 DEF Fits
  <2> QED BY <1>7, <2>3 DEF Remaining, Draws
<1>8. CASE b.btype = "IF"
  BY <1>2, <1>6, <1>8 DEF Fits, Remaining, Draws
<1>9. CASE b.btype \in {"FOR", "NFOR"}
  <2>1. v = (b.btype = "FOR") BY <1>9 DEF FirstValues
  <2>2. \A o \in Offsets : IF o % 2 = 0 THEN r[o] \in Counts(b) ELSE r[o] = 1
    BY <1>9 DEF Rings
  <2>3. 0 % 2 = 0 OBVIOUS
  <2>4. InRing(b, c) BY <1>2, <1>9, <2>1, <2>2, <2>3 DEF InRing
  <2>5. r[0] \in Counts(b) /\ r[0] \in Nat BY <1>4, <2>2, <2>3, OffsetZero
  <2>6. Remaining(b, c) = IF r[0] = 0 THEN 1 ELSE r[0] - 0
    BY <1>2, <1>9, <2>1 DEF Remaining
  <2>7. Remaining(b, c) = IF r[0] = 0 THEN 1 ELSE r[0] BY <2>5, <2>6
  <2>8. Remaining(b, c) \in Draws(b) BY <1>9, <2>5, <2>7 DEF Draws
  <2>9. Fits(b, c) BY <1>2, <1>6, <1>9, <2>4 DEF Fits
  <2> QED BY <2>8, <2>9
<1> QED BY <1>7, <1>8, <1>9, CountsAreNat

\* The next context of a decision, field by field.
LEMMA NextContext ==
  ASSUME NEW b \in Branch, NEW c \in Bcontext, c.bsize # 0, (c.boffset + 1) % c.bsize \in Offsets,
         NEW d \in bcontext_decide(b, c)
  PROVE  /\ d = <<c.bvalue, d[2]>> /\ d[1] = c.bvalue /\ d[2] \in Bcontext
         /\ d[2].btype = c.btype /\ d[2].bsize = c.bsize /\ d[2].brings = c.brings
         /\ IF c.bcount + 1 >= c.brings[c.boffset]
            THEN /\ d[2].boffset = (c.boffset + 1) % c.bsize /\ d[2].bcount = 0
                 /\ d[2].bvalue = ~c.bvalue
            ELSE d[2].boffset = c.boffset /\ d[2].bcount = c.bcount + 1 /\ d[2].bvalue = c.bvalue
<1> DEFINE over == [c EXCEPT !.boffset = (c.boffset + 1) % c.bsize, !.bcount = 0, !.bvalue = ~c.bvalue]
           on   == [c EXCEPT !.bcount = c.bcount + 1]
<1>1. /\ c.bvalue \in BOOLEAN /\ c.bcount \in Nat /\ c.bcount + 1 \in Nat
      /\ c = [btype |-> c.btype, boffset |-> c.boffset, bsize |-> c.bsize, bvalue |-> c.bvalue,
              bcount |-> c.bcount, brings |-> c.brings]
  BY DEF Bcontext
<1>2. /\ over \in Bcontext /\ over.btype = c.btype /\ over.bsize = c.bsize
      /\ over.brings = c.brings /\ over.bcount = 0
      /\ over.boffset = (c.boffset + 1) % c.bsize /\ over.bvalue = ~c.bvalue
  BY <1>1 DEF Bcontext
<1>3. /\ on \in Bcontext /\ on.btype = c.btype /\ on.bsize = c.bsize
      /\ on.brings = c.brings /\ on.bcount = c.bcount + 1
      /\ on.boffset = c.boffset /\ on.bvalue = c.bvalue
  BY <1>1 DEF Bcontext
<1>4. d = <<c.bvalue, IF c.bcount + 1 >= c.brings[c.boffset] THEN over ELSE on>>
  BY DEF bcontext_decide
<1> HIDE DEF over, on
<1>5. d[1] = c.bvalue /\ d[2] = IF c.bcount + 1 >= c.brings[c.boffset] THEN over ELSE on
  BY <1>4
<1> QED BY <1>2, <1>3, <1>4, <1>5

\* Each decision of a FOR or NFOR is one that its count allows.
LEMMA DecideRing ==
  ASSUME NEW b \in Branch, NEW c, Fits(b, c), b.btype \in {"FOR", "NFOR"},
         NEW d \in bcontext_decide(b, c)
  PROVE  Fits(b, d[2]) /\ <<d[1], Remaining(b, d[2])>> \in Decisions(b, Remaining(b, c))
<1> DEFINE e   == d[2]
           own == (b.btype = "FOR")
           o   == c.boffset
           n   == c.brings[o]
<1>1. /\ c \in Bcontext /\ c.btype = b.btype /\ c.bsize = MAXBRINGS
      /\ c.bvalue = own <=> o % 2 = 0
      /\ \A p \in Offsets : IF p % 2 = 0 THEN c.brings[p] \in Counts(b) ELSE c.brings[p] = 1
      /\ c.bcount = 0 \/ c.bcount < n
  BY DEF Fits, InRing
<1>2. /\ o \in Offsets /\ c.bcount \in Nat /\ c.bvalue \in BOOLEAN /\ n \in Nat
      /\ c.brings \in [Offsets -> Nat]
  BY <1>1 DEF Bcontext
<1>3. /\ (o + 1) % MAXBRINGS \in Offsets
      /\ ((o + 1) % MAXBRINGS) % 2 = 0 <=> o % 2 # 0
  BY <1>2, NextOffset
<1>4. /\ d = <<c.bvalue, e>> /\ e \in Bcontext
      /\ e.btype = c.btype /\ e.bsize = c.bsize /\ e.brings = c.brings
      /\ IF c.bcount + 1 >= n
         THEN e.boffset = (o + 1) % MAXBRINGS /\ e.bcount = 0 /\ e.bvalue = ~c.bvalue
         ELSE e.boffset = o /\ e.bcount = c.bcount + 1 /\ e.bvalue = c.bvalue
  BY <1>1, <1>3, OffsetZero, NextContext
<1>5. \A p \in Offsets : p % 2 = 0 => c.brings[p] \in Counts(b) /\ c.brings[p] \in Nat
  BY <1>1, <1>2
<1>6. \A x : Remaining(b, x) = IF x.bvalue # own THEN 0
                               ELSE IF x.brings[x.boffset] = 0 THEN 1
                               ELSE x.brings[x.boffset] - x.bcount
  BY DEF Remaining
<1>7. \A m : Decisions(b, m) = IF m > 0 THEN {<<own, m - 1>>} ELSE {<<~own, k>> : k \in Draws(b)}
  BY DEF Decisions
<1> HIDE DEF e, own
<1>8. own \in BOOLEAN BY DEF own
<1>9. InRing(b, e)
  <2>1. e.bvalue = own <=> e.boffset % 2 = 0
    BY <1>1, <1>2, <1>3, <1>4, <1>8
  <2>2. e.bcount = 0 \/ e.bcount < e.brings[e.boffset]
    BY <1>2, <1>4
  <2> QED BY <1>1, <1>4, <2>1, <2>2 DEF InRing, own
<1>10. Fits(b, e) BY <1>1, <1>4, <1>9 DEF Fits
<1>11. CASE o % 2 = 0 /\ c.bcount + 1 >= n
  <2>1. Remaining(b, c) = 1
    <3>1. Remaining(b, c) = IF n = 0 THEN 1 ELSE n - c.bcount BY <1>1, <1>6, <1>11
    <3> QED BY <1>1, <1>2, <1>11, <3>1
  <2>2. Remaining(b, e) = 0 BY <1>1, <1>4, <1>6, <1>8, <1>11, <1>2
  <2>3. d = <<own, e>> BY <1>1, <1>4, <1>11
  <2>4. <<own, 0>> \in Decisions(b, 1) BY <1>7
  <2> QED BY <1>10, <2>1, <2>2, <2>3, <2>4 DEF e
<1>12. CASE o % 2 = 0 /\ ~(c.bcount + 1 >= n)
  <2>1. n # 0 /\ n - c.bcount > 0 /\ n - (c.bcount + 1) = (n - c.bcount) - 1
    BY <1>2, <1>12
  <2>2. Remaining(b, c) = n - c.bcount BY <1>1, <1>6, <1>12, <2>1
  <2>3. Remaining(b, e) = n - (c.bcount + 1) BY <1>1, <1>4, <1>6, <1>12, <2>1
  <2>4. d = <<own, e>> BY <1>1, <1>4, <1>12
  <2>5. <<own, Remaining(b, e)>> \in Decisions(b, Remaining(b, c))
    BY <1>7, <2>1, <2>2, <2>3
  <2> QED BY <1>10, <2>4, <2>5 DEF e
<1>13. CASE o % 2 # 0
  <2>1. n = 1 /\ c.bvalue = ~own /\ c.bvalue # own BY <1>1, <1>2, <1>8, <1>13
  <2>2. c.bcount + 1 >= n BY <1>2, <2>1
  <2>3. /\ e.boffset = (o + 1) % MAXBRINGS /\ e.bcount = 0 /\ e.bvalue = own
        /\ e.brings = c.brings
    BY <1>4, <1>8, <2>1, <2>2
  <2>4. e.brings[e.boffset] \in Counts(b) /\ e.brings[e.boffset] \in Nat
    BY <1>3, <1>5, <1>13, <2>3
  <2> DEFINE k == e.brings[e.boffset]
  <2>5. Remaining(b, e) = IF k = 0 THEN 1 ELSE k - 0 BY <1>6, <2>3
  <2> HIDE DEF k
  <2>6. Remaining(b, e) = IF k = 0 THEN 1 ELSE k BY <2>4, <2>5 DEF k
  <2>7. Remaining(b, e) \in Draws(b) BY <2>4, <2>6 DEF Draws, k
  <2>8. Remaining(b, c) = 0 BY <1>6, <2>1
  <2>9. d = <<~own, e>> BY <1>4, <2>1
  <2>10. <<~own, Remaining(b, e)>> \in Decisions(b, 0) BY <1>7, <2>7
  <2> QED BY <1>10, <2>8, <2>9, <2>10 DEF e
<1> QED BY <1>11, <1>12, <1>13

\* So is each decision of a GOTO that has not been taken 2^31-1 times, and of an IF.
LEMMA DecideFits ==
  ASSUME NEW b \in Branch, NEW c, Fits(b, c), c.btype = "GOTO" => c.bcount + 1 < Forever,
         NEW d \in bcontext_decide(b, c)
  PROVE  Fits(b, d[2]) /\ <<d[1], Remaining(b, d[2])>> \in Decisions(b, Remaining(b, c))
<1>1. c \in Bcontext /\ c.btype = b.btype BY DEF Fits
<1>2. /\ c.bcount \in Nat /\ c.boffset \in Offsets /\ c.bvalue \in BOOLEAN
      /\ c.bsize \in 1..MAXBRINGS
  BY <1>1 DEF Bcontext
<1>3. c.bsize # 0 /\ (c.boffset + 1) % c.bsize \in Offsets
  <2>1. \A m, n, k \in Nat : k # 0 /\ k <= m => n % k \in 0..(m - 1)
    OBVIOUS
  <2>2. c.bsize \in Nat /\ c.bsize # 0 /\ c.bsize <= MAXBRINGS
    BY <1>2, OffsetZero
  <2>3. c.boffset \in Nat BY <1>2, OffsetZero
  <2>4. c.boffset + 1 \in Nat BY <2>3
  <2> QED BY <2>1, <2>2, <2>4, OffsetZero DEF Offsets
<1>4. CASE b.btype = "GOTO"
  <2>1. c.boffset = 0 /\ c.bsize = 1 /\ c.bvalue /\ c.brings[0] = Forever
    BY <1>4 DEF Fits
  <2>2. ~(c.bcount + 1 >= c.brings[c.boffset])
    BY <1>1, <1>2, <1>4, <2>1 DEF Forever
  <2>3. /\ d[1] = c.bvalue /\ d[2] \in Bcontext /\ d[2].btype = c.btype
        /\ d[2].bsize = c.bsize /\ d[2].brings = c.brings
        /\ d[2].boffset = c.boffset /\ d[2].bvalue = c.bvalue
    BY <1>1, <1>2, <1>3, <2>1, <2>2, NextContext
  <2>4. Fits(b, d[2]) BY <1>1, <1>4, <2>1, <2>3 DEF Fits
  <2>5. Remaining(b, d[2]) = 0 /\ Decisions(b, Remaining(b, c)) = {<<TRUE, 0>>}
    BY <1>4 DEF Remaining, Decisions
  <2>6. d[1] = TRUE BY <1>2, <2>1, <2>3
  <2>7. <<d[1], 0>> \in {<<TRUE, 0>>} BY <2>6
  <2> QED BY <2>4, <2>5, <2>7
<1>5. CASE b.btype = "IF"
  <2>1. d[1] \in BOOLEAN /\ d[2] \in Bcontext /\ d[2].btype = c.btype
    <3>1. d[1] = c.bvalue /\ d[2] \in Bcontext /\ d[2].btype = c.btype
      BY <1>1, <1>3, NextContext
    <3> QED BY <1>2, <3>1
  <2>2. Fits(b, d[2]) BY <1>1, <1>5, <2>1 DEF Fits
  <2>3. Remaining(b, d[2]) = 0 /\ Decisions(b, Remaining(b, c)) = BOOLEAN \X {0}
    BY <1>5 DEF Remaining, Decisions
  <2>4. <<d[1], 0>> \in BOOLEAN \X {0} BY <2>1
  <2> QED BY <2>2, <2>3, <2>4
<1>6. CASE b.btype \in {"FOR", "NFOR"}
  BY <1>6, DecideRing
<1> QED BY <1>4, <1>5, <1>6, CountsAreNat

\* The context of a program without branches: as ZeroBranch, its count is 1.
LEMMA DecideClear ==
  ASSUME NEW c, Clear(c), NEW d \in bcontext_decide(ZeroBranch, c)
  PROVE  /\ Clear(d[2])
         /\ <<d[1], Remaining(ZeroBranch, d[2])>> \in Decisions(ZeroBranch, Remaining(ZeroBranch, c))
<1>1. /\ c \in Bcontext /\ c.boffset = 0 /\ c.bsize = 1 /\ c.bcount = 0 /\ c.brings[0] = 1
      /\ c.bvalue \in BOOLEAN
  BY DEF Clear, Bcontext
<1>2. (c.boffset + 1) % c.bsize = 0 /\ c.bsize # 0 /\ c.bcount + 1 >= c.brings[c.boffset]
  BY <1>1
<1>3. ZeroBranch \in Branch BY DEF ZeroBranch, Branch
<1>4. /\ d[1] = c.bvalue /\ d[2] \in Bcontext /\ d[2].bsize = 1
      /\ d[2].brings = c.brings /\ d[2].boffset = 0 /\ d[2].bcount = 0 /\ d[2].bvalue = ~c.bvalue
  BY <1>1, <1>2, <1>3, OffsetZero, NextContext
<1>5. Clear(d[2]) BY <1>1, <1>4 DEF Clear
<1>6. ASSUME NEW x, Clear(x)
      PROVE  /\ x.bvalue = TRUE  => Remaining(ZeroBranch, x) = 1
             /\ x.bvalue = FALSE => Remaining(ZeroBranch, x) = 0
  <2>1. x.brings[x.boffset] = 1 /\ x.bcount = 0 BY <1>6 DEF Clear
  <2>2. Remaining(ZeroBranch, x) = IF x.bvalue # TRUE THEN 0 ELSE
                                   IF x.brings[x.boffset] = 0 THEN 1
                                   ELSE x.brings[x.boffset] - x.bcount
    BY DEF Remaining, ZeroBranch
  <2>3. 1 - 0 = 1 /\ ~(1 = 0) OBVIOUS
  <2>4. ASSUME x.bvalue = TRUE PROVE Remaining(ZeroBranch, x) = 1
    <3>1. ~(x.bvalue # TRUE) BY <2>4
    <3>2. Remaining(ZeroBranch, x) = IF x.brings[x.boffset] = 0 THEN 1
                                     ELSE x.brings[x.boffset] - x.bcount
      BY <2>2, <3>1, Zenon
    <3> QED BY <2>1, <2>3, <3>2
  <2>5. ASSUME x.bvalue = FALSE PROVE Remaining(ZeroBranch, x) = 0
    <3>1. x.bvalue # TRUE BY <2>5
    <3> QED BY <2>2, <3>1, Zenon
  <2> QED BY <2>4, <2>5
<1>7. Draws(ZeroBranch) = {1} BY DEF Draws, Counts, ZeroBranch
<1>8. /\ <<TRUE, 0>> \in Decisions(ZeroBranch, 1)
      /\ <<FALSE, 1>> \in Decisions(ZeroBranch, 0)
  <2>1. \A m : Decisions(ZeroBranch, m) =
                 IF m > 0 THEN {<<TRUE, m - 1>>} ELSE {<<FALSE, k>> : k \in {1}}
    BY <1>7 DEF Decisions, ZeroBranch
  <2>2. 1 > 0 /\ ~(0 > 0) /\ 1 - 1 = 0 OBVIOUS
  <2>3. Decisions(ZeroBranch, 1) = {<<TRUE, 0>>}
    <3>1. Decisions(ZeroBranch, 1) = {<<TRUE, 1 - 1>>} BY <2>1, <2>2, Zenon
    <3> QED BY <2>2, <3>1, Zenon
  <2>4. Decisions(ZeroBranch, 0) = {<<FALSE, k>> : k \in {1}} BY <2>1, <2>2, Zenon
  <2>5. <<FALSE, 1>> \in {<<FALSE, k>> : k \in {1}} OBVIOUS
  <2> QED BY <2>3, <2>4, <2>5, Zenon
<1>9. CASE c.bvalue = TRUE
  <2>1. d[2].bvalue = FALSE /\ d[1] = TRUE BY <1>4, <1>9
  <2>2. Remaining(ZeroBranch, d[2]) = 0 /\ Remaining(ZeroBranch, c) = 1
    BY <1>5, <1>6, <1>9, <2>1
  <2> QED BY <1>5, <1>8, <2>1, <2>2
<1>10. CASE c.bvalue = FALSE
  <2>1. d[2].bvalue = TRUE /\ d[1] = FALSE BY <1>4, <1>10
  <2>2. Remaining(ZeroBranch, d[2]) = 1 /\ Remaining(ZeroBranch, c) = 0
    BY <1>5, <1>6, <1>10, <2>1
  <2> QED BY <1>5, <1>8, <2>1, <2>2
<1> QED BY <1>1, <1>9, <1>10

-----------------------------------------------------------------------------
(* process_load initialises the contexts one after the other.              *)

\* What the initialisation of context n may make of one of the lists ls.
Initialising(bs, n, ls) == {Initialised(l, n, c) : l \in ls, c \in bcontext_init(bs[n])}

\* The contexts that the first n initialisations may leave, of the branches bs.
FilledFcn(bs) ==
  CHOOSE loaded : loaded = [n \in 0..Len(bs) |->
    IF n = 0 THEN {Cleared(bs)} ELSE Initialising(bs, [j \in DOMAIN bs |-> j][n], loaded[n - 1])]

LEMMA ClearedContext == Clear(bcontext_clear)
<1>1. One(1) \in [Offsets -> Nat] /\ One(1)[0] = 1
  BY OffsetZero DEF One
<1>2. 1 \in 1..MAXBRINGS BY OffsetZero
<1> QED BY <1>1, <1>2, OffsetZero DEF Clear, bcontext_clear, Bcontext

\* A context that is initialised stays in place; at most the type of the next is lost.
Lists(n) == [1..n -> Bcontext]

LEMMA InitialisedPlace ==
  ASSUME NEW N \in Nat, NEW l \in Lists(N), NEW j \in 1..N, NEW c \in Bcontext
  PROVE  /\ Initialised(l, j, c) \in Lists(N) /\ Initialised(l, j, c)[j] = c
         /\ \A m \in 1..(j - 1) : Initialised(l, j, c)[m] = l[m]
<1>1. \A m \in 1..N : [l[m] EXCEPT !.btype = "FOR"] \in Bcontext
  BY DEF Bcontext, Lists
<1>2. \A m \in 1..N : Initialised(l, j, c)[m] = CASE m = j                        -> c
                                                 [] m = j + 1 /\ c.btype = "IF" -> [l[m] EXCEPT !.btype = "FOR"]
                                                 [] OTHER                        -> l[m]
  BY DEF Initialised, Lists
<1>3. Initialised(l, j, c) = [m \in 1..N |-> Initialised(l, j, c)[m]]
  BY DEF Initialised, Lists
<1>4. \A m \in 1..(j - 1) : m \in 1..N /\ m # j /\ m # j + 1
  OBVIOUS
<1>5. \A m \in 1..N : Initialised(l, j, c)[m] \in Bcontext
  BY <1>1, <1>2 DEF Lists
<1>6. j # j + 1 OBVIOUS
<1>7. Initialised(l, j, c)[j] = c BY <1>2, <1>6
<1>8. \A m \in 1..(j - 1) : Initialised(l, j, c)[m] = l[m] BY <1>2, <1>4
<1> QED BY <1>3, <1>5, <1>7, <1>8 DEF Lists

LEMMA FilledRecursion ==
  ASSUME NEW bs \in Seq(Branch)
  PROVE  /\ process_load(bs) = FilledFcn(bs)[Len(bs)]
         /\ FilledFcn(bs)[0] = {Cleared(bs)}
         /\ \A n \in 1..Len(bs) : FilledFcn(bs)[n] = Initialising(bs, n, FilledFcn(bs)[n - 1])
<1> DEFINE N == Len(bs)
           order == [j \in DOMAIN bs |-> j]
           Filling(n, F) == /\ F = [m \in 0..n |-> F[m]] /\ F[0] = {Cleared(bs)}
                            /\ \A m \in 1..n : F[m] = Initialising(bs, m, F[m - 1])
           G == {n \in Nat : \E F : Filling(n, F)}
<1>1. N \in Nat /\ DOMAIN bs = 1..N /\ \A n \in 1..N : order[n] = n
  OBVIOUS
<1>2. 0 \in G
  <2>1. Filling(0, [m \in 0..0 |-> {Cleared(bs)}]) OBVIOUS
  <2> HIDE DEF Filling
  <2> QED BY <2>1
<1>3. ASSUME NEW n \in Nat, n \in G PROVE n + 1 \in G
  <2>1. PICK F : Filling(n, F) BY <1>3
  <2> DEFINE H == [m \in 0..(n + 1) |-> IF m = n + 1 THEN Initialising(bs, n + 1, F[n]) ELSE F[m]]
  <2>2. H[n + 1] = Initialising(bs, n + 1, F[n]) /\ \A m \in 0..n : H[m] = F[m] OBVIOUS
  <2>3. H = [m \in 0..(n + 1) |-> H[m]] OBVIOUS
  <2> HIDE DEF H
  <2>4. \A m \in 1..(n + 1) : H[m] = Initialising(bs, m, H[m - 1])
    <3> SUFFICES ASSUME NEW m \in 1..(n + 1) PROVE H[m] = Initialising(bs, m, H[m - 1])
      OBVIOUS
    <3>1. CASE m = n + 1
      <4>1. m - 1 = n /\ H[n] = F[n] BY <2>2, <3>1
      <4> QED BY <2>2, <3>1, <4>1
    <3>2. CASE m # n + 1
      <4>1. m \in 1..n /\ m - 1 \in 0..n /\ m \in 0..n BY <3>2
      <4> QED BY <2>1, <2>2, <4>1
    <3> QED BY <3>1, <3>2
  <2>5. H[0] = {Cleared(bs)} BY <2>1, <2>2
  <2>6. Filling(n + 1, H) BY <2>3, <2>4, <2>5
  <2> HIDE DEF Filling
  <2> QED BY <2>6
<1> HIDE DEF G
<1>4. Nat \subseteq G BY <1>2, <1>3, Inductive
<1>5. PICK F : Filling(N, F) BY <1>1, <1>4 DEF G
<1>6. F = [n \in 0..N |-> IF n = 0 THEN {Cleared(bs)} ELSE Initialising(bs, order[n], F[n - 1])]
  <2>1. \A n \in 0..N : n # 0 => n \in 1..N BY <1>1
  <2> HIDE DEF order, N
  <2>2. \A n \in 0..N : F[n] = IF n = 0 THEN {Cleared(bs)} ELSE Initialising(bs, order[n], F[n - 1])
    BY <1>1, <1>5, <2>1
  <2> QED BY <1>5, <2>2
<1> DEFINE L == FilledFcn(bs)
<1>7. L = CHOOSE loaded : loaded = [n \in 0..N |->
        IF n = 0 THEN {Cleared(bs)} ELSE Initialising(bs, order[n], loaded[n - 1])]
  BY DEF FilledFcn
<1>8. process_load(bs) = L[Len(bs)]
  BY DEF process_load, LoadedInOrder, FilledFcn, Initialising
<1> HIDE DEF L, order, N
<1>9. L = [n \in 0..N |-> IF n = 0 THEN {Cleared(bs)} ELSE Initialising(bs, order[n], L[n - 1])]
  BY <1>6, <1>7
<1>10. L[0] = {Cleared(bs)} BY <1>1, <1>9
<1>11. ASSUME NEW n \in 1..N PROVE L[n] = Initialising(bs, n, L[n - 1])
  <2>1. n \in 0..N /\ n # 0 BY <1>1
  <2>2. L[n] = Initialising(bs, order[n], L[n - 1]) BY <1>9, <2>1
  <2> QED BY <1>1, <2>2
<1> QED BY <1>8, <1>10, <1>11 DEF L, N

\* Each context of a loaded program has been initialised for its own branch, also where
\* the type was lost to the one before (line 204) in the meantime.
LEMMA LoadInitialises ==
  ASSUME NEW bs \in Seq(Branch), bs # << >>, NEW l \in process_load(bs)
  PROVE  /\ l \in [DOMAIN bs -> Bcontext]
         /\ \A j \in DOMAIN bs : l[j] \in bcontext_init(bs[j])
<1> DEFINE N == Len(bs)
           L == FilledFcn(bs)
           G == {n \in 0..N : \A x \in L[n] : /\ x \in Lists(N)
                                              /\ \A j \in 1..n : x[j] \in bcontext_init(bs[j])}
<1>1. N \in Nat /\ DOMAIN bs = 1..N /\ \A n \in 1..N : bs[n] \in Branch
  OBVIOUS
<1>2. /\ process_load(bs) = L[N] /\ L[0] = {Cleared(bs)}
      /\ \A n \in 1..N : L[n] = Initialising(bs, n, L[n - 1])
  BY FilledRecursion
<1> HIDE DEF L, N
<1>3. 0 \in G
  <2>1. Cleared(bs) = [j \in 1..N |-> bcontext_clear] BY DEF Cleared, N
  <2>2. bcontext_clear \in Bcontext BY ClearedContext DEF Clear
  <2>3. Cleared(bs) \in Lists(N) BY <2>1, <2>2 DEF Lists
  <2>4. 0 \in 0..N /\ 1..0 = {} BY <1>1
  <2> QED BY <1>2, <2>3, <2>4
<1>4. ASSUME NEW n \in 0..(N - 1), n \in G PROVE n + 1 \in G
  <2>1. n + 1 \in 1..N /\ n + 1 \in 0..N /\ (n + 1) - 1 = n BY <1>1
  <2>2. ASSUME NEW y \in L[n + 1]
        PROVE  /\ y \in Lists(N)
               /\ \A j \in 1..(n + 1) : y[j] \in bcontext_init(bs[j])
    <3>1. PICK x \in L[n], c \in bcontext_init(bs[n + 1]) : y = Initialised(x, n + 1, c)
      <4>1. L[n + 1] = Initialising(bs, n + 1, L[n]) BY <1>2, <2>1
      <4> QED BY <2>2, <4>1 DEF Initialising
    <3>2. x \in Lists(N) /\ \A j \in 1..n : x[j] \in bcontext_init(bs[j])
      BY <1>4
    <3>3. bs[n + 1] \in Branch BY <1>1, <2>1
    <3>4. c \in Bcontext BY <3>3, InitFits DEF Fits
    <3>5. /\ y \in Lists(N) /\ y[n + 1] = c
          /\ \A m \in 1..((n + 1) - 1) : y[m] = x[m]
      <4> DEFINE k == n + 1
      <4>1. k \in 1..N /\ y = Initialised(x, k, c) BY <2>1, <3>1
      <4> HIDE DEF k
      <4>2. /\ Initialised(x, k, c) \in Lists(N) /\ Initialised(x, k, c)[k] = c
            /\ \A m \in 1..(k - 1) : Initialised(x, k, c)[m] = x[m]
        <5>1. N \in Nat /\ x \in Lists(N) /\ k \in 1..N /\ c \in Bcontext
          BY <1>1, <3>2, <3>4, <4>1
        <5> QED BY ONLY <5>1, InitialisedPlace
      <4> QED BY <4>1, <4>2 DEF k
    <3>6. \A j \in 1..(n + 1) : j = n + 1 \/ (j \in 1..((n + 1) - 1) /\ j \in 1..n)
      OBVIOUS
    <3> QED BY <3>2, <3>5, <3>6
  <2> QED BY <2>1, <2>2
<1> HIDE DEF G
<1>5. 0..N \subseteq G BY <1>1, <1>3, <1>4, InductiveUpTo
<1>6. N \in G BY <1>1, <1>5
<1> QED BY <1>1, <1>2, <1>6 DEF G, Lists

-----------------------------------------------------------------------------
(* The engines of Branching that the contexts of a process stand for.      *)

Tally(k, j, c) ==
  IF Programs[k].branches # << >> /\ c.btype # Branches(k)[j].btype THEN -1
  ELSE Remaining(Branches(k)[j], c)

Tallies(k, l) == [j \in DOMAIN l |-> Tally(k, j, l[j])]

Counted == [i \in Slots |-> [j \in DOMAIN bcontexts[i] |-> Counting(i, j)]]

LEMMA CountedTallies ==
  /\ Counted = [i \in Slots |-> Tallies(Kind(i), bcontexts[i])]
  /\ Counted' = [i \in Slots |-> Tallies(Kind(i)', bcontexts'[i])]
  BY DEF Counted, Counting, Tallies, Tally, Kind

LEMMA BranchesOf ==
  ASSUME NEW k \in DOMAIN Programs
  PROVE  /\ Programs[k].branches \in Seq(Branch)
         /\ DOMAIN Branches(k) = 1..Len(Branches(k)) /\ Len(Branches(k)) \in Nat
         /\ \A j \in DOMAIN Branches(k) : Branches(k)[j] \in Branch
         /\ Programs[k].branches = << >> =>
              DOMAIN Branches(k) = {1} /\ Branches(k)[1] = ZeroBranch
         /\ Programs[k].branches # << >> => Branches(k) = Programs[k].branches
<1>1. Programs[k] \in Program
  BY ProgramsAssumption
<1>2. Programs[k].branches \in Seq(Branch)
  BY <1>1 DEF Program
<1>3. ZeroBranch \in Branch BY DEF ZeroBranch, Branch
<1>4. CASE Programs[k].branches = << >>
  <2>1. Branches(k) = <<ZeroBranch>> BY <1>4 DEF Branches
  <2>2. /\ DOMAIN <<ZeroBranch>> = 1..1 /\ Len(<<ZeroBranch>>) = 1
        /\ <<ZeroBranch>>[1] = ZeroBranch /\ 1..1 = {1}
    OBVIOUS
  <2> QED BY <1>2, <1>3, <1>4, <2>1, <2>2
<1>5. CASE Programs[k].branches # << >>
  BY <1>2, <1>5 DEF Branches
<1> QED BY <1>4, <1>5

\* A loaded program stands for engines whose counts have been drawn.
LEMMA LoadTallies ==
  ASSUME CodeEngines, NEW k \in DOMAIN Programs, NEW l \in Engines(k)
  PROVE  EngineOf(k, l) /\ Tallies(k, l) \in Drawn(Programs[k].branches)
<1> DEFINE bs == Programs[k].branches
<1>1. l \in process_load(bs) BY DEF CodeEngines
<1>2. bs \in Seq(Branch) BY BranchesOf
<1>3. CASE bs = << >>
  <2>1. DOMAIN Branches(k) = {1} /\ Branches(k)[1] = ZeroBranch BY <1>3, BranchesOf
  <2>2. l = [j \in {1} |-> bcontext_clear]
    <3>1. process_load(bs) = {Cleared(bs)}
      <4>1. Len(bs) = 0 BY <1>3
      <4> HIDE DEF bs
      <4> QED BY <1>2, <4>1, FilledRecursion
    <3>2. Cleared(bs) = [j \in 1..1 |-> bcontext_clear] BY <1>3 DEF Cleared
    <3>3. 1..1 = {1} OBVIOUS
    <3> QED BY <1>1, <3>1, <3>2, <3>3
  <2>3. bcontext_clear \in Bcontext BY ClearedContext DEF Clear
  <2>4. EngineOf(k, l) BY <1>3, <2>1, <2>2, <2>3, ClearedContext DEF EngineOf
  <2>5. Remaining(ZeroBranch, bcontext_clear) = 1
    <3>1. bcontext_clear.bvalue = TRUE /\ bcontext_clear.boffset = 0 /\ bcontext_clear.bcount = 0
          /\ bcontext_clear.brings[0] = 1
      BY OffsetZero DEF bcontext_clear, One
    <3>2. ZeroBranch.btype = "FOR" /\ 1 - 0 = 1 BY DEF ZeroBranch
    <3> QED BY <3>1, <3>2 DEF Remaining
  <2>6. Tallies(k, l) = [j \in {1} |-> 1]
    BY <1>3, <2>1, <2>2, <2>5 DEF Tallies, Tally
  <2>7. [j \in {1} |-> 1] = <<1>> OBVIOUS
  <2> QED BY <1>3, <2>4, <2>6, <2>7 DEF Drawn
<1>4. CASE bs # << >>
  <2>1. Branches(k) = bs /\ \A j \in DOMAIN bs : bs[j] \in Branch BY <1>4, BranchesOf
  <2>2. /\ l \in [DOMAIN bs -> Bcontext]
        /\ \A j \in DOMAIN bs : l[j] \in bcontext_init(bs[j])
    <3> HIDE DEF bs
    <3> QED BY <1>1, <1>2, <1>4, LoadInitialises
  <2>3. \A j \in DOMAIN bs : Fits(bs[j], l[j]) /\ Remaining(bs[j], l[j]) \in Draws(bs[j])
    BY <2>1, <2>2, InitFits
  <2>4. EngineOf(k, l) BY <1>4, <2>1, <2>2, <2>3 DEF EngineOf
  <2>5. \A j \in DOMAIN bs : Tally(k, j, l[j]) \in Draws(bs[j])
    BY <2>1, <2>3 DEF Tally, Fits
  <2>6. Tallies(k, l) = [j \in DOMAIN bs |-> Tally(k, j, l[j])] BY <2>2 DEF Tallies
  <2>7. Tallies(k, l) \in Drawn(bs)
    <3> HIDE DEF bs
    <3> QED BY <1>4, <2>5, <2>6 DEF Drawn
  <2> QED BY <2>4, <2>7
<1> QED BY <1>3, <1>4

\* What is said of decision d of context j, in the list l of program k.
Matches(k, l, j, d) ==
  /\ EngineOf(k, [l EXCEPT ![j] = d[2]])
  /\ Tallies(k, [l EXCEPT ![j] = d[2]]) = [Tallies(k, l) EXCEPT ![j] = Tally(k, j, d[2])]
  /\ <<d[1], Tally(k, j, d[2])>> \in Decisions(Branches(k)[j], Tallies(k, l)[j])

\* A decision of the contexts is one of the engines they stand for.
LEMMA DecideTallies ==
  ASSUME CodeEngines, NEW k \in DOMAIN Programs, NEW l, EngineOf(k, l),
         NEW j \in DOMAIN Branches(k), l[j].btype = "GOTO" => l[j].bcount + 1 < Forever,
         NEW d \in Decide(Branches(k)[j], l[j])
  PROVE  Matches(k, l, j, d)
<1> DEFINE b == Branches(k)[j]
<1>1. b \in Branch BY BranchesOf
<1>2. l \in [DOMAIN Branches(k) -> Bcontext] /\ l[j] \in Bcontext BY DEF EngineOf
<1>3. d \in bcontext_decide(b, l[j]) BY <1>1, <1>2 DEF CodeEngines
<1>4. Tallies(k, l)[j] = Tally(k, j, l[j]) BY <1>2 DEF Tallies
<1>5. /\ d[2] \in Bcontext
      /\ IF Programs[k].branches = << >> THEN Clear(d[2]) ELSE Fits(b, d[2])
      /\ <<d[1], Tally(k, j, d[2])>> \in Decisions(b, Tallies(k, l)[j])
  <2>1. CASE Programs[k].branches = << >>
    <3>1. b = ZeroBranch BY <2>1, BranchesOf
    <3>2. Clear(l[j]) BY <2>1 DEF EngineOf
    <3>3. /\ Clear(d[2])
          /\ <<d[1], Remaining(b, d[2])>> \in Decisions(b, Remaining(b, l[j]))
      <4> HIDE DEF b
      <4> QED BY <1>3, <3>1, <3>2, DecideClear
    <3>4. \A c : Tally(k, j, c) = Remaining(b, c) BY <2>1 DEF Tally
    <3> QED BY <1>4, <2>1, <3>3, <3>4 DEF Clear
  <2>2. CASE Programs[k].branches # << >>
    <3>1. Fits(b, l[j]) BY <2>2 DEF EngineOf
    <3>2. /\ Fits(b, d[2])
          /\ <<d[1], Remaining(b, d[2])>> \in Decisions(b, Remaining(b, l[j]))
      <4> HIDE DEF b
      <4> QED BY <1>1, <1>3, <3>1, DecideFits
    <3>3. \A c : Fits(b, c) => Tally(k, j, c) = Remaining(b, c) BY DEF Tally, Fits
    <3> QED BY <1>4, <2>2, <3>1, <3>2, <3>3 DEF Fits
  <2> QED BY <2>1, <2>2
<1> DEFINE m == [l EXCEPT ![j] = d[2]]
<1>6. /\ m \in [DOMAIN Branches(k) -> Bcontext] /\ m[j] = d[2]
      /\ \A h \in DOMAIN Branches(k) : h # j => m[h] = l[h]
  BY <1>2, <1>5
<1>7. EngineOf(k, m)
  BY <1>5, <1>6 DEF EngineOf
<1>8. Tallies(k, m) = [Tallies(k, l) EXCEPT ![j] = Tally(k, j, d[2])]
  <2> HIDE DEF m
  <2>1. DOMAIN m = DOMAIN l BY <1>2, <1>6
  <2>2. Tallies(k, m) = [h \in DOMAIN l |-> Tally(k, h, m[h])] BY <2>1 DEF Tallies
  <2>3. Tallies(k, l) = [h \in DOMAIN l |-> Tally(k, h, l[h])] BY DEF Tallies
  <2>4. \A h \in DOMAIN l : h # j => m[h] = l[h] BY <1>2, <1>6
  <2> QED BY <1>6, <2>2, <2>3, <2>4
<1> QED BY <1>5, <1>7, <1>8 DEF Matches

-----------------------------------------------------------------------------
(* Each step is one of the simulator with any pager and counted branches.  *)

\* What a step may start from.
RingInv == FramesInv /\ QueueInv /\ EnginesInv /\ TicksLeft

\* A processor gets process p with contexts l, the others keep theirs.
LEMMA ContextsChange ==
  ASSUME TypeOK, EnginesInv, NEW i \in Slots, NEW p, NEW l,
         pid' = [pid EXCEPT ![i] = p], bcontexts' = [bcontexts EXCEPT ![i] = l],
         queuetype' = queuetype,
         IF p = NoProcess THEN l = << >> ELSE EngineOf(queuetype[p], l)
  PROVE  EnginesInv' /\ Counted' = [Counted EXCEPT ![i] = Tallies(queuetype[p], l)]
<1>1. /\ pid \in [Slots -> 0..(QUEUESIZE - 1) \cup {NoProcess}]
      /\ bcontexts = [k \in Slots |-> bcontexts[k]]
  BY DEF TypeOK, EnginesInv
<1>2. /\ pid'[i] = p /\ bcontexts'[i] = l
      /\ \A k \in Slots \ {i} : pid'[k] = pid[k] /\ bcontexts'[k] = bcontexts[k]
  BY <1>1
<1>3. Kind(i)' = queuetype[p] /\ \A k \in Slots \ {i} : Kind(k)' = Kind(k)
  BY <1>2 DEF Kind
<1>4. bcontexts' = [k \in Slots |-> bcontexts'[k]] BY <1>1
<1>5. EnginesInv'
  BY <1>2, <1>3, <1>4 DEF EnginesInv
<1>6. \A k \in Slots : Counted[k] = Tallies(Kind(k), bcontexts[k])
  BY CountedTallies
<1>7. \A k \in Slots : Counted'[k] = Tallies(Kind(k)', bcontexts'[k])
  BY CountedTallies
<1>8. Counted = [k \in Slots |-> Counted[k]] /\ Counted' = [k \in Slots |-> Counted'[k]]
  BY DEF Counted
<1>9. Counted'[i] = Tallies(queuetype[p], l) /\ \A k \in Slots \ {i} : Counted'[k] = Counted[k]
  BY <1>2, <1>3, <1>6, <1>7
<1> QED BY <1>5, <1>8, <1>9

LEMMA ContextsKept ==
  ASSUME UNCHANGED <<queuetype, pid, bcontexts>>
  PROVE  (EnginesInv => EnginesInv') /\ Counted' = Counted
<1>1. Counted' = Counted BY DEF Counted, Counting, Kind
<1> QED BY <1>1 DEF EnginesInv, Kind

\* What the mapped actions say of the engines.
LEMMA MappedDequeue ==
  \A i : AnyPager!Dequeue(i) <=>
    /\ pc' = [pc EXCEPT ![i] = 0]
    /\ \/ /\ ~empty
          /\ pid' = [pid EXCEPT ![i] = queueend]
          /\ queueend' = queueend + 1
          /\ \E l \in Drawn(Programs[queuetype[queueend]].branches) :
               Counted' = [Counted EXCEPT ![i] = l]
       \/ /\ empty
          /\ pid' = [pid EXCEPT ![i] = NoProcess]
          /\ Counted' = [Counted EXCEPT ![i] = << >>]
          /\ UNCHANGED queueend
  BY DEF AnyPager!Dequeue, AnyPager!Engines, AnyPager!empty, empty,
         AnyPager!QUEUESIZE, QUEUESIZE, Counted

LEMMA MappedBranch ==
  \A i : AnyPager!StepBranch(i) <=>
    /\ Runs(i)
    /\ pc[i] \notin Programs[Kind(i)].exits
    /\ \E j \in DOMAIN Branches(Kind(i)) :
         LET b == Branches(Kind(i))[j]
         IN  /\ b.wherefrom = pc[i]
             /\ \E d \in Decisions(b, Counted[i][j]) :
                  LET next == IF d[1] THEN b.whereto ELSE pc[i] + 1
                  IN  /\ pc' = [pc EXCEPT ![i] = IF next >= Programs[Kind(i)].size THEN 0 ELSE next]
                      /\ Counted' = [Counted EXCEPT ![i][j] = d[2]]
    /\ UNCHANGED <<queueend, pid, frameVars>>
  BY DEF AnyPager!StepBranch, AnyPager!Runs, Runs, AnyPager!Turn, Turn, AnyPager!Kind, Kind,
         AnyPager!Needed, Needed, AnyPager!Branches, Branches, AnyPager!ZeroBranch, ZeroBranch,
         AnyPager!frameVars, frameVars, Counted

LEMMA MapDequeue ==
  ASSUME CodeEngines, RingInv, NEW i \in Slots, Dequeue(i), queuetype' = queuetype
  PROVE  EnginesInv' /\ AnyPager!Dequeue(i)
<1>1. TypeOK /\ EnginesInv BY DEF RingInv, FramesInv
<1>2. CASE ~empty
  <2>1. PICK l \in Engines(queuetype[queueend]) :
          /\ pid' = [pid EXCEPT ![i] = queueend] /\ queueend' = queueend + 1
          /\ bcontexts' = [bcontexts EXCEPT ![i] = l]
    BY <1>2 DEF Dequeue
  <2>2. queueend \in 0..(QUEUESIZE - 1)
    BY <1>1, <1>2, SizesAreNat DEF TypeOK, empty
  <2>3. queuetype[queueend] \in DOMAIN Programs BY <1>1, <2>2 DEF TypeOK
  <2>4. /\ EngineOf(queuetype[queueend], l)
        /\ Tallies(queuetype[queueend], l) \in Drawn(Programs[queuetype[queueend]].branches)
    BY <2>3, LoadTallies
  <2>5. queueend # NoProcess
    BY <2>2, SizesAreNat, NoProcessAssumption
  <2>6. /\ EnginesInv'
        /\ Counted' = [Counted EXCEPT ![i] = Tallies(queuetype[queueend], l)]
    BY <1>1, <2>1, <2>4, <2>5, ContextsChange
  <2>7. pc' = [pc EXCEPT ![i] = 0] BY DEF Dequeue
  <2> QED BY <1>2, <2>1, <2>4, <2>6, <2>7, MappedDequeue
<1>3. CASE empty
  <2>1. /\ pid' = [pid EXCEPT ![i] = NoProcess] /\ UNCHANGED queueend
        /\ bcontexts' = [bcontexts EXCEPT ![i] = << >>] /\ pc' = [pc EXCEPT ![i] = 0]
    BY <1>3 DEF Dequeue
  <2>2. /\ EnginesInv'
        /\ Counted' = [Counted EXCEPT ![i] = Tallies(queuetype[NoProcess], << >>)]
    BY <1>1, <2>1, ContextsChange
  <2>3. Tallies(queuetype[NoProcess], << >>) = << >> BY DEF Tallies
  <2> QED BY <1>3, <2>1, <2>2, <2>3, MappedDequeue
<1> QED BY <1>2, <1>3

LEMMA MapBranch ==
  ASSUME CodeEngines, RingInv, NEW i \in Slots, StepBranch(i)
  PROVE  EnginesInv' /\ AnyPager!StepBranch(i)
<1> DEFINE k == Kind(i)
           l == bcontexts[i]
<1>1. /\ TypeOK /\ EnginesInv /\ Runs(i) /\ pc[i] \notin Programs[k].exits
      /\ pid[i] # NoProcess /\ queuetype' = queuetype
      /\ UNCHANGED <<queueend, pid, frameVars>>
  BY DEF RingInv, FramesInv, StepBranch, Runs, Turn
<1>2. pid[i] \in 0..(QUEUESIZE - 1) /\ k \in DOMAIN Programs /\ k = queuetype[pid[i]]
  BY <1>1 DEF TypeOK, Kind
<1>3. EngineOf(k, l) /\ DOMAIN l = DOMAIN Branches(k)
  BY <1>1 DEF EnginesInv, EngineOf
<1>4. PICK j \in DOMAIN Branches(k) :
        /\ Branches(k)[j].wherefrom = pc[i]
        /\ \E d \in Decide(Branches(k)[j], l[j]) :
             LET next == IF d[1] THEN Branches(k)[j].whereto ELSE pc[i] + 1
             IN  /\ pc' = [pc EXCEPT ![i] = IF next >= Programs[k].size THEN 0 ELSE next]
                 /\ bcontexts' = [bcontexts EXCEPT ![i][j] = d[2]]
  BY DEF StepBranch
<1>5. PICK d \in Decide(Branches(k)[j], l[j]) :
        LET next == IF d[1] THEN Branches(k)[j].whereto ELSE pc[i] + 1
        IN  /\ pc' = [pc EXCEPT ![i] = IF next >= Programs[k].size THEN 0 ELSE next]
            /\ bcontexts' = [bcontexts EXCEPT ![i][j] = d[2]]
  BY <1>4
<1>6. l[j].btype = "GOTO" => l[j].bcount + 1 < Forever
  BY <1>1, <1>3 DEF RingInv, TicksLeft
<1> DEFINE m == [l EXCEPT ![j] = d[2]]
           r == Tally(k, j, d[2])
<1>7. /\ EngineOf(k, m) /\ Tallies(k, m) = [Tallies(k, l) EXCEPT ![j] = r]
      /\ <<d[1], r>> \in Decisions(Branches(k)[j], Tallies(k, l)[j])
  <2>1. Matches(k, l, j, d)
    <3> HIDE DEF k, l
    <3> QED BY <1>2, <1>3, <1>6, DecideTallies
  <2> HIDE DEF k, l
  <2> QED BY <2>1 DEF Matches
<1>8. bcontexts' = [bcontexts EXCEPT ![i] = m]
  BY <1>1, <1>5 DEF EnginesInv
<1>9. pid' = [pid EXCEPT ![i] = pid[i]] BY <1>1 DEF TypeOK
<1>10. EnginesInv' /\ Counted' = [Counted EXCEPT ![i] = Tallies(k, m)]
  <2> HIDE DEF m, r, k, l
  <2>1. IF pid[i] = NoProcess THEN m = << >> ELSE EngineOf(queuetype[pid[i]], m)
    BY <1>1, <1>2, <1>7
  <2>2. PICK p, x : p = pid[i] /\ x = m OBVIOUS
  <2>3. pid' = [pid EXCEPT ![i] = p] /\ bcontexts' = [bcontexts EXCEPT ![i] = x]
    BY <1>8, <1>9, <2>2
  <2>4. IF p = NoProcess THEN x = << >> ELSE EngineOf(queuetype[p], x)
    BY <2>1, <2>2
  <2>5. EnginesInv' /\ Counted' = [Counted EXCEPT ![i] = Tallies(queuetype[p], x)]
    <3>1. TypeOK /\ EnginesInv /\ queuetype' = queuetype BY <1>1
    <3> QED BY <2>3, <2>4, <3>1, ContextsChange
  <2> QED BY <1>2, <2>2, <2>5
<1>11. Counted[i] = Tallies(k, l) /\ DOMAIN Counted = Slots
  BY CountedTallies
<1>12. Counted' = [Counted EXCEPT ![i][j] = r]
  <2> HIDE DEF r, m, l, k
  <2> QED BY <1>7, <1>10, <1>11
<1> DEFINE e == <<d[1], r>>
<1>13. e[1] = d[1] /\ e[2] = r OBVIOUS
<1>14. \E x \in Decisions(Branches(k)[j], Counted[i][j]) :
         LET next == IF x[1] THEN Branches(k)[j].whereto ELSE pc[i] + 1
         IN  /\ pc' = [pc EXCEPT ![i] = IF next >= Programs[k].size THEN 0 ELSE next]
             /\ Counted' = [Counted EXCEPT ![i][j] = x[2]]
  <2>1. e \in Decisions(Branches(k)[j], Counted[i][j]) BY <1>7, <1>11
  <2> HIDE DEF e, r, l, k, m
  <2> QED BY <1>5, <1>12, <1>13, <2>1
<1> QED BY <1>1, <1>4, <1>10, <1>14, MappedBranch

LEMMA MapStep ==
  ASSUME CodeEngines, RingInv, [Next]_vars
  PROVE  EnginesInv' /\ [AnyPager!Next]_(AnyPager!vars)
<1>1. TypeOK /\ EnginesInv BY DEF RingInv, FramesInv
<1>2. \A i : (AnyPager!Turn(i) <=> Turn(i)) /\ (AnyPager!Runs(i) <=> Runs(i))
  BY DEF AnyPager!Turn, Turn, AnyPager!Runs, Runs, AnyPager!Needed, Needed
<1>3. AnyPager!Slots = Slots /\ AnyPager!Pages = Pages /\ AnyPager!AllOut = AllOut
  BY DEF AnyPager!Slots, Slots, AnyPager!Pages, Pages, AnyPager!AllOut, AllOut, AnyPager!Out, Out
<1>4. (AnyPager!frameVars' = AnyPager!frameVars) <=> (frameVars' = frameVars)
  BY DEF AnyPager!frameVars, frameVars
<1>5. ASSUME NEW i \in Slots, process_step(i)
      PROVE  EnginesInv' /\ AnyPager!process_step(i)
  <2>1. CASE StepEmpty(i)
    <3>1. EnginesInv' /\ AnyPager!Dequeue(i)
      BY <2>1, MapDequeue DEF StepEmpty, Turn
    <3>2. AnyPager!StepEmpty(i)
      BY <1>2, <1>4, <2>1, <3>1 DEF StepEmpty, AnyPager!StepEmpty
    <3> QED BY <3>1, <3>2 DEF AnyPager!process_step
  <2>2. CASE StepExit(i)
    <3>1. EnginesInv' /\ AnyPager!Dequeue(i)
      BY <2>2, MapDequeue DEF StepExit, Runs, Turn
    <3>2. AnyPager!Kind(i) = Kind(i) /\ AnyPager!Cardinality(AnyPager!Holding(i)) = Cardinality(Holding(i))
      BY DEF AnyPager!Kind, Kind, AnyPager!Cardinality, Cardinality, AnyPager!Holding, Holding,
             AnyPager!Pages, Pages
    <3>3. AnyPager!StepExit(i)
      BY <1>2, <1>3, <2>2, <3>1, <3>2 DEF StepExit, AnyPager!StepExit
    <3> QED BY <3>1, <3>3 DEF AnyPager!process_step
  <2>3. CASE StepBranch(i)
    BY <2>3, MapBranch DEF AnyPager!process_step
  <2>4. CASE StepBlocked(i)
    <3>1. UNCHANGED <<queuetype, pid, bcontexts>> BY <2>4 DEF StepBlocked, Turn, processVars
    <3>2. EnginesInv' /\ Counted' = Counted BY <1>1, <3>1, ContextsKept
    <3>3. AnyPager!StepBlocked(i) <=>
            /\ Turn(i)
            /\ pid[i] # NoProcess /\ pages[i][Needed(i)] # 0
            /\ UNCHANGED <<queueend, pid, pc, Counted, frameVars>>
      BY DEF AnyPager!StepBlocked, AnyPager!Turn, Turn, AnyPager!Needed, Needed,
             AnyPager!processVars, AnyPager!frameVars, frameVars, Counted
    <3> QED BY <2>4, <3>2, <3>3 DEF StepBlocked, processVars, AnyPager!process_step
  <2>5. CASE StepNext(i)
    <3>1. UNCHANGED <<queuetype, pid, bcontexts>> BY <2>5 DEF StepNext, Runs, Turn
    <3>2. EnginesInv' /\ Counted' = Counted BY <1>1, <3>1, ContextsKept
    <3>3. AnyPager!StepNext(i) <=>
            /\ Runs(i)
            /\ pc[i] \notin Programs[Kind(i)].exits
            /\ \A j \in DOMAIN Branches(Kind(i)) : Branches(Kind(i))[j].wherefrom # pc[i]
            /\ pc' = [pc EXCEPT ![i] = IF pc[i] + 1 > Programs[Kind(i)].size THEN 0 ELSE pc[i] + 1]
            /\ UNCHANGED <<queueend, pid, Counted, frameVars>>
      BY DEF AnyPager!StepNext, AnyPager!Runs, Runs, AnyPager!Turn, Turn, AnyPager!Kind, Kind,
             AnyPager!Needed, Needed, AnyPager!Branches, Branches, AnyPager!ZeroBranch, ZeroBranch,
             AnyPager!frameVars, frameVars, Counted
    <3> QED BY <2>5, <3>2, <3>3 DEF StepNext, AnyPager!process_step
  <2> QED BY <1>5, <2>1, <2>2, <2>3, <2>4, <2>5 DEF process_step
<1>6. CASE LoopHead
  <2>1. UNCHANGED <<queuetype, pid, bcontexts>> BY <1>6 DEF LoopHead, processVars
  <2>2. EnginesInv' /\ Counted' = Counted BY <1>1, <2>1, ContextsKept
  <2>3. AnyPager!LoopHead <=>
          /\ phase = "loop"
          /\ phase' = IF alldone THEN "ended" ELSE "step"
          /\ turn' = 0
          /\ UNCHANGED <<queuetype, queueend, pid, pc, Counted, frameVars>>
    BY DEF AnyPager!LoopHead, AnyPager!alldone, alldone, AnyPager!Slots, Slots,
           AnyPager!processVars, AnyPager!frameVars, frameVars, Counted
  <2>4. AnyPager!LoopHead BY <1>6, <2>2, <2>3 DEF LoopHead, processVars
  <2> QED BY <2>2, <2>4 DEF AnyPager!Next, AnyPager!Simulate
<1>7. CASE allage
  <2>1. UNCHANGED <<queuetype, pid, bcontexts>> BY <1>7 DEF allage, processVars
  <2>2. EnginesInv' /\ Counted' = Counted BY <1>1, <2>1, ContextsKept
  <2>3. AnyPager!allage <=>
          /\ phase = "age" /\ phase' = "pager"
          /\ pages' = [i \in Slots |-> IF pid[i] = NoProcess THEN pages[i]
                                       ELSE [g \in Pages |-> Age(pages[i][g])]]
          /\ pagesavail' = pagesavail + Cardinality(Expiring)
          /\ UNCHANGED <<queuetype, queueend, pid, pc, Counted, turn>>
    BY DEF AnyPager!allage, AnyPager!Slots, Slots, AnyPager!Pages, Pages, AnyPager!Age, Age,
           AnyPager!Expiring, Expiring, AnyPager!Cardinality, Cardinality, AnyPager!processVars, Counted
  <2>4. AnyPager!allage BY <1>7, <2>2, <2>3 DEF allage, processVars
  <2> QED BY <2>2, <2>4 DEF AnyPager!Next, AnyPager!Simulate
<1>8. CASE CallPager
  <2>1. UNCHANGED <<queuetype, pid, bcontexts>> BY <1>8 DEF CallPager, PagerReturns, processVars
  <2>2. EnginesInv' /\ Counted' = Counted BY <1>1, <2>1, ContextsKept
  <2>3. AnyPager!PagerReturns <=>
          phase = "pager" /\ phase' = "loop" /\ UNCHANGED <<queuetype, queueend, pid, pc, Counted, turn>>
    BY DEF AnyPager!PagerReturns, AnyPager!processVars, Counted
  <2>4. AnyPager!PagerReturns BY <1>8, <2>2, <2>3 DEF CallPager, PagerReturns, processVars
  <2>5. AnyPager!CallPager <=>
          /\ AnyPager!PagerReturns
          /\ \E outs \in SUBSET {x \in Slots \X Pages : Addressed(x[1], x[2]) /\ pages[x[1]][x[2]] = 0} :
             \E ins \in SUBSET {x \in Slots \X Pages : Addressed(x[1], x[2]) /\ pages[x[1]][x[2]] = Out} :
                /\ Cardinality(ins) <= pagesavail
                /\ pages' = [i \in Slots |-> [g \in Pages |->
                               IF <<i, g>> \in outs THEN -1
                               ELSE IF <<i, g>> \in ins THEN PAGEWAIT ELSE pages[i][g]]]
                /\ pagesavail' = pagesavail - Cardinality(ins)
    BY DEF AnyPager!CallPager, AnyPager!Slots, Slots, AnyPager!Pages, Pages, AnyPager!Addressed,
           Addressed, AnyPager!Out, Out, AnyPager!Cardinality, Cardinality
  <2>6. AnyPager!CallPager BY <1>8, <2>4, <2>5 DEF CallPager
  <2> QED BY <2>2, <2>6 DEF AnyPager!Next
<1>9. CASE UNCHANGED vars
  <2>1. UNCHANGED <<queuetype, pid, bcontexts>> BY <1>9 DEF vars, processVars
  <2>2. EnginesInv' /\ Counted' = Counted BY <1>1, <2>1, ContextsKept
  <2>3. (AnyPager!vars' = AnyPager!vars) <=>
          UNCHANGED <<queuetype, <<queueend, pid, pc, Counted>>, frameVars, phase, turn>>
    BY DEF AnyPager!vars, AnyPager!processVars, AnyPager!frameVars, frameVars, Counted
  <2>4. AnyPager!vars' = AnyPager!vars BY <1>9, <2>2, <2>3 DEF vars, processVars
  <2> QED BY <2>2, <2>4
<1>10. ASSUME NEW i \in Slots, process_step(i) PROVE EnginesInv' /\ AnyPager!Next
  BY <1>3, <1>5, <1>10 DEF AnyPager!Next, AnyPager!Simulate
<1> QED BY <1>6, <1>7, <1>8, <1>9, <1>10 DEF Next, Simulate

LEMMA MapInit ==
  ASSUME CodeEngines, Init
  PROVE  EnginesInv /\ AnyPager!Init
<1>1. /\ queuetype \in [0..(QUEUESIZE - 1) -> DOMAIN Programs]
      /\ pid = [i \in Slots |-> IF i < QUEUESIZE THEN i ELSE NoProcess]
      /\ bcontexts = [i \in Slots |-> bcontexts[i]]
      /\ \A i \in Slots : IF i < QUEUESIZE THEN bcontexts[i] \in Engines(queuetype[i])
                          ELSE bcontexts[i] = << >>
  BY DEF Init, Shuffles
<1>2. \A i \in Slots : i < QUEUESIZE =>
        /\ i \in 0..(QUEUESIZE - 1) /\ i # NoProcess /\ queuetype[i] \in DOMAIN Programs
  <2>1. \A i \in Slots : i \in Nat BY SizesAreNat DEF Slots
  <2>2. \A i \in Slots : i < QUEUESIZE => i \in 0..(QUEUESIZE - 1) BY <2>1, SizesAreNat
  <2>3. \A i \in Slots : i # NoProcess BY <2>1, NoProcessAssumption
  <2> QED BY <1>1, <2>2, <2>3
<1>3. \A i \in Slots : Counted[i] = Tallies(Kind(i), bcontexts[i])
  BY CountedTallies
<1>4. \A i \in Slots : i < QUEUESIZE =>
        /\ pid[i] = i /\ Kind(i) = queuetype[i] /\ EngineOf(Kind(i), bcontexts[i])
        /\ Counted[i] \in Drawn(Programs[queuetype[i]].branches)
  <2> SUFFICES ASSUME NEW i \in Slots, i < QUEUESIZE
               PROVE  /\ pid[i] = i /\ Kind(i) = queuetype[i] /\ EngineOf(Kind(i), bcontexts[i])
                      /\ Counted[i] \in Drawn(Programs[queuetype[i]].branches)
    OBVIOUS
  <2>1. pid[i] = i /\ Kind(i) = queuetype[i] BY <1>1 DEF Kind
  <2>2. bcontexts[i] \in Engines(queuetype[i]) /\ queuetype[i] \in DOMAIN Programs
    BY <1>1, <1>2
  <2>3. /\ EngineOf(queuetype[i], bcontexts[i])
        /\ Tallies(queuetype[i], bcontexts[i]) \in Drawn(Programs[queuetype[i]].branches)
    BY <2>2, LoadTallies
  <2> QED BY <1>3, <2>1, <2>3
<1>5. \A i \in Slots : ~(i < QUEUESIZE) =>
        pid[i] = NoProcess /\ bcontexts[i] = << >> /\ Counted[i] = << >>
  <2>1. \A k : Tallies(k, << >>) = << >> BY DEF Tallies
  <2> QED BY <1>1, <1>3, <2>1
<1>6. EnginesInv
  <2>1. ASSUME NEW i \in Slots
        PROVE  IF pid[i] = NoProcess THEN bcontexts[i] = << >> ELSE EngineOf(Kind(i), bcontexts[i])
    BY <1>2, <1>4, <1>5
  <2> QED BY <1>1, <2>1 DEF EnginesInv
<1> DEFINE All == (UNION {Drawn(Programs[k].branches) : k \in DOMAIN Programs}) \cup {<< >>}
<1>7. AnyPager!Init <=>
        /\ queuetype \in Shuffles
        /\ queueend = IF procs < QUEUESIZE THEN procs ELSE QUEUESIZE
        /\ pid = [i \in Slots |-> IF i < QUEUESIZE THEN i ELSE NoProcess]
        /\ pc = [i \in Slots |-> 0]
        /\ Counted \in [Slots -> All]
        /\ \A i \in Slots : IF i < QUEUESIZE THEN Counted[i] \in Drawn(Programs[queuetype[i]].branches)
                            ELSE Counted[i] = << >>
        /\ pages = [i \in Slots |-> AllOut]
        /\ pagesavail = PHYSICALPAGES
        /\ phase = "loop" /\ turn = 0
  BY DEF AnyPager!Init, AnyPager!Shuffles, Shuffles, AnyPager!QUEUESIZE, QUEUESIZE,
         AnyPager!Slots, Slots, AnyPager!Engines, AnyPager!AllOut, AllOut, AnyPager!Pages, Pages,
         AnyPager!Out, Out, AnyPager!Cardinality, Cardinality, Counted
<1>8. Counted \in [Slots -> All]
  <2>1. ASSUME NEW i \in Slots PROVE Counted[i] \in All
    <3>1. CASE i < QUEUESIZE
      <4>1. queuetype[i] \in DOMAIN Programs /\ Counted[i] \in Drawn(Programs[queuetype[i]].branches)
        BY <1>2, <1>4, <3>1
      <4> QED BY <4>1
    <3>2. CASE ~(i < QUEUESIZE)
      BY <1>5, <3>2
    <3> QED BY <3>1, <3>2
  <2>2. Counted = [i \in Slots |-> Counted[i]] BY DEF Counted
  <2> HIDE DEF All
  <2> QED BY <2>1, <2>2
<1> HIDE DEF All
<1>9. AnyPager!Init BY <1>4, <1>5, <1>7, <1>8 DEF Init
<1> QED BY <1>6, <1>9

\* The simulator with the rings of the code is the simulator with counted branches, until
\* a GOTO has been taken 2^31-1 times, which no program of programs.c does.
LEMMA RingsCount == CodeEngines => (Spec /\ []TicksLeft => ImplementsSimulator)
<1> SUFFICES ASSUME CodeEngines PROVE Spec /\ []TicksLeft => ImplementsSimulator
  OBVIOUS
<1>1. Init => FramesInv /\ QueueInv /\ EnginesInv /\ AnyPager!Init
  BY InitFrames, InitQueue, MapInit DEF FramesInv, QueueInv
<1>2. FramesInv /\ QueueInv /\ EnginesInv /\ TicksLeft /\ [Next]_vars =>
        FramesInv' /\ QueueInv' /\ EnginesInv' /\ [AnyPager!Next]_(AnyPager!vars)
  <2> SUFFICES ASSUME RingInv, [Next]_vars
               PROVE  FramesInv' /\ QueueInv' /\ EnginesInv' /\ [AnyPager!Next]_(AnyPager!vars)
    BY DEF RingInv
  <2>1. FramesInv' BY FramesStep DEF RingInv
  <2>2. QueueInv' BY <2>1, QueueStep DEF RingInv, FramesInv
  <2> QED BY <2>1, <2>2, MapStep
<1> QED BY <1>1, <1>2, PTL DEF Spec, ImplementsSimulator, AnyPager!Spec

\* Each executable implements the simulator with any pager and counted branches, for any
\* programs and sizes: no ring, offset or count of simulator.c:181-249 and no type lost to
\* the context before (line 204) lets a FOR go on after its count or stop before it.
THEOREM ExecutablesImplement ==
  CodeEngines => (LinkedSpec /\ []TicksLeft => ImplementsSimulator)
  BY AllKeepToInterface, RingsCount, PTL

=============================================================================
