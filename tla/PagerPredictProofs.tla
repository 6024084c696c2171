--------------------------- MODULE PagerPredictProofs --------------------------
(***************************************************************************)
(* Theorems about the predictive pager, for any programs, branches and     *)
(* sizes.  It serves those that wait, as the LRU pager does, but a guess   *)
(* ends the turns of a pageit; that none of the reports of a standstill is *)
(* a deadlock needs to know what the processors without a turn hold.       *)
(***************************************************************************)
EXTENDS PagerPredict, SimulatorProofs, Induction

-----------------------------------------------------------------------------
(* The invariant.                                                          *)

\* A process has nothing in memory, waits for a page that is out, and would guess.
Hungry(k) ==
  /\ pid[k] # NoProcess /\ pages[k][Needed(k)] = Out
  /\ \A g \in Pages : pages[k][g] # 0
  /\ Predicted(previousAccess[k], Needed(k)) # {}

\* Its guess will end the turns, but there is a frame for it, or processors before it,
\* which have their turn first, hold some.
Fed == \A k \in Slots : Hungry(k) => pagesavail > 0 \/ \E x \in Held : x[1] < k

PredictInv == ServingInv /\ Fed /\ previousAccess \in [Slots -> Nat]

\* Nothing is predicted from the page before, nor from an empty guess.
LEMMA NoPattern ==
  ASSUME NEW page \in Nat
  PROVE  Predicted(0, page) = {} /\ Predicted(page + 1, page) = {}
<1>1. \A last \in Nat :
        /\ ~(last = 3 /\ page = 0) /\ ~(last = 9 /\ page = 0)
        /\ ~(last = 13 /\ page = 8) /\ ~(last = 8 /\ page = 13)
        /\ ~(last = 13 /\ page = 0)
        /\ ~(last = 3 /\ page = 10) /\ ~(last = 3 /\ page = 11)
        => Predicted(last, page) = {}
  BY DEF Predicted
<1> QED BY <1>1

LEMMA InitPredict == PredictInit => PredictInv
<1> SUFFICES ASSUME PredictInit PROVE PredictInv
  OBVIOUS
<1>1. Init /\ previousAccess \in [Slots -> Nat] /\ \A k \in Slots : previousAccess[k] = 0
  BY DEF PredictInit
<1>2. ServingInv BY <1>1, InitServing
<1>3. ASSUME NEW k \in Slots, Hungry(k) PROVE FALSE
  <2>1. Needed(k) \in Pages
    BY <1>2, <1>3, NeededIsPage DEF Hungry, ServingInv, FramesInv
  <2>2. Needed(k) \in Nat BY <2>1 DEF Pages
  <2> QED BY <1>1, <1>3, <2>2, NoPattern DEF Hungry
<1> QED BY <1>1, <1>2, <1>3 DEF PredictInv, Fed

-----------------------------------------------------------------------------
(* The simulator keeps it: when a process that holds a frame ends, there   *)
(* is a frame.                                                             *)

\* Steps that move no page and leave those that wait where they are.
LEMMA SameHungry ==
  ASSUME PredictInv, ServingInv', UNCHANGED <<previousAccess, pages>>,
         \A k \in Slots : Hungry(k)' => Needed(k)' = Needed(k) /\ pid'[k] = pid[k]
  PROVE  Fed'
<1>1. Held' = Held BY DEF Held
<1>2. pagesavail' = pagesavail
  <2>1. /\ pagesavail \in Nat /\ pagesavail' \in Nat /\ Cardinality(Held) \in Nat
        /\ pagesavail + Cardinality(Held) = PHYSICALPAGES
        /\ pagesavail' + Cardinality(Held') = PHYSICALPAGES
    <3>1. pagesavail \in 0..PHYSICALPAGES /\ pagesavail' \in 0..PHYSICALPAGES
      BY DEF PredictInv, ServingInv, FramesInv, TypeOK
    <3>2. Cardinality(Held) \in Nat BY HeldFinite DEF Held, HeldIn
    <3>3. FramesConserved /\ FramesConserved' BY DEF PredictInv, ServingInv, FramesInv
    <3> QED BY <3>1, <3>2, <3>3, SizesAssumption DEF FramesConserved
  <2> QED BY <1>1, <2>1
<1>3. \A k \in Slots : Hungry(k)' => Hungry(k)
  BY DEF Hungry
<1> QED BY <1>1, <1>2, <1>3 DEF PredictInv, Fed

LEMMA TickFed ==
  ASSUME PredictInv, ServingInv', allage, UNCHANGED previousAccess
  PROVE  Fed'
<1>1. /\ pages \in [Slots -> [Pages -> PageState]] /\ pagesavail \in Nat
      /\ pid' = pid /\ pagesavail' = pagesavail + Cardinality(Expiring)
      /\ \A i \in Slots, g \in Pages :
           pages'[i][g] = IF pid[i] = NoProcess THEN pages[i][g] ELSE Age(pages[i][g])
      /\ \A i \in Slots : Needed(i)' = Needed(i)
  BY DEF PredictInv, ServingInv, FramesInv, TypeOK, allage, processVars, Needed
<1>2. IsFiniteSet(Expiring) /\ Cardinality(Expiring) \in Nat
  <2>1. Expiring \in SUBSET (Slots \X Pages) BY DEF Expiring
  <2>2. IsFiniteSet(Expiring) BY <2>1, FiniteTables, FS_Subset
  <2> QED BY <2>2, FS_CardinalityType
<1>3. ASSUME NEW k \in Slots, Hungry(k)' PROVE pagesavail' > 0 \/ \E x \in Held' : x[1] < k
  <2>1. pid[k] # NoProcess /\ Needed(k) \in Pages
    BY <1>1, <1>3, NeededIsPage DEF Hungry, PredictInv, ServingInv, FramesInv
  <2>2. \A g \in Pages : pages[k][g] \in PageState /\ pages'[k][g] = Age(pages[k][g])
    BY <1>1, <2>1
  <2>3. Age(0) = 0 /\ \A s \in PageState : Age(s) = Out => s = Out \/ s \in -PAGEWAIT..-1
    BY SizesAreNat DEF PageState, Age
  <2>4. pages[k][Needed(k)] \notin -PAGEWAIT..-1
    BY <2>1, <2>2, SizesAreNat DEF PredictInv, ServingInv, Waits, PageState
  <2>5. Hungry(k)
    BY <1>1, <1>3, <2>1, <2>2, <2>3, <2>4 DEF Hungry
  <2>6. CASE pagesavail > 0 BY <1>1, <1>2, <2>6
  <2>7. ASSUME NEW x \in Held, x[1] < k PROVE pagesavail' > 0 \/ \E y \in Held' : y[1] < k
    <3>1. /\ x \in Slots \X Pages /\ x[1] \in Slots /\ x[2] \in Pages
          /\ pages[x[1]][x[2]] >= -PAGEWAIT
      BY DEF Held
    <3>2. CASE pages'[x[1]][x[2]] >= -PAGEWAIT
      <4>1. x \in Held' BY <3>1, <3>2 DEF Held
      <4> QED BY <2>7, <4>1
    <3>3. CASE ~(pages'[x[1]][x[2]] >= -PAGEWAIT)
      <4>1. pages[x[1]][x[2]] \in PageState BY <1>1, <3>1
      <4>2. pid[x[1]] # NoProcess /\ pages[x[1]][x[2]] = -PAGEWAIT
        BY <1>1, <3>1, <3>3, <4>1, AgeHolds
      <4>3. x \in Expiring BY <3>1, <4>2 DEF Expiring
      <4>4. Cardinality(Expiring) # 0 BY <1>2, <4>3, FS_EmptySet
      <4>5. \A a, b \in Nat : b # 0 => a + b > 0 OBVIOUS
      <4>6. pagesavail' > 0 BY <1>1, <1>2, <4>4, <4>5
      <4> QED BY <4>6
    <3> QED BY <3>2, <3>3
  <2> QED BY <2>5, <2>6, <2>7 DEF PredictInv, Fed
<1> QED BY <1>3 DEF Fed

LEMMA ExitFed ==
  ASSUME PredictInv, ServingInv', NEW i \in Slots, StepExit(i)
  PROVE  Fed'
<1>1. /\ pid[i] # NoProcess /\ pages[i][Needed(i)] = 0
      /\ pagesavail' = pagesavail + Cardinality(Holding(i)) /\ pagesavail \in Nat
  BY DEF StepExit, Runs, PredictInv, ServingInv, FramesInv, TypeOK
<1>2. Needed(i) \in Pages
  BY <1>1, NeededIsPage DEF PredictInv, ServingInv, FramesInv
<1>3. Needed(i) \in Holding(i) BY <1>1, <1>2, SizesAreNat DEF Holding
<1>4. IsFiniteSet(Holding(i))
  <2>1. Holding(i) \in SUBSET Pages BY DEF Holding
  <2> QED BY <2>1, FiniteTables, FS_Subset
<1>5. Cardinality(Holding(i)) \in Nat /\ Cardinality(Holding(i)) # 0
  BY <1>3, <1>4, FS_CardinalityType, FS_EmptySet
<1>6. pagesavail' > 0 BY <1>1, <1>5
<1> QED BY <1>6 DEF Fed

LEMMA SimulateFed ==
  ASSUME PredictInv, ServingInv', Simulate, UNCHANGED previousAccess
  PROVE  Fed'
<1>1. CASE LoopHead
  BY <1>1, SameHungry DEF LoopHead, processVars, frameVars, Needed
<1>2. CASE allage
  BY <1>2, TickFed
<1>3. ASSUME NEW i \in Slots, process_step(i) PROVE Fed'
  <2>1. CASE StepExit(i) BY <2>1, ExitFed
  <2>2. CASE ~StepExit(i)
    <3>1. /\ pages' = pages /\ pid' = pid
          /\ \A k \in Slots \ {i} : pc'[k] = pc[k]
      BY <1>3, <2>2, StepOfOne DEF PredictInv, ServingInv
    <3>2. ASSUME NEW k \in Slots, Hungry(k)' PROVE Needed(k)' = Needed(k)
      <4>1. CASE k # i BY <3>1, <4>1 DEF Needed
      <4>2. CASE k = i
        <5>1. ~StepEmpty(i) BY <3>1, <3>2, <4>2 DEF StepEmpty, Hungry
        <5>2. CASE StepBlocked(i) BY <4>2, <5>2 DEF StepBlocked, processVars, Needed
        <5>3. CASE StepBranch(i) \/ StepNext(i)
          <6>1. pid[i] # NoProcess /\ pages[i][Needed(i)] = 0
            BY <5>3 DEF StepBranch, StepNext, Runs
          <6>2. Needed(i) \in Pages
            BY <6>1, NeededIsPage DEF PredictInv, ServingInv, FramesInv
          <6> QED BY <3>1, <3>2, <4>2, <6>1, <6>2 DEF Hungry
        <5> QED BY <1>3, <2>2, <5>1, <5>2, <5>3 DEF process_step
      <4> QED BY <4>1, <4>2
    <3> QED BY <3>1, <3>2, SameHungry
  <2> QED BY <2>1, <2>2
<1> QED BY <1>1, <1>2, <1>3 DEF Simulate

-----------------------------------------------------------------------------
(* One turn.                                                               *)

\* A process that fails finds no frame: it gives up its pages, and nothing comes in.
LEMMA GivenUp ==
  ASSUME ServingInv, NEW n \in Slots, NEW t, ServedUpTo(n, t), pid[n] # NoProcess,
         t.pages[n][Needed(n)] = Out, t.avail = 0, NEW wanted, NEW u,
         u = Bring(GiveUp(t, n), n, wanted)
  PROVE  /\ TurnEffect(n, t, u) /\ u.avail = 0 /\ u.pages[n][Needed(n)] = Out
         /\ \A g \in Pages : u.pages[n][g] < 0
         /\ \A g \in Pages : pages[n][g] = 0 => u.pages[n][g] = -1
<1>1. /\ t \in [pages : [Slots -> [Pages -> PageState]], avail : 0..pagesavail]
      /\ Addressed(n, Needed(n)) /\ Needed(n) \in Pages /\ t.pages[n] = pages[n]
  BY Asked DEF ServedUpTo, Addressed
<1> DEFINE given == [g \in Pages |-> IF t.pages[n][g] = 0 THEN -1 ELSE t.pages[n][g]]
           gt    == GiveUp(t, n)
<1>2. gt = [pages |-> [t.pages EXCEPT ![n] = given], avail |-> 0]
  <2>1. gt = [t EXCEPT !.pages = [t.pages EXCEPT ![n] = given]] BY DEF GiveUp
  <2>2. \A p : [t EXCEPT !.pages = p] = [pages |-> p, avail |-> 0] BY <1>1
  <2> HIDE DEF gt, given
  <2> QED BY <2>1, <2>2
<1>3. gt.avail = 0 /\ gt.pages = [t.pages EXCEPT ![n] = given] /\ gt.pages[n] = given
  BY <1>1, <1>2
<1> HIDE DEF gt
<1>4. u = [pages |-> [gt.pages EXCEPT ![n] = given], avail |-> 0]
  <2> DEFINE out    == {g \in wanted \cap Pages : gt.pages[n][g] = Out}
             served == {g \in out : Cardinality({h \in out : h < g}) < gt.avail}
  <2>1. u = [pages |-> [gt.pages EXCEPT ![n] = [g \in Pages |-> IF g \in served THEN PAGEWAIT
                                                                 ELSE gt.pages[n][g]]],
             avail |-> gt.avail - Cardinality(served)]
    BY <1>1, <1>3 DEF Bring, gt
  <2>2. served = {}
    <3>1. ASSUME NEW g PROVE ~(Cardinality({h \in out : h < g}) < 0)
      <4>1. {h \in out : h < g} \in SUBSET Pages OBVIOUS
      <4>2. Cardinality({h \in out : h < g}) \in Nat
        BY <4>1, FiniteTables, FS_Subset, FS_CardinalityType
      <4> QED BY <4>2
    <3> HIDE DEF out
    <3> QED BY <1>3, <3>1
  <2> HIDE DEF served
  <2>3. Cardinality(served) = 0 BY <2>2, FS_EmptySet
  <2>4. [g \in Pages |-> IF g \in served THEN PAGEWAIT ELSE gt.pages[n][g]] = given
    BY <1>3, <2>2
  <2> QED BY <1>3, <2>1, <2>3, <2>4
<1>5. /\ u.avail = 0
      /\ \A i \in Slots \ {n} : u.pages[i] = t.pages[i]
      /\ u.pages[n] = given
  BY <1>1, <1>3, <1>4
<1>6. given \in [Pages -> PageState]
  BY <1>1, SizesAreNat DEF PageState
<1>7. u \in [pages : [Slots -> [Pages -> PageState]], avail : {0}]
  <2>1. [gt.pages EXCEPT ![n] = given] \in [Slots -> [Pages -> PageState]]
    BY <1>1, <1>3, <1>6
  <2> HIDE DEF given
  <2> QED BY <1>4, <2>1
<1>8. \A g \in Pages : \/ u.pages[n][g] = t.pages[n][g]
                       \/ t.pages[n][g] = 0 /\ u.pages[n][g] = -1
  BY <1>5
<1>9. TurnEffect(n, t, u)
  BY <1>1, <1>5, <1>7, <1>8 DEF TurnEffect
<1>10. u.pages[n][Needed(n)] = Out
  BY <1>1, <1>5, SizesAreNat
<1>11. ASSUME NEW g \in Pages PROVE u.pages[n][g] < 0
  <2>1. pages[n][g] \in PageState BY DEF ServingInv, FramesInv, TypeOK
  <2>2. ~(pages[n][g] > 0)
    BY <1>1, SizesAreNat DEF ServingInv, Waits
  <2>3. u.pages[n][g] = IF pages[n][g] = 0 THEN -1 ELSE pages[n][g] BY <1>1, <1>5
  <2> QED BY <2>1, <2>2, <2>3, SizesAreNat DEF PageState
<1>12. \A g \in Pages : pages[n][g] = 0 => u.pages[n][g] = -1
  BY <1>1, <1>5
<1> QED BY <1>5, <1>9, <1>10, <1>11, <1>12

\* The pageout of line 114 finds its page given up.
LEMMA AlreadyGiven ==
  ASSUME ServingInv, NEW n \in Slots, NEW t, ServedUpTo(n, t), NEW h
  PROVE  pageout(GiveUp(t, n), n, h) = GiveUp(t, n)
<1>1. t \in [pages : [Slots -> [Pages -> PageState]], avail : 0..pagesavail]
  BY DEF ServedUpTo
<1>2. GiveUp(t, n).pages[n] = [g \in Pages |-> IF t.pages[n][g] = 0 THEN -1 ELSE t.pages[n][g]]
  BY <1>1 DEF GiveUp
<1>3. h \in Pages => GiveUp(t, n).pages[n][h] # 0
  BY <1>2
<1> QED BY <1>3 DEF pageout, Addressed

\* The turns as far as m, where a guess ended them if m is not the last: a process that
\* had its turn has its page on the way, or has found no frame, has given up its pages and
\* will not guess again; the one that guessed is the last.
TurnsTo(m, n, s) ==
  /\ ServedUpTo(m, s.t) /\ s.previous \in [Slots -> Nat]
  /\ \A i \in Slots : i >= m => s.previous[i] = previousAccess[i]
  /\ \A i \in Slots : i < m /\ pid[i] # NoProcess /\ s.t.pages[i][Needed(i)] = Out =>
       /\ s.t.avail = 0 /\ Predicted(s.previous[i], Needed(i)) = {}
       /\ \A g \in Pages : pages[i][g] = 0 => s.t.pages[i][g] = -1
  /\ ~s.stop => m = n
  /\ s.stop => /\ s.t.avail = 0 /\ m - 1 \in Slots /\ pid[m - 1] # NoProcess
               /\ s.t.pages[m - 1][Needed(m - 1)] = Out
               /\ Predicted(previousAccess[m - 1], Needed(m - 1)) # {}

\* The effect of a turn that is had, on the page table, the guess and the rest.
LEMMA TurnTaken ==
  ASSUME PredictInv, NEW n \in Slots, NEW s, TurnsTo(n, n, s), ~s.stop, NEW r, r = Serve(s, n),
         s = [t |-> s.t, previous |-> s.previous, stop |-> s.stop]
  PROVE  /\ TurnsTo(n + 1, n + 1, r)
         /\ r = [t |-> r.t, previous |-> r.previous, stop |-> r.stop]
<1> DEFINE page == Needed(n)
<1>1. ServedUpTo(n, s.t) /\ s.previous \in [Slots -> Nat] /\ ServingInv /\ n \in Nat
  BY DEF TurnsTo, PredictInv, Slots
<1>2. \A i \in Slots : /\ i >= n + 1 => i >= n /\ i # n
                       /\ i < n + 1 => i < n \/ i = n
  BY DEF Slots
\* What is left to show of each way to take the turn.
<1>3. ASSUME TurnEffect(n, s.t, r.t), r.previous \in [Slots -> Nat],
             \A i \in Slots : i # n => r.previous[i] = s.previous[i],
             pid[n] # NoProcess /\ r.t.pages[n][page] = Out =>
               /\ r.t.avail = 0 /\ Predicted(r.previous[n], page) = {}
               /\ \A g \in Pages : pages[n][g] = 0 => r.t.pages[n][g] = -1,
             r.stop => /\ r.t.avail = 0 /\ pid[n] # NoProcess /\ r.t.pages[n][page] = Out
                       /\ Predicted(previousAccess[n], page) # {}
      PROVE  TurnsTo(n + 1, n + 1, r)
  <2>1. ServedUpTo(n + 1, r.t) BY <1>1, <1>3, TurnServes
  <2>2. \A i \in Slots : i >= n + 1 => r.previous[i] = previousAccess[i]
    BY <1>2, <1>3 DEF TurnsTo
  <2>3. \A i \in Slots \ {n} : r.t.pages[i] = s.t.pages[i]
    BY <1>1, <1>3 DEF TurnEffect, ServedUpTo, Addressed
  <2>4. s.t.avail = 0 => r.t.avail = 0
    BY <1>3 DEF TurnEffect
  <2>5. \A i \in Slots : i < n + 1 /\ pid[i] # NoProcess /\ r.t.pages[i][Needed(i)] = Out =>
          /\ r.t.avail = 0 /\ Predicted(r.previous[i], Needed(i)) = {}
          /\ \A g \in Pages : pages[i][g] = 0 => r.t.pages[i][g] = -1
    <3> SUFFICES ASSUME NEW i \in Slots, i < n + 1, pid[i] # NoProcess,
                        r.t.pages[i][Needed(i)] = Out
                 PROVE  /\ r.t.avail = 0 /\ Predicted(r.previous[i], Needed(i)) = {}
                        /\ \A g \in Pages : pages[i][g] = 0 => r.t.pages[i][g] = -1
      OBVIOUS
    <3>1. CASE i = n BY <1>3, <3>1
    <3>2. CASE i # n
      <4>1. i < n /\ r.t.pages[i] = s.t.pages[i] /\ r.previous[i] = s.previous[i]
        BY <1>2, <1>3, <2>3, <3>2
      <4> QED BY <2>4, <4>1 DEF TurnsTo
    <3> QED BY <3>1, <3>2
  <2>6. (n + 1) - 1 = n BY <1>1
  <2> QED BY <1>3, <2>1, <2>2, <2>5, <2>6 DEF TurnsTo
<1>4. previousAccess[n] = s.previous[n]
  <2>1. n >= n BY <1>1
  <2> QED BY <2>1 DEF TurnsTo
<1>5. CASE pid[n] = NoProcess \/ InMemory(n, page)
  <2>1. r = s BY <1>5 DEF Serve
  <2>2. TurnEffect(n, s.t, r.t) BY <2>1 DEF TurnEffect
  <2>3. ASSUME pid[n] # NoProcess PROVE r.t.pages[n][page] # Out
    BY <1>1, <1>5, <2>1, <2>3, Asked, SizesAreNat DEF InMemory
  <2> QED BY <1>1, <1>3, <2>1, <2>2, <2>3
<1>6. CASE pid[n] # NoProcess /\ ~InMemory(n, page) /\ PageinOk(s.t, n, page)
  <2>1. r = [s EXCEPT !.t = pagein(s.t, n, page)] BY <1>6 DEF Serve
  <2>2. /\ r = [t |-> pagein(s.t, n, page), previous |-> s.previous, stop |-> s.stop]
        /\ r.t = pagein(s.t, n, page) /\ r.previous = s.previous /\ r.stop = s.stop
    BY <2>1
  <2>3. TurnEffect(n, s.t, r.t)
    BY <1>1, <1>6, <2>2, Asked DEF TurnEffect
  <2>4. r.t.pages[n][page] # Out
    <3>1. CASE r.t = s.t /\ s.t.pages[n][page] >= 0
      BY <3>1, SizesAreNat
    <3>2. CASE r.t = [pages |-> [s.t.pages EXCEPT ![n][page] = PAGEWAIT], avail |-> s.t.avail - 1]
      <4>1. s.t.pages \in [Slots -> [Pages -> PageState]] /\ page \in Pages
        BY <1>1, <1>6, Asked DEF ServedUpTo, Addressed
      <4> QED BY <3>2, <4>1, SizesAreNat
    <3> QED BY <1>1, <1>6, <2>2, <3>1, <3>2, Asked
  <2>5. ~r.stop BY <2>2
  <2>6. r = [t |-> r.t, previous |-> r.previous, stop |-> r.stop] BY <2>2
  <2> QED BY <1>1, <1>3, <2>2, <2>3, <2>4, <2>5, <2>6
<1>7. CASE pid[n] # NoProcess /\ ~InMemory(n, page) /\ ~PageinOk(s.t, n, page)
  <2> DEFINE guess   == Predicted(s.previous[n], page)
             guessed == Bring(GiveUp(s.t, n), n, guess)
             ahead   == Bring(GiveUp(s.t, n), n, {page, page + 1})
  <2>1. s.t.pages[n][page] = Out /\ s.t.avail = 0 /\ page \in Nat
    BY <1>1, <1>7, Asked DEF Addressed, Pages
  <2>2. CASE guess = {}
    <3>1. r = [s EXCEPT !.t = ahead, !.previous[n] = page + 1]
      BY <1>1, <1>7, <2>2, AlreadyGiven DEF Serve
    <3>2. /\ r = [t |-> ahead, previous |-> [s.previous EXCEPT ![n] = page + 1], stop |-> s.stop]
      BY <3>1
    <3>3. r.t = ahead /\ r.previous = [s.previous EXCEPT ![n] = page + 1] /\ r.stop = s.stop
      BY <3>2
    <3>4. /\ r.previous \in [Slots -> Nat] /\ r.previous[n] = page + 1
          /\ \A i \in Slots : i # n => r.previous[i] = s.previous[i]
      BY <1>1, <2>1, <3>3
    <3>5. Predicted(r.previous[n], page) = {} BY <2>1, <3>4, NoPattern
    <3>6. /\ TurnEffect(n, s.t, r.t) /\ r.t.avail = 0
          /\ \A g \in Pages : pages[n][g] = 0 => r.t.pages[n][g] = -1
      BY <1>1, <1>7, <2>1, <3>3, GivenUp
    <3>7. ~r.stop /\ r = [t |-> r.t, previous |-> r.previous, stop |-> r.stop] BY <3>2, <3>3
    <3> QED BY <1>3, <3>4, <3>5, <3>6, <3>7
  <2>3. CASE guess # {}
    <3>1. r = [t |-> guessed, stop |-> TRUE,
               previous |-> [s.previous EXCEPT ![n] = Got(guessed, n, guess)]]
      BY <1>7, <2>3 DEF Serve
    <3>2. r.t = guessed /\ r.previous = [s.previous EXCEPT ![n] = Got(guessed, n, guess)]
      BY <3>1
    <3>3. /\ TurnEffect(n, s.t, r.t) /\ r.t.avail = 0 /\ r.t.pages[n][page] = Out
          /\ \A g \in Pages : r.t.pages[n][g] < 0
          /\ \A g \in Pages : pages[n][g] = 0 => r.t.pages[n][g] = -1
      BY <1>1, <1>7, <2>1, <3>2, GivenUp
    <3>4. Got(guessed, n, guess) = 0
      <4>1. {g \in guess \cap Pages : guessed.pages[n][g] >= 0} = {}
        <5>1. \A g \in Pages : guessed.pages[n][g] < 0 BY <3>2, <3>3
        <5>2. guessed.pages[n] \in [Pages -> PageState]
          BY <1>1, <3>2, <3>3, TurnServes DEF ServedUpTo
        <5>3. \A g \in Pages : guessed.pages[n][g] \in PageState BY <5>2
        <5>4. \A v \in PageState : v < 0 => ~(v >= 0) BY SizesAreNat DEF PageState
        <5> QED BY <5>1, <5>3, <5>4
      <4> QED BY <4>1, FS_EmptySet DEF Got
    <3>5. /\ r.previous \in [Slots -> Nat] /\ r.previous[n] = 0
          /\ \A i \in Slots : i # n => r.previous[i] = s.previous[i]
      BY <1>1, <3>2, <3>4
    <3>6. Predicted(r.previous[n], page) = {} BY <2>1, <3>5, NoPattern
    <3>7. r = [t |-> r.t, previous |-> r.previous, stop |-> r.stop] BY <3>1
    <3> QED BY <1>3, <1>4, <1>7, <2>3, <3>3, <3>5, <3>6, <3>7
  <2> QED BY <2>2, <2>3
<1> QED BY <1>5, <1>6, <1>7

-----------------------------------------------------------------------------
(* The loop over the processors is a function defined by recursion.        *)

PredictFcn ==
  CHOOSE served : served = [n \in 0..procs |->
    IF n = 0 THEN [t |-> Table, previous |-> previousAccess, stop |-> FALSE]
    ELSE Serve(served[n - 1], n - 1)]

Turns == [t : [pages : [Slots -> [Pages -> PageState]], avail : Nat],
          previous : [Slots -> Nat], stop : BOOLEAN]

\* What holds of the value at n.
Loop(n, s) == s \in Turns /\ \E m \in 0..n : TurnsTo(m, n, s)

LEMMA LoopStarts ==
  ASSUME PredictInv
  PROVE  Loop(0, [t |-> Table, previous |-> previousAccess, stop |-> FALSE])
<1> DEFINE s == [t |-> Table, previous |-> previousAccess, stop |-> FALSE]
<1>1. TypeOK /\ previousAccess \in [Slots -> Nat] /\ pagesavail \in Nat
  BY DEF PredictInv, ServingInv, FramesInv, TypeOK
<1>2. ServedUpTo(0, s.t) BY <1>1, NoTurnYet
<1>3. \A i \in Slots : ~(i < 0) BY DEF Slots
<1>4. TurnsTo(0, 0, s) BY <1>1, <1>2, <1>3 DEF TurnsTo
<1>5. s \in Turns BY <1>1 DEF Turns, Table, TypeOK
<1> HIDE DEF s
<1>6. Loop(0, s) BY <1>4, <1>5 DEF Loop
<1> QED BY <1>6 DEF s

LEMMA LoopTurns ==
  ASSUME PredictInv, NEW n \in Slots, NEW s, Loop(n, s)
  PROVE  Loop(n + 1, Serve(s, n))
<1> DEFINE r == Serve(s, n)
<1>1. PICK m \in 0..n : TurnsTo(m, n, s) BY DEF Loop
<1>2. n \in Nat /\ s \in Turns BY DEF Slots, Loop
<1>3. CASE s.stop
  <2>1. r = s BY <1>3 DEF Serve
  <2>2. TurnsTo(m, n + 1, s) BY <1>1, <1>3 DEF TurnsTo
  <2>3. m \in 0..(n + 1) BY <1>2
  <2> HIDE DEF r
  <2>4. Loop(n + 1, r) BY <1>2, <2>1, <2>2, <2>3 DEF Loop
  <2> QED BY <2>4 DEF r
<1>4. CASE ~s.stop
  <2>1. m = n BY <1>1, <1>4 DEF TurnsTo
  <2>2. s = [t |-> s.t, previous |-> s.previous, stop |-> s.stop] BY <1>2 DEF Turns
  <2>3. TurnsTo(n, n, s) BY <1>1, <2>1
  <2>4. TurnsTo(n + 1, n + 1, r) /\ r = [t |-> r.t, previous |-> r.previous, stop |-> r.stop]
    BY <1>4, <2>2, <2>3, TurnTaken
  <2>5. r.stop \in BOOLEAN
    <3>1. s.stop \in BOOLEAN /\ s.stop = FALSE BY <1>2, <1>4 DEF Turns
    <3>2. \A a : [s EXCEPT !.t = a].stop = FALSE BY <2>2, <3>1
    <3>3. \A a, b : [s EXCEPT !.t = a, !.previous[n] = b].stop = FALSE BY <2>2, <3>1
    <3> QED BY <3>1, <3>2, <3>3 DEF Serve
  <2>6. r.t \in [pages : [Slots -> [Pages -> PageState]], avail : Nat] /\ r.previous \in [Slots -> Nat]
    <3>1. pagesavail \in Nat BY DEF PredictInv, ServingInv, FramesInv, TypeOK
    <3>2. r.t \in [pages : [Slots -> [Pages -> PageState]], avail : 0..pagesavail]
      BY <2>4 DEF TurnsTo, ServedUpTo
    <3> HIDE DEF r
    <3> QED BY <2>4, <3>1, <3>2 DEF TurnsTo
  <2> HIDE DEF r
  <2>7. r \in Turns BY <2>4, <2>5, <2>6 DEF Turns
  <2>8. n + 1 \in 0..(n + 1) BY <1>2
  <2>9. Loop(n + 1, r) BY <2>4, <2>7, <2>8 DEF Loop
  <2> QED BY <2>9 DEF r
<1> QED BY <1>3, <1>4

LEMMA PredictRecursion ==
  ASSUME PredictInv
  PROVE  /\ PredictFcn[0] = [t |-> Table, previous |-> previousAccess, stop |-> FALSE]
         /\ \A n \in 1..procs : PredictFcn[n] = Serve(PredictFcn[n - 1], n - 1)
<1> DEFINE first == [t |-> Table, previous |-> previousAccess, stop |-> FALSE]
           next  == [x \in (1..procs) \X Turns |->
                       IF Serve(x[2], x[1] - 1) \in Turns THEN Serve(x[2], x[1] - 1) ELSE x[2]]
           G     == PredictFcn
<1>1. procs \in Nat /\ first \in Turns
  BY SizesAreNat, LoopStarts DEF Loop
<1>2. next \in [(1..procs) \X Turns -> Turns]
  OBVIOUS
<1>3. \A n \in 1..procs, s \in Turns :
        next[<<n, s>>] = IF Serve(s, n - 1) \in Turns THEN Serve(s, n - 1) ELSE s
  OBVIOUS
<1>4. G = CHOOSE served : served = [n \in 0..procs |-> IF n = 0 THEN first
                                                       ELSE Serve(served[n - 1], n - 1)]
  BY DEF PredictFcn
<1>5. Loop(0, first) BY LoopStarts
<1> HIDE DEF next, G, first
<1>6. PICK F \in [0..procs -> Turns] :
        F[0] = first /\ \A i \in 1..procs : F[i] = next[<<i, F[i - 1]>>]
  <2>1. \E F : Recursive(F, procs, Turns, first, next) BY <1>1, <1>2, Recursion
  <2> QED BY <2>1 DEF Recursive
<1> DEFINE H == {n \in 0..procs : Loop(n, F[n])}
<1>7. ASSUME NEW n \in 1..procs, Loop(n - 1, F[n - 1])
      PROVE  F[n] = Serve(F[n - 1], n - 1) /\ Loop(n, F[n])
  <2>1. n - 1 \in Slots /\ (n - 1) + 1 = n /\ n - 1 \in 0..procs BY <1>1 DEF Slots
  <2>2. Loop(n, Serve(F[n - 1], n - 1)) BY <1>7, <2>1, LoopTurns
  <2>3. Serve(F[n - 1], n - 1) \in Turns BY <2>2 DEF Loop
  <2>4. F[n - 1] \in Turns BY <1>6, <2>1
  <2> QED BY <1>3, <1>6, <2>2, <2>3, <2>4
<1>8. 0..procs \subseteq H
  <2>1. 0 \in H BY <1>1, <1>5, <1>6
  <2>2. ASSUME NEW n \in 0..(procs - 1), n \in H PROVE n + 1 \in H
    <3>1. n + 1 \in 1..procs /\ n + 1 \in 0..procs /\ (n + 1) - 1 = n BY <1>1
    <3> QED BY <1>7, <2>2, <3>1
  <2> HIDE DEF H
  <2> QED BY <1>1, <2>1, <2>2, InductiveUpTo
<1>9. \A n \in 1..procs : F[n] = Serve(F[n - 1], n - 1)
  <2> SUFFICES ASSUME NEW n \in 1..procs PROVE F[n] = Serve(F[n - 1], n - 1)
    OBVIOUS
  <2>1. n - 1 \in 0..procs BY <1>1
  <2>2. Loop(n - 1, F[n - 1]) BY <1>8, <2>1
  <2> QED BY <1>7, <2>2
<1>10. F = [n \in 0..procs |-> IF n = 0 THEN first ELSE Serve(F[n - 1], n - 1)]
  <2>1. \A n \in 0..procs : F[n] = IF n = 0 THEN first ELSE Serve(F[n - 1], n - 1)
    BY <1>1, <1>6, <1>9
  <2> QED BY <1>6, <2>1
<1>11. G = [n \in 0..procs |-> IF n = 0 THEN first ELSE Serve(G[n - 1], n - 1)]
  BY <1>4, <1>10
<1>12. G[0] = first /\ \A n \in 1..procs : G[n] = Serve(G[n - 1], n - 1)
  BY <1>1, <1>11
<1> QED BY <1>12 DEF G, first

\* When the loop has ended.
LEMMA LoopEnds ==
  ASSUME PredictInv, pageit
  PROVE  \E m \in 0..procs, s \in Turns :
           TurnsTo(m, procs, s) /\ Leaves(s.t) /\ previousAccess' = s.previous
<1> DEFINE G == PredictFcn
           H == {n \in 0..procs : Loop(n, G[n])}
<1>1. procs \in Nat BY SizesAreNat
<1>2. 0..procs \subseteq H
  <2>1. 0 \in H BY <1>1, LoopStarts, PredictRecursion
  <2>2. ASSUME NEW n \in 0..(procs - 1), n \in H PROVE n + 1 \in H
    <3>1. n + 1 \in 1..procs /\ n + 1 \in 0..procs /\ (n + 1) - 1 = n /\ n \in Slots
      BY <1>1 DEF Slots
    <3>2. G[n + 1] = Serve(G[n], n) BY <3>1, PredictRecursion
    <3>3. Loop(n + 1, G[n + 1]) BY <2>2, <3>1, <3>2, LoopTurns
    <3> QED BY <3>1, <3>3
  <2> HIDE DEF H
  <2> QED BY <1>1, <2>1, <2>2, InductiveUpTo
<1>3. Loop(procs, G[procs])
  <2>1. procs \in 0..procs BY <1>1
  <2> QED BY <1>2, <2>1
<1>4. Leaves(G[procs].t) /\ previousAccess' = G[procs].previous
  BY DEF pageit, PredictFcn
<1> QED BY <1>3, <1>4 DEF Loop

-----------------------------------------------------------------------------
(* A whole pageit.                                                         *)

\* Later processors have not been served.
LEMMA ServedByAll ==
  ASSUME NEW m \in 0..procs, NEW t, ServedUpTo(m, t)
  PROVE  ServedUpTo(procs, t)
<1>1. procs \in Nat BY SizesAreNat
<1>2. \A i \in Slots : i < procs BY <1>1 DEF Slots
<1> QED BY <1>2 DEF ServedUpTo, Served

\* What the turns leave, as the lemmas below need it: those from m on had none.
LEMMA PageitLeaves ==
  ASSUME PredictInv, pageit
  PROVE  \E m \in 0..procs, s \in Turns :
           /\ TurnsTo(m, procs, s)
           /\ pages' = s.t.pages /\ pagesavail' = s.t.avail /\ previousAccess' = s.previous
           /\ ServedUpTo(procs, s.t) /\ Leaves(s.t)
           /\ \A k \in Slots : k >= m => /\ s.stop
                                         /\ \A g \in Pages : pages'[k][g] = pages[k][g]
<1>1. PICK m \in 0..procs, s \in Turns :
        TurnsTo(m, procs, s) /\ Leaves(s.t) /\ previousAccess' = s.previous
  BY LoopEnds
<1>2. pages' = s.t.pages /\ pagesavail' = s.t.avail
  BY <1>1 DEF Leaves
<1>3. ServedUpTo(m, s.t) BY <1>1 DEF TurnsTo
<1>4. ASSUME NEW k \in Slots, k >= m
      PROVE  s.stop /\ \A g \in Pages : pages'[k][g] = pages[k][g]
  <2>1. m # procs /\ ~(k < m) BY <1>4, SizesAreNat DEF Slots
  <2>2. \A g \in Pages : Served(m, s.t, k, g) BY <1>3 DEF ServedUpTo
  <2> QED BY <1>1, <1>2, <2>1, <2>2 DEF TurnsTo, Served
<1>5. ServedUpTo(procs, s.t) BY <1>3, ServedByAll
<1> QED BY <1>1, <1>2, <1>4, <1>5

LEMMA PageitServes ==
  ASSUME PredictInv, pageit
  PROVE  /\ CallPager /\ Waits' /\ TakesFromWaiter /\ TakesForRoom
         /\ \A i \in Slots, g \in Pages :
              pages[i][g] = Out /\ pages'[i][g] = PAGEWAIT => g = Needed(i)
<1>1. PICK m \in 0..procs, s \in Turns : ServedUpTo(procs, s.t) /\ Leaves(s.t)
  BY PageitLeaves
<1> QED BY <1>1, ServedEffect DEF PredictInv

\* A page comes in, goes out or stays, and keeps its frame; when frames run out in a
\* pageit, a page that waits has got one.
LEMMA PageitHeld ==
  ASSUME PredictInv, pageit
  PROVE  /\ \A i \in Slots, g \in Pages :
              \/ pages'[i][g] = pages[i][g]
              \/ /\ Addressed(i, g) /\ g = Needed(i)
                 /\ pages[i][g] = Out /\ pages'[i][g] = PAGEWAIT
              \/ pages[i][g] = 0 /\ pages'[i][g] = -1
         /\ Held \subseteq Held'
         /\ pagesavail > 0 /\ pagesavail' = 0 =>
              \E x \in Held' : /\ pages[x[1]][x[2]] = Out /\ pages'[x[1]][x[2]] = PAGEWAIT
                               /\ Addressed(x[1], x[2]) /\ x[2] = Needed(x[1])
<1>1. PICK m \in 0..procs, s \in Turns :
        /\ pages' = s.t.pages /\ pagesavail' = s.t.avail /\ ServedUpTo(procs, s.t)
  BY PageitLeaves
<1>2. \A i \in Slots, g \in Pages :
        \/ pages'[i][g] = pages[i][g]
        \/ /\ Addressed(i, g) /\ g = Needed(i)
           /\ pages[i][g] = Out /\ pages'[i][g] = PAGEWAIT
        \/ pages[i][g] = 0 /\ pages'[i][g] = -1
  BY <1>1 DEF ServedUpTo, Served
<1>3. PAGEWAIT >= -PAGEWAIT /\ -1 >= -PAGEWAIT BY SizesAreNat
<1>4. Held \subseteq Held'
  <2> SUFFICES ASSUME NEW x \in Held PROVE x \in Held'
    OBVIOUS
  <2>1. /\ x \in Slots \X Pages /\ x[1] \in Slots /\ x[2] \in Pages
        /\ pages[x[1]][x[2]] >= -PAGEWAIT
    BY DEF Held
  <2>2. pages'[x[1]][x[2]] >= -PAGEWAIT BY <1>2, <1>3, <2>1
  <2> QED BY <2>1, <2>2 DEF Held
<1>5. ASSUME pagesavail > 0, pagesavail' = 0
      PROVE  \E x \in Held' : /\ pages[x[1]][x[2]] = Out /\ pages'[x[1]][x[2]] = PAGEWAIT
                              /\ Addressed(x[1], x[2]) /\ x[2] = Needed(x[1])
  <2>1. pagesavail' = pagesavail - Cardinality(Ins(pages'))
    BY <1>1 DEF ServedUpTo
  <2>2. Cardinality(Ins(pages')) # 0
    BY <1>5, <2>1, InsFinite DEF PredictInv, ServingInv, FramesInv, TypeOK
  <2>3. PICK x : x \in Ins(pages') BY <2>2, FS_EmptySet
  <2>4. /\ x \in Slots \X Pages /\ x[1] \in Slots /\ x[2] \in Pages
        /\ pages[x[1]][x[2]] = Out /\ pages'[x[1]][x[2]] = PAGEWAIT
    BY <2>3 DEF Ins
  <2>5. Out # PAGEWAIT /\ Out # 0 BY SizesAreNat
  <2>6. Addressed(x[1], x[2]) /\ x[2] = Needed(x[1]) BY <1>2, <2>4, <2>5
  <2>7. x \in Held' BY <1>3, <2>4 DEF Held
  <2> QED BY <2>4, <2>6, <2>7
<1> QED BY <1>2, <1>4, <1>5

\* A process after the one that guessed finds as it was what Fed said of it; one before
\* it will not guess.
LEMMA PageitFed ==
  ASSUME PredictInv, pageit
  PROVE  Fed' /\ previousAccess' \in [Slots -> Nat]
<1>1. PICK m \in 0..procs, s \in Turns :
        /\ TurnsTo(m, procs, s)
        /\ pages' = s.t.pages /\ pagesavail' = s.t.avail /\ previousAccess' = s.previous
        /\ Leaves(s.t)
        /\ \A k \in Slots : k >= m => /\ s.stop
                                      /\ \A g \in Pages : pages'[k][g] = pages[k][g]
  BY PageitLeaves
<1>2. pid' = pid /\ \A i \in Slots : Needed(i)' = Needed(i)
  BY <1>1 DEF Leaves, PagerReturns, processVars, Needed
<1>3. \A i \in Slots : pid[i] # NoProcess => Needed(i) \in Pages
  BY NeededIsPage DEF PredictInv, ServingInv, FramesInv
<1>4. ASSUME NEW k \in Slots, Hungry(k)' PROVE pagesavail' > 0 \/ \E x \in Held' : x[1] < k
  <2>1. /\ pid[k] # NoProcess /\ pages'[k][Needed(k)] = Out
        /\ \A g \in Pages : pages'[k][g] # 0
        /\ Predicted(s.previous[k], Needed(k)) # {}
    BY <1>1, <1>2, <1>4 DEF Hungry
  <2>2. ~(k < m) BY <1>1, <2>1 DEF TurnsTo
  <2>3. k >= m BY <2>2 DEF Slots
  <2>4. /\ s.stop /\ s.previous[k] = previousAccess[k]
        /\ \A g \in Pages : pages'[k][g] = pages[k][g]
    BY <1>1, <2>3 DEF TurnsTo
  <2>5. Hungry(k) BY <1>3, <2>1, <2>4 DEF Hungry
  <2>6. pagesavail' = 0 BY <1>1, <2>4 DEF TurnsTo
  <2>7. CASE pagesavail > 0
    <3>1. PICK x \in Held' : pages[x[1]][x[2]] = Out /\ pages'[x[1]][x[2]] = PAGEWAIT
      BY <2>6, <2>7, PageitHeld
    <3>2. x[1] \in Slots /\ x[2] \in Pages BY DEF Held
    <3>3. ~(x[1] >= m) BY <1>1, <3>1, <3>2, SizesAreNat
    <3>4. x[1] < k
      <4>1. \A a, b \in Slots : ~(a >= m) /\ b >= m => a < b BY DEF Slots
      <4> QED BY <2>3, <3>2, <3>3, <4>1
    <3> QED BY <3>4
  <2>8. CASE \E x \in Held : x[1] < k
    BY <2>8, PageitHeld
  <2> QED BY <2>5, <2>7, <2>8 DEF PredictInv, Fed
<1>5. previousAccess' \in [Slots -> Nat] BY <1>1 DEF TurnsTo
<1> QED BY <1>4, <1>5 DEF Fed

LEMMA PredictStep ==
  PredictInv /\ [PredictNext]_predictVars => PredictInv' /\ [Next]_vars
<1> SUFFICES ASSUME PredictInv, [PredictNext]_predictVars PROVE PredictInv' /\ [Next]_vars
  OBVIOUS
<1>1. CASE Simulate /\ UNCHANGED previousAccess
  <2>1. ServingInv' /\ [Next]_vars BY <1>1, ServingStep DEF PredictInv
  <2>2. Fed' BY <1>1, <2>1, SimulateFed
  <2> QED BY <1>1, <2>1, <2>2 DEF PredictInv
<1>2. CASE pageit
  <2>1. ServingInv' /\ [Next]_vars BY <1>2, PageitServes, ServingStep DEF PredictInv
  <2> QED BY <1>2, <2>1, PageitFed DEF PredictInv
<1>3. CASE UNCHANGED predictVars
  <2>1. ServingInv' /\ [Next]_vars BY <1>3, ServingStep DEF predictVars, PredictInv
  <2>2. Fed' BY <1>3, <2>1, SameHungry DEF predictVars, vars, frameVars, processVars, Needed
  <2> QED BY <1>3, <2>1, <2>2 DEF predictVars, PredictInv
<1> QED BY <1>1, <1>2, <1>3 DEF PredictNext

LEMMA PredictInvHolds == PredictSpec => []PredictInv
  BY InitPredict, PredictStep, PTL DEF PredictSpec

-----------------------------------------------------------------------------
(* Standstills.                                                            *)

\* When no process can run after a pageit, whoever had its turn has found no frame and
\* sent out what it had; and somebody had a turn and had pages.
LEMMA PageitMovesOn ==
  ASSUME PredictInv, PredictInv', pageit, allblocked'
  PROVE  \E x \in Held' : pages'[x[1]][x[2]] < 0
<1>1. PICK m \in 0..procs, s \in Turns :
        /\ TurnsTo(m, procs, s)
        /\ pages' = s.t.pages /\ pagesavail' = s.t.avail
        /\ Leaves(s.t)
        /\ \A k \in Slots : k >= m => /\ s.stop
                                      /\ \A g \in Pages : pages'[k][g] = pages[k][g]
  BY PageitLeaves
<1>2. pid' = pid /\ \A i \in Slots : Needed(i)' = Needed(i)
  BY <1>1 DEF Leaves, PagerReturns, processVars, Needed
<1>3. \A i \in Slots : pid[i] # NoProcess => Needed(i) \in Pages
  BY NeededIsPage DEF PredictInv, ServingInv, FramesInv
<1>4. pages' \in [Slots -> [Pages -> PageState]] /\ pagesavail' \in Nat
  BY DEF PredictInv, ServingInv, FramesInv, TypeOK
<1>5. \A i \in Slots : pid[i] # NoProcess => pages'[i][Needed(i)] = Out
  <2>1. \A v \in PageState : v < -PAGEWAIT => v = Out BY SizesAreNat DEF PageState
  <2> QED BY <1>2, <1>3, <1>4, <2>1 DEF allblocked
<1>6. pagesavail' = 0
  <2>1. PICK i \in Slots : pid[i] # NoProcess BY <1>2 DEF allblocked
  <2>2. CASE i < m BY <1>1, <1>5, <2>1, <2>2 DEF TurnsTo
  <2>3. CASE i >= m BY <1>1, <2>3 DEF TurnsTo
  <2>4. i < m \/ i >= m BY DEF Slots
  <2> QED BY <2>2, <2>3, <2>4
<1>7. SUFFICES ASSUME \A x \in Held' : ~(pages'[x[1]][x[2]] < 0) PROVE FALSE
  OBVIOUS
\* What is held is in memory, and its processor has had no turn.
<1>8. ASSUME NEW x \in Held' PROVE pages'[x[1]][x[2]] = 0 /\ x[1] >= m
  <2>1. x \in Slots \X Pages /\ x[1] \in Slots /\ x[2] \in Pages BY DEF Held
  <2>2. pid[x[1]] # NoProcess
    <3>1. pid[x[1]] = NoProcess => pages'[x[1]] = AllOut
      BY <1>2, <2>1 DEF PredictInv, ServingInv, IdleHoldsNothing
    <3>2. pages'[x[1]][x[2]] >= -PAGEWAIT BY DEF Held
    <3> QED BY <2>1, <3>1, <3>2, AllOutHoldsNothing
  <2>3. ~(pages'[x[1]][x[2]] > 0)
    <3>1. pages'[x[1]][x[2]] > 0 => x[2] = Needed(x[1])
      BY <1>2, <2>1 DEF PredictInv, ServingInv, Waits
    <3> QED BY <1>5, <2>1, <2>2, <3>1, SizesAreNat
  <2>4. pages'[x[1]][x[2]] = 0
    <3>1. pages'[x[1]][x[2]] \in PageState BY <1>4, <2>1
    <3>2. ~(pages'[x[1]][x[2]] < 0) BY <1>7
    <3> QED BY <2>3, <3>1, <3>2, SizesAreNat DEF PageState
  <2>5. pages[x[1]][x[2]] = 0
    BY <2>1, <2>4, PageitHeld, SizesAreNat
  <2>6. ~(x[1] < m) BY <1>1, <1>5, <2>1, <2>2, <2>4, <2>5 DEF TurnsTo
  <2>7. x[1] >= m BY <2>1, <2>6 DEF Slots
  <2> QED BY <2>4, <2>7
<1>9. PICK x : x \in Held'
  <2>1. pagesavail' + Cardinality(Held') = PHYSICALPAGES
    BY DEF PredictInv, ServingInv, FramesInv, FramesConserved
  <2>2. Held' # {}
    BY <1>6, <2>1, SomeFrames, FS_EmptySet
  <2> QED BY <2>2
<1> DEFINE q == m - 1
<1>10. /\ q \in Slots /\ pid[q] # NoProcess /\ pages'[q][Needed(q)] = Out
       /\ Predicted(previousAccess[q], Needed(q)) # {} /\ q < m
  <2>1. s.stop
    <3>1. x[1] \in Slots BY <1>9 DEF Held
    <3> QED BY <1>1, <1>8, <1>9, <3>1
  <2> QED BY <1>1, <2>1 DEF TurnsTo
<1> HIDE DEF q
<1>11. \A g \in Pages : pages[q][g] # 0
  <2> SUFFICES ASSUME NEW g \in Pages, pages[q][g] = 0 PROVE FALSE
    OBVIOUS
  <2>1. pages'[q][g] = -1 BY <1>1, <1>10 DEF TurnsTo
  <2>2. <<q, g>> \in Held' BY <1>10, <2>1, SizesAreNat DEF Held
  <2> QED BY <1>7, <2>1, <2>2
<1>12. Hungry(q)
  <2>1. pages[q][Needed(q)] = Out
    BY <1>3, <1>10, PageitHeld, SizesAreNat
  <2> QED BY <1>10, <1>11, <2>1 DEF Hungry
<1>13. CASE pagesavail > 0
  <2>1. PICK y \in Held' : pages'[y[1]][y[2]] = PAGEWAIT
    BY <1>6, <1>13, PageitHeld
  <2> QED BY <1>8, <2>1, SizesAreNat
<1>14. ASSUME NEW y \in Held, y[1] < q PROVE FALSE
  <2>1. y \in Held' BY PageitHeld
  <2>2. y[1] >= m BY <1>8, <2>1
  <2>3. y[1] \in Slots BY DEF Held
  <2>4. \A a, b \in Slots : a < b /\ b < m => ~(a >= m) BY DEF Slots
  <2> QED BY <1>10, <1>14, <2>2, <2>3, <2>4
<1> QED BY <1>10, <1>12, <1>13, <1>14 DEF PredictInv, Fed

-----------------------------------------------------------------------------
(* Theorems.                                                               *)

\* The predictive pager keeps to the interface: under it the simulator is the simulator
\* with any pager, and everything proved of that holds (pager-predict.c:21-123).
THEOREM PredictKeepsToInterface == PredictSpec => Spec
<1>1. PredictInit => Init BY DEF PredictInit
<1> QED BY <1>1, PredictStep, PredictInvHolds, PTL DEF PredictSpec, Spec

LEMMA PredictHabits ==
  PredictInv /\ [PredictNext]_predictVars =>
    /\ [TakesForRoom]_vars
    /\ [\A i \in Slots, g \in Pages : ComesIn(i, g) => g = Needed(i)]_predictVars
<1> SUFFICES ASSUME PredictInv, [PredictNext]_predictVars
             PROVE  /\ [TakesForRoom]_vars
                    /\ [\A i \in Slots, g \in Pages : ComesIn(i, g) => g = Needed(i)]_predictVars
  OBVIOUS
<1>1. CASE Simulate
  BY <1>1, SimulateSendsNothing DEF TakesForRoom, SendsOut, ComesIn
<1>2. CASE pageit
  BY <1>2, PageitServes DEF ComesIn
<1>3. CASE UNCHANGED predictVars
  BY <1>3 DEF predictVars
<1> QED BY <1>1, <1>2, <1>3 DEF PredictNext

\* Pages are given up only when no frame is free (pager-predict.c:49-53 and 114).
THEOREM GivenUpForRoom == PredictSpec => SendsForRoom
  BY PredictInvHolds, PredictHabits, PTL DEF PredictSpec, SendsForRoom

\* No guess brings a page in: those of lines 57-116 find no frame (pager-predict.c:57-116).
THEOREM GuessesBringNothing == PredictSpec => OnlyNeededComeIn
  BY PredictInvHolds, PredictHabits, PTL DEF PredictSpec, OnlyNeededComeIn

\* No report of a standstill is a deadlock: a guess that ends the turns (the breaks of
\* pager-predict.c:66, 77, 88, 99 and 110) still leaves a page on its way out, of the
\* process that guessed or of one before it.
THEOREM AlwaysMovesOn == PredictSpec => NoStandstill
<1>1. PredictInv /\ [PredictNext]_predictVars =>
        [phase = "pager" /\ allblocked' => \E x \in Held' : pages'[x[1]][x[2]] < 0]_vars
  <2> SUFFICES ASSUME PredictInv, [PredictNext]_predictVars, phase = "pager", allblocked',
                      ~(UNCHANGED vars)
               PROVE  \E x \in Held' : pages'[x[1]][x[2]] < 0
    OBVIOUS
  <2>1. PredictInv' BY PredictStep
  <2>2. pageit BY SimulateSendsNothing DEF PredictNext, predictVars
  <2> QED BY <2>1, <2>2, PageitMovesOn
<1> QED BY <1>1, PredictInvHolds, PTL DEF PredictSpec, NoStandstill

================================================================================
