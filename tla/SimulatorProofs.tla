---------------------------- MODULE SimulatorProofs ----------------------------
(***************************************************************************)
(* Theorems about Simulator for any programs, sizes and number of          *)
(* processors, and any pager.                                              *)
(***************************************************************************)
EXTENDS Simulator, FiniteSetTheorems, TLAPS

-----------------------------------------------------------------------------
(* Constants and page states.                                              *)

LEMMA SizesAreNat ==
  /\ QUEUESIZE \in Nat /\ Out \in Int /\ Out = -PAGEWAIT - 1
  /\ PAGEWAIT \in Nat \ {0} /\ procs \in Nat \ {0}
  /\ Programs \in Seq(Program)
<1>1. Len(Programs) \in Nat /\ Copies \in Nat
  BY ProgramsAssumption
<1> QED BY <1>1, ProgramsAssumption, SizesAssumption DEF QUEUESIZE, Out

LEMMA FiniteTables == IsFiniteSet(Pages) /\ IsFiniteSet(Slots \X Pages)
<1>1. IsFiniteSet(Slots) /\ IsFiniteSet(Pages)
  BY FS_Interval, SizesAssumption DEF Slots, Pages
<1> QED BY <1>1, FS_Product

\* AllOut is a page table, and ageing a page leaves it a page.
LEMMA PageStates ==
  /\ AllOut \in [Pages -> PageState]
  /\ \A s \in PageState : Age(s) \in PageState
  BY SizesAreNat DEF AllOut, PageState, Age

\* Ageing takes a frame from the pages that were one tick from being out.
LEMMA AgeHolds ==
  \A s \in PageState : Age(s) >= -PAGEWAIT <=> s >= -PAGEWAIT /\ s # -PAGEWAIT
  BY SizesAreNat DEF PageState, Age

\* A branch leads to a statement.
LEMMA BranchTargets ==
  ASSUME NEW k \in DOMAIN Programs, NEW j \in DOMAIN Branches(k)
  PROVE  Branches(k)[j].whereto \in Nat
<1>1. Programs[k].branches \in Seq(Branch)
  <2>1. Programs[k] \in Program
    <3>1. \A P, S : S \in Seq(P) => \A n \in DOMAIN S : S[n] \in P OBVIOUS
    <3> QED BY <3>1, SizesAreNat
  <2> QED BY <2>1 DEF Program
<1>2. CASE Programs[k].branches = << >>
  <2>1. Branches(k) = <<ZeroBranch>> BY <1>2 DEF Branches
  <2>2. Branches(k)[j] = ZeroBranch BY <2>1
  <2> QED BY <2>2 DEF ZeroBranch
<1>3. CASE Programs[k].branches # << >>
  <2>1. Branches(k) = Programs[k].branches BY <1>3 DEF Branches
  <2>2. Branches(k)[j] \in Branch BY <1>1, <2>1
  <2> QED BY <2>2 DEF Branch
<1> QED BY <1>2, <1>3

-----------------------------------------------------------------------------
(* Frames.  The invariant binds the count of free frames to the set of pages *)
(* that hold one, so each step is a statement about that set.              *)

HeldIn(p) == {x \in Slots \X Pages : p[x[1]][x[2]] >= -PAGEWAIT}

FramesInv == TypeOK /\ FramesConserved

LEMMA HeldFinite == ASSUME NEW p PROVE IsFiniteSet(HeldIn(p)) /\ Cardinality(HeldIn(p)) \in Nat
<1>1. HeldIn(p) \in SUBSET (Slots \X Pages) BY DEF HeldIn
<1>2. IsFiniteSet(HeldIn(p)) BY <1>1, FiniteTables, FS_Subset
<1> QED BY <1>2, FS_CardinalityType

\* Giving back the frames of R: the pages of R were held and no longer are.
LEMMA Released ==
  ASSUME NEW p, NEW q, NEW R, R \subseteq HeldIn(p), HeldIn(q) = HeldIn(p) \ R
  PROVE  /\ Cardinality(R) \in Nat
         /\ Cardinality(HeldIn(q)) = Cardinality(HeldIn(p)) - Cardinality(R)
<1>1. IsFiniteSet(HeldIn(p)) /\ HeldIn(p) \cap R = R BY HeldFinite
<1>2. IsFiniteSet(R) BY <1>1, FS_Subset
<1> QED BY <1>1, <1>2, FS_Difference, FS_CardinalityType

\* Taking frames for the pages of T, none of which was held.
LEMMA Taken ==
  ASSUME NEW p, NEW q, NEW T, T \subseteq Slots \X Pages, T \cap HeldIn(p) = {},
         HeldIn(q) = HeldIn(p) \cup T
  PROVE  /\ Cardinality(T) \in Nat
         /\ Cardinality(HeldIn(q)) = Cardinality(HeldIn(p)) + Cardinality(T)
<1>1. IsFiniteSet(T) BY FiniteTables, FS_Subset
<1>2. IsFiniteSet(HeldIn(p)) /\ Cardinality(HeldIn(p) \cap T) = 0
  BY HeldFinite, FS_EmptySet
<1>3. Cardinality(HeldIn(q)) = Cardinality(HeldIn(p)) + Cardinality(T) - 0
  BY <1>1, <1>2, FS_Union
<1> QED BY <1>1, <1>2, <1>3, FS_CardinalityType, HeldFinite

-----------------------------------------------------------------------------
(* Steps.                                                                  *)

QueueTypeOK ==
  /\ queueend \in 0..QUEUESIZE
  /\ pid \in [Slots -> 0..(QUEUESIZE - 1) \cup {NoProcess}]
  /\ pc \in [Slots -> Nat]

LEMMA DequeueTypes ==
  ASSUME TypeOK, NEW i \in Slots, Dequeue(i)
  PROVE  QueueTypeOK'
<1>1. /\ queueend \in 0..QUEUESIZE
      /\ pid \in [Slots -> 0..(QUEUESIZE - 1) \cup {NoProcess}]
      /\ pc \in [Slots -> Nat] /\ QUEUESIZE \in Nat
  BY SizesAreNat DEF TypeOK
<1>2. pc' \in [Slots -> Nat]
  BY <1>1 DEF Dequeue
<1>3. CASE ~empty /\ pid' = [pid EXCEPT ![i] = queueend] /\ queueend' = queueend + 1
  <2>1. queueend \in 0..(QUEUESIZE - 1) /\ queueend + 1 \in 0..QUEUESIZE
    BY <1>1, <1>3 DEF empty
  <2> QED BY <1>1, <1>2, <1>3, <2>1 DEF QueueTypeOK
<1>4. CASE pid' = [pid EXCEPT ![i] = NoProcess] /\ queueend' = queueend
  BY <1>1, <1>2, <1>4 DEF QueueTypeOK
<1> QED BY <1>3, <1>4 DEF Dequeue

LEMMA TurnTypes ==
  ASSUME TypeOK, NEW i \in Slots, Turn(i)
  PROVE  /\ turn' \in 0..procs
         /\ phase' \in {"loop", "step", "age", "pager", "ended"}
         /\ queuetype' \in [0..(QUEUESIZE - 1) -> DOMAIN Programs]
  BY SizesAreNat DEF TypeOK, Turn, Slots

\* A program's process counter is a statement number after every statement.
LEMMA BranchTypes ==
  ASSUME TypeOK, NEW i \in Slots, StepBranch(i)
  PROVE  pc' \in [Slots -> Nat]
<1>1. Kind(i) \in DOMAIN Programs
  BY DEF StepBranch, Runs, TypeOK, Kind
<1>2. PICK j \in DOMAIN Branches(Kind(i)) :
        \E d \in Decide(Branches(Kind(i))[j], bcontexts[i][j]) :
          LET next == IF d[1] THEN Branches(Kind(i))[j].whereto ELSE pc[i] + 1
          IN  pc' = [pc EXCEPT ![i] = IF next >= Programs[Kind(i)].size THEN 0 ELSE next]
  BY DEF StepBranch
<1>3. Branches(Kind(i))[j].whereto \in Nat
  BY <1>1, BranchTargets
<1>4. pc \in [Slots -> Nat] /\ pc[i] + 1 \in Nat
  BY DEF TypeOK
<1>5. PICK n \in Nat : pc' = [pc EXCEPT ![i] = n]
  BY <1>2, <1>3, <1>4
<1> QED BY <1>4, <1>5

LEMMA InitFrames == Init => FramesInv
<1> SUFFICES ASSUME Init PROVE FramesInv
  OBVIOUS
<1>1. pages \in [Slots -> [Pages -> PageState]] /\ Held = {}
  BY PageStates, SizesAreNat DEF Init, Held, AllOut, PageState
<1>2. pagesavail = PHYSICALPAGES /\ PHYSICALPAGES \in Nat
  BY SizesAssumption DEF Init
<1>3. FramesConserved
  BY <1>1, <1>2, FS_EmptySet DEF FramesConserved
<1>4. queueend \in 0..QUEUESIZE /\ pid \in [Slots -> 0..(QUEUESIZE - 1) \cup {NoProcess}]
  BY SizesAreNat DEF Init, Slots
<1>5. queuetype \in [0..(QUEUESIZE - 1) -> DOMAIN Programs]
  BY DEF Init, Shuffles
<1> QED BY <1>1, <1>2, <1>3, <1>4, <1>5, SizesAreNat DEF FramesInv, TypeOK, Init

\* The count stays within its range because it is what the held pages leave over.
LEMMA CountInRange ==
  ASSUME pagesavail \in Int, FramesConserved, pagesavail >= 0
  PROVE  pagesavail \in 0..PHYSICALPAGES
<1>1. Cardinality(Held) \in Nat
  BY HeldFinite DEF Held, HeldIn
<1> QED BY <1>1, SizesAssumption DEF FramesConserved

\* A program that ends gives back the frames of its pages, those of pages still
\* going out among them.
LEMMA ExitKeepsFrames ==
  ASSUME FramesInv, NEW i \in Slots, StepExit(i)
  PROVE  FramesInv'
<1> DEFINE R == {i} \X Holding(i)
<1>1. /\ pages \in [Slots -> [Pages -> PageState]] /\ pagesavail \in 0..PHYSICALPAGES
      /\ pages' = [pages EXCEPT ![i] = AllOut]
      /\ pagesavail' = pagesavail + Cardinality(Holding(i))
  BY DEF FramesInv, TypeOK, StepExit
<1>2. pages' \in [Slots -> [Pages -> PageState]]
  BY <1>1, PageStates
<1>3. HeldIn(pages') = HeldIn(pages) \ R /\ R \subseteq HeldIn(pages)
  <2>1. \A g \in Pages : pages'[i][g] = Out /\ ~(Out >= -PAGEWAIT)
    BY <1>1, SizesAreNat DEF AllOut
  <2>2. \A k \in Slots \ {i} : pages'[k] = pages[k]
    BY <1>1
  <2>3. R = {x \in HeldIn(pages) : x[1] = i}
    BY DEF HeldIn, Holding
  <2>4. \A x \in Slots \X Pages : x \in HeldIn(pages') <=> x \in HeldIn(pages) /\ x[1] # i
    BY <2>1, <2>2 DEF HeldIn
  <2>5. HeldIn(pages') = {x \in HeldIn(pages) : x[1] # i}
    BY <2>4 DEF HeldIn
  <2> QED BY <2>3, <2>5
<1>4. Cardinality(R) = Cardinality(Holding(i)) /\ Cardinality(Holding(i)) \in Nat
  <2>1. IsFiniteSet(Holding(i)) /\ Cardinality(Holding(i)) \in Nat
    <3>1. Holding(i) \subseteq Pages BY DEF Holding
    <3> QED BY <3>1, FiniteTables, FS_Subset, FS_CardinalityType
  <2>2. IsFiniteSet({i}) /\ Cardinality({i}) = 1
    BY FS_Singleton
  <2>3. Cardinality(R) = 1 * Cardinality(Holding(i))
    BY <2>1, <2>2, FS_Product
  <2> QED BY <2>1, <2>3
<1>5. Cardinality(Held') = Cardinality(Held) - Cardinality(Holding(i))
  <2>1. Cardinality(HeldIn(pages')) = Cardinality(HeldIn(pages)) - Cardinality(R)
    BY <1>3, Released
  <2> QED BY <2>1, <1>4 DEF Held, HeldIn
<1>6. FramesConserved'
  <2>1. Cardinality(Held) \in Nat BY HeldFinite DEF Held, HeldIn
  <2> QED BY <1>1, <1>4, <1>5, <2>1, SizesAssumption DEF FramesInv, FramesConserved
<1>7. pagesavail' \in 0..PHYSICALPAGES
  <2>1. pagesavail' \in Int /\ pagesavail' >= 0 BY <1>1, <1>4, SizesAssumption
  <2>2. Cardinality(Held') \in Nat BY HeldFinite DEF Held, HeldIn
  <2> QED BY <1>6, <2>1, <2>2, SizesAssumption DEF FramesConserved
<1>8. QueueTypeOK' BY DequeueTypes DEF FramesInv, StepExit
<1>9. Turn(i) BY DEF StepExit, Runs
<1> QED BY <1>2, <1>6, <1>7, <1>8, <1>9, TurnTypes DEF FramesInv, TypeOK, QueueTypeOK

\* The other steps of a processor leave memory alone.
LEMMA StepKeepsFrames ==
  ASSUME FramesInv, NEW i \in Slots,
         StepEmpty(i) \/ StepBlocked(i) \/ StepBranch(i) \/ StepNext(i)
  PROVE  FramesInv'
<1>1. UNCHANGED frameVars /\ Turn(i)
  BY DEF StepEmpty, StepBlocked, StepBranch, StepNext, Runs
<1>2. FramesConserved' /\ pages' = pages /\ pagesavail' = pagesavail
  BY <1>1 DEF FramesInv, FramesConserved, Held, frameVars
<1>3. QueueTypeOK'
  <2>1. CASE StepEmpty(i)
    BY <2>1, DequeueTypes DEF FramesInv, StepEmpty
  <2>2. CASE StepBlocked(i)
    BY <2>2 DEF FramesInv, TypeOK, StepBlocked, QueueTypeOK, processVars
  <2>3. CASE StepBranch(i)
    <3>1. pc' \in [Slots -> Nat] BY <2>3, BranchTypes DEF FramesInv
    <3> QED BY <2>3, <3>1 DEF FramesInv, TypeOK, StepBranch, QueueTypeOK
  <2>4. CASE StepNext(i)
    <3>1. pc \in [Slots -> Nat] /\ pc[i] + 1 \in Nat BY DEF FramesInv, TypeOK
    <3>2. PICK n \in Nat : pc' = [pc EXCEPT ![i] = n] BY <2>4, <3>1 DEF StepNext
    <3>3. pc' \in [Slots -> Nat] BY <3>1, <3>2
    <3> QED BY <2>4, <3>3 DEF FramesInv, TypeOK, StepNext, QueueTypeOK
  <2> QED BY <2>1, <2>2, <2>3, <2>4
<1> QED BY <1>1, <1>2, <1>3, TurnTypes DEF FramesInv, TypeOK, QueueTypeOK

\* A tick gives back the frames of the pages that get out in it.
LEMMA AgeKeepsFrames ==
  ASSUME FramesInv, allage
  PROVE  FramesInv'
<1>1. /\ pages \in [Slots -> [Pages -> PageState]] /\ pagesavail \in 0..PHYSICALPAGES
      /\ pages' = [i \in Slots |-> IF pid[i] = NoProcess THEN pages[i]
                                   ELSE [g \in Pages |-> Age(pages[i][g])]]
      /\ pagesavail' = pagesavail + Cardinality(Expiring)
  BY DEF FramesInv, TypeOK, allage
<1>2. pages' \in [Slots -> [Pages -> PageState]]
  BY <1>1, PageStates
<1>3. HeldIn(pages') = HeldIn(pages) \ Expiring /\ Expiring \subseteq HeldIn(pages)
  <2>1. \A x \in Slots \X Pages :
          /\ pages[x[1]][x[2]] \in PageState
          /\ pages'[x[1]][x[2]] = IF pid[x[1]] = NoProcess THEN pages[x[1]][x[2]]
                                  ELSE Age(pages[x[1]][x[2]])
    BY <1>1
  <2>2. \A x \in Slots \X Pages :
          x \in HeldIn(pages') <=> x \in HeldIn(pages) /\ x \notin Expiring
    BY <2>1, AgeHolds DEF HeldIn, Expiring
  <2>3. Expiring \subseteq HeldIn(pages)
    BY SizesAreNat DEF HeldIn, Expiring
  <2> QED BY <2>2, <2>3 DEF HeldIn
<1>4. /\ Cardinality(Expiring) \in Nat
      /\ Cardinality(Held') = Cardinality(Held) - Cardinality(Expiring)
  <2>1. /\ Cardinality(Expiring) \in Nat
        /\ Cardinality(HeldIn(pages')) = Cardinality(HeldIn(pages)) - Cardinality(Expiring)
    BY <1>3, Released
  <2> QED BY <2>1 DEF Held, HeldIn
<1>5. Cardinality(Held) \in Nat /\ Cardinality(Held') \in Nat
  BY HeldFinite DEF Held, HeldIn
<1>6. FramesConserved' /\ pagesavail' \in 0..PHYSICALPAGES
  BY <1>1, <1>4, <1>5, SizesAssumption DEF FramesInv, FramesConserved
<1> QED BY <1>2, <1>6 DEF FramesInv, TypeOK, allage, processVars

\* Whatever the pager does through pagein and pageout, a page it brings in takes a
\* free frame, and a page it sends out keeps its frame for now.
LEMMA PagerKeepsFrames ==
  ASSUME FramesInv, CallPager
  PROVE  FramesInv'
<1> DEFINE In  == {x \in Slots \X Pages : Addressed(x[1], x[2]) /\ pages[x[1]][x[2]] = 0}
           Off == {x \in Slots \X Pages : Addressed(x[1], x[2]) /\ pages[x[1]][x[2]] = Out}
<1>1. PICK outs \in SUBSET In : \E ins \in SUBSET Off :
        /\ Cardinality(ins) <= pagesavail
        /\ pages' = [i \in Slots |-> [g \in Pages |->
                       IF <<i, g>> \in outs THEN -1
                       ELSE IF <<i, g>> \in ins THEN PAGEWAIT ELSE pages[i][g]]]
        /\ pagesavail' = pagesavail - Cardinality(ins)
  BY DEF CallPager
<1>2. PICK ins \in SUBSET Off :
        /\ Cardinality(ins) <= pagesavail
        /\ pages' = [i \in Slots |-> [g \in Pages |->
                       IF <<i, g>> \in outs THEN -1
                       ELSE IF <<i, g>> \in ins THEN PAGEWAIT ELSE pages[i][g]]]
        /\ pagesavail' = pagesavail - Cardinality(ins)
  BY <1>1
<1>3. pages \in [Slots -> [Pages -> PageState]] /\ pagesavail \in 0..PHYSICALPAGES
  BY DEF FramesInv, TypeOK
<1>4. pages' \in [Slots -> [Pages -> PageState]]
  <2>1. -1 \in PageState /\ PAGEWAIT \in PageState BY SizesAreNat DEF PageState
  <2> QED BY <1>2, <1>3, <2>1
<1>5. HeldIn(pages') = HeldIn(pages) \cup ins /\ ins \cap HeldIn(pages) = {}
  <2>1. \A x \in Slots \X Pages :
          /\ pages[x[1]][x[2]] \in PageState
          /\ pages'[x[1]][x[2]] = IF x \in outs THEN -1
                                  ELSE IF x \in ins THEN PAGEWAIT ELSE pages[x[1]][x[2]]
    BY <1>2, <1>3
  <2>2. \A x \in Slots \X Pages : x \in outs => pages[x[1]][x[2]] = 0
    OBVIOUS
  <2>3. \A x \in Slots \X Pages : x \in ins => pages[x[1]][x[2]] = Out
    OBVIOUS
  <2>4. \A x \in Slots \X Pages :
          x \in HeldIn(pages') <=> x \in HeldIn(pages) \/ x \in ins
    BY <2>1, <2>2, <2>3, SizesAreNat DEF HeldIn, PageState
  <2>5. \A x \in ins : x \notin HeldIn(pages)
    BY <2>3, SizesAreNat DEF HeldIn
  <2> QED BY <2>4, <2>5 DEF HeldIn
<1>6. /\ Cardinality(ins) \in Nat
      /\ Cardinality(Held') = Cardinality(Held) + Cardinality(ins)
  <2>1. ins \subseteq Slots \X Pages OBVIOUS
  <2>2. /\ Cardinality(ins) \in Nat
        /\ Cardinality(HeldIn(pages')) = Cardinality(HeldIn(pages)) + Cardinality(ins)
    BY <1>5, <2>1, Taken
  <2> QED BY <2>2 DEF Held, HeldIn
<1>7. Cardinality(Held) \in Nat /\ Cardinality(Held') \in Nat
  BY HeldFinite DEF Held, HeldIn
<1>8. FramesConserved' /\ pagesavail' \in 0..PHYSICALPAGES
  BY <1>2, <1>3, <1>6, <1>7, SizesAssumption DEF FramesInv, FramesConserved
<1> QED BY <1>4, <1>8 DEF FramesInv, TypeOK, CallPager, PagerReturns, processVars

LEMMA FramesStep == FramesInv /\ [Next]_vars => FramesInv'
<1> SUFFICES ASSUME FramesInv, [Next]_vars PROVE FramesInv'
  OBVIOUS
<1>1. CASE LoopHead
  BY <1>1, SizesAreNat
     DEF LoopHead, FramesInv, TypeOK, FramesConserved, Held, processVars, frameVars
<1>2. ASSUME NEW i \in Slots, process_step(i) PROVE FramesInv'
  BY <1>2, ExitKeepsFrames, StepKeepsFrames DEF process_step
<1>3. CASE allage
  BY <1>3, AgeKeepsFrames
<1>4. CASE CallPager
  BY <1>4, PagerKeepsFrames
<1>5. CASE UNCHANGED vars
  BY <1>5 DEF FramesInv, TypeOK, FramesConserved, Held, vars, processVars, frameVars
<1> QED BY <1>1, <1>2, <1>3, <1>4, <1>5 DEF Next, Simulate

\* Every variable keeps its type, pagesavail its range among them (line 108): the
\* count of frames never goes below 0 or above PHYSICALPAGES.
THEOREM TypeCorrect == Spec => []TypeOK
<1>1. FramesInv => TypeOK BY DEF FramesInv
<1> QED BY <1>1, InitFrames, FramesStep, PTL DEF Spec

\* No frame is lost or handed out twice, whatever the pager asks for (lines 299,
\* 433 and 708).
THEOREM NoFrameLost == Spec => []FramesConserved
<1>1. FramesInv => FramesConserved BY DEF FramesInv
<1> QED BY <1>1, InitFrames, FramesStep, PTL DEF Spec

-----------------------------------------------------------------------------
(* The queue.                                                              *)

QueueInv == TypeOK /\ BusyUntilEmpty /\ RunsOnce

LEMMA DequeueKeepsQueue ==
  ASSUME QueueInv, NEW i \in Slots, Dequeue(i), queuetype' = queuetype
  PROVE  BusyUntilEmpty' /\ RunsOnce'
<1>1. /\ queueend \in 0..QUEUESIZE /\ QUEUESIZE \in Nat
      /\ pid \in [Slots -> 0..(QUEUESIZE - 1) \cup {NoProcess}]
      /\ NoProcess \notin Int
  BY SizesAreNat, NoProcessAssumption DEF QueueInv, TypeOK
<1>2. /\ \A k \in Slots : pid[k] = NoProcess => queueend >= QUEUESIZE
      /\ \A k \in Slots : pid[k] # NoProcess =>
           pid[k] < queueend /\ (\A m \in Slots \ {k} : pid[m] # pid[k])
  BY DEF QueueInv, BusyUntilEmpty, RunsOnce, empty
<1>3. CASE ~empty /\ pid' = [pid EXCEPT ![i] = queueend] /\ queueend' = queueend + 1
  <2>1. queueend < QUEUESIZE BY <1>1, <1>3 DEF empty
  <2>2. \A k \in Slots : pid[k] \in Int /\ pid[k] < queueend BY <1>1, <1>2, <2>1
  <2>3. \A k \in Slots : pid'[k] = IF k = i THEN queueend ELSE pid[k] BY <1>1, <1>3
  <2>4. \A k \in Slots : pid'[k] \in Int /\ pid'[k] < queueend' BY <1>1, <1>3, <2>2, <2>3
  <2>5. \A k, m \in Slots : m # k => pid'[m] # pid'[k]
    <3>1. \A k, m \in Slots : m # k => pid[m] # pid[k] BY <1>1, <1>2, <2>2
    <3>2. \A k \in Slots : pid[k] # queueend BY <1>1, <2>2
    <3> QED BY <2>3, <3>1, <3>2
  <2> QED BY <1>1, <2>4, <2>5 DEF BusyUntilEmpty, RunsOnce
<1>4. CASE empty /\ pid' = [pid EXCEPT ![i] = NoProcess] /\ queueend' = queueend
  <2>1. \A k \in Slots : pid'[k] = IF k = i THEN NoProcess ELSE pid[k] BY <1>1, <1>4
  <2>2. queueend' >= QUEUESIZE BY <1>4 DEF empty
  <2> QED BY <1>2, <1>4, <2>1, <2>2 DEF BusyUntilEmpty, RunsOnce, empty
<1> QED BY <1>3, <1>4 DEF Dequeue

LEMMA QueueStep == QueueInv /\ TypeOK' /\ [Next]_vars => QueueInv'
<1> SUFFICES ASSUME QueueInv, TypeOK', [Next]_vars PROVE BusyUntilEmpty' /\ RunsOnce'
  BY DEF QueueInv
<1>1. CASE UNCHANGED <<queueend, pid>>
  BY <1>1 DEF QueueInv, BusyUntilEmpty, RunsOnce, empty
<1>2. ASSUME NEW i \in Slots, Dequeue(i), Turn(i) PROVE BusyUntilEmpty' /\ RunsOnce'
  BY <1>2, DequeueKeepsQueue DEF Turn
<1>3. ASSUME NEW i \in Slots, process_step(i)
      PROVE  UNCHANGED <<queueend, pid>> \/ (Dequeue(i) /\ Turn(i))
  BY <1>3 DEF process_step, StepEmpty, StepBlocked, StepExit, StepBranch, StepNext, Runs,
              processVars
<1>4. ASSUME LoopHead \/ allage \/ CallPager \/ UNCHANGED vars
      PROVE  UNCHANGED <<queueend, pid>>
  BY <1>4 DEF LoopHead, allage, CallPager, PagerReturns, vars, processVars
<1> QED BY <1>1, <1>2, <1>3, <1>4 DEF Next, Simulate

LEMMA InitQueue == Init => BusyUntilEmpty /\ RunsOnce
<1> SUFFICES ASSUME Init PROVE BusyUntilEmpty /\ RunsOnce
  OBVIOUS
<1>1. /\ QUEUESIZE \in Nat /\ procs \in Nat /\ NoProcess \notin Int
      /\ queueend = IF procs < QUEUESIZE THEN procs ELSE QUEUESIZE
      /\ pid = [i \in Slots |-> IF i < QUEUESIZE THEN i ELSE NoProcess]
  BY SizesAreNat, NoProcessAssumption DEF Init
<1>2. \A i \in Slots : /\ i \in 0..(procs - 1)
                       /\ i < QUEUESIZE => pid[i] = i /\ pid[i] \in Int
                       /\ ~(i < QUEUESIZE) => pid[i] = NoProcess
  BY <1>1 DEF Slots
<1>3. BusyUntilEmpty
  BY <1>1, <1>2 DEF BusyUntilEmpty, empty
<1>4. \A i \in Slots : pid[i] # NoProcess => pid[i] = i /\ i < queueend
  BY <1>1, <1>2
<1> QED BY <1>1, <1>2, <1>3, <1>4 DEF RunsOnce

LEMMA QueueInvHolds == Spec => []QueueInv
<1>1. Init => QueueInv BY InitQueue, InitFrames DEF QueueInv, FramesInv
<1> QED BY <1>1, QueueStep, TypeCorrect, PTL DEF Spec

\* A processor has no process only once the queue is empty (lines 638-640).
THEOREM NeverIdle == Spec => []BusyUntilEmpty
<1>1. QueueInv => BusyUntilEmpty BY DEF QueueInv
<1> QED BY <1>1, QueueInvHolds, PTL

LEMMA InitRuns == Init => 0..(queueend - 1) \subseteq Running
<1> SUFFICES ASSUME Init, NEW n \in 0..(queueend - 1) PROVE n \in Running
  OBVIOUS
<1>1. /\ QUEUESIZE \in Nat /\ procs \in Nat
      /\ queueend = IF procs < QUEUESIZE THEN procs ELSE QUEUESIZE
      /\ pid = [i \in Slots |-> IF i < QUEUESIZE THEN i ELSE NoProcess]
  BY SizesAreNat DEF Init
<1>2. n \in Slots /\ n < QUEUESIZE
  BY <1>1 DEF Slots
<1>3. pid[n] = n
  BY <1>1, <1>2
<1> QED BY <1>2, <1>3 DEF Running

\* A processor that asks the queue runs what leaves it.
LEMMA DequeueRuns ==
  ASSUME QueueInv, NEW i \in Slots, Dequeue(i)
  PROVE  /\ queueend..(queueend' - 1) \subseteq Running'
         /\ \A k \in Slots \ {i} : pid'[k] = pid[k]
         /\ pid'[i] # NoProcess => pid'[i] >= queueend
<1>1. queueend \in Nat /\ DOMAIN pid = Slots
  BY SizesAreNat DEF QueueInv, TypeOK
<1>2. CASE pid' = [pid EXCEPT ![i] = queueend] /\ queueend' = queueend + 1
  <2>1. queueend..(queueend' - 1) = {queueend} /\ pid'[i] = queueend
    BY <1>1, <1>2
  <2> QED BY <1>1, <1>2, <2>1 DEF Running
<1>3. CASE pid' = [pid EXCEPT ![i] = NoProcess] /\ queueend' = queueend
  <2>1. queueend..(queueend' - 1) = {} /\ pid'[i] = NoProcess
    BY <1>1, <1>3
  <2> QED BY <1>1, <1>3, <2>1
<1> QED BY <1>2, <1>3 DEF Dequeue

LEMMA QueueRuns ==
  QueueInv /\ [Next]_vars =>
    [queueend..(queueend' - 1) \subseteq Running' /\ \A i \in Slots : Reloads(i)]_vars
<1> SUFFICES ASSUME QueueInv, Next
             PROVE  queueend..(queueend' - 1) \subseteq Running' /\ \A i \in Slots : Reloads(i)
  OBVIOUS
<1>1. CASE UNCHANGED <<queueend, pid>>
  <2>1. queueend \in Nat
    BY SizesAreNat DEF QueueInv, TypeOK
  <2>2. queueend..(queueend' - 1) = {}
    BY <1>1, <2>1
  <2> QED BY <1>1, <2>2 DEF Reloads
<1>2. ASSUME NEW i \in Slots, StepEmpty(i) \/ StepExit(i)
      PROVE  queueend..(queueend' - 1) \subseteq Running' /\ \A k \in Slots : Reloads(k)
  <2>1. Dequeue(i) /\ (pid[i] # NoProcess => pc[i] \in Programs[Kind(i)].exits)
    BY <1>2 DEF StepEmpty, StepExit
  <2> QED BY <2>1, DequeueRuns DEF Reloads
<1>3. ASSUME NEW i \in Slots, process_step(i)
      PROVE  UNCHANGED <<queueend, pid>> \/ StepEmpty(i) \/ StepExit(i)
  BY <1>3 DEF process_step, StepBlocked, StepBranch, StepNext, processVars
<1>4. ASSUME LoopHead \/ allage \/ CallPager
      PROVE  UNCHANGED <<queueend, pid>>
  BY <1>4 DEF LoopHead, allage, CallPager, PagerReturns, processVars
<1> QED BY <1>1, <1>2, <1>3, <1>4 DEF Next, Simulate

\* Every process of the queue that leaves it is run, by one processor, to an exit of its
\* program and never again, for any pager (lines 353-368, 459-462 and 638-640).
THEOREM EachRunOnce == Spec => QueueServed
<1>1. QueueInv => RunsOnce
  BY DEF QueueInv
<1>2. Spec => []RunsOnce
  BY <1>1, QueueInvHolds, PTL
<1>3. Spec => [][queueend..(queueend' - 1) \subseteq Running' /\ \A i \in Slots : Reloads(i)]_vars
  BY QueueRuns, QueueInvHolds, PTL DEF Spec
<1>4. Spec => 0..(queueend - 1) \subseteq Running
  BY InitRuns DEF Spec
<1> QED BY <1>2, <1>3, <1>4 DEF QueueServed

-----------------------------------------------------------------------------
(* Statements.                                                             *)

LEMMA ProgramTypes ==
  ASSUME NEW k \in DOMAIN Programs
  PROVE  /\ Programs[k].size \in Nat \ {0} /\ Programs[k].size - 1 \in Programs[k].exits
         /\ Programs[k].branches \in Seq(Branch)
<1>1. Programs[k] \in Program
  <2>1. \A P, S : S \in Seq(P) => \A n \in DOMAIN S : S[n] \in P OBVIOUS
  <2> QED BY <2>1, SizesAreNat
<1> QED BY <1>1, ProgramsAssumption DEF Program

LEMMA PcStep == QueueInv /\ PcInProgram /\ TypeOK' /\ [Next]_vars => PcInProgram'
<1> SUFFICES ASSUME QueueInv, PcInProgram, TypeOK', [Next]_vars,
                    NEW i \in Slots, pid'[i] # NoProcess
             PROVE  pc'[i] < Programs[Kind(i)'].size
  BY DEF PcInProgram
<1>1. /\ queuetype \in [0..(QUEUESIZE - 1) -> DOMAIN Programs]
      /\ pid \in [Slots -> 0..(QUEUESIZE - 1) \cup {NoProcess}] /\ pc \in [Slots -> Nat]
      /\ queuetype' = queuetype
      /\ pid' \in [Slots -> 0..(QUEUESIZE - 1) \cup {NoProcess}]
  <2>1. queuetype' = queuetype
    BY DEF Next, Simulate, LoopHead, allage, CallPager, PagerReturns, process_step, StepEmpty,
           StepBlocked, StepExit, StepBranch, StepNext, Runs, Turn, vars
  <2> QED BY <2>1 DEF QueueInv, TypeOK
<1>2. Kind(i)' \in DOMAIN Programs
  BY <1>1 DEF Kind
<1>3. CASE pid'[i] = pid[i] /\ pc'[i] = pc[i]
  BY <1>1, <1>3 DEF PcInProgram, Kind
<1>4. CASE pc'[i] = 0
  BY <1>2, <1>4, ProgramTypes
<1>5. CASE StepBranch(i)
  <2>1. pid'[i] = pid[i] /\ pid[i] # NoProcess /\ Kind(i)' = Kind(i)
    BY <1>1, <1>5 DEF StepBranch, Runs, Kind
  <2>2. PICK n : pc' = [pc EXCEPT ![i] = IF n >= Programs[Kind(i)].size THEN 0 ELSE n]
                 /\ n \in Nat
    <3>1. PICK j \in DOMAIN Branches(Kind(i)) :
            \E d \in Decide(Branches(Kind(i))[j], bcontexts[i][j]) :
              LET next == IF d[1] THEN Branches(Kind(i))[j].whereto ELSE pc[i] + 1
              IN  pc' = [pc EXCEPT ![i] = IF next >= Programs[Kind(i)].size THEN 0 ELSE next]
      BY <1>5 DEF StepBranch
    <3>2. Branches(Kind(i))[j].whereto \in Nat /\ pc[i] + 1 \in Nat
      BY <1>1, <1>2, <2>1, BranchTargets
    <3> QED BY <3>1, <3>2
  <2> QED BY <1>1, <1>2, <2>1, <2>2, ProgramTypes
<1>6. CASE StepNext(i)
  <2>1. pid'[i] = pid[i] /\ pid[i] # NoProcess /\ Kind(i)' = Kind(i)
    BY <1>1, <1>6 DEF StepNext, Runs, Kind
  <2>2. pc[i] < Programs[Kind(i)].size /\ pc[i] # Programs[Kind(i)].size - 1
    BY <1>2, <1>6, <2>1, ProgramTypes DEF PcInProgram, StepNext
  <2>3. pc'[i] = IF pc[i] + 1 > Programs[Kind(i)].size THEN 0 ELSE pc[i] + 1
    BY <1>1, <1>6 DEF StepNext
  <2>4. pc[i] \in Nat /\ Programs[Kind(i)].size \in Nat \ {0}
    BY <1>1, <1>2, <2>1, ProgramTypes
  <2> QED BY <2>1, <2>2, <2>3, <2>4
<1>7. ASSUME NEW k \in Slots, process_step(k)
      PROVE  \/ pid'[i] = pid[i] /\ pc'[i] = pc[i]
             \/ pc'[i] = 0 \/ (k = i /\ (StepBranch(k) \/ StepNext(k)))
  <2>1. CASE Dequeue(k) BY <1>1, <2>1 DEF Dequeue
  <2>2. CASE StepBlocked(k) BY <2>2 DEF StepBlocked, processVars
  <2>3. CASE StepBranch(k) /\ k # i BY <1>1, <2>3 DEF StepBranch
  <2>4. CASE StepNext(k) /\ k # i BY <1>1, <2>4 DEF StepNext
  <2> QED BY <1>7, <2>1, <2>2, <2>3, <2>4 DEF process_step, StepEmpty, StepExit
<1>8. ASSUME LoopHead \/ allage \/ CallPager \/ UNCHANGED vars
      PROVE  pid'[i] = pid[i] /\ pc'[i] = pc[i]
  BY <1>8 DEF LoopHead, allage, CallPager, PagerReturns, vars, processVars
<1> QED BY <1>3, <1>4, <1>5, <1>6, <1>7, <1>8 DEF Next, Simulate

LEMMA InitPc == Init => PcInProgram
<1> SUFFICES ASSUME Init, NEW i \in Slots, pid[i] # NoProcess
             PROVE  pc[i] < Programs[Kind(i)].size
  BY DEF PcInProgram
<1>1. Kind(i) \in DOMAIN Programs
  BY InitFrames DEF FramesInv, TypeOK, Kind
<1>2. pc[i] = 0 BY DEF Init
<1> QED BY <1>1, <1>2, ProgramTypes

\* pages[] is never read past the pages of the program: the exit at its last statement
\* is what keeps the counter of line 388 below size.
THEOREM NeverOutOfRange == Spec => []PcInProgram
  BY QueueInvHolds, InitPc, PcStep, TypeCorrect, PTL DEF Spec

\* The page of a statement is one of the pages of the process.
LEMMA NeededIsPage ==
  ASSUME TypeOK, PcInProgram, NEW i \in Slots, pid[i] # NoProcess
  PROVE  Needed(i) \in Pages
<1>1. Kind(i) \in DOMAIN Programs /\ pc[i] \in Nat
  BY DEF TypeOK, Kind
<1> DEFINE last == Programs[Kind(i)].size - 1
<1>2. /\ last \in Nat /\ pc[i] <= last /\ last \div PAGESIZE < MAXPROCPAGES
      /\ PAGESIZE \in Nat \ {0} /\ MAXPROCPAGES \in Nat
  <2>1. Programs[Kind(i)].size \in Nat \ {0} BY <1>1, ProgramTypes
  <2>2. last \div PAGESIZE < MAXPROCPAGES BY <1>1, ProgramsAssumption
  <2>3. pc[i] < Programs[Kind(i)].size BY DEF PcInProgram
  <2> QED BY <1>1, <2>1, <2>2, <2>3, SizesAssumption
<1> HIDE DEF last
<1>3. /\ pc[i] \div PAGESIZE \in Nat
      /\ PAGESIZE * (pc[i] \div PAGESIZE) <= pc[i]
      /\ last < PAGESIZE * (last \div PAGESIZE) + PAGESIZE
      /\ last \div PAGESIZE \in Nat
  BY <1>1, <1>2
<1>4. pc[i] \div PAGESIZE <= last \div PAGESIZE
  BY <1>1, <1>2
<1> QED BY <1>2, <1>3, <1>4 DEF Needed, Pages

-----------------------------------------------------------------------------
(* The course of a page.                                                   *)

\* The next process differs from the one that ended: it is here that no process
\* leaves the queue twice.
LEMMA ExitChangesProcess ==
  ASSUME QueueInv, NEW i \in Slots, StepExit(i)
  PROVE  pid'[i] # pid[i]
<1>1. /\ queueend \in 0..QUEUESIZE /\ QUEUESIZE \in Nat
      /\ pid \in [Slots -> 0..(QUEUESIZE - 1) \cup {NoProcess}]
  BY SizesAreNat DEF QueueInv, TypeOK
<1>2. pid[i] # NoProcess /\ pid[i] < queueend /\ Dequeue(i)
  BY DEF StepExit, Runs, QueueInv, RunsOnce
<1>3. pid'[i] = queueend \/ pid'[i] = NoProcess
  BY <1>1, <1>2 DEF Dequeue
<1>4. pid[i] \in Int
  BY <1>1, <1>2
<1> QED BY <1>1, <1>2, <1>3, <1>4

\* Only the pager changes a page's course, and only from in or out: a page in memory stays
\* until it is sent out or its program ends, and one under way gets there.
StaysCourse(i, g) ==
  pid'[i] = pid[i] /\ pages'[i][g] # pages[i][g] =>
    \/ pages[i][g] = 0 /\ pages'[i][g] = -1 /\ phase = "pager"
    \/ pages[i][g] = Out /\ pages'[i][g] = PAGEWAIT /\ phase = "pager"
    \/ pages[i][g] \notin {0, Out} /\ pages'[i][g] = pages[i][g] - 1 /\ phase = "age"

LEMMA CourseStep ==
  QueueInv /\ [Next]_vars => [\A i \in Slots, g \in Pages : StaysCourse(i, g)]_vars
<1> SUFFICES ASSUME QueueInv, Next, NEW i \in Slots, NEW g \in Pages
             PROVE  StaysCourse(i, g)
  BY DEF vars
<1>1. pages \in [Slots -> [Pages -> PageState]] /\ pages[i][g] \in PageState
  BY DEF QueueInv, TypeOK
<1>2. CASE UNCHANGED pages
  BY <1>2 DEF StaysCourse
<1>3. ASSUME NEW k \in Slots, StepExit(k) PROVE StaysCourse(i, g)
  <2>1. CASE i = k BY <1>3, <2>1, ExitChangesProcess DEF StaysCourse
  <2>2. CASE i # k
    <3>1. pages'[i] = pages[i] BY <1>1, <1>3, <2>2 DEF StepExit
    <3> QED BY <3>1 DEF StaysCourse
  <2> QED BY <2>1, <2>2
<1>4. CASE allage
  <2>1. phase = "age" /\ pages'[i][g] = (IF pid[i] = NoProcess THEN pages[i][g]
                                         ELSE Age(pages[i][g]))
    BY <1>4 DEF allage
  <2>2. Age(pages[i][g]) # pages[i][g] =>
          pages[i][g] \notin {0, Out} /\ Age(pages[i][g]) = pages[i][g] - 1
    BY <1>1, SizesAreNat DEF Age, PageState
  <2> QED BY <2>1, <2>2 DEF StaysCourse
<1>5. CASE CallPager
  <2>1. phase = "pager" BY <1>5 DEF CallPager, PagerReturns
  <2>2. \/ pages'[i][g] = pages[i][g]
        \/ pages[i][g] = 0 /\ pages'[i][g] = -1
        \/ pages[i][g] = Out /\ pages'[i][g] = PAGEWAIT
    BY <1>5 DEF CallPager
  <2> QED BY <2>1, <2>2 DEF StaysCourse
<1>6. ASSUME NEW k \in Slots, process_step(k)
      PROVE  UNCHANGED pages \/ StepExit(k)
  BY <1>6 DEF process_step, StepEmpty, StepBlocked, StepBranch, StepNext, frameVars
<1>7. LoopHead => UNCHANGED pages
  BY DEF LoopHead, frameVars
<1> QED BY <1>2, <1>3, <1>4, <1>5, <1>6, <1>7 DEF Next, Simulate

-----------------------------------------------------------------------------
(* Pagers that serve the processes that wait: what theirs and the         *)
(* simulator's steps keep.                                                 *)

IdleHoldsNothing == \A i \in Slots : pid[i] = NoProcess => pages[i] = AllOut

\* Only the page a process waits for comes in.  A page that goes out belongs to a process
\* that waits for another, and is out before that one is in.
Waits ==
  \A i \in Slots, h \in Pages :
    /\ pages[i][h] > 0 => h = Needed(i)
    /\ pages[i][h] \in -PAGEWAIT..-1 =>
         \/ pages[i][Needed(i)] = Out
         \/ pages[i][Needed(i)] > 0 /\ pages[i][h] + PAGEWAIT < pages[i][Needed(i)]

\* Under such a pager, with every page where it should be.
ServingInv == FramesInv /\ QueueInv /\ PcInProgram /\ IdleHoldsNothing /\ Waits

LEMMA AllOutHoldsNothing ==
  \A g \in Pages : /\ AllOut[g] = Out /\ ~(AllOut[g] >= -PAGEWAIT)
                   /\ ~(AllOut[g] > 0) /\ AllOut[g] \notin -PAGEWAIT..-1
  BY SizesAreNat DEF AllOut

LEMMA InitServing == Init => ServingInv
<1> SUFFICES ASSUME Init PROVE ServingInv
  OBVIOUS
<1>1. IdleHoldsNothing /\ Waits
  BY AllOutHoldsNothing DEF Init, IdleHoldsNothing, Waits
<1> QED BY <1>1, InitFrames, InitQueue, InitPc DEF ServingInv, FramesInv, QueueInv

\* A processor that has no process gets none, and one whose program ends holds nothing.
LEMMA StepOfOne ==
  ASSUME QueueInv, NEW k \in Slots, process_step(k)
  PROVE  /\ \A i \in Slots \ {k} :
              pages'[i] = pages[i] /\ pc'[i] = pc[i] /\ pid'[i] = pid[i]
         /\ \/ StepExit(k) /\ pages'[k] = AllOut
            \/ pages' = pages /\ pid' = pid /\ ~StepExit(k)
<1>1. /\ pages \in [Slots -> [Pages -> PageState]] /\ pc \in [Slots -> Nat]
      /\ pid \in [Slots -> 0..(QUEUESIZE - 1) \cup {NoProcess}] /\ BusyUntilEmpty
  BY DEF QueueInv, TypeOK
<1>2. CASE StepEmpty(k)
  <2>1. empty /\ pid[k] = NoProcess BY <1>1, <1>2 DEF StepEmpty, BusyUntilEmpty
  <2>2. pid' = [pid EXCEPT ![k] = NoProcess] /\ pc' = [pc EXCEPT ![k] = 0] /\ pages' = pages
    BY <1>2, <2>1 DEF StepEmpty, Dequeue, frameVars
  <2>3. ~StepExit(k) BY <2>1 DEF StepExit, Runs
  <2> QED BY <1>1, <2>1, <2>2, <2>3
<1>3. CASE StepExit(k)
  <2>1. Dequeue(k) /\ pages' = [pages EXCEPT ![k] = AllOut] BY <1>3 DEF StepExit
  <2>2. PICK v : pid' = [pid EXCEPT ![k] = v] BY <2>1 DEF Dequeue
  <2>3. pc' = [pc EXCEPT ![k] = 0] BY <2>1 DEF Dequeue
  <2> QED BY <1>1, <1>3, <2>1, <2>2, <2>3
<1>4. CASE StepBlocked(k)
  BY <1>1, <1>4 DEF StepBlocked, StepExit, Runs, processVars, frameVars
<1>5. CASE StepBranch(k)
  BY <1>1, <1>5 DEF StepBranch, StepExit, frameVars
<1>6. CASE StepNext(k)
  BY <1>1, <1>6 DEF StepNext, StepExit, frameVars
<1> QED BY <1>2, <1>3, <1>4, <1>5, <1>6 DEF process_step

LEMMA SimulateKeepsIdle ==
  ASSUME QueueInv, QueueInv', IdleHoldsNothing, Simulate
  PROVE  IdleHoldsNothing'
<1>1. CASE LoopHead BY <1>1 DEF LoopHead, processVars, frameVars, IdleHoldsNothing
<1>2. CASE allage
  BY <1>2 DEF allage, processVars, IdleHoldsNothing
<1>3. ASSUME NEW k \in Slots, process_step(k) PROVE IdleHoldsNothing'
  BY <1>3, StepOfOne DEF IdleHoldsNothing
<1> QED BY <1>1, <1>2, <1>3 DEF Simulate

\* A process that runs waits for nothing, so that nothing of it is under way.
LEMMA NothingUnderWay ==
  ASSUME Waits, TypeOK, NEW i \in Slots, NEW h \in Pages, pages[i][Needed(i)] = 0
  PROVE  pages[i][h] \in {0, Out}
<1>1. pages[i][h] \in PageState BY DEF TypeOK
<1>2. ~(pages[i][h] > 0) BY DEF Waits
<1>3. pages[i][h] \notin -PAGEWAIT..-1 BY SizesAreNat DEF Waits
<1> QED BY <1>1, <1>2, <1>3, SizesAreNat DEF PageState

LEMMA SimulateKeepsWaits ==
  ASSUME ServingInv, Simulate
  PROVE  Waits'
<1>1. /\ pages \in [Slots -> [Pages -> PageState]] /\ pc \in [Slots -> Nat] /\ TypeOK
  BY DEF ServingInv, FramesInv, TypeOK
<1>2. SUFFICES ASSUME NEW i \in Slots, NEW h \in Pages
      PROVE  /\ pages'[i][h] > 0 => h = Needed(i)'
             /\ pages'[i][h] \in -PAGEWAIT..-1 =>
                  \/ pages'[i][Needed(i)'] = Out
                  \/ pages'[i][Needed(i)'] > 0 /\ pages'[i][h] + PAGEWAIT < pages'[i][Needed(i)']
  BY DEF Waits
<1>3. /\ pages[i][h] > 0 => h = Needed(i)
      /\ pages[i][h] \in -PAGEWAIT..-1 =>
           \/ pages[i][Needed(i)] = Out
           \/ pages[i][Needed(i)] > 0 /\ pages[i][h] + PAGEWAIT < pages[i][Needed(i)]
  BY DEF ServingInv, Waits
<1>4. CASE pages'[i] = pages[i] /\ pc'[i] = pc[i]
  BY <1>3, <1>4 DEF Needed
<1>5. CASE pages'[i] = AllOut
  BY <1>5, AllOutHoldsNothing
<1>6. CASE pages'[i] = pages[i] /\ pages[i][Needed(i)] = 0
  <2>1. pages[i][h] \in {0, Out} BY <1>1, <1>6, NothingUnderWay DEF ServingInv
  <2> QED BY <1>6, <2>1, SizesAreNat
<1>7. CASE LoopHead
  BY <1>4, <1>7 DEF LoopHead, processVars, frameVars
<1>8. CASE allage
  <2>1. pid[i] = NoProcess => pages'[i] = AllOut
    BY <1>8 DEF allage, ServingInv, IdleHoldsNothing
  <2>2. CASE pid[i] # NoProcess
    <3>1. /\ \A g \in Pages : pages'[i][g] = Age(pages[i][g])
          /\ Needed(i)' = Needed(i) /\ Needed(i) \in Pages
      BY <1>1, <1>8, <2>2, NeededIsPage DEF allage, Needed, processVars, ServingInv
    <3>2. pages[i][h] \in PageState /\ pages[i][Needed(i)] \in PageState
      BY <1>1, <3>1
    <3>3. \A s \in PageState : /\ Age(s) > 0 => s > 0
                               /\ Age(s) \in -PAGEWAIT..-1 => s \in -PAGEWAIT..-1 /\ Age(s) = s - 1
                               /\ s = Out => Age(s) = Out
                               /\ s > 0 => Age(s) = s - 1
      BY SizesAreNat DEF PageState, Age
    <3>4. pages'[i][h] > 0 => h = Needed(i)' BY <1>3, <3>1, <3>2, <3>3
    <3>5. ASSUME pages'[i][h] \in -PAGEWAIT..-1, pages[i][Needed(i)] # Out
          PROVE  pages'[i][Needed(i)'] > 0 /\ pages'[i][h] + PAGEWAIT < pages'[i][Needed(i)']
      <4>1. pages[i][h] \in -PAGEWAIT..-1 /\ pages'[i][h] = pages[i][h] - 1
        BY <3>1, <3>2, <3>3, <3>5
      <4>2. pages[i][Needed(i)] > 0 /\ pages[i][h] + PAGEWAIT < pages[i][Needed(i)]
        BY <1>3, <3>5, <4>1
      <4>3. pages'[i][Needed(i)'] = pages[i][Needed(i)] - 1
        BY <3>1, <3>2, <3>3, <4>2
      <4>4. \A s, v \in PageState :
              s - 1 \in -PAGEWAIT..-1 /\ s + PAGEWAIT < v => v - 1 > 0 /\ s - 1 + PAGEWAIT < v - 1
        BY SizesAreNat DEF PageState
      <4> QED BY <3>2, <3>5, <4>1, <4>2, <4>3, <4>4
    <3>6. pages[i][Needed(i)] = Out => pages'[i][Needed(i)'] = Out
      BY <3>1, <3>2, <3>3
    <3> QED BY <3>4, <3>5, <3>6
  <2> QED BY <1>5, <2>1, <2>2
<1>9. ASSUME NEW k \in Slots, process_step(k)
      PROVE  \/ pages'[i] = pages[i] /\ pc'[i] = pc[i]
             \/ pages'[i] = AllOut
             \/ pages'[i] = pages[i] /\ pages[i][Needed(i)] = 0
  <2>1. CASE i # k BY <1>9, <2>1, StepOfOne DEF ServingInv
  <2>2. CASE i = k
    <3>1. CASE StepExit(k) BY <1>9, <2>2, <3>1, StepOfOne DEF ServingInv
    <3>2. CASE StepEmpty(k)
      BY <2>2, <3>2 DEF StepEmpty, frameVars, ServingInv, IdleHoldsNothing
    <3>3. CASE StepBlocked(k) BY <2>2, <3>3 DEF StepBlocked, processVars, frameVars
    <3>4. CASE StepBranch(k) \/ StepNext(k)
      BY <2>2, <3>4 DEF StepBranch, StepNext, Runs, frameVars
    <3> QED BY <1>9, <3>1, <3>2, <3>3, <3>4 DEF process_step
  <2> QED BY <2>1, <2>2
<1> QED BY <1>4, <1>5, <1>6, <1>7, <1>8, <1>9 DEF Simulate

-----------------------------------------------------------------------------
(* The turns of the processors in one pageit.                              *)

Ins(p) == {x \in Slots \X Pages : pages[x[1]][x[2]] = Out /\ p[x[1]][x[2]] = PAGEWAIT}

\* Page g of processor i in table t: as it was, or needed and coming in, or sent out
\* with no frame left while its process waits.
Served(n, t, i, g) ==
  \/ t.pages[i][g] = pages[i][g]
  \/ /\ i < n /\ Addressed(i, g) /\ g = Needed(i)
     /\ pages[i][g] = Out /\ t.pages[i][g] = PAGEWAIT
  \/ /\ i < n /\ Addressed(i, g) /\ t.pages[i][Needed(i)] = Out /\ t.avail = 0
     /\ pages[i][g] = 0 /\ t.pages[i][g] = -1

\* The table after the turns of the first n processors.
ServedUpTo(n, t) ==
  /\ t \in [pages : [Slots -> [Pages -> PageState]], avail : 0..pagesavail]
  /\ t.avail = pagesavail - Cardinality(Ins(t.pages))
  /\ \A i \in Slots, g \in Pages : Served(n, t, i, g)

LEMMA InsFinite == ASSUME NEW p PROVE IsFiniteSet(Ins(p)) /\ Cardinality(Ins(p)) \in Nat
<1>1. Ins(p) \in SUBSET (Slots \X Pages) BY DEF Ins
<1>2. IsFiniteSet(Ins(p)) BY <1>1, FiniteTables, FS_Subset
<1> QED BY <1>2, FS_CardinalityType

LEMMA NoTurnYet == ASSUME TypeOK PROVE ServedUpTo(0, Table)
<1>1. pages \in [Slots -> [Pages -> PageState]] /\ pagesavail \in Nat
  BY DEF TypeOK
<1>2. Ins(pages) = {}
  BY SizesAreNat DEF Ins
<1>3. pagesavail = pagesavail - Cardinality(Ins(pages))
  BY <1>1, <1>2, FS_EmptySet
<1> QED BY <1>1, <1>3 DEF ServedUpTo, Served, Table

\* What a process learns that asks for the page it needs: the page is in or comes in,
\* it is out and gets a frame, or there is none.
LEMMA Asked ==
  ASSUME ServingInv, NEW n \in Slots, NEW t, ServedUpTo(n, t), pid[n] # NoProcess
  PROVE  /\ Addressed(n, Needed(n)) /\ t.pages[n] = pages[n]
         /\ PageinOk(t, n, Needed(n)) =>
              \/ pagein(t, n, Needed(n)) = t /\ t.pages[n][Needed(n)] >= 0
              \/ /\ t.pages[n][Needed(n)] = Out /\ t.avail # 0
                 /\ pagein(t, n, Needed(n)) =
                      [pages |-> [t.pages EXCEPT ![n][Needed(n)] = PAGEWAIT],
                       avail |-> t.avail - 1]
         /\ ~PageinOk(t, n, Needed(n)) => t.pages[n][Needed(n)] = Out /\ t.avail = 0
<1>1. Addressed(n, Needed(n))
  BY NeededIsPage DEF ServingInv, FramesInv, Addressed
<1>2. /\ t.pages \in [Slots -> [Pages -> PageState]]
      /\ pages \in [Slots -> [Pages -> PageState]]
  BY DEF ServedUpTo, ServingInv, FramesInv, TypeOK
<1>3. \A g \in Pages : t.pages[n][g] = pages[n][g]
  <2>1. ~(n < n) BY DEF Slots
  <2> QED BY <2>1 DEF ServedUpTo, Served
<1>4. t.pages[n] = pages[n]
  <2>1. t.pages[n] \in [Pages -> PageState] /\ pages[n] \in [Pages -> PageState]
    BY <1>2
  <2> QED BY <1>3, <2>1
<1>5. Needed(n) \in Pages /\ pages[n][Needed(n)] \in PageState
  BY <1>1, <1>2 DEF Addressed
<1>6. pages[n][Needed(n)] >= 0 \/ pages[n][Needed(n)] = Out
  <2>1. pages[n][Needed(n)] \notin -PAGEWAIT..-1
    BY <1>5, SizesAreNat DEF ServingInv, Waits
  <2> QED BY <1>5, <2>1, SizesAreNat DEF PageState
<1>7. Out < -PAGEWAIT /\ ~(Out >= 0)
  BY SizesAreNat
<1>8. pages[n][Needed(n)] >= 0 => ~(pages[n][Needed(n)] < -PAGEWAIT)
  BY <1>5, SizesAreNat DEF PageState
<1> QED BY <1>1, <1>4, <1>6, <1>7, <1>8 DEF PageinOk, pagein

\* One turn: nothing, the page needed comes in, or pages go out when no frame is left.
TurnEffect(n, t, u) ==
  \/ u = t
  \/ /\ Addressed(n, Needed(n)) /\ t.pages[n][Needed(n)] = Out /\ t.avail # 0
     /\ u = [pages |-> [t.pages EXCEPT ![n][Needed(n)] = PAGEWAIT], avail |-> t.avail - 1]
  \/ /\ Addressed(n, Needed(n)) /\ t.pages[n][Needed(n)] = Out /\ t.avail = 0
     /\ u \in [pages : [Slots -> [Pages -> PageState]], avail : {0}]
     /\ \A i \in Slots \ {n} : u.pages[i] = t.pages[i]
     /\ \A g \in Pages : \/ u.pages[n][g] = t.pages[n][g]
                         \/ t.pages[n][g] = 0 /\ u.pages[n][g] = -1

LEMMA TurnServes ==
  ASSUME ServingInv, NEW n \in Slots, NEW t, ServedUpTo(n, t), NEW u, TurnEffect(n, t, u)
  PROVE  ServedUpTo(n + 1, u)
<1>1. /\ t.pages \in [Slots -> [Pages -> PageState]] /\ t.avail \in 0..pagesavail
      /\ pagesavail \in Nat
      /\ pages \in [Slots -> [Pages -> PageState]]
      /\ t.avail = pagesavail - Cardinality(Ins(t.pages))
  BY DEF ServedUpTo, ServingInv, FramesInv, TypeOK
<1>2. \A g \in Pages : t.pages[n][g] = pages[n][g]
  <2>1. ~(n < n) BY DEF Slots
  <2> QED BY <2>1 DEF ServedUpTo, Served
<1>3. \A i \in Slots : i < n => i < n + 1
  BY DEF Slots
<1>4. n < n + 1
  BY DEF Slots
<1>5. CASE u = t
  BY <1>3, <1>5 DEF ServedUpTo, Served
<1>6. CASE /\ Addressed(n, Needed(n)) /\ t.pages[n][Needed(n)] = Out /\ t.avail # 0
           /\ u = [pages |-> [t.pages EXCEPT ![n][Needed(n)] = PAGEWAIT],
                   avail |-> t.avail - 1]
  <2> DEFINE here == <<n, Needed(n)>>
  <2>1. Needed(n) \in Pages BY <1>6 DEF Addressed
  <2>2. PAGEWAIT \in PageState BY SizesAreNat DEF PageState
  <2>3. /\ u.pages = [t.pages EXCEPT ![n][Needed(n)] = PAGEWAIT] /\ u.avail = t.avail - 1
        /\ u \in [pages : [Slots -> [Pages -> PageState]], avail : 0..pagesavail]
    <3>1. t.avail - 1 \in 0..pagesavail
      <4>1. \A m \in Nat : \A a \in 0..m : a # 0 => a - 1 \in 0..m OBVIOUS
      <4> QED BY <1>1, <1>6, <4>1
    <3>2. [t.pages EXCEPT ![n][Needed(n)] = PAGEWAIT] \in [Slots -> [Pages -> PageState]]
      BY <1>1, <2>1, <2>2
    <3> QED BY <1>6, <3>1, <3>2
  <2>4. \A i \in Slots, g \in Pages :
          u.pages[i][g] = IF i = n /\ g = Needed(n) THEN PAGEWAIT ELSE t.pages[i][g]
    BY <1>1, <2>1, <2>3
  <2>5. /\ Ins(u.pages) = Ins(t.pages) \cup {here} /\ here \notin Ins(t.pages)
    <3>1. pages[n][Needed(n)] = Out /\ t.pages[n][Needed(n)] # PAGEWAIT
      BY <1>2, <1>6, <2>1, SizesAreNat
    <3>2. here \in Slots \X Pages BY <2>1
    <3>3. here \notin Ins(t.pages) BY <3>1 DEF Ins
    <3>4. \A x \in Slots \X Pages : x[1] = n /\ x[2] = Needed(n) <=> x = here
      OBVIOUS
    <3>5. \A x \in Slots \X Pages : x[1] \in Slots /\ x[2] \in Pages OBVIOUS
    <3>6. \A x \in Slots \X Pages : x \in Ins(u.pages) <=> x \in Ins(t.pages) \/ x = here
      BY <2>4, <3>1, <3>4, <3>5 DEF Ins
    <3> QED BY <3>2, <3>3, <3>6 DEF Ins
  <2>6. Cardinality(Ins(u.pages)) = Cardinality(Ins(t.pages)) + 1
    BY <2>5, InsFinite, FS_AddElement
  <2>7. u.avail = pagesavail - Cardinality(Ins(u.pages))
    BY <1>1, <2>3, <2>6, InsFinite
  <2>8. ASSUME NEW i \in Slots, NEW g \in Pages PROVE Served(n + 1, u, i, g)
    <3>1. CASE i = n /\ g = Needed(n)
      BY <1>2, <1>4, <1>6, <2>1, <2>4, <3>1 DEF Served
    <3>2. CASE i = n /\ g # Needed(n)
      BY <1>2, <2>4, <3>2 DEF Served
    <3>3. CASE i # n
      <4>1. Served(n, t, i, g) BY DEF ServedUpTo
      <4> QED BY <1>3, <1>6, <2>4, <3>3, <4>1 DEF Served
    <3> QED BY <3>1, <3>2, <3>3
  <2> QED BY <2>3, <2>7, <2>8 DEF ServedUpTo
<1>7. CASE /\ Addressed(n, Needed(n)) /\ t.pages[n][Needed(n)] = Out /\ t.avail = 0
           /\ u \in [pages : [Slots -> [Pages -> PageState]], avail : {0}]
           /\ \A i \in Slots \ {n} : u.pages[i] = t.pages[i]
           /\ \A g \in Pages : \/ u.pages[n][g] = t.pages[n][g]
                               \/ t.pages[n][g] = 0 /\ u.pages[n][g] = -1
  <2>1. Needed(n) \in Pages /\ u.avail = 0 BY <1>7 DEF Addressed
  <2>2. u \in [pages : [Slots -> [Pages -> PageState]], avail : 0..pagesavail]
    BY <1>1, <1>7
  <2>3. Ins(u.pages) = Ins(t.pages)
    <3>1. ASSUME NEW x \in Slots \X Pages, pages[x[1]][x[2]] = Out
          PROVE  u.pages[x[1]][x[2]] = PAGEWAIT <=> t.pages[x[1]][x[2]] = PAGEWAIT
      <4>1. x[1] \in Slots /\ x[2] \in Pages OBVIOUS
      <4>2. Out # 0 BY SizesAreNat
      <4> QED BY <1>2, <1>7, <3>1, <4>1, <4>2
    <3> QED BY <3>1 DEF Ins
  <2>4. u.pages[n][Needed(n)] = Out
    BY <1>7, <2>1, SizesAreNat
  <2>5. ASSUME NEW i \in Slots, NEW g \in Pages PROVE Served(n + 1, u, i, g)
    <3>1. CASE i = n
      <4>1. Addressed(n, g) BY <1>7 DEF Addressed
      <4> QED BY <1>2, <1>4, <1>7, <2>1, <2>4, <3>1, <4>1 DEF Served
    <3>2. CASE i # n
      <4>1. Served(n, t, i, g) BY DEF ServedUpTo
      <4> QED BY <1>3, <1>7, <2>1, <3>2, <4>1 DEF Served
    <3> QED BY <3>1, <3>2
  <2> QED BY <1>1, <1>7, <2>1, <2>2, <2>3, <2>5 DEF ServedUpTo
<1> QED BY <1>5, <1>6, <1>7 DEF TurnEffect

\* What such a pager leaves when all have had their turn.
LEMMA ServedEffect ==
  ASSUME ServingInv, NEW t, ServedUpTo(procs, t), Leaves(t)
  PROVE  /\ CallPager /\ Waits' /\ TakesFromWaiter /\ TakesForRoom
         /\ \A i \in Slots, g \in Pages :
              pages[i][g] = Out /\ pages'[i][g] = PAGEWAIT => g = Needed(i)
<1>1. /\ pages \in [Slots -> [Pages -> PageState]] /\ pagesavail \in Nat
      /\ pages' \in [Slots -> [Pages -> PageState]] /\ pagesavail' \in 0..pagesavail
      /\ pages' = t.pages /\ pagesavail' = t.avail /\ PagerReturns
      /\ pagesavail' = pagesavail - Cardinality(Ins(pages'))
  BY DEF ServedUpTo, Leaves, ServingInv, FramesInv, TypeOK
<1>2. pid' = pid /\ \A i \in Slots : Needed(i)' = Needed(i)
  BY <1>1 DEF PagerReturns, processVars, Needed
<1>3. \A i \in Slots, g \in Pages :
        \/ pages'[i][g] = pages[i][g]
        \/ /\ Addressed(i, g) /\ g = Needed(i) /\ pages[i][g] = Out /\ pages'[i][g] = PAGEWAIT
        \/ /\ Addressed(i, g) /\ pages'[i][Needed(i)] = Out /\ pagesavail' = 0
           /\ pages[i][g] = 0 /\ pages'[i][g] = -1
  BY <1>1 DEF ServedUpTo, Served
<1>4. \A i \in Slots : pid[i] # NoProcess => Needed(i) \in Pages
  BY NeededIsPage DEF ServingInv, FramesInv
<1>5. -1 # 0 /\ PAGEWAIT # 0 /\ PAGEWAIT # -1 /\ Out # 0 /\ Out # PAGEWAIT /\ Out # -1
  BY SizesAreNat
<1>6. CallPager
  <2> DEFINE outs == {x \in Slots \X Pages : Addressed(x[1], x[2]) /\ pages[x[1]][x[2]] = 0
                                            /\ pages'[x[1]][x[2]] = -1}
             ins  == Ins(pages')
  <2>1. /\ outs \in SUBSET {x \in Slots \X Pages : Addressed(x[1], x[2]) /\ pages[x[1]][x[2]] = 0}
        /\ ins \in SUBSET {x \in Slots \X Pages : Addressed(x[1], x[2]) /\ pages[x[1]][x[2]] = Out}
    <3>1. ASSUME NEW x \in ins PROVE x \in Slots \X Pages /\ Addressed(x[1], x[2]) /\ pages[x[1]][x[2]] = Out
      <4>1. /\ x \in Slots \X Pages /\ x[1] \in Slots /\ x[2] \in Pages
            /\ pages[x[1]][x[2]] = Out /\ pages'[x[1]][x[2]] = PAGEWAIT
        BY DEF Ins
      <4> QED BY <1>3, <1>5, <4>1
    <3> QED BY <3>1
  <2>2. Cardinality(ins) <= pagesavail /\ pagesavail' = pagesavail - Cardinality(ins)
    BY <1>1, InsFinite
  <2>3. \A i \in Slots, g \in Pages :
          pages'[i][g] = IF <<i, g>> \in outs THEN -1
                         ELSE IF <<i, g>> \in ins THEN PAGEWAIT ELSE pages[i][g]
    <3> SUFFICES ASSUME NEW i \in Slots, NEW g \in Pages
                 PROVE  pages'[i][g] = IF <<i, g>> \in outs THEN -1
                                       ELSE IF <<i, g>> \in ins THEN PAGEWAIT ELSE pages[i][g]
      OBVIOUS
    <3>1. /\ <<i, g>> \in outs <=> Addressed(i, g) /\ pages[i][g] = 0 /\ pages'[i][g] = -1
          /\ <<i, g>> \in ins <=> pages[i][g] = Out /\ pages'[i][g] = PAGEWAIT
      BY DEF Ins
    <3> HIDE DEF outs, ins
    <3> QED BY <1>3, <1>5, <3>1
  <2>4. pages' = [i \in Slots |-> [g \in Pages |->
                    IF <<i, g>> \in outs THEN -1
                    ELSE IF <<i, g>> \in ins THEN PAGEWAIT ELSE pages[i][g]]]
    <3> HIDE DEF outs, ins
    <3> QED BY <1>1, <2>3
  <2> HIDE DEF outs, ins
  <2> QED BY <1>1, <2>1, <2>2, <2>4 DEF CallPager
<1>7. Waits'
  <2> SUFFICES ASSUME NEW i \in Slots, NEW h \in Pages
               PROVE  /\ pages'[i][h] > 0 => h = Needed(i)
                      /\ pages'[i][h] \in -PAGEWAIT..-1 =>
                           \/ pages'[i][Needed(i)] = Out
                           \/ pages'[i][Needed(i)] > 0 /\ pages'[i][h] + PAGEWAIT < pages'[i][Needed(i)]
    BY <1>2 DEF Waits
  <2>1. /\ pages[i][h] > 0 => h = Needed(i)
        /\ pages[i][h] \in -PAGEWAIT..-1 =>
             \/ pages[i][Needed(i)] = Out
             \/ pages[i][Needed(i)] > 0 /\ pages[i][h] + PAGEWAIT < pages[i][Needed(i)]
    BY DEF ServingInv, Waits
  <2>2. CASE pages'[i][h] = -1 /\ pages[i][h] = 0
    <3>1. pages'[i][Needed(i)] = Out BY <1>3, <1>5, <2>2
    <3> QED BY <2>2, <3>1, SizesAreNat
  <2>3. CASE pages'[i][h] = PAGEWAIT /\ h = Needed(i)
    BY <2>3, SizesAreNat
  <2>4. CASE pages'[i][h] = pages[i][h]
    <3>1. CASE Needed(i) \notin Pages
      <4>1. pages[i] = AllOut BY <1>4, <3>1 DEF ServingInv, IdleHoldsNothing
      <4> QED BY <2>4, <4>1, AllOutHoldsNothing
    <3>2. CASE Needed(i) \in Pages
      <4>1. CASE pages'[i][Needed(i)] = pages[i][Needed(i)] BY <2>1, <2>4, <4>1
      <4>2. CASE pages'[i][Needed(i)] = PAGEWAIT
        <5>1. pages'[i][h] \in PageState BY <1>1
        <5> QED BY <2>1, <2>4, <4>2, <5>1, SizesAreNat DEF PageState
      <4>3. CASE pages'[i][Needed(i)] = -1 /\ pages'[i][Needed(i)] = Out
        BY <1>5, <4>3
      <4> QED BY <1>3, <3>2, <4>1, <4>2, <4>3
    <3> QED BY <3>1, <3>2
  <2> QED BY <1>3, <2>2, <2>3, <2>4
<1>8. ASSUME NEW i \in Slots, NEW g \in Pages, pages[i][g] = 0, pages'[i][g] # 0
      PROVE  pages'[i][Needed(i)] = Out /\ pagesavail' = 0 /\ Addressed(i, g)
  BY <1>3, <1>5, <1>8
<1>9. TakesFromWaiter
  <2> SUFFICES ASSUME NEW i \in Slots, NEW g \in Pages, SendsOut(i, g), InMemory(i, Needed(i))
               PROVE  FALSE
    BY DEF TakesFromWaiter
  <2>1. /\ pages'[i][Needed(i)] = Out /\ Needed(i) \in Pages /\ pages[i][Needed(i)] = 0
    BY <1>4, <1>8 DEF SendsOut, InMemory, Addressed
  <2> QED BY <1>3, <1>5, <2>1
<1>10. TakesForRoom BY <1>8 DEF TakesForRoom, SendsOut, InMemory
<1>11. \A i \in Slots, g \in Pages :
          pages[i][g] = Out /\ pages'[i][g] = PAGEWAIT => g = Needed(i)
  BY <1>3, <1>5
<1> QED BY <1>6, <1>7, <1>9, <1>10, <1>11

\* Steps of the simulator send nothing out: the pager is not called.
LEMMA SimulateSendsNothing ==
  ASSUME Simulate
  PROVE  phase # "pager"
BY DEF Simulate, LoopHead, allage, process_step, StepEmpty, StepBlocked, StepExit,
       StepBranch, StepNext, Runs, Turn

\* The invariant under such a pager.
LEMMA ServingStep ==
  ASSUME ServingInv,
         \/ Simulate
         \/ CallPager /\ Waits'
         \/ UNCHANGED vars
  PROVE  ServingInv' /\ [Next]_vars
<1>1. [Next]_vars BY DEF Next
<1>2. FramesInv' BY <1>1, FramesStep DEF ServingInv
<1>3. QueueInv' /\ PcInProgram'
  BY <1>1, <1>2, QueueStep, PcStep DEF ServingInv, FramesInv
<1>4. CASE Simulate
  BY <1>1, <1>2, <1>3, <1>4, SimulateKeepsIdle, SimulateKeepsWaits DEF ServingInv
<1>5. CASE CallPager /\ Waits'
  <2>1. \A i \in Slots : pid[i] = NoProcess => pages'[i] = pages[i]
    <3>1. pages \in [Slots -> [Pages -> PageState]]
          /\ pages' \in [Slots -> [Pages -> PageState]]
      BY <1>2 DEF ServingInv, FramesInv, TypeOK
    <3>2. \A i \in Slots, g \in Pages : pid[i] = NoProcess => pages'[i][g] = pages[i][g]
      BY <1>5 DEF CallPager, Addressed
    <3>3. ASSUME NEW i \in Slots, pid[i] = NoProcess PROVE pages'[i] = pages[i]
      <4>1. pages[i] \in [Pages -> PageState] /\ pages'[i] \in [Pages -> PageState]
        BY <3>1
      <4> QED BY <3>2, <3>3, <4>1
    <3> QED BY <3>3
  <2>2. pid' = pid BY <1>5 DEF CallPager, PagerReturns, processVars
  <2>3. IdleHoldsNothing' BY <2>1, <2>2 DEF ServingInv, IdleHoldsNothing
  <2> QED BY <1>1, <1>2, <1>3, <1>5, <2>3 DEF ServingInv
<1>6. CASE UNCHANGED vars
  <2>1. IdleHoldsNothing' BY <1>6 DEF vars, frameVars, processVars, IdleHoldsNothing, ServingInv
  <2>2. Waits' BY <1>6 DEF vars, frameVars, processVars, Waits, Needed, ServingInv
  <2> QED BY <1>1, <1>2, <1>3, <2>1, <2>2 DEF ServingInv
<1> QED BY <1>4, <1>5, <1>6

=============================================================================
