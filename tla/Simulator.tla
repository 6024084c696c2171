------------------------------- MODULE Simulator -------------------------------
(***************************************************************************)
(* The paging simulator of PA4/PA4: procs processors each run programs     *)
(* from one queue, a program runs only while the page of its program       *)
(* counter is in memory, and a pager outside the simulator moves pages in  *)
(* and out of PHYSICALPAGES frames.  Here the pager is any code that calls *)
(* pagein and pageout: the modules of the pagers replace CallPager.  The   *)
(* branching engines are given by Branching, which says what they promise, *)
(* or by BranchEngine, which has those of the code.                        *)
(*                                                                         *)
(* Scores, logs and the csv files are left out.                            *)
(***************************************************************************)
EXTENDS Integers, Sequences, FiniteSets

CONSTANTS
  Programs,        \* programs[]: see Program
  Copies,          \* how often each is queued: QUEUESIZE / PROGRAMS
  procs,           \* processors in use
  MAXPROCPAGES,    \* pages of a process
  PAGESIZE,        \* statements on a page
  PAGEWAIT,        \* ticks a page takes to come in or go out
  PHYSICALPAGES,   \* frames
  NoProcess,       \* a NULL entry of processes[]
  Load(_),         \* the engines a list of branches may get when it is loaded
  Decide(_, _)     \* per branch and engine: the decisions, each with the engine from then on

\* A branch is taken always (GOTO), at random (IF), or a number of times drawn
\* from min to max-1 between two refusals (FOR; NFOR the other way round).
Branch == [wherefrom : Nat, whereto : Nat, btype : {"GOTO", "IF", "FOR", "NFOR"},
           min : Nat, max : Nat]

Program == [size : Nat, branches : Seq(Branch), exits : SUBSET Nat]

QUEUESIZE == Copies * Len(Programs)
Slots     == 0..(procs - 1)
Pages     == 0..(MAXPROCPAGES - 1)
Out       == -PAGEWAIT - 1           \* the state of a page that is not in memory
PageState == Out..PAGEWAIT           \* below 0 going out, 0 in, above 0 coming in

ASSUME ProgramsAssumption ==
  /\ Programs \in Seq(Program) /\ Copies \in Nat
  /\ \A k \in DOMAIN Programs :
       /\ Programs[k].size > 0 /\ Programs[k].size - 1 \in Programs[k].exits
       /\ (Programs[k].size - 1) \div PAGESIZE < MAXPROCPAGES
       /\ \A j \in DOMAIN Programs[k].branches :
            Programs[k].branches[j].whereto < Programs[k].size
ASSUME SizesAssumption ==
  /\ procs \in Nat \ {0} /\ MAXPROCPAGES \in Nat \ {0} /\ PAGESIZE \in Nat \ {0}
  /\ PAGEWAIT \in Nat \ {0} /\ PHYSICALPAGES \in Nat
ASSUME NoProcessAssumption == NoProcess \notin Int

VARIABLES
  queuetype,   \* queuetype[n]: the program of process n, shuffled at the start
  queueend,    \* the next process to leave the queue
  pid,         \* processes[i]: which process processor i runs
  pc,          \* its program counter
  bcontexts,   \* its branching engines, one to a branch
  pages,       \* its pages, each a PageState
  pagesavail,  \* frames not in use
  phase,       \* which part of main's loop comes next
  turn         \* the loop variable of allstep

processVars == <<queueend, pid, pc, bcontexts>>
frameVars   == <<pages, pagesavail>>
vars        == <<queuetype, processVars, frameVars, phase, turn>>

-----------------------------------------------------------------------------
(* Branching engines.                                                      *)

\* A program without branches still matches branches[0], which is zero, at
\* statement 0; its cleared engine branches every second time.
ZeroBranch == [wherefrom |-> 0, whereto |-> 0, btype |-> "FOR", min |-> 1, max |-> 1]

Branches(k) ==
  IF Programs[k].branches = << >> THEN <<ZeroBranch>> ELSE Programs[k].branches

Engines(k) == Load(Programs[k].branches)

-----------------------------------------------------------------------------
(* Processes and frames.                                                   *)

Kind(i)   == queuetype[pid[i]]
Needed(i) == pc[i] \div PAGESIZE
AllOut    == [g \in Pages |-> Out]

\* A mutant of Holding: process_unload counts every page.
HoldingAll(i) == {g \in Pages : pages[i][g] >= Out}

\* The pages that use a frame: in, coming in, or still going out.
Holding(i) == {g \in Pages : pages[i][g] >= -PAGEWAIT}

empty == queueend >= QUEUESIZE

alldone == \A i \in Slots : pid[i] = NoProcess

\* A mutant of Dequeue: the process that leaves the queue is not stored.
DequeueLoses(i) ==
  /\ pc' = [pc EXCEPT ![i] = 0]
  /\ pid' = [pid EXCEPT ![i] = NoProcess]
  /\ bcontexts' = [bcontexts EXCEPT ![i] = << >>]
  /\ queueend' = IF empty THEN queueend ELSE queueend + 1

\* processes[i] = dequeue(), or NULL when the queue is empty.
Dequeue(i) ==
  /\ pc' = [pc EXCEPT ![i] = 0]
  /\ \/ /\ ~empty
        /\ pid' = [pid EXCEPT ![i] = queueend]
        /\ queueend' = queueend + 1
        /\ \E l \in Engines(queuetype[queueend]) : bcontexts' = [bcontexts EXCEPT ![i] = l]
     \/ /\ empty
        /\ pid' = [pid EXCEPT ![i] = NoProcess]
        /\ bcontexts' = [bcontexts EXCEPT ![i] = << >>]
        /\ UNCHANGED queueend

Shuffles ==
  {q \in [0..(QUEUESIZE - 1) -> DOMAIN Programs] :
     \A k \in DOMAIN Programs : Cardinality({n \in DOMAIN q : q[n] = k}) = Copies}

\* allinit: the first programs of the queue go to the processors in order.
Init ==
  /\ queuetype \in Shuffles
  /\ queueend = IF procs < QUEUESIZE THEN procs ELSE QUEUESIZE
  /\ pid = [i \in Slots |-> IF i < QUEUESIZE THEN i ELSE NoProcess]
  /\ pc = [i \in Slots |-> 0]
  /\ bcontexts \in [Slots -> (UNION {Engines(k) : k \in DOMAIN Programs}) \cup {<< >>}]
  /\ \A i \in Slots : IF i < QUEUESIZE THEN bcontexts[i] \in Engines(queuetype[i])
                      ELSE bcontexts[i] = << >>
  /\ pages = [i \in Slots |-> AllOut]
  /\ pagesavail = PHYSICALPAGES
  /\ phase = "loop" /\ turn = 0

TypeOK ==
  /\ queuetype \in [0..(QUEUESIZE - 1) -> DOMAIN Programs]
  /\ queueend \in 0..QUEUESIZE
  /\ pid \in [Slots -> 0..(QUEUESIZE - 1) \cup {NoProcess}]
  /\ pc \in [Slots -> Nat]
  /\ pages \in [Slots -> [Pages -> PageState]]
  /\ pagesavail \in 0..PHYSICALPAGES
  /\ phase \in {"loop", "step", "age", "pager", "ended"}
  /\ turn \in 0..procs

-----------------------------------------------------------------------------
(* allstep: one step of each processor, in order.                          *)

Turn(i) ==
  /\ phase = "step" /\ turn = i
  /\ turn' = i + 1
  /\ phase' = IF i + 1 = procs THEN "age" ELSE "step"
  /\ UNCHANGED queuetype

\* A processor without a process asks the queue again.
StepEmpty(i) ==
  /\ Turn(i)
  /\ pid[i] = NoProcess
  /\ Dequeue(i)
  /\ UNCHANGED frameVars

StepBlocked(i) ==
  /\ Turn(i)
  /\ pid[i] # NoProcess /\ pages[i][Needed(i)] # 0
  /\ UNCHANGED <<processVars, frameVars>>

Runs(i) == Turn(i) /\ pid[i] # NoProcess /\ pages[i][Needed(i)] = 0

\* A mutant of StepExit: the next program is left to the next tick.
StepExitIdle(i) ==
  /\ Runs(i)
  /\ pc[i] \in Programs[Kind(i)].exits
  /\ pages' = [pages EXCEPT ![i] = AllOut]
  /\ pagesavail' = pagesavail + Cardinality(Holding(i))
  /\ pid' = [pid EXCEPT ![i] = NoProcess] /\ bcontexts' = [bcontexts EXCEPT ![i] = << >>]
  /\ UNCHANGED <<queueend, pc>>

\* The program is at an exit: its frames are released and the next one loaded.
StepExit(i) ==
  /\ Runs(i)
  /\ pc[i] \in Programs[Kind(i)].exits
  /\ pages' = [pages EXCEPT ![i] = AllOut]
  /\ pagesavail' = pagesavail + Cardinality(Holding(i))
  /\ Dequeue(i)

StepBranch(i) ==
  /\ Runs(i)
  /\ pc[i] \notin Programs[Kind(i)].exits
  /\ \E j \in DOMAIN Branches(Kind(i)) :
       LET b == Branches(Kind(i))[j]
       IN  /\ b.wherefrom = pc[i]
           /\ \E d \in Decide(b, bcontexts[i][j]) :
                LET next == IF d[1] THEN b.whereto ELSE pc[i] + 1
                IN  /\ pc' = [pc EXCEPT ![i] = IF next >= Programs[Kind(i)].size THEN 0 ELSE next]
                    /\ bcontexts' = [bcontexts EXCEPT ![i][j] = d[2]]
  /\ UNCHANGED <<queueend, pid, frameVars>>

\* A mutant of StepNext: the exits are not looked up.
StepNextAnywhere(i) ==
  /\ Runs(i)
  /\ \A j \in DOMAIN Branches(Kind(i)) : Branches(Kind(i))[j].wherefrom # pc[i]
  /\ pc' = [pc EXCEPT ![i] = IF pc[i] + 1 > Programs[Kind(i)].size THEN 0 ELSE pc[i] + 1]
  /\ UNCHANGED <<queueend, pid, bcontexts, frameVars>>

StepNext(i) ==
  /\ Runs(i)
  /\ pc[i] \notin Programs[Kind(i)].exits
  /\ \A j \in DOMAIN Branches(Kind(i)) : Branches(Kind(i))[j].wherefrom # pc[i]
  /\ pc' = [pc EXCEPT ![i] = IF pc[i] + 1 > Programs[Kind(i)].size THEN 0 ELSE pc[i] + 1]
  /\ UNCHANGED <<queueend, pid, bcontexts, frameVars>>

process_step(i) ==
  StepEmpty(i) \/ StepBlocked(i) \/ StepExit(i) \/ StepBranch(i) \/ StepNext(i)

-----------------------------------------------------------------------------
(* allage: pages coming in or going out advance by one tick.               *)

Age(s) == IF s > 0 \/ s \in -PAGEWAIT..-1 THEN s - 1 ELSE s

\* The pages that are out from this tick on, and give back their frame.
Expiring == {x \in Slots \X Pages : pid[x[1]] # NoProcess /\ pages[x[1]][x[2]] = -PAGEWAIT}

allage ==
  /\ phase = "age" /\ phase' = "pager"
  /\ pages' = [i \in Slots |-> IF pid[i] = NoProcess THEN pages[i]
                               ELSE [g \in Pages |-> Age(pages[i][g])]]
  /\ pagesavail' = pagesavail + Cardinality(Expiring)
  /\ UNCHANGED <<queuetype, processVars, turn>>

-----------------------------------------------------------------------------
(* The interface of the pager, and any pager that keeps to it.             *)

\* A page table and a count of frames; the calls below map one to the next.
Table == [pages |-> pages, avail |-> pagesavail]

Addressed(i, g) == i \in Slots /\ pid[i] # NoProcess /\ g \in Pages

\* A mutant of pagein: a page takes one tick to come in, however long one takes to go out.
pageinQuick(t, i, g) ==
  IF Addressed(i, g) /\ t.avail # 0 /\ t.pages[i][g] < -PAGEWAIT
  THEN [pages |-> [t.pages EXCEPT ![i][g] = 1], avail |-> t.avail - 1] ELSE t

pagein(t, i, g) ==
  IF Addressed(i, g) /\ t.avail # 0 /\ t.pages[i][g] < -PAGEWAIT
  THEN [pages |-> [t.pages EXCEPT ![i][g] = PAGEWAIT], avail |-> t.avail - 1]
  ELSE t

\* What pagein returns: also 1 for a page that is in or coming in, 0 for one that
\* is still going out.
PageinOk(t, i, g) ==
  /\ Addressed(i, g)
  /\ t.pages[i][g] >= 0 \/ (t.avail # 0 /\ t.pages[i][g] < -PAGEWAIT)

\* A mutant of pageout: the frame is free at once, and again when the page is out.
pageoutFrees(t, i, g) ==
  IF Addressed(i, g) /\ t.pages[i][g] = 0
  THEN [t EXCEPT !.pages[i][g] = -1, !.avail = @ + 1]
  ELSE t

pageout(t, i, g) ==
  IF Addressed(i, g) /\ t.pages[i][g] = 0
  THEN [t EXCEPT !.pages[i][g] = -1]
  ELSE t

\* What pageout returns: 1 for a page that is out or going out as well.
PageoutOk(t, i, g) == Addressed(i, g) /\ t.pages[i][g] <= 0

\* What the pager is told of the processes (Pentry), besides their counters.
Active         == {i \in Slots : pid[i] # NoProcess}
InMemory(i, g) == pages[i][g] = 0

PagerReturns == phase = "pager" /\ phase' = "loop" /\ UNCHANGED <<queuetype, processVars, turn>>

\* The table left by the calls of one pageit.
Leaves(t) == PagerReturns /\ pages' = t.pages /\ pagesavail' = t.avail

\* callyou: any calls have the joint effect that some pages that are in start to go
\* out, and some that are out, as many as there are frames, start to come in.
CallPager ==
  /\ PagerReturns
  /\ \E outs \in SUBSET {x \in Slots \X Pages : Addressed(x[1], x[2]) /\ pages[x[1]][x[2]] = 0} :
     \E ins \in SUBSET {x \in Slots \X Pages : Addressed(x[1], x[2]) /\ pages[x[1]][x[2]] = Out} :
        /\ Cardinality(ins) <= pagesavail
        /\ pages' = [i \in Slots |-> [g \in Pages |->
                       IF <<i, g>> \in outs THEN -1
                       ELSE IF <<i, g>> \in ins THEN PAGEWAIT ELSE pages[i][g]]]
        /\ pagesavail' = pagesavail - Cardinality(ins)

\* What main asks after each call of the pager (-dead): processes are active, and the
\* page each of them needs is out, not even on its way.
allblocked ==
  /\ \E i \in Slots : pid[i] # NoProcess
  /\ \A i \in Slots : pid[i] # NoProcess => pages[i][Needed(i)] < -PAGEWAIT

-----------------------------------------------------------------------------
(* main.                                                                   *)

LoopHead ==
  /\ phase = "loop"
  /\ phase' = IF alldone THEN "ended" ELSE "step"
  /\ turn' = 0
  /\ UNCHANGED <<queuetype, processVars, frameVars>>

\* One pass of the loop up to the call of the pager.
Simulate == LoopHead \/ (\E i \in Slots : process_step(i)) \/ allage

Next == Simulate \/ CallPager

Spec == Init /\ [][Next]_vars

-----------------------------------------------------------------------------
(* Properties.                                                             *)

Held == {x \in Slots \X Pages : pages[x[1]][x[2]] >= -PAGEWAIT}

\* A frame is free or used by exactly one page, whatever the pager asks for:
\* pagein, the end of a pageout and the end of a program keep the books
\* (pagesavail, lines 299, 433 and 708).
FramesConserved == pagesavail + Cardinality(Held) = PHYSICALPAGES

\* FAQ lines 43-45: a processor is without a process only when the queue is empty.
BusyUntilEmpty == \A i \in Slots : pid[i] = NoProcess => empty

RunsOnce ==
  \A i \in Slots : pid[i] # NoProcess =>
     /\ pid[i] < queueend
     /\ \A k \in Slots \ {i} : pid[k] # pid[i]

Running == {pid[i] : i \in Slots}

Reloads(i) ==
  pid'[i] # pid[i] => /\ pid[i] # NoProcess => pc[i] \in Programs[Kind(i)].exits
                      /\ pid'[i] # NoProcess => pid'[i] >= queueend

\* Every process of the queue is run, once and to an exit of its program: whatever the
\* order in which processors finish and reload, those that leave the queue are on a
\* processor from then on, and on one only; none leaves it before its end; and a processor
\* that reloads gets none that ran before (lines 353-368, 459-462 and 638-640).
QueueServed ==
  /\ []RunsOnce
  /\ 0..(queueend - 1) \subseteq Running
  /\ [][queueend..(queueend' - 1) \subseteq Running' /\ \A i \in Slots : Reloads(i)]_vars

\* The program counter is always a statement of the program, so that its page is an
\* entry of pages[]: line 389 lets it reach size itself, which only the exit at the
\* last statement prevents.
PcInProgram == \A i \in Slots : pid[i] # NoProcess => pc[i] < Programs[Kind(i)].size

-----------------------------------------------------------------------------
(* What a pager may promise; the modules of the pagers check these.        *)

\* The simulation ends with every program of the queue run.
Ends == <>(phase = "ended")

SendsOut(i, g) == phase = "pager" /\ InMemory(i, g) /\ pages'[i][g] # 0

TakesFromWaiter == \A i \in Slots, g \in Pages : SendsOut(i, g) => ~InMemory(i, Needed(i))
TakesForRoom    == \A i \in Slots, g \in Pages : SendsOut(i, g) => pagesavail' = 0

\* A page is sent out only when no frame is free ("if there is no more room left in the
\* physical pages", pager-lru.c:83).  pagein also fails for a page still on its way out,
\* but a page takes as long to come in, so that a process that runs again has none.  A
\* pageit frees no frame: one that is free after it was free throughout.
SendsForRoom == [][TakesForRoom]_vars

\* The report "All needed pages swapped out!" (simulator.c:678) is no deadlock: when a
\* call of the pager leaves every process without the page it needs, some page is on
\* its way out, and its frame comes free without any process running.
NoStandstill ==
  [][phase = "pager" /\ allblocked' =>
       \E x \in Held' : pages'[x[1]][x[2]] < 0]_vars

=============================================================================
