---------------------------- MODULE LinkedSimulator ----------------------------
(***************************************************************************)
(* Three of the executables of PA4/PA4/Makefile, test-basic, test-lru and  *)
(* test-api: the simulator with its branching engines, linked with one of  *)
(* the pagers.  Each implements the simulator with any pager, whose        *)
(* branches decide as Branching says.                                      *)
(***************************************************************************)
EXTENDS PagerBasic, BranchEngine

CONSTANT MAXITERATIONS

VARIABLES
  linked,                                      \* the pager in the executable
  tick, recent,                                \* of pager-lru.c
  outTestRun, inTestRun, iterations, exited    \* of api-test.c

Lru == INSTANCE PagerLru
Api == INSTANCE ApiTest

lruVars    == <<tick, recent>>
testVars   == <<outTestRun, inTestRun, iterations, exited>>
linkedVars == <<vars, linked, lruVars, testVars>>

\* No program of programs.c ends on the page that api-test.c moves.
ASSUME TestAssumption ==
  \A k \in DOMAIN Programs : \A e \in Programs[k].exits : e \div PAGESIZE # Api!testPage

LinkedInit ==
  /\ Init
  /\ linked \in {"pager-basic", "pager-lru", "api-test"}
  /\ Lru!LruInit /\ Api!TestInit

LinkedNext ==
  /\ UNCHANGED linked
  /\ \/ linked = "pager-basic" /\ BasicNext /\ UNCHANGED <<lruVars, testVars>>
     \/ linked = "pager-lru" /\ Lru!LruNext /\ UNCHANGED testVars
     \/ linked = "api-test" /\ Api!TestNext /\ UNCHANGED lruVars

LinkedSpec     == LinkedInit /\ [][LinkedNext]_linkedVars
FairLinkedSpec == LinkedSpec /\ WF_linkedVars(LinkedNext)

-----------------------------------------------------------------------------
(* Properties.                                                             *)

\* The counting engine a context stands for, if its type is still that of its branch.
Counting(i, j) ==
  LET b == Branches(Kind(i))[j]
      c == bcontexts[i][j]
  IN  IF Programs[Kind(i)].branches # << >> /\ c.btype # b.btype THEN -1 ELSE Remaining(b, c)

AnyPager ==
  INSTANCE Simulator WITH
    Load      <- Drawn,
    Decide    <- Decisions,
    bcontexts <- [i \in Slots |-> [j \in DOMAIN bcontexts[i] |-> Counting(i, j)]]

\* Each executable implements the simulator with any pager and counted branches.  Its
\* pager moves frames by the rules of pagein and pageout only; and the rings of run
\* lengths, offsets and wrapped counters of lines 181-249 come to a FOR that is refused
\* once after each count it draws, also after the write one past brings[] (line 204).
ImplementsSimulator == AnyPager!Spec

\* The basic pager serves the first active process only and never needs a pageout.
ServesFirst == linked = "pager-basic" => OneAtATime /\ NeverSendsOut

\* With a pager that serves programs the queue comes to its end.  No decision is left
\* to chance then: the runs of an IF end too.
QueueEnds == linked # "api-test" => Ends

\* Such a pager takes pages from waiting processes only.
OnlyWaitersServed == [][linked # "api-test" => TakesFromWaiter]_linkedVars

\* It sends a page out only when it has no frame.
SentForRoom == [][linked # "api-test" => TakesForRoom]_linkedVars

\* The flags of the API test follow its page.
TestFlags == linked = "api-test" => Api!FlagsFollowPage

\* The API test comes to its exit.
TestEnds == linked = "api-test" => Api!TestExits

=============================================================================
