-------------------------------- MODULE ApiTest --------------------------------
(***************************************************************************)
(* api-test.c under the simulator: a pager that moves one page in and out  *)
(* in turn and ends the program after the sixth move it started.           *)
(***************************************************************************)
EXTENDS Simulator

CONSTANT MAXITERATIONS

VARIABLES
  outTestRun,   \* the page was out, and a pagein has started since
  inTestRun,    \* the page was in, and a pageout has started since
  iterations,   \* moves started
  exited        \* exit() was called

testVars == <<outTestRun, inTestRun, iterations, exited>>

testProc == 0
testPage == 0

TestInit ==
  /\ Init
  /\ outTestRun = FALSE /\ inTestRun = FALSE /\ iterations = 0 /\ exited = FALSE

\* What the pager is told of the page.
Tested == InMemory(testProc, testPage) /\ testProc \in Active

\* The test of the iterations at the end of pageit.
Exiting == exited' = (iterations' > MAXITERATIONS)

\* The page is in: pagein, which has nothing to do, then pageout.
SwappedIn ==
  /\ Tested /\ ~inTestRun
  /\ Leaves(pageout(pagein(Table, testProc, testPage), testProc, testPage))
  /\ inTestRun' = TRUE /\ outTestRun' = FALSE
  /\ iterations' = iterations + 1
  /\ Exiting

\* Mutants of SwappedOut: the flag of the other half is not cleared; the answer of
\* pagein is not looked at.
SwappedOutSticky ==
  /\ ~Tested /\ ~outTestRun
  /\ PageinOk(Table, testProc, testPage)
  /\ Leaves(pagein(Table, testProc, testPage))
  /\ outTestRun' = TRUE /\ UNCHANGED inTestRun
  /\ iterations' = iterations + 1
  /\ Exiting
SwappedOutBlind ==
  /\ ~Tested /\ ~outTestRun
  /\ Leaves(pagein(Table, testProc, testPage))
  /\ outTestRun' = TRUE /\ inTestRun' = FALSE
  /\ iterations' = iterations + 1
  /\ Exiting

\* The page is out or on its way: pageout, which has nothing to do, then pagein.
SwappedOut ==
  /\ ~Tested /\ ~outTestRun
  /\ PageinOk(Table, testProc, testPage)
  /\ Leaves(pagein(Table, testProc, testPage))
  /\ outTestRun' = TRUE /\ inTestRun' = FALSE
  /\ iterations' = iterations + 1
  /\ Exiting

\* The move of this half is under way, or pagein refuses ("pageout in progress...").
Waiting ==
  /\ Tested => inTestRun
  /\ ~Tested => outTestRun \/ ~PageinOk(Table, testProc, testPage)
  /\ Leaves(Table)
  /\ UNCHANGED testVars

pageit == SwappedIn \/ SwappedOut \/ Waiting

TestNext == ~exited /\ ((Simulate /\ UNCHANGED testVars) \/ pageit)

TestSpec == TestInit /\ [][TestNext]_<<vars, testVars>>

-----------------------------------------------------------------------------
(* Properties.                                                             *)

\* The flags tell which way the page goes, although each is set a hundred ticks before
\* the page arrives: at most one is set, and it is the one of the move last started
\* (lines 57-58 and 85-86).  It needs a first program that cannot end without another
\* page than the one tested: that page is out then, and its flag is not.
FlagsFollowPage ==
  /\ outTestRun => pages[testProc][testPage] >= 0 /\ ~inTestRun
  /\ inTestRun  => pages[testProc][testPage] < 0
  /\ outTestRun \/ inTestRun <=> iterations > 0

\* "Run test for I state change iterations" (line 97): with such a program the test
\* comes to its exit.
TestExits == <>exited

=============================================================================
