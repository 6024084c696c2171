----------------------------- MODULE PagerPredict ------------------------------
(***************************************************************************)
(* pager-predict.c under the simulator: a process that fails to get a page *)
(* gives up all its pages, and guesses from where it failed before which   *)
(* pages the loop it is in will need.                                      *)
(***************************************************************************)
EXTENDS Simulator

\* 100 in simulator.h.
ASSUME SomeFrames == PHYSICALPAGES > 0

VARIABLE previousAccess   \* per processor: a page, or how many pages a guess got

predictVars == <<vars, previousAccess>>

PredictInit == Init /\ previousAccess = [i \in Slots |-> 0]

\* The pages guessed from the last entry and the page needed; none: no pattern.
Predicted(last, page) ==
  CASE last = 3  /\ page = 0                     -> 0..3      \* single loop
    [] last = 9  /\ page = 0                     -> 0..8      \* double loop
    [] <<last, page>> \in {<<13, 8>>, <<8, 13>>} -> 9..13     \* its inner loop
    [] last = 13 /\ page = 0                     -> 0..12
    [] last = 3  /\ page \in {10, 11}            -> 11..12    \* loop with a branch
    [] OTHER                                     -> {}

\* pageout of every page of process i: those in memory are sent out.
GiveUp(t, i) == [t EXCEPT !.pages[i] = [g \in Pages |-> IF @[g] = 0 THEN -1 ELSE @[g]]]

\* A mutant of Bring: pages on their way out are brought in, with or without a frame.
BringBlind(t, i, wanted) ==
  LET served == {g \in wanted \cap Pages : t.pages[i][g] < 0}
  IN  [pages |-> [t.pages EXCEPT ![i] = [g \in Pages |-> IF g \in served THEN PAGEWAIT ELSE @[g]]],
       avail |-> t.avail - Cardinality(served)]

\* pagein of each wanted page in ascending order: those that are out get the frames
\* while there are any.
Bring(t, i, wanted) ==
  LET out    == {g \in wanted \cap Pages : t.pages[i][g] = Out}
      served == {g \in out : Cardinality({h \in out : h < g}) < t.avail}
  IN  [pages |-> [t.pages EXCEPT ![i] = [g \in Pages |-> IF g \in served THEN PAGEWAIT ELSE @[g]]],
       avail |-> t.avail - Cardinality(served)]

\* How many of those calls returned 1: the pages in memory or coming in after them.
Got(t, i, wanted) == Cardinality({g \in wanted \cap Pages : t.pages[i][g] >= 0})

\* Mutants of Serve: a process that waits gives its pages up before it asks; nothing is
\* given up.
ServeEager(s, i) ==
  IF s.stop \/ pid[i] = NoProcess \/ InMemory(i, Needed(i)) THEN s
  ELSE [s EXCEPT !.t = Bring(GiveUp(s.t, i), i, {Needed(i), Needed(i) + 1})]
ServeKeeping(s, i) ==
  IF s.stop \/ pid[i] = NoProcess \/ InMemory(i, Needed(i)) THEN s
  ELSE [s EXCEPT !.t = Bring(s.t, i, {Needed(i), Needed(i) + 1})]

\* One turn of the loop over the processors; a guess ends the loop.
Serve(s, i) ==
  LET page    == Needed(i)
      guess   == Predicted(s.previous[i], page)
      guessed == Bring(GiveUp(s.t, i), i, guess)
      ahead   == Bring(pageout(GiveUp(s.t, i), i, page - 1), i, {page, page + 1})
  IN  IF s.stop \/ pid[i] = NoProcess \/ InMemory(i, page) THEN s
      ELSE IF PageinOk(s.t, i, page) THEN [s EXCEPT !.t = pagein(s.t, i, page)]
      ELSE IF guess = {} THEN [s EXCEPT !.t = ahead, !.previous[i] = page + 1]
      ELSE [t |-> guessed, stop |-> TRUE,
            previous |-> [s.previous EXCEPT ![i] = Got(guessed, i, guess)]]

pageit ==
  LET served[n \in 0..procs] ==
        IF n = 0 THEN [t |-> Table, previous |-> previousAccess, stop |-> FALSE]
        ELSE Serve(served[n - 1], n - 1)
      last == served[procs]
  IN  Leaves(last.t) /\ previousAccess' = last.previous

PredictNext == (Simulate /\ UNCHANGED previousAccess) \/ pageit

PredictSpec     == PredictInit /\ [][PredictNext]_predictVars
FairPredictSpec == PredictSpec /\ WF_predictVars(PredictNext)

-----------------------------------------------------------------------------
(* Properties.                                                             *)

ComesIn(i, g) == phase = "pager" /\ pages[i][g] = Out /\ pages'[i][g] = PAGEWAIT

\* Lines 57-116 mean to bring in the pages a process will ask for next ("bring in the
\* next page since thats what it most likely will do", line 116).  None of them ever
\* comes in: the pager guesses only after a failed pagein, with no frame free, and the
\* pages given up for the guess (lines 51-53) hold theirs for a hundred ticks more, so
\* that every pagein that follows in the same call fails too.
OnlyNeededComeIn == [][\A i \in Slots, g \in Pages : ComesIn(i, g) => g = Needed(i)]_predictVars

=============================================================================
