------------------------------- MODULE PagerLru --------------------------------
(***************************************************************************)
(* pager-lru.c under the simulator: every active process that waits for a  *)
(* page asks for it, and when that fails sends one of its own pages out.   *)
(*                                                                         *)
(* A timestamp is only compared with others of its process, so the model   *)
(* keeps their order: recent[i] lists the pages processor i needed, latest *)
(* first.  Like the timestamps it outlives the processor's programs.       *)
(***************************************************************************)
EXTENDS Simulator

VARIABLES
  tick,      \* artificial time, modulo MAXPROCPAGES
  recent     \* the order of timestamps[i]

lruVars == <<tick, recent>>

LruInit == Init /\ tick = 1 % MAXPROCPAGES /\ recent = [i \in Slots |-> << >>]

\* Page g of i was needed later than page h.
Later(r, g, h) ==
  \E m \in DOMAIN r : r[m] = g /\ \A n \in 1..m : r[n] # h

Stamped(r, g) == <<g>> \o SelectSeq(r, LAMBDA h : h # g)

\* pageToSwap: where the clock stands, unless a page below that is in memory and was
\* needed later than the one needed now.
Victim(i, page, r) ==
  LET newer == {g \in 1..tick : InMemory(i, g) /\ Later(r, g, page)}
  IN  IF newer = {} THEN tick
      ELSE CHOOSE g \in newer : \A h \in newer \ {g} : Later(r, g, h)

\* A mutant of Serve: a page is sent out whether or not the process waits.
ServeAlways(t, i) ==
  LET page == Needed(i)
  IN  IF pid[i] = NoProcess THEN t
      ELSE IF PageinOk(t, i, page) /\ ~InMemory(i, page) THEN pagein(t, i, page)
      ELSE pagein(pageout(t, i, Victim(i, page, Stamped(recent[i], page))), i, page)

\* The turn of processor i in the loop of pageit.
Serve(t, i) ==
  LET page == Needed(i)
  IN  IF pid[i] = NoProcess \/ InMemory(i, page) THEN t
      ELSE IF PageinOk(t, i, page) THEN pagein(t, i, page)
      ELSE pagein(pageout(t, i, Victim(i, page, Stamped(recent[i], page))), i, page)

pageit ==
  /\ LET served[n \in 0..procs] == IF n = 0 THEN Table ELSE Serve(served[n - 1], n - 1)
     IN  Leaves(served[procs])
  /\ recent' = [i \in Slots |-> IF i \in Active THEN Stamped(recent[i], Needed(i)) ELSE recent[i]]
  /\ tick' = (tick + 1) % MAXPROCPAGES

LruNext == (Simulate /\ UNCHANGED lruVars) \/ pageit

LruSpec == LruInit /\ [][LruNext]_<<vars, lruVars>>

-----------------------------------------------------------------------------
(* Properties.                                                             *)

\* "look for the least recently used" (pager-lru.c:54): of the pages a process has in
\* memory, the one sent out was needed before all others.
SendsLeastRecent ==
  [][\A i \in Slots, g \in Pages : SendsOut(i, g) =>
       ~\E h \in Pages : InMemory(i, h) /\ Later(Stamped(recent[i], Needed(i)), g, h)]_vars

=============================================================================
