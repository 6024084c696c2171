------------------------------ MODULE PagerBasic -------------------------------
(***************************************************************************)
(* pager-basic.c under the simulator: only the first active process is     *)
(* served, and it pages one of its own pages out when a pagein fails.      *)
(***************************************************************************)
EXTENDS Simulator

\* As in simulator.h: 100 frames, 20 pages.
ASSUME EnoughFrames == PHYSICALPAGES >= MAXPROCPAGES

Lowest(S) == CHOOSE x \in S : \A y \in S : x <= y

\* The pages pageout accepts for process i, other than the one it needs.
Victims(t, i, page) == {g \in Pages \ {page} : PageoutOk(t, i, g)}

Serve(t, i, page) ==
  IF InMemory(i, page) THEN t
  ELSE IF PageinOk(t, i, page) THEN pagein(t, i, page)
  ELSE IF Victims(t, i, page) = {} THEN t
  ELSE pageout(t, i, Lowest(Victims(t, i, page)))

\* Mutants of pageit: any active process is served; only processor 0 ever is.
pageitAll ==
  \E i \in Active \cup {-1} : Leaves(IF i = -1 THEN Table ELSE Serve(Table, i, Needed(i)))
pageitZero == Leaves(IF 0 \in Active THEN Serve(Table, 0, Needed(0)) ELSE Table)

pageit ==
  Leaves(IF Active = {} THEN Table
         ELSE LET proc == Lowest(Active) IN Serve(Table, proc, Needed(proc)))

BasicNext == Simulate \/ pageit

BasicSpec == Init /\ [][BasicNext]_vars

-----------------------------------------------------------------------------
(* Properties.                                                             *)

\* "Dedicate all work to first active process" (pager-basic.c:34): no other process
\* ever has a frame, and every program of the queue is run by one processor after
\* the other.
OneAtATime == \A x \in Held : pid[x[1]] # NoProcess => x[1] = Lowest(Active)

\* With a frame for every page of a process, pagein never fails for the one process
\* that is served: the search for a page to send out (lines 41-51) never runs, and no
\* page leaves memory before its program ends.
NeverSendsOut == \A i \in Slots, g \in Pages : pages[i][g] \in {Out} \cup 0..PAGEWAIT

=============================================================================
