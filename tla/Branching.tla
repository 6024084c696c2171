------------------------------- MODULE Branching -------------------------------
(***************************************************************************)
(* What the branching engines of simulator.c decide, without the way they  *)
(* do it: a count is drawn when it is needed.  The engine of a branch is   *)
(* reduced to how often it still goes its own way before it goes the other *)
(* once.  BranchEngine has the engines of the code, which draw ahead.      *)
(* A branch is one of the Simulator.                                       *)
(***************************************************************************)
EXTENDS Integers, Sequences

\* lrand48()%(max-min)+min, or min.
Counts(b) == IF b.max > b.min THEN b.min..(b.max - 1) ELSE {b.min}

\* A count of 0 has the effect of 1.  GOTO and IF do not count.
Draws(b) ==
  IF b.btype \in {"GOTO", "IF"} THEN {0} ELSE {IF n = 0 THEN 1 ELSE n : n \in Counts(b)}

\* The engines of a loaded program.  One without branches has a cleared engine.
Drawn(branches) ==
  IF branches = << >> THEN {<<1>>}
  ELSE {l \in [DOMAIN branches -> UNION {Draws(branches[j]) : j \in DOMAIN branches}] :
          \A j \in DOMAIN branches : l[j] \in Draws(branches[j])}

\* The decisions open to a branch whose engine counts n: whether it is taken, and
\* the count from then on.
Decisions(b, n) ==
  CASE b.btype = "GOTO" -> {<<TRUE, 0>>}
    [] b.btype = "IF"   -> BOOLEAN \X {0}
    [] OTHER -> IF n > 0 THEN {<<b.btype = "FOR", n - 1>>}
                ELSE {<<b.btype # "FOR", m>> : m \in Draws(b)}

=============================================================================
