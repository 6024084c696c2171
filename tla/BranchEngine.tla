------------------------------ MODULE BranchEngine -----------------------------
(***************************************************************************)
(* The branching engines of simulator.c: when a program is loaded, each    *)
(* branch gets a ring of MAXBRINGS run lengths, and goes the same way for  *)
(* the length of a run, then the other way for the length of the next.     *)
(***************************************************************************)
EXTENDS Branching

CONSTANTS
  MAXBRINGS,   \* run lengths in a ring; 100, "must be EVEN!"
  MaxRun       \* a bound on the runs of an IF, where the code has none

ASSUME EngineAssumption ==
  MAXBRINGS \in Nat \ {0} /\ MAXBRINGS % 2 = 0 /\ MaxRun \in Nat \ {0}

Offsets == 0..(MAXBRINGS - 1)
Forever == 2147483647   \* 0x7fffffff

Bcontext ==
  [btype : {"GOTO", "IF", "FOR", "NFOR"}, boffset : Offsets, bsize : 1..MAXBRINGS,
   bvalue : BOOLEAN, bcount : Nat, brings : [Offsets -> Nat]]

One(first) == [o \in Offsets |-> IF o = 0 THEN first ELSE 0]

\* bcontext_clear leaves btype alone: the queue is static, and 0 is GOTO.
bcontext_clear ==
  [btype |-> "GOTO", boffset |-> 0, bsize |-> 1, bvalue |-> TRUE, bcount |-> 0,
   brings |-> One(1)]

\* The rings a branch may draw.  FOR and NFOR draw pairs, a count and "one failure to
\* escape loop"; an IF draws one decision after the other and counts the runs.
Rings(b) ==
  CASE b.btype = "GOTO" -> {One(Forever)}
    [] b.btype = "IF"   -> [Offsets -> 1..MaxRun]
    [] OTHER            -> {r \in [Offsets -> Counts(b) \cup {1}] :
                              \A o \in Offsets : IF o % 2 = 0 THEN r[o] \in Counts(b) ELSE r[o] = 1}

FirstValues(b) ==
  CASE b.btype = "IF" -> BOOLEAN [] b.btype = "NFOR" -> {FALSE} [] OTHER -> {TRUE}

bcontext_init(b) ==
  {[btype |-> b.btype, boffset |-> 0, bsize |-> IF b.btype = "GOTO" THEN 1 ELSE MAXBRINGS,
    bvalue |-> v, bcount |-> 0, brings |-> r] : v \in FirstValues(b), r \in Rings(b)}

\* Context j is initialised.  The last decision drawn for an IF starts a run at
\* brings[MAXBRINGS]: that is the btype of the context behind it, which becomes 1, a FOR.
Initialised(l, j, c) ==
  [m \in DOMAIN l |->
     CASE m = j                        -> c
       [] m = j + 1 /\ c.btype = "IF" -> [l[m] EXCEPT !.btype = "FOR"]
       [] OTHER                        -> l[m]]

Cleared(branches) == [j \in 1..(IF branches = << >> THEN 1 ELSE Len(branches)) |-> bcontext_clear]

LoadedInOrder(branches, order) ==
  LET loaded[n \in 0..Len(branches)] ==
        IF n = 0 THEN {Cleared(branches)}
        ELSE {Initialised(l, order[n], c) : l \in loaded[n - 1], c \in bcontext_init(branches[order[n]])}
  IN  loaded[Len(branches)]

\* A mutant of process_load: the contexts are initialised from the last to the first.
process_loadBackwards(branches) ==
  LoadedInOrder(branches, [j \in DOMAIN branches |-> Len(branches) + 1 - j])

process_load(branches) == LoadedInOrder(branches, [j \in DOMAIN branches |-> j])

\* The decision of a context, and the context from then on.
bcontext_decide(b, c) ==
  {<<c.bvalue,
     IF c.bcount + 1 >= c.brings[c.boffset]
     THEN [c EXCEPT !.boffset = (c.boffset + 1) % c.bsize, !.bcount = 0, !.bvalue = ~c.bvalue]
     ELSE [c EXCEPT !.bcount = @ + 1]>>}

-----------------------------------------------------------------------------
(* The engine of Branching that a context stands for.                      *)

Remaining(b, c) ==
  IF b.btype \in {"GOTO", "IF"} \/ c.bvalue # (b.btype = "FOR") THEN 0
  ELSE IF c.brings[c.boffset] = 0 THEN 1 ELSE c.brings[c.boffset] - c.bcount

=============================================================================
