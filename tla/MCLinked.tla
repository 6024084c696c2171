-------------------------------- MODULE MCLinked -------------------------------
(* Instances of LinkedSimulator for TLC.                                   *)
EXTENDS LinkedSimulator

For(from, to)  == [wherefrom |-> from, whereto |-> to, btype |-> "FOR", min |-> 1, max |-> 3]
Twice(from, to) == [For(from, to) EXCEPT !.min = 2, !.max = 2]
If(from, to)   == [wherefrom |-> from, whereto |-> to, btype |-> "IF", min |-> 0, max |-> 0]
Goto(from, to) == [wherefrom |-> from, whereto |-> to, btype |-> "GOTO", min |-> 0, max |-> 0]

\* With one statement to a page: a loop that is run once or twice over most of its pages
\* and may leave one out, one that goes round, with a loop inside, until an IF ends it, and
\* a program without branches.
Loop     == [size |-> 5, exits |-> {4}, branches |-> <<If(1, 3), For(3, 0)>>]
Round    == [size |-> 4, exits |-> {3}, branches |-> <<Twice(0, 0), If(1, 3), Goto(2, 0)>>]
Straight == [size |-> 3, exits |-> {2}, branches |-> << >>]

Kinds == <<Loop, Round, Straight>>

=============================================================================
