------------------------------ MODULE MCPagerLru -------------------------------
(* Instances of PagerLru for TLC.                                          *)
EXTENDS PagerLru, Branching

\* A loop that is run once or twice over most of its pages, and a program without
\* branches; with one statement to a page.
Loop == [size |-> 5, exits |-> {4},
         branches |-> <<[wherefrom |-> 3, whereto |-> 0, btype |-> "FOR", min |-> 1, max |-> 3]>>]
Straight == [size |-> 3, exits |-> {2}, branches |-> << >>]

LoopAndStraight == <<Loop, Straight>>

=============================================================================
