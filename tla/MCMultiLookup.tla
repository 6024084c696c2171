----------------------------- MODULE MCMultiLookup -----------------------------
(* Instances of MultiLookup for TLC.                                       *)
EXTENDS MultiLookup, TLC

File(lines) == [readable |-> TRUE, longPath |-> TRUE, writable |-> TRUE, lines |-> lines]
Missing     == [readable |-> FALSE, longPath |-> TRUE, writable |-> FALSE, lines |-> 0]
ShortPath   == [File(1) EXCEPT !.longPath = FALSE]

\* A file that overfills the buffer, with bogus arguments around it, and one more.
Mixed     == <<Missing, File(3), ShortPath, File(2)>>
\* Two files that each overfill a buffer of one slot.
TwoLong   == <<File(2), File(2)>>
\* The least work there is.
OneFile == <<File(1)>>
\* Nothing the program accepts.
AllBogus  == <<Missing, ShortPath>>

Alike == Permutations(Requesters) \cup Permutations(Resolvers)

=============================================================================
