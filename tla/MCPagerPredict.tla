---------------------------- MODULE MCPagerPredict -----------------------------
(* Programs of programs.c for TLC, with three statements to a page instead of *)
(* 128 and every FOR taken once: each keeps its pages, and its branches      *)
(* between them.                                                             *)
EXTENDS PagerPredict, Branching

For(from, to)  == [wherefrom |-> from, whereto |-> to, btype |-> "FOR", min |-> 1, max |-> 2]
If(from, to)   == [wherefrom |-> from, whereto |-> to, btype |-> "IF", min |-> 0, max |-> 0]
Goto(from, to) == [wherefrom |-> from, whereto |-> to, btype |-> "GOTO", min |-> 0, max |-> 0]

InnerBranch == [size |-> 36, exits |-> {35}, branches |-> <<If(10, 32), Goto(31, 34), For(34, 0)>>]
OneLoop     == [size |-> 27, exits |-> {26}, branches |-> <<For(25, 0)>>]
DoubleLoop  == [size |-> 42, exits |-> {41}, branches |-> <<For(39, 27), For(40, 0)>>]

LoopsAndBranch == <<InnerBranch, OneLoop, DoubleLoop>>

=============================================================================
