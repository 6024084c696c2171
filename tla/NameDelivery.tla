------------------------------ MODULE NameDelivery -----------------------------
(***************************************************************************)
(* What multi-lookup promises, without its threads: the names of each      *)
(* file go onto one bounded stack in file order, come off it newest first, *)
(* and are written to the results once each; the program returns only when *)
(* all are written.  The promise ends if the process fails: nothing more   *)
(* is said then, except that what was written stays written.               *)
(***************************************************************************)
EXTENDS Integers, Sequences, FiniteSets

CONSTANTS
  Files,      \* the input files
  Lines,      \* per file: how many names it holds
  Capacity,   \* how many names the stack holds
  Workers     \* how many names may be off the stack and not yet written

ASSUME LinesAssumption == Lines \in [Files -> Nat]

VARIABLES
  unread,     \* per file: the next line to be read
  stack,      \* the names waiting to be resolved
  held,       \* the names being resolved
  written,    \* the names in the results
  outcome     \* running, returned or failed

vars == <<unread, stack, held, written, outcome>>

Names == UNION {{f} \X (1..Lines[f]) : f \in Files}

Init ==
  /\ unread = [f \in Files |-> 1]
  /\ stack = << >> /\ held = {} /\ written = {}
  /\ outcome = "running"

Put(f) ==
  /\ outcome = "running"
  /\ unread[f] <= Lines[f] /\ Len(stack) < Capacity
  /\ stack' = Append(stack, <<f, unread[f]>>)
  /\ unread' = [unread EXCEPT ![f] = @ + 1]
  /\ UNCHANGED <<held, written, outcome>>

Take ==
  /\ outcome = "running"
  /\ stack # << >> /\ Cardinality(held) < Workers
  /\ held' = held \cup {stack[Len(stack)]}
  /\ stack' = SubSeq(stack, 1, Len(stack) - 1)
  /\ UNCHANGED <<unread, written, outcome>>

Write(n) ==
  /\ outcome = "running"
  /\ n \in held
  /\ held' = held \ {n} /\ written' = written \cup {n}
  /\ UNCHANGED <<unread, stack, outcome>>

Deliver == (\E f \in Files : Put(f)) \/ Take \/ (\E n \in Names : Write(n))

Return ==
  /\ outcome = "running"
  /\ written = Names
  /\ outcome' = "returned"
  /\ UNCHANGED <<unread, stack, held, written>>

Fail ==
  /\ outcome = "running"
  /\ outcome' = "failed"
  /\ UNCHANGED <<unread, stack, held, written>>

\* The last steps of a process that is about to end.
Collapse ==
  /\ outcome = "failed" /\ outcome' = "failed"
  /\ written \subseteq written'

Next == Deliver \/ Return \/ Fail \/ Collapse

Safe == Init /\ [][Next]_vars

\* A program that does not fail writes every name in the end.
Spec == Safe /\ <>(outcome = "failed" \/ written = Names)

=============================================================================
