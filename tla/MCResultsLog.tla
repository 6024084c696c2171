----------------------------- MODULE MCResultsLog ------------------------------
(* An instance of ResultsLog for TLC.                                      *)
EXTENDS ResultsLog

ThreeLines == [f \in Files |-> 3]

\* No address, one, and a list whose first address is not converted.
SomeAnswers == {<< >>, <<"AF_INET">>, <<"AF_INET6", "AF_INET">>}

=============================================================================
