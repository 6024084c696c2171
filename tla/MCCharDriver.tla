----------------------------- MODULE MCCharDriver ------------------------------
(* Instances of CharDriver for TLC.                                        *)
EXTENDS CharDriver, TLC

Symmetric == Permutations(Users)

=============================================================================
