----------------------------- MODULE MCStopList -----------------------------
(* StopList on small instances. *)
EXTENDS StopList, TLC

CallerSymmetry == Permutations(Callers)

=============================================================================
