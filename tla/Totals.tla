------------------------------- MODULE Totals -------------------------------
(***************************************************************************)
(* The total of an integer function on 0 .. n-1, as a bounded recursive    *)
(* function: TLC evaluates it directly, and CommonTheorems proves what it  *)
(* computes (which cannot be done for the folds of the community modules). *)
(***************************************************************************)
EXTENDS Integers

Total(f, n) ==
  LET sum[k \in 0..n] == IF k = 0 THEN 0 ELSE sum[k - 1] + f[k - 1]
  IN  sum[n]

=============================================================================
