----------------------------- MODULE Summation -----------------------------
(* Sums of amounts. *)
EXTENDS FiniteSetsExt

\* The sum of h[x] for the x of S.
Sum(h, S) == MapThenSumSet(LAMBDA x : h[x], S)
=============================================================================
