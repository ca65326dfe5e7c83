------------------------------ MODULE Decimals ------------------------------
(* What a NUMERIC(p, s) column keeps of an exact amount.  Amounts are counted *)
(* in units, of which 'unit' make one step of the column: one cent, say.      *)
EXTENDS Integers

\* An amount that the column keeps as it is.
Whole(x, unit) == x % unit = 0

\* Rounding to the nearest step, halves away from zero.
Stored(x, unit) ==
    IF x >= 0 THEN unit * ((2 * x + unit) \div (2 * unit))
              ELSE -(unit * ((2 * (-x) + unit) \div (2 * unit)))

\* x is y, but for what n roundings can have added or taken.
Within(x, y, n, unit) == 2 * (x - y) <= unit * n /\ 2 * (y - x) <= unit * n
=============================================================================
