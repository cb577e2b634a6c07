---------------------------- MODULE ResidencyPlan ----------------------------
(***************************************************************************)
(* Which layers are to stay in device memory and which are streamed from   *)
(* disk: the pure part of ForwardRunner::load_resident_layers.  size is    *)
(* the function of the layers' sizes, over 0 .. n-1.                       *)
(***************************************************************************)
EXTENDS Integers, FiniteSets

Least(a, b) == IF a <= b THEN a ELSE b

(* The bytes of the first k layers.                                         *)
Prefix(size, n) ==
  LET total[k \in 0 .. n] == IF k = 0 THEN 0 ELSE total[k - 1] + size[k - 1]
  IN  total
Total(size, n) == Prefix(size, n)[n]

(* How many of the first layers fit: the loop stops at the first that does  *)
(* not, and at most limit are counted.                                      *)
Fit(size, n, limit, budget) ==
  CHOOSE fit \in 0 .. Least(n, limit) :
    /\ \A k \in 0 .. fit : Prefix(size, n)[k] <= budget
    /\ fit < Least(n, limit) => Prefix(size, n)[fit + 1] > budget

(* The i-th of s streamed layers among n: the centre of the i-th of s equal *)
(* buckets.                                                                 *)
Centre(n, s, i) == Least(((2 * i + 1) * n) \div (2 * s), n - 1)
Spread(n, s)    == {Centre(n, s, i) : i \in 0 .. s - 1}

PlanStreamed(size, n, limit, budget) == Spread(n, n - Fit(size, n, limit, budget))
=============================================================================
