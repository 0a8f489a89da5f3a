------------------------- MODULE MCRedisUsageTracker -------------------------
(***************************************************************************)
(* Instances of RedisUsageTracker: two children of two calls each compete  *)
(* for the two calls of their parent, which three requests can exceed, and *)
(* a key TTL of one second, so that keys expire during a run.              *)
(***************************************************************************)
EXTENDS RedisUsageTracker, TLC

CONSTANTS parent, elder, younger, r1, r2, r3

Limits(iat, exp, prf, dlg, calls, amount, rate) ==
    [iat |-> iat, exp |-> exp, prf |-> prf, dlg |-> dlg, max_calls |-> calls,
     max_amount_usd |-> amount, rate_limit_per_min |-> rate]

MCTokens == {parent, elder, younger}

MCClaims ==
    parent  :> Limits(0, 1, None, TRUE, 2, 2, 1) @@
    elder   :> Limits(0, 1, parent, FALSE, 2, 2, 1) @@
    younger :> Limits(0, 1, parent, FALSE, 2, 2, 1)
MCAmounts == {None, -1, 1}

Symmetry == Permutations(Request) \cup Permutations({elder, younger})
=============================================================================
