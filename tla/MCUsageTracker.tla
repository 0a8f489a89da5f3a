---------------------------- MODULE MCUsageTracker ----------------------------
(***************************************************************************)
(* Instances of UsageTracker.  A delegable parent with two children that   *)
(* share its allowance, one of which dies a second before the other, and a *)
(* token of its own that dies early: records are purged while requests     *)
(* that were verified in time are still waiting to reserve.                *)
(***************************************************************************)
EXTENDS UsageTracker, TLC

CONSTANTS parent, elder, younger, solo, r1, r2, r3

Signed4(iat, exp, prf, dlg, calls, amount, rate) ==
    [iat |-> iat, exp |-> exp, prf |-> prf, dlg |-> dlg, max_calls |-> calls,
     max_amount_usd |-> amount, rate_limit_per_min |-> rate]

(* The parent allows less than its children together; a rate of one call   *)
(* in a window of one second that slides within the life of the tokens.    *)
Tokens4 == {parent, elder, younger, solo}
Claims4 ==
    parent  :> Signed4(0, 2, None, TRUE, 2, 2, 1) @@
    elder   :> Signed4(0, 1, parent, FALSE, 2, 1, 1) @@
    younger :> Signed4(1, 2, parent, FALSE, 2, 2, 1) @@
    solo    :> Signed4(0, 1, None, FALSE, 1, None, None)
Amounts3 == {None, -1, 1}

Symmetry == Permutations({r1, r2, r3})
=============================================================================
