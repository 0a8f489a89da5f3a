----------------------------- MODULE MCRevocation -----------------------------
(***************************************************************************)
(* Instances of Revocation: a delegated token that dies before its parent, *)
(* and an operator who may also give too short an expiry.                  *)
(***************************************************************************)
EXTENDS Revocation, TLC

CONSTANTS parent, child, r1, r2

Stateless(iat, exp, prf, dlg) ==
    [iat |-> iat, exp |-> exp, prf |-> prf, dlg |-> dlg, max_calls |-> None,
     max_amount_usd |-> None, rate_limit_per_min |-> None]

Tokens2 == {parent, child}
Claims2 == parent :> Stateless(0, 2, None, TRUE) @@
           child  :> Stateless(0, 1, parent, FALSE)

(* The signed expiry or, for the child, one second less.                   *)
Args2 == parent :> {2} @@ child :> {0, 1}

(* async_guard and guard with a tracker, and guard without one.            *)
Guards3 == {[async |-> TRUE, tracked |-> TRUE], [async |-> FALSE, tracked |-> TRUE],
            [async |-> FALSE, tracked |-> FALSE]}

Symmetry == Permutations({r1, r2})
=============================================================================
