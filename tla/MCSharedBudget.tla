---------------------------- MODULE MCSharedBudget ----------------------------
(* A task budget that outlives the tokens that spend from it: a first      *)
(* token, its renewal, a delegated child, a token that names another       *)
(* budget, soon over, and one that names none.                             *)
EXTENDS SharedBudget, TLC

CONSTANTS task, lapsed, early, renewed, root, child, stray, plain, boss, peer, worker, ghs,
          r1, r2

Rule(issuers, max_minor, expires, calls) ==
    [issuers |-> issuers, currency |-> ghs, max_amount_minor |-> max_minor,
     expires_at |-> expires, max_calls |-> calls]

MCRules == task :> Rule({boss, peer}, 4, 3, None) @@ lapsed :> Rule({boss}, 9, 2, 2)

AllClaims ==
    LET Token1(iat, exp, prf, dlg, calls, amount, rate) ==
          [iat |-> iat, exp |-> exp, prf |-> prf, dlg |-> dlg, max_calls |-> calls,
           max_amount_usd |-> amount, rate_limit_per_min |-> rate]
    IN  early   :> Token1(0, 1, None, FALSE, None, 1, 1) @@
        renewed :> Token1(1, 2, None, FALSE, None, None, None) @@
        root    :> Token1(0, 1, None, TRUE, 1, None, None) @@
        child   :> Token1(0, 1, root, FALSE, 1, None, None) @@
        stray   :> Token1(1, 2, None, FALSE, None, None, None) @@
        plain   :> Token1(2, 3, None, FALSE, None, None, None)

AllPins ==
    LET Pin(iss, budget, currency, minor) ==
          [iss |-> iss, shared_budget |-> budget, currency |-> currency, amount_minor |-> minor]
    IN  early   :> Pin(boss, task, ghs, 2) @@
        renewed :> Pin(peer, task, ghs, 3) @@
        root    :> Pin(boss, task, ghs, 1) @@
        child   :> Pin(worker, task, ghs, 1) @@
        stray   :> Pin(boss, lapsed, ghs, 4) @@
        plain   :> Pin(boss, None, None, 0)

MCClaims == [t \in Token |-> AllClaims[t]]

MCPins == [t \in Token |-> AllPins[t]]

Symmetry == Permutations(Request)
=============================================================================
