----------------------------- MODULE MCApprovals -----------------------------
(* Two approvals of one order, the second superseding the first; two       *)
(* tokens and two authorizations.                                          *)
EXTENDS Approvals, TLC

CONSTANTS first, second, order, k1, k2, r1, r2, agreed, changed

Approved(resource, expires) ==
    [resource |-> resource, content |-> agreed, expires_at |-> expires]

Approvals2 == first :> Approved(order, 1) @@ second :> Approved(order, 2)

Symmetry == Permutations({k1, k2}) \cup Permutations({r1, r2})
=============================================================================
