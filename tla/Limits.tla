-------------------------------- MODULE Limits --------------------------------
(* Optional limits: None is the limit of a claim that is absent.           *)
EXTENDS Integers

CONSTANT None

Limit == Nat \cup {None}

(* A limit of None is unlimited: wider than any finite limit.              *)
limit_is_wider(child, parent) ==
    /\ parent # None
    /\ child # None => child > parent
=============================================================================
