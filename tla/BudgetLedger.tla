----------------------------- MODULE BudgetLedger -----------------------------
(***************************************************************************)
(* What a budget tracker promises: a ledger that forgets nothing and       *)
(* charges a call to its token, to the token's parent and to the budget it *)
(* names all at once, or not at all, and only while each has room.         *)
(***************************************************************************)
EXTENDS Naturals

CONSTANTS
    Account,            \* what is charged: tokens and budgets
    Bill,               \* the bills that may be presented
    HasRoom(_, _, _)    \* may an account with these totals take this charge?

VARIABLE ledger

(* A bill names the accounts and says what to charge each of them.         *)
Charged(bill) ==
    [k \in Account |->
        IF k \notin DOMAIN bill THEN ledger[k]
        ELSE [calls |-> ledger[k].calls + 1,
              usd   |-> ledger[k].usd + bill[k].usd,
              minor |-> ledger[k].minor + bill[k].minor]]

Empty == [k \in Account |-> [calls |-> 0, usd |-> 0, minor |-> 0]]

Init == ledger = Empty

Pay(bill) ==
    /\ ledger' = Charged(bill)
    /\ \A k \in DOMAIN bill : HasRoom(k, ledger[k], bill[k])

Next == \E bill \in Bill : Pay(bill)

Spec == Init /\ [][Next]_ledger
=============================================================================
