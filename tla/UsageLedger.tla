------------------------------ MODULE UsageLedger ------------------------------
(***************************************************************************)
(* What a usage tracker promises, whatever it is stored in.  The ledger    *)
(* counts, for ever, the calls and the amount granted against every jti;   *)
(* a grant charges every jti of the presented token's chain at once and is *)
(* made only while every one of them has room for it.  There is no clock,  *)
(* no purge, no lock and no transaction: the trackers have to behave as if *)
(* they never forgot anything.                                             *)
(***************************************************************************)
EXTENDS Tokens

CONSTANT Amount         \* the amounts a call may carry

VARIABLE ledger

Empty == [t \in Token |-> [calls |-> 0, spent |-> 0]]

HasRoom(t, amount) ==
    /\ Claims[t].max_calls # None =>
          ledger[t].calls + 1 <= Claims[t].max_calls
    /\ Claims[t].max_amount_usd # None =>
          ledger[t].spent + amount <= Claims[t].max_amount_usd

Charge(chain, amount) ==
    [t \in Token |->
        IF t \in chain
        THEN [calls |-> ledger[t].calls + 1, spent |-> ledger[t].spent + amount]
        ELSE ledger[t]]

Init == ledger = Empty

Grant(t, amount) ==
    /\ ledger' = Charge(RecordedChain(t), amount)
    /\ \A c \in RecordedChain(t) : HasRoom(c, amount)

Next == \E t \in Token, amount \in Amount \cap Nat : Grant(t, amount)

Spec == Init /\ [][Next]_ledger
=============================================================================
