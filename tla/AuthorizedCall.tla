---------------------------- MODULE AuthorizedCall ----------------------------
(***************************************************************************)
(* What the execution boundary promises of every call of a guarded tool,   *)
(* whatever its tracker, its decision callback and its scheduling do: the  *)
(* allowance is charged before the decision is told, a decision is told    *)
(* once and is true when it is told, and the tool runs only after both.    *)
(*                                                                         *)
(* A call that does not run may still be charged, or be told as allowed,   *)
(* after it has ended: what it sent before it was abandoned is not undone. *)
(***************************************************************************)
EXTENDS Sequences

CONSTANTS Call, Jti

VARIABLES
    terms,              \* what a call owes, is it audited, may charges be retried?
    charged,            \* the token IDs charged for every call
    told,               \* the decisions that reached the sink
    stage               \* "open", "ran" or "closed"

promise == <<terms, charged, told, stage>>

Init ==
    /\ terms \in [Call -> [owed : SUBSET Jti, audited : BOOLEAN, retried : BOOLEAN]]
    /\ charged = [c \in Call |-> {}]
    /\ told = [c \in Call |-> <<>>]
    /\ stage = [c \in Call |-> "open"]

Charge(c, jtis) ==
    /\ told[c] = <<>> /\ stage[c] # "ran"
    /\ charged' = [charged EXCEPT ![c] = jtis]
    /\ UNCHANGED <<terms, told, stage>>

(* A charge that is retried may stand although the call is denied.         *)
Truthful(c, decision) ==
    \/ decision = "allowed" /\ terms[c].owed \subseteq charged[c]
    \/ decision = "denied" /\ (charged[c] = {} \/ terms[c].retried)

(* One flush may make the decisions of several calls durable.              *)
Tell(news) ==
    /\ \A c \in DOMAIN news : told[c] = <<>> /\ Truthful(c, news[c])
    /\ told' = [c \in Call |-> IF c \in DOMAIN news THEN <<news[c]>> ELSE told[c]]
    /\ UNCHANGED <<terms, charged, stage>>

Run(c) ==
    /\ stage[c] = "open"
    /\ terms[c].owed \subseteq charged[c]
    /\ terms[c].audited => told[c] = <<"allowed">>
    /\ stage' = [stage EXCEPT ![c] = "ran"]
    /\ UNCHANGED <<terms, charged, told>>

(* A failing flush may both tell decisions and end the call.               *)
Close(c, news) ==
    /\ stage[c] = "open"
    /\ stage' = [stage EXCEPT ![c] = "closed"]
    /\ \A d \in DOMAIN news : told[d] = <<>> /\ Truthful(d, news[d])
    /\ told' = [d \in Call |-> IF d \in DOMAIN news THEN <<news[d]>> ELSE told[d]]
    /\ UNCHANGED <<terms, charged>>

News == UNION {[calls -> {"allowed", "denied"}] : calls \in SUBSET Call}

Next ==
    \/ \E news \in News : Tell(news)
    \/ \E c \in Call : (\E jtis \in SUBSET Jti : Charge(c, jtis)) \/ Run(c)
    \/ \E c \in Call, news \in News : Close(c, news)

Spec == Init /\ [][Next]_promise
=============================================================================
