---------------------------- MODULE ApprovalGrant ----------------------------
(***************************************************************************)
(* What the approval service promises: a resource has at most one current  *)
(* approval, a newer approval or an edit of the resource ends the current  *)
(* one, and an approval is consumed only while it is current, which ends   *)
(* it too.  No approval comes back.                                        *)
(***************************************************************************)
CONSTANTS Approval, Resource, None, ResourceOf(_)

VARIABLES
    granted,            \* the approvals that were ever given
    current,            \* the current approval of every resource, or None
    consumed            \* the approvals that authorized an action

Init ==
    /\ granted = {}
    /\ current = [x \in Resource |-> None]
    /\ consumed = {}

Grant(a) ==
    /\ a \notin granted
    /\ granted' = granted \cup {a}
    /\ current' = [current EXCEPT ![ResourceOf(a)] = a]
    /\ UNCHANGED consumed

Withdraw(x) ==
    /\ current' = [current EXCEPT ![x] = None]
    /\ UNCHANGED <<granted, consumed>>

Consume(a) ==
    /\ current[ResourceOf(a)] = a
    /\ consumed' = consumed \cup {a}
    /\ current' = [current EXCEPT ![ResourceOf(a)] = None]
    /\ UNCHANGED granted

Next ==
    \/ \E a \in Approval : Grant(a) \/ Consume(a)
    \/ \E x \in Resource : Withdraw(x)

Spec == Init /\ [][Next]_<<granted, current, consumed>>
=============================================================================
