----------------------------- MODULE MCDelegation -----------------------------
(* A boss that rotates between two keys under a policy, and a worker whose *)
(* key may attenuate and is guarded by no policy.                          *)
EXTENDS Delegation, TLC

CONSTANTS boss, worker, kb1, kb2, kw, pay, mail, flag, t1, t2, r1

One  == [type |-> "number", value |-> 1]
Yes  == [type |-> "bool", value |-> 1]
Task == [type |-> "string", value |-> 7]

MCValue == {One, Yes, Task}

MCRootKeys == {boss} \X PolicyKey

MCHolderKeys == {<<worker, kw>>}

AllTools   == <<"tool", "*">>
Read  == <<"tool", "read">>
Admin == <<"admin", "read">>

LimitsOf(calls) == [n \in LimitName |-> IF n = "max_calls" THEN calls ELSE None]

Pinned(value) == budget_id :> Task @@ flag :> value

MCGrant ==
    {[iss |-> boss, sub |-> pay, capabilities |-> {AllTools}, max_ttl_seconds |-> 2,
      limits |-> LimitsOf(2), delegates |-> {worker}, pinned_params |-> Pinned(One)]}

Asks(iss, capability, ttl, calls, value, dlg) ==
    [iss |-> iss, sub |-> pay, capabilities |-> {capability}, ttl |-> ttl,
     limits |-> LimitsOf(calls), pins |-> Pinned(value), shared_budget |-> Task, dlg |-> dlg]

(* Within the grant: to delegate, and to use; the narrowed child; and what *)
(* a worker may try: more calls, another tool, a value that only looks     *)
(* like the pinned one, no budget, a longer life, and to redelegate.       *)
Narrow == Asks(worker, Read, 1, 1, One, None)

MCProposal ==
    {Asks(boss, AllTools, 2, 2, One, worker),
     Asks(boss, Read, 1, 1, One, None),
     Narrow,
     Asks(worker, AllTools, 1, None, One, None),
     Asks(worker, Admin, 1, 1, One, None),
     Asks(worker, Read, 1, 1, Yes, None),
     [Narrow EXCEPT !.shared_budget = None],
     [Narrow EXCEPT !.ttl = 3],
     [Narrow EXCEPT !.dlg = worker]}

MCCall ==
    {[audience |-> pay, capability |-> Read, params |-> Pinned(One)],
     [audience |-> pay, capability |-> Read, params |-> Pinned(Yes)],
     [audience |-> pay, capability |-> Admin, params |-> Pinned(One)],
     [audience |-> mail, capability |-> Read, params |-> Pinned(One)]}

FewProposals == {Asks(boss, AllTools, 2, 2, One, worker), Asks(boss, Read, 1, 1, One, None), Narrow}

FewCalls == {[audience |-> pay, capability |-> Read, params |-> Pinned(One)]}

(* Signed at the second tick, such a token is as old as one issued at the first. *)
Backdated == {-1}

Symmetry == Permutations({t1, t2})
=============================================================================
