---------------------------- MODULE RedisRevocation ----------------------------
(***************************************************************************)
(* The revocation store that verifier processes share                      *)
(* (RedisRevocationStore in swarmauth/backends/redis_backend.py).  revoke  *)
(* computes the seconds the marker is needed for, then compares them with  *)
(* the TTL the key has and sets the key in an optimistic transaction that  *)
(* is retried until it goes through.  Redis drops a key when its time is   *)
(* over, and answers TTL in whole seconds, rounded to the nearest.         *)
(* Several operators may revoke one token, with different expiries.        *)
(***************************************************************************)
EXTENDS Lifetime, FiniteSets

CONSTANTS
    Token, None,
    Operator,           \* the calls of revoke() that are ever made
    ExpiryArgs,         \* the expires_at arguments they are made with
    MaxTime             \* bound on the clock, in ticks

ASSUME RedisRevocationAssumption ==
    /\ None \notin Token
    /\ ExpiryArgs \subseteq Nat
    /\ MaxTime \in Nat

VARIABLES
    now,                \* the wall clock, in ticks
    keys,               \* the markers: jti -> the tick Redis drops it at
    op                  \* the state of every call of revoke()

vars == <<now, keys, op>>

NotCalled == [pc |-> "idle", token |-> None, exp |-> 0, ttl |-> 0, dirty |-> FALSE]

TypeOK ==
    /\ now \in Nat
    /\ DOMAIN keys \subseteq Token
    /\ \A t \in DOMAIN keys : keys[t] \in Nat
    /\ op \in [Operator -> [pc : {"idle", "loop", "watching", "setting", "returned"},
                            token : Token \cup {None}, exp : Nat, ttl : Nat,
                            dirty : BOOLEAN]]

-----------------------------------------------------------------------------
(* Mutant: the seconds needed are rounded down.                            *)
SecondsNeededShort(exp, read) == (RetainedUntil(exp) - read) \div TicksPerSecond

(* math.ceil(expires_at + RETENTION_AFTER_EXP_SECONDS - time.time()).      *)
SecondsNeeded(exp, read) ==
    (RetainedUntil(exp) - read + TicksPerSecond - 1) \div TicksPerSecond

(* The reply to TTL: -2 without a key, else seconds, to the nearest.       *)
TTLReply(t) ==
    IF t \notin DOMAIN keys THEN -2
    ELSE (keys[t] - now + TicksPerSecond \div 2) \div TicksPerSecond

Touched(ops, tokens) ==
    [o \in Operator |->
        IF ops[o].pc \in {"watching", "setting"} /\ ops[o].token \in tokens
        THEN [ops[o] EXCEPT !.dirty = TRUE]
        ELSE ops[o]]

-----------------------------------------------------------------------------
Init ==
    /\ now = 0
    /\ keys = [t \in {} |-> 0]
    /\ op = [o \in Operator |-> NotCalled]

(* revoke(jti, expires_at): nothing to do for a token past its retention.  *)
Revoke(o, t, exp) ==
    LET ttl == SecondsNeeded(exp, now) IN
    /\ op[o].pc = "idle"
    /\ op' = [op EXCEPT ![o] =
                IF ttl > 0
                THEN [pc |-> "loop", token |-> t, exp |-> exp, ttl |-> ttl, dirty |-> FALSE]
                ELSE [NotCalled EXCEPT !.pc = "returned", !.token = t, !.exp = exp]]
    /\ UNCHANGED <<now, keys>>

Watch(o) ==
    /\ op[o].pc = "loop"
    /\ op' = [op EXCEPT ![o].pc = "watching", ![o].dirty = FALSE]
    /\ UNCHANGED <<now, keys>>

(* Mutant: the marker is always set again.                                 *)
CompareNever(o) ==
    /\ op[o].pc = "watching"
    /\ op' = [op EXCEPT ![o].pc = "setting"]
    /\ UNCHANGED <<now, keys>>

(* A marker that lasts long enough is left alone.                          *)
Compare(o) ==
    /\ op[o].pc = "watching"
    /\ op' = [op EXCEPT ![o].pc =
                IF TTLReply(op[o].token) >= op[o].ttl THEN "returned" ELSE "setting"]
    /\ UNCHANGED <<now, keys>>

(* EXEC sets the marker; what follows is up to the reply.                  *)
ExecSets(o, pc) ==
    LET t == op[o].token IN
    /\ op[o].pc = "setting"
    /\ ~ op[o].dirty
    /\ keys' = [u \in DOMAIN keys \cup {t} |->
                  IF u = t THEN now + op[o].ttl * TicksPerSecond ELSE keys[u]]
    /\ op' = Touched([op EXCEPT ![o].pc = pc], {t})
    /\ UNCHANGED now

Exec(o) == ExecSets(o, "returned")

(* The connection is lost with the reply: a WatchError too.                *)
ExecReplyLost(o) == ExecSets(o, "loop")

ExecAborts(o) ==
    /\ op[o].pc = "setting"
    /\ op[o].dirty
    /\ op' = [op EXCEPT ![o].pc = "loop"]
    /\ UNCHANGED <<now, keys>>

(* The connection is lost while the key is watched, before EXEC ran.       *)
Drops(o) ==
    /\ op[o].pc \in {"watching", "setting"}
    /\ op' = [op EXCEPT ![o].pc = "loop"]
    /\ UNCHANGED <<now, keys>>

(* Time passes, and Redis drops the keys that are due.                     *)
Tick ==
    LET gone == {t \in DOMAIN keys : keys[t] <= now + 1} IN
    /\ now < MaxTime
    /\ now' = now + 1
    /\ keys' = [t \in DOMAIN keys \ gone |-> keys[t]]
    /\ op' = Touched(op, gone)

Terminated ==
    /\ now = MaxTime
    /\ \A o \in Operator : op[o].pc = "returned"
    /\ UNCHANGED vars

Next ==
    \/ \E o \in Operator, t \in Token, exp \in ExpiryArgs : Revoke(o, t, exp)
    \/ \E o \in Operator :
          \/ Watch(o) \/ Compare(o)
          \/ Exec(o) \/ ExecReplyLost(o) \/ ExecAborts(o) \/ Drops(o)
    \/ Tick
    \/ Terminated

Spec == Init /\ [][Next]_vars

-----------------------------------------------------------------------------
(* A revocation that has returned is known until the instant from which no *)
(* verifier accepts the token, however late EXEC came and whatever other   *)
(* calls did, provided that none of them named an earlier expiry: then the *)
(* rounded reply to TTL may pass a marker that is half a second short.     *)
SharedMarkersRetained ==
    /\ TypeOK
    /\ \A o \in Operator :
          /\ op[o].pc = "returned" /\ now < RetainedUntil(op[o].exp)
          /\ \A p \in Operator : op[p].token = op[o].token => op[p].exp >= op[o].exp
          => op[o].token \in DOMAIN keys

(* Revoking again never brings the end of a marker forward, whatever       *)
(* expiry it is given and whoever else is revoking.                        *)
SharedNeverShortened ==
    [][\A t \in DOMAIN keys : t \in DOMAIN keys' => keys'[t] >= keys[t]]_vars
=============================================================================
