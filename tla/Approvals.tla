------------------------------ MODULE Approvals ------------------------------
(***************************************************************************)
(* Approval grants (swarmauth/approvals.py): the ApprovalService and its   *)
(* two stores.  A trusted service approves the content of a resource; a    *)
(* short-lived, single-use token is issued for the approval; authorize()   *)
(* checks the approval, spends the token, and consumes the approval.       *)
(* Approving again supersedes, editing the resource invalidates, and both  *)
(* happen while authorizations are under way.                              *)
(*                                                                         *)
(* The store is InMemoryApprovalStore, whose operations run under a lock,  *)
(* or RedisApprovalStore, whose consume() is a WATCH/GET/MULTI/EXEC loop   *)
(* with MaxRetries attempts and whose keys expire.  Its client library     *)
(* reports a connection lost once WATCH was answered as a WatchError, the  *)
(* reply to EXEC included, so that the loop makes another attempt.         *)
(*                                                                         *)
(* An approval stands for its generated id.  What authorize() compares,    *)
(* resource id, revision and payload digest, is one content.  _active() is *)
(* one step, that of its expiry check: an id never becomes active again,   *)
(* so what is_active() finds active afterwards was active then.            *)
(* verify_and_check is one step as well: the reservation accepts a token   *)
(* as long as verification does (RevocationProofs!RetentionIsAcceptance).  *)
(***************************************************************************)
EXTENDS Lifetime, FiniteSets

CONSTANTS
    Approval, Resource, Content, None,
    Grants,             \* what is approved: resource, content and expiry
    Token,              \* the tokens that are ever issued
    Lifetimes,          \* the ttl_seconds they are issued with
    Request,            \* the calls of authorize()
    Stores,             \* the stores a service may be deployed with
    MaxRetries,         \* the 64 attempts of RedisApprovalStore.consume
    MaxTime             \* bound on the clock, in ticks

ASSUME ApprovalsAssumption ==
    /\ IsFiniteSet(Request)
    /\ None \notin Approval \cup Resource \cup Token
    /\ Grants \in [Approval -> [resource : Resource, content : Content, expires_at : Nat]]
    /\ Lifetimes \subseteq 1 .. MaxTTL
    /\ Stores \subseteq {"memory", "redis"}
    /\ MaxRetries \in Nat \ {0}
    /\ MaxTime \in Nat

VARIABLES
    store,              \* the store in use, chosen once
    now,                \* the wall clock, in ticks
    records,            \* the stored approvals: id -> tick Redis drops it at
    active,             \* resource -> the active id and the tick it is dropped at
    approving,          \* the state of approve() for every approval
    token,              \* the tokens: approval pinned, expiry, spent or not
    req,                \* the state of every call of authorize()
    current,            \* history: the approval of every resource that is in force
    consumed            \* history: the approvals consumed

vars == <<store, now, records, active, approving, token, req, current, consumed>>

ResourceOf(a) == Grants[a].resource

ExpiryTick(a) == Grants[a].expires_at * TicksPerSecond

NoToken == [pc |-> "none", approval |-> None, ttl |-> 0, exp |-> 0]

(* tries counts the attempts of consume(), drops those that lost their     *)
(* connection.                                                             *)
NoRequest ==
    [pc |-> "idle", token |-> None, approval |-> None, tries |-> 0, drops |-> 0, dirty |-> FALSE]

Watching == {"watched", "deleting"}

(* authorized and lost consumed the approval: lost is a worker that died   *)
(* before it had the reply to EXEC.                                        *)
Consumers == {"authorized", "lost"}

Ended == Consumers \cup {"denied", "refused", "contended", "failed"}

TypeOK ==
    /\ store \in Stores
    /\ now \in Nat
    /\ DOMAIN records \subseteq Approval
    /\ \A a \in DOMAIN records : records[a] \in Nat
    /\ DOMAIN active \subseteq Resource
    /\ \A x \in DOMAIN active : active[x] \in [id : Approval, until : Nat]
    /\ approving \in [Approval -> [pc : {"new", "checked", "sending", "stored"}, read : Nat]]
    /\ token \in [Token -> [pc : {"none", "signing", "issued", "spent"},
                            approval : Approval \cup {None}, ttl : Nat, exp : Nat]]
    /\ \A k \in Token : token[k].pc # "none" => token[k].approval \in Approval
    /\ req \in [Request -> [pc : {"idle", "vetted", "reserved"} \cup Watching \cup Ended,
                            token : Token \cup {None}, approval : Approval \cup {None},
                            tries : 0 .. MaxRetries, drops : 0 .. MaxRetries,
                            dirty : BOOLEAN]]
    /\ \A r \in Request :
          req[r].pc \in {"vetted", "reserved", "contended"} \cup Watching \cup Consumers =>
              req[r].approval \in Approval /\ req[r].token \in Token
    /\ current \in [Resource -> Approval \cup {None}]
    /\ consumed \subseteq Approval

-----------------------------------------------------------------------------
Promise == INSTANCE ApprovalGrant
              WITH granted <- {a \in Approval : approving[a].pc = "stored"}

IsActive(a) == ResourceOf(a) \in DOMAIN active /\ active[ResourceOf(a)].id = a

(* ApprovalService._active.                                                *)
Usable(a) ==
    /\ a \in DOMAIN records
    /\ ExpiryTick(a) > now
    /\ IsActive(a)

Without(x) == [y \in DOMAIN active \ {x} |-> active[y]]

With(map, a, until) ==
    [y \in DOMAIN map \cup {ResourceOf(a)} |->
        IF y = ResourceOf(a) THEN [id |-> a, until |-> until] ELSE map[y]]

(* Mutant: the clock is rounded up instead of down.                        *)
TTLRoundedUp(a, read) ==
    LET left == Grants[a].expires_at - Seconds(read + TicksPerSecond - 1)
    IN  IF left > 1 THEN left ELSE 1

(* max(1, expires_at - int(time.time())), the seconds a key is given.      *)
TTL(a, read) ==
    LET left == Grants[a].expires_at - Seconds(read) IN IF left > 1 THEN left ELSE 1

(* Redis marks the transactions that watch the key of a touched resource.  *)
Touched(requests, resources) ==
    [q \in Request |->
        IF requests[q].pc \in Watching /\ ResourceOf(requests[q].approval) \in resources
        THEN [requests[q] EXCEPT !.dirty = TRUE]
        ELSE requests[q]]

-----------------------------------------------------------------------------
Init ==
    /\ store \in Stores
    /\ now = 0
    /\ records = [a \in {} |-> 0]
    /\ active = [x \in {} |-> [id |-> None, until |-> 0]]
    /\ approving = [a \in Approval |-> [pc |-> "new", read |-> 0]]
    /\ token = [k \in Token |-> NoToken]
    /\ req = [r \in Request |-> NoRequest]
    /\ current = [x \in Resource |-> None]
    /\ consumed = {}

(* approve() rejects an expiry in the past before it stores anything.      *)
Approve(a) ==
    /\ approving[a].pc = "new"
    /\ ExpiryTick(a) > now
    /\ approving' = [approving EXCEPT ![a].pc = "checked"]
    /\ UNCHANGED <<store, now, records, active, token, req, current, consumed>>

(* InMemoryApprovalStore.put: drop what has expired, then store.           *)
PutLocal(a) ==
    LET kept == {b \in DOMAIN records : ExpiryTick(b) > now}
    IN  /\ store = "memory"
        /\ approving[a].pc = "checked"
        /\ records' = [b \in kept \cup {a} |-> ExpiryTick(b)]
        /\ active' = With([x \in {x \in DOMAIN active : active[x].id \in kept} |-> active[x]],
                          a, ExpiryTick(a))
        /\ approving' = [approving EXCEPT ![a].pc = "stored"]
        /\ current' = [current EXCEPT ![ResourceOf(a)] = a]
        /\ UNCHANGED <<store, now, token, req, consumed>>

(* RedisApprovalStore.put reads the clock for the TTL ...                  *)
PutSent(a) ==
    /\ store = "redis"
    /\ approving[a].pc = "checked"
    /\ approving' = [approving EXCEPT ![a] = [pc |-> "sending", read |-> now]]
    /\ UNCHANGED <<store, now, records, active, token, req, current, consumed>>

(* ... and both keys are set in one transaction, later.                    *)
PutStored(a) ==
    LET until == now + TTL(a, approving[a].read) * TicksPerSecond
    IN  /\ approving[a].pc = "sending"
        /\ records' = [b \in DOMAIN records \cup {a} |-> IF b = a THEN until ELSE records[b]]
        /\ active' = With(active, a, until)
        /\ approving' = [approving EXCEPT ![a].pc = "stored"]
        /\ current' = [current EXCEPT ![ResourceOf(a)] = a]
        /\ req' = Touched(req, {ResourceOf(a)})
        /\ UNCHANGED <<store, now, token, consumed>>

(* The resource was edited.  Without an active approval nothing changes.   *)
Invalidate(x) ==
    /\ x \in DOMAIN active
    /\ active' = Without(x)
    /\ current' = [current EXCEPT ![x] = None]
    /\ req' = Touched(req, {x})
    /\ UNCHANGED <<store, now, records, approving, token, consumed>>

-----------------------------------------------------------------------------
(* ApprovalService.issue: the remaining life of the approval is measured,  *)
(* and the token signed at a later reading of the clock.                   *)
Issue(k, a, ttl) ==
    /\ token[k].pc = "none"
    /\ Usable(a)
    /\ ttl <= Grants[a].expires_at - Seconds(now)
    /\ token' = [token EXCEPT ![k] = [pc |-> "signing", approval |-> a, ttl |-> ttl, exp |-> 0]]
    /\ UNCHANGED <<store, now, records, active, approving, req, current, consumed>>

Sign(k) ==
    /\ token[k].pc = "signing"
    /\ token' = [token EXCEPT ![k].pc = "issued", ![k].exp = Seconds(now) + token[k].ttl]
    /\ UNCHANGED <<store, now, records, active, approving, req, current, consumed>>

(* authorize(): the approval is usable and the request is the approved one. *)
Authorize(r, k, a, content) ==
    /\ req[r].pc = "idle"
    /\ token[k].pc \in {"issued", "spent"}
    /\ req' = [req EXCEPT ![r] =
                 IF Usable(a) /\ content = Grants[a].content
                 THEN [NoRequest EXCEPT !.pc = "vetted", !.token = k, !.approval = a]
                 ELSE [NoRequest EXCEPT !.pc = "denied"]]
    /\ UNCHANGED <<store, now, records, active, approving, token, current, consumed>>

(* verify_and_check: the token is alive, pins this approval, and has its   *)
(* one call left, which is taken.                                          *)
Spend(r) ==
    LET k == req[r].token IN
    /\ req[r].pc = "vetted"
    /\ IF /\ token[k].pc = "issued"
          /\ token[k].approval = req[r].approval
          /\ ~ Expired(now, token[k].exp, MaxLeeway)
       THEN /\ token' = [token EXCEPT ![k].pc = "spent"]
            /\ req' = [req EXCEPT ![r].pc = "reserved"]
       ELSE /\ req' = [req EXCEPT ![r] = [NoRequest EXCEPT !.pc = "denied"]]
            /\ UNCHANGED token
    /\ UNCHANGED <<store, now, records, active, approving, current, consumed>>

(* What becomes of request r: its transaction is over.                     *)
Left(r, pc) == [req[r] EXCEPT !.pc = pc, !.dirty = FALSE]

Refused(r) == [req EXCEPT ![r] = Left(r, "refused")]

(* except redis.WatchError, for a lost connection: the next attempt.       *)
Dropped(r) == [Left(r, "reserved") EXCEPT !.drops = @ + 1]

(* The approval a of request r is consumed; r is left in the state after.  *)
Consumed(r, after) ==
    LET a == req[r].approval IN
    /\ active' = Without(ResourceOf(a))
    /\ current' = [current EXCEPT ![ResourceOf(a)] = None]
    /\ consumed' = consumed \cup {a}
    /\ req' = Touched([req EXCEPT ![r] = after], {ResourceOf(a)})
    /\ UNCHANGED <<store, now, records, approving, token>>

(* Mutant: the lock is not held between the check and the deletion, which  *)
(* therefore does not find out that the approval is no longer active.      *)
ConsumeLocalUnchecked(r) ==
    /\ store = "memory"
    /\ req[r].pc = "reserved"
    /\ Consumed(r, Left(r, "authorized"))

(* InMemoryApprovalStore.consume, under the lock.                          *)
ConsumeLocal(r) ==
    LET a == req[r].approval IN
    /\ store = "memory"
    /\ req[r].pc = "reserved"
    /\ IF ExpiryTick(a) > now /\ IsActive(a)
       THEN Consumed(r, Left(r, "authorized"))
       ELSE /\ req' = Refused(r)
            /\ UNCHANGED <<store, now, records, active, approving, token, current, consumed>>

(* RedisApprovalStore.consume.                                             *)
ConsumeWatch(r) ==
    /\ store = "redis"
    /\ req[r].pc = "reserved"
    /\ req' = [req EXCEPT ![r] =
                 IF req[r].tries < MaxRetries
                 THEN [req[r] EXCEPT !.pc = "watched", !.tries = @ + 1]
                 ELSE [req[r] EXCEPT !.pc = "contended"]]
    /\ UNCHANGED <<store, now, records, active, approving, token, current, consumed>>

(* Mutant: the deletion is not conditional on the watched key.             *)
ConsumeExecUnwatched(r, after) ==
    /\ req[r].pc = "deleting"
    /\ Consumed(r, after)

(* Mutant: only the expiry is compared.                                    *)
ConsumeGetExpiry(r) ==
    /\ req[r].pc = "watched"
    /\ req' = IF ExpiryTick(req[r].approval) > now
              THEN [req EXCEPT ![r].pc = "deleting"] ELSE Refused(r)
    /\ UNCHANGED <<store, now, records, active, approving, token, current, consumed>>

ConsumeGet(r) ==
    LET a == req[r].approval IN
    /\ req[r].pc = "watched"
    /\ req' = IF ExpiryTick(a) > now /\ IsActive(a)
              THEN [req EXCEPT ![r].pc = "deleting"] ELSE Refused(r)
    /\ UNCHANGED <<store, now, records, active, approving, token, current, consumed>>

(* EXEC deletes the key: consume() is answered, its worker dies first, or  *)
(* the reply is lost and consume() tries again.                            *)
ConsumeExec(r, after) ==
    /\ req[r].pc = "deleting"
    /\ ~ req[r].dirty
    /\ Consumed(r, after)

ConsumeAborts(r) ==
    /\ req[r].pc = "deleting"
    /\ req[r].dirty
    /\ req' = [req EXCEPT ![r] = Left(r, "reserved")]
    /\ UNCHANGED <<store, now, records, active, approving, token, current, consumed>>

(* The connection is lost while the key is watched, before EXEC ran.       *)
Drops(r) ==
    /\ req[r].pc \in Watching
    /\ req' = [req EXCEPT ![r] = Dropped(r)]
    /\ UNCHANGED <<store, now, records, active, approving, token, current, consumed>>

(* The worker dies, or there is no connection to send WATCH on: the call   *)
(* ends, and the token it spent stays spent.                               *)
Fails(r) ==
    /\ store = "redis"
    /\ req[r].pc \in {"reserved"} \cup Watching
    /\ req' = [req EXCEPT ![r] = Left(r, "failed")]
    /\ UNCHANGED <<store, now, records, active, approving, token, current, consumed>>

(* Time passes, and Redis drops the keys that are due.                     *)
Tick ==
    LET gone == IF store = "redis" THEN {x \in DOMAIN active : active[x].until <= now + 1} ELSE {}
    IN  /\ now < MaxTime
        /\ now' = now + 1
        /\ records' = [a \in {a \in DOMAIN records : store = "redis" => records[a] > now + 1}
                         |-> records[a]]
        /\ active' = [x \in DOMAIN active \ gone |-> active[x]]
        /\ req' = Touched(req, gone)
        /\ UNCHANGED <<store, approving, token, current, consumed>>

Terminated ==
    /\ now = MaxTime
    /\ \A r \in Request : req[r].pc \in Ended \cup {"idle"}
    /\ UNCHANGED vars

Next ==
    \/ \E a \in Approval : Approve(a) \/ PutLocal(a) \/ PutSent(a) \/ PutStored(a)
    \/ \E x \in Resource : Invalidate(x)
    \/ \E k \in Token : \E a \in Approval, ttl \in Lifetimes : Issue(k, a, ttl)
    \/ \E k \in Token : Sign(k)
    \/ \E r \in Request, k \in Token, a \in Approval, c \in Content : Authorize(r, k, a, c)
    \/ \E r \in Request :
          \/ Spend(r) \/ ConsumeLocal(r)
          \/ ConsumeWatch(r) \/ ConsumeGet(r) \/ ConsumeAborts(r)
          \/ ConsumeExec(r, Left(r, "authorized"))
          \/ ConsumeExec(r, Left(r, "lost"))
          \/ ConsumeExec(r, Dropped(r))
          \/ Drops(r) \/ Fails(r)
    \/ Tick
    \/ Terminated

Spec == Init /\ [][Next]_vars

-----------------------------------------------------------------------------
(* An approval authorizes one action, across all tokens issued for it and  *)
(* all the processes that share the store.                                 *)
AtMostOnce ==
    \A a \in Approval :
        Cardinality({r \in Request : req[r].pc \in Consumers /\ req[r].approval = a}) <= 1

(* The store is well formed and knows the approval in force of every       *)
(* resource until it expires, whatever put() purged and Redis dropped, and *)
(* never takes another one for it.                                         *)
StoreExact ==
    /\ TypeOK
    /\ \A x \in DOMAIN active : active[x].id = current[x]
    /\ \A x \in Resource : current[x] # None /\ now < ExpiryTick(current[x]) =>
          x \in DOMAIN active /\ current[x] \in DOMAIN records

(* consume() refuses only an approval that was superseded, withdrawn,      *)
(* consumed (by another call, or by this one when the reply was lost), or  *)
(* has expired.                                                            *)
RefusalJustified ==
    [][\A r \in Request : (req[r].pc # "refused" /\ req'[r].pc = "refused") =>
          \/ current[ResourceOf(req[r].approval)] # req[r].approval
          \/ now >= ExpiryTick(req[r].approval)]_vars

(* Contention costs consume() one attempt at most, and only on an approval *)
(* that is over: a watched key changes when its approval is over, and the  *)
(* next attempt sees it.  It runs out of attempts on an approval in force  *)
(* only if every one of them lost its connection.                          *)
ContentionCostsOneTry ==
    \A r \in Request : req[r].pc \in {"reserved", "contended"} =>
        /\ req[r].tries <= req[r].drops + 1
        /\ req[r].tries > req[r].drops =>
              \/ current[ResourceOf(req[r].approval)] # req[r].approval
              \/ now >= ExpiryTick(req[r].approval)

(* The service and its stores implement the promise of ApprovalGrant.      *)
ImplementsPromise == Promise!Spec

=============================================================================
