------------------------------ MODULE Revocation ------------------------------
(***************************************************************************)
(* Verification against a revocation store, and the store itself           *)
(* (swarmauth/revocation.py, InMemoryRevocationStore).  Verification reads *)
(* the clock for the lifetime check and the store reads it again for the   *)
(* revocation check; a delegated token repeats both for its parent.  The   *)
(* store deletes a marker once its token can no longer be accepted, by its *)
(* own, later, reading of the clock.  An operator revokes tokens while     *)
(* requests are being verified.                                            *)
(*                                                                         *)
(* A request follows a plan, the checks it has left in the order the code  *)
(* makes them: CapabilityToken.verify finishes with the child before it    *)
(* looks at the parent; async_verify_and_check first makes every lifetime  *)
(* check and only then awaits the store, for the parent before the child.  *)
(* Signature, audience, capability and attenuation checks do not depend on *)
(* this state: the tokens of module Tokens pass them.                      *)
(***************************************************************************)
EXTENDS Tokens, Sequences

CONSTANTS
    Request,            \* the guarded calls that are ever made
    ExpiryArgs,         \* the expires_at arguments an operator gives, by token
    Guards,             \* the guards calls go through: awaited, with a tracker?
    MaxRevokes,         \* bound on the number of revocations
    MaxTime             \* bound on the clock, in ticks

ASSUME RevocationAssumption ==
    /\ ExpiryArgs \in [Token -> SUBSET Int]
    /\ Guards \subseteq [async : BOOLEAN, tracked : BOOLEAN]
    /\ MaxRevokes \in Nat
    /\ MaxTime \in Nat

VARIABLES
    now,                \* the wall clock, in ticks
    revoked,            \* _revoked: jti -> the tick it is retained until
    op,                 \* the operator's call of revoke(), if one is running
    marked,             \* history: tokens whose revocation has returned
    req                 \* the state of every request

vars == <<now, revoked, op, marked, req>>

NoCall == [pc |-> "idle", token |-> None, exp |-> 0, read |-> 0, calls |-> 0]

(* The field warned is a history: the tokens of the request's chain whose  *)
(* revocation had returned before the request began.                       *)
NoRequest == [pc |-> "idle", token |-> None, tracked |-> FALSE, plan |-> << >>, read |-> 0,
              warned |-> {}]

DeniedRequest == [NoRequest EXCEPT !.pc = "denied"]

Check == {"lifetime", "revoked"} \X Token

TypeOK ==
    /\ now \in Nat
    /\ DOMAIN revoked \subseteq Token
    /\ \A t \in DOMAIN revoked : revoked[t] \in Int
    /\ op \in [pc : {"idle", "called"}, token : Token \cup {None}, exp : Int,
               read : Nat, calls : Nat]
    /\ op.pc = "called" => op.token \in Token
    /\ marked \subseteq Token
    /\ req \in [Request -> [pc : {"idle", "checking", "reading", "allowed",
                                  "executed", "denied"},
                            token : Token \cup {None}, tracked : BOOLEAN, plan : Seq(Check),
                            read : Nat, warned : SUBSET Token]]
    /\ \A r \in Request : req[r].pc \notin {"idle", "denied"} => req[r].token \in Token

-----------------------------------------------------------------------------
(* Mutant: verification follows the proof for one more hop.                *)
SyncPlanSecondHop(t) ==
    IF Claims[t].prf = None
    THEN <<<<"lifetime", t>>, <<"revoked", t>>>>
    ELSE <<<<"lifetime", t>>, <<"revoked", t>>,
           <<"lifetime", Claims[Claims[t].prf].prf>>, <<"revoked", Claims[t].prf>>>>

(* CapabilityToken.verify: each token's lifetime, then its revocation.     *)
SyncPlan(t) ==
    IF Claims[t].prf = None
    THEN <<<<"lifetime", t>>, <<"revoked", t>>>>
    ELSE <<<<"lifetime", t>>, <<"revoked", t>>,
           <<"lifetime", Claims[t].prf>>, <<"revoked", Claims[t].prf>>>>

(* Mutant: only the presented token is looked up in the store.             *)
AsyncPlanChildOnly(t) ==
    IF Claims[t].prf = None
    THEN <<<<"lifetime", t>>, <<"revoked", t>>>>
    ELSE <<<<"lifetime", t>>, <<"lifetime", Claims[t].prf>>, <<"revoked", t>>>>

(* async_verify_and_check: verify without a store, then await the store.   *)
AsyncPlan(t) ==
    IF Claims[t].prf = None
    THEN <<<<"lifetime", t>>, <<"revoked", t>>>>
    ELSE <<<<"lifetime", t>>, <<"lifetime", Claims[t].prf>>,
           <<"revoked", Claims[t].prf>>, <<"revoked", t>>>>

Plan(t, async) == IF async THEN AsyncPlan(t) ELSE SyncPlan(t)

(* _purge_expired_unlocked with the clock reading the caller made before   *)
(* it took the lock.                                                       *)
Kept(read) ==
    [t \in {t \in DOMAIN revoked : revoked[t] > read} |-> revoked[t]]

(* Mutant: revoking again overwrites the retention.                        *)
WithMarkerOverwritten(markers, t, until, read) ==
    IF until <= read THEN markers
    ELSE [u \in DOMAIN markers \cup {t} |-> IF u = t THEN until ELSE markers[u]]

(* revoke() after its purge: nothing for a token past its retention, and   *)
(* never a shorter retention than the marker already has.                  *)
WithMarker(markers, t, until, read) ==
    IF until <= read THEN markers
    ELSE [u \in DOMAIN markers \cup {t} |->
             IF u # t THEN markers[u]
             ELSE IF t \in DOMAIN markers /\ markers[t] > until THEN markers[t]
             ELSE until]

-----------------------------------------------------------------------------
Init ==
    /\ now = 0
    /\ revoked = [t \in {} |-> 0]
    /\ op = NoCall
    /\ marked = {}
    /\ req = [r \in Request |-> NoRequest]

(* revoke(jti, expires_at) reads the clock before it takes the lock.       *)
RevokeCalled(t, exp) ==
    /\ op.pc = "idle"
    /\ op.calls < MaxRevokes
    /\ op' = [pc |-> "called", token |-> t, exp |-> exp, read |-> now,
              calls |-> op.calls + 1]
    /\ UNCHANGED <<now, revoked, marked, req>>

RevokeReturns ==
    /\ op.pc = "called"
    /\ revoked' = WithMarker(Kept(op.read), op.token, RetainedUntil(op.exp), op.read)
    /\ op' = [NoCall EXCEPT !.calls = op.calls]
    /\ marked' = IF op.exp >= Claims[op.token].exp THEN marked \cup {op.token} ELSE marked
    /\ UNCHANGED <<now, req>>

(* A token with dlg set never gets past verification and is not modelled   *)
(* as presented.                                                           *)
Begin(r, t, guard) ==
    /\ req[r].pc = "idle"
    /\ ~ Claims[t].dlg
    /\ req' = [req EXCEPT ![r] = [pc |-> "checking", token |-> t,
                                  tracked |-> guard.tracked, plan |-> Plan(t, guard.async),
                                  read |-> 0, warned |-> marked \cap Chain(t)]]
    /\ UNCHANGED <<now, revoked, op, marked>>

CheckLifetime(r) ==
    /\ req[r].pc = "checking"
    /\ req[r].plan # << >>
    /\ Head(req[r].plan)[1] = "lifetime"
    /\ LET c == Claims[Head(req[r].plan)[2]]
       IN  req' = [req EXCEPT ![r] =
                     IF LifetimeOK(now, c.iat, c.exp, MaxLeeway)
                     THEN [req[r] EXCEPT !.plan = Tail(@)] ELSE DeniedRequest]
    /\ UNCHANGED <<now, revoked, op, marked>>

(* is_revoked(jti), in two steps: the clock is read, then the lock taken.  *)
ReadStoreClock(r) ==
    /\ req[r].pc = "checking"
    /\ req[r].plan # << >>
    /\ Head(req[r].plan)[1] = "revoked"
    /\ req' = [req EXCEPT ![r].pc = "reading", ![r].read = now]
    /\ UNCHANGED <<now, revoked, op, marked>>

CheckRevoked(r) ==
    /\ req[r].pc = "reading"
    /\ revoked' = Kept(req[r].read)
    /\ req' = [req EXCEPT ![r] =
                 IF Head(req[r].plan)[2] \in DOMAIN Kept(req[r].read)
                 THEN DeniedRequest
                 ELSE [req[r] EXCEPT !.pc = "checking", !.plan = Tail(@), !.read = 0]]
    /\ UNCHANGED <<now, op, marked>>

(* Mutant: the reservation does not look at the clock.                     *)
BoundaryWithoutClock(t, tracked) == tracked \/ ~ Stateful(t)

(* The checks that follow verification: without a tracker a stateful token *)
(* is refused; with one, its reservation refuses a token that has died     *)
(* since it was verified.  (What the tracker counts is UsageTracker's.)    *)
Boundary(t, tracked) ==
    IF tracked
    THEN \A c \in RecordedChain(t) : now < RetainedUntil(Claims[c].exp)
    ELSE ~ Stateful(t)

Decide(r) ==
    /\ req[r].pc = "checking"
    /\ req[r].plan = << >>
    /\ req' = [req EXCEPT ![r] =
                 IF Boundary(req[r].token, req[r].tracked)
                 THEN [req[r] EXCEPT !.pc = "allowed"] ELSE DeniedRequest]
    /\ UNCHANGED <<now, revoked, op, marked>>

Execute(r) ==
    /\ req[r].pc = "allowed"
    /\ req' = [req EXCEPT ![r].pc = "executed"]
    /\ UNCHANGED <<now, revoked, op, marked>>

Tick ==
    /\ now < MaxTime
    /\ now' = now + 1
    /\ UNCHANGED <<revoked, op, marked, req>>

Terminated ==
    /\ now = MaxTime
    /\ op.pc = "idle"
    /\ \A r \in Request : req[r].pc \in {"executed", "denied"}
    /\ UNCHANGED vars

Next ==
    \/ \E t \in Token : \E exp \in ExpiryArgs[t] : RevokeCalled(t, exp)
    \/ RevokeReturns
    \/ \E r \in Request, t \in Token, guard \in Guards : Begin(r, t, guard)
    \/ \E r \in Request :
          \/ CheckLifetime(r) \/ ReadStoreClock(r) \/ CheckRevoked(r)
          \/ Decide(r) \/ Execute(r)
    \/ Tick
    \/ Terminated

Spec == Init /\ [][Next]_vars

-----------------------------------------------------------------------------
Passed == {"allowed", "executed"}

(* A revocation takes effect at once: a request that begins after revoke() *)
(* has returned for its token, or for its token's parent, is never allowed *)
(* to run the tool, if a tracker looks at the clock once more.             *)
RevokedNeverRuns ==
    \A r \in Request : req[r].tracked /\ req[r].pc \in Passed => req[r].warned = {}

(* "so an incident-response system can immediately invalidate a specific   *)
(* token" (CapabilityToken.verify): with any guard.                        *)
RevokedNeverRunsAnyGuard ==
    \A r \in Request : req[r].pc \in Passed => req[r].warned = {}

(* Without a tracker to look at the clock once more, a revoked token can   *)
(* slip through only when the verification itself lasts beyond the moment  *)
(* the token stops being acceptable: never during its acceptance window.   *)
NeverDuringAcceptance ==
    \A r \in Request :
        \A w \in req[r].warned :
            req[r].pc \in Passed => Expired(now, Claims[w].exp, MaxLeeway)

(* A revocation that returned stays in the store through the last instant  *)
(* at which verification could accept the token, however it is purged or   *)
(* revoked again with another expiry.                                      *)
MarkersRetained ==
    \A t \in marked : t \notin DOMAIN revoked => Expired(now, Claims[t].exp, MaxLeeway)

(* Re-revoking a token never shortens an existing revocation: a marker's   *)
(* retention grows, or the marker goes because it was due.                 *)
NeverShortened ==
    [][\A t \in DOMAIN revoked :
          IF t \in DOMAIN revoked' THEN revoked'[t] >= revoked[t]
                                   ELSE revoked[t] <= now]_vars
=============================================================================
