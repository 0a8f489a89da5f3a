--------------------------- MODULE RevocationProofs ---------------------------
(***************************************************************************)
(* Proofs about verification against a revocation store, for every set of  *)
(* tokens and claims, every set of requests, every clock resolution and    *)
(* leeway, and both orders of the checks; and, at the end, about the store *)
(* that verifier processes share (RedisRevocation).                        *)
(***************************************************************************)
EXTENDS Revocation, TLAPS

-----------------------------------------------------------------------------
(* Facts about time.                                                       *)

LEMMA RetainedType ==
    ASSUME NEW exp \in Int
    PROVE  RetainedUntil(exp) \in Int
    BY LifetimeAssumption DEF RetainedUntil, RetentionAfterExp

LEMMA RetainedMonotone ==
    ASSUME NEW e \in Int, NEW f \in Int, e <= f
    PROVE  RetainedUntil(e) <= RetainedUntil(f)
    BY LifetimeAssumption DEF RetainedUntil, RetentionAfterExp

(* A clock reading is its whole seconds and less than a second more.       *)
LEMMA WholeSeconds ==
    ASSUME NEW t \in Nat
    PROVE  /\ Seconds(t) \in Int
           /\ TicksPerSecond * Seconds(t) <= t
           /\ t < TicksPerSecond * (Seconds(t) + 1)
    BY LifetimeAssumption, Z3 DEF Seconds

LEMMA TimesMonotone ==
    ASSUME NEW a \in Int, NEW b \in Int, a <= b
    PROVE  TicksPerSecond * a <= TicksPerSecond * b
    BY LifetimeAssumption, Z3

(* The stores keep what they know about a token for exactly as long as     *)
(* verification, which truncates the clock to seconds, can accept it.      *)
THEOREM RetentionIsAcceptance ==
    ASSUME NEW t \in Nat, NEW exp \in Int
    PROVE  Expired(t, exp, MaxLeeway) <=> t >= RetainedUntil(exp)
<1> DEFINE q == Seconds(t)
           k == exp + MaxLeeway + 1
<1>1. q \in Int /\ k \in Int /\ TicksPerSecond \in Nat
    BY WholeSeconds, LifetimeAssumption
<1>2. TicksPerSecond * q <= t /\ t < TicksPerSecond * (q + 1)
    BY WholeSeconds
<1>3. RetainedUntil(exp) = TicksPerSecond * k
    BY LifetimeAssumption DEF RetainedUntil, RetentionAfterExp
<1>4. Expired(t, exp, MaxLeeway) <=> q >= k
    BY <1>1, LifetimeAssumption DEF Expired
<1> HIDE DEF q, k
<1>5. /\ TicksPerSecond * q \in Int /\ TicksPerSecond * k \in Int
      /\ TicksPerSecond * (q + 1) \in Int
    BY <1>1
<1>6. CASE q >= k
  <2>1. TicksPerSecond * k <= TicksPerSecond * q
      BY <1>1, <1>6, TimesMonotone
  <2> QED
      BY <1>2, <1>3, <1>4, <1>5, <1>6, <2>1
<1>7. CASE q < k
  <2>1. TicksPerSecond * (q + 1) <= TicksPerSecond * k
      BY <1>1, <1>7, TimesMonotone
  <2> QED
      BY <1>1, <1>2, <1>3, <1>4, <1>5, <1>7, <2>1
<1> QED
    BY <1>1, <1>6, <1>7

-----------------------------------------------------------------------------
(* Facts about claims and plans.                                           *)

LEMMA ClaimsFacts ==
    ASSUME NEW t \in Token
    PROVE  /\ Claims[t].exp \in Int
           /\ Claims[t].prf \in Token \cup {None}
           /\ Claims[t].prf # None => Claims[t].exp <= Claims[Claims[t].prf].exp
           /\ RetainedUntil(Claims[t].exp) \in Int
<1>1. Claims[t] \in ClaimsType
    BY TokensAssumption
<1>2. Claims[t].exp \in Int /\ Claims[t].prf \in Token \cup {None}
    BY <1>1 DEF ClaimsType
<1>3. Claims[t].prf # None => Claims[t].exp <= Claims[Claims[t].prf].exp
    BY TokensAssumption DEF Attenuated
<1> QED
    BY <1>2, <1>3, RetainedType

InPlan(check, plan) == \E i \in 1..Len(plan) : plan[i] = check

LEMMA PlanType ==
    ASSUME NEW t \in Token, NEW async \in BOOLEAN
    PROVE  /\ Plan(t, async) \in Seq(Check)
           /\ \A c \in Chain(t) : c \in Token /\ InPlan(<<"revoked", c>>, Plan(t, async))
<1>1. CASE Claims[t].prf = None
  <2>1. Plan(t, async) = <<<<"lifetime", t>>, <<"revoked", t>>>>
      BY <1>1 DEF Plan, SyncPlan, AsyncPlan
  <2>2. Plan(t, async) \in Seq(Check) /\ Len(Plan(t, async)) = 2 /\ Plan(t, async)[2] = <<"revoked", t>>
      BY <2>1 DEF Check
  <2> QED
      BY <1>1, <2>2 DEF Chain, InPlan
<1>2. CASE Claims[t].prf # None
  <2> DEFINE p == Claims[t].prf
  <2>1. p \in Token /\ Chain(t) = {p, t}
      BY <1>2, ClaimsFacts DEF Chain
  <2> HIDE DEF p
  <2>2. CASE async
    <3>1. Plan(t, async) = <<<<"lifetime", t>>, <<"lifetime", p>>, <<"revoked", p>>, <<"revoked", t>>>>
        BY <1>2, <2>2 DEF Plan, AsyncPlan, p
    <3>2. /\ Plan(t, async) \in Seq(Check) /\ Len(Plan(t, async)) = 4
          /\ Plan(t, async)[3] = <<"revoked", p>> /\ Plan(t, async)[4] = <<"revoked", t>>
        BY <2>1, <3>1 DEF Check
    <3> QED
        BY <2>1, <3>2 DEF InPlan
  <2>3. CASE ~ async
    <3>1. Plan(t, async) = <<<<"lifetime", t>>, <<"revoked", t>>, <<"lifetime", p>>, <<"revoked", p>>>>
        BY <1>2, <2>3 DEF Plan, SyncPlan, p
    <3>2. /\ Plan(t, async) \in Seq(Check) /\ Len(Plan(t, async)) = 4
          /\ Plan(t, async)[4] = <<"revoked", p>> /\ Plan(t, async)[2] = <<"revoked", t>>
        BY <2>1, <3>1 DEF Check
    <3> QED
        BY <2>1, <3>2 DEF InPlan
  <2> QED
      BY <2>2, <2>3
<1> QED
    BY <1>1, <1>2

LEMMA TailPlan ==
    ASSUME NEW plan \in Seq(Check), plan # << >>
    PROVE  /\ Tail(plan) \in Seq(Check)
           /\ Head(plan) \in Check
           /\ \A c : InPlan(c, plan) => c = Head(plan) \/ InPlan(c, Tail(plan))
<1>1. Tail(plan) \in Seq(Check) /\ Head(plan) \in Check /\ Len(plan) \in Nat
    BY DEF Check
<1>2. ASSUME NEW c, NEW i \in 1..Len(plan), plan[i] = c, i # 1
      PROVE  InPlan(c, Tail(plan))
  <2>1. i - 1 \in 1..Len(Tail(plan)) /\ Tail(plan)[i - 1] = plan[i]
      BY <1>1, <1>2
  <2> QED
      BY <1>2, <2>1 DEF InPlan
<1> QED
    BY <1>1, <1>2 DEF InPlan

-----------------------------------------------------------------------------
(* Type correctness.                                                       *)

RequestType ==
    [pc : {"idle", "checking", "reading", "allowed", "executed", "denied"},
     token : Token \cup {None}, tracked : BOOLEAN, plan : Seq(Check), read : Nat,
     warned : SUBSET Token]

LEMMA DeniedType ==
    /\ NoRequest \in RequestType /\ NoRequest.pc = "idle"
    /\ DeniedRequest \in RequestType /\ DeniedRequest.pc = "denied"
    /\ DeniedRequest.warned = {} /\ NoRequest.warned = {}
    /\ DeniedRequest.read = 0 /\ NoRequest.read = 0
<1>1. << >> \in Seq(Check)
    OBVIOUS
<1> QED
    BY <1>1 DEF NoRequest, DeniedRequest, RequestType

(* Every step of a request replaces its record and leaves the others.      *)
LEMMA StepType ==
    ASSUME TypeOK, NEW r \in Request, NEW new \in RequestType,
           new.pc \notin {"idle", "denied"} => new.token \in Token,
           req' = [req EXCEPT ![r] = new], UNCHANGED <<now, op, marked>>,
           \/ UNCHANGED revoked
           \/ \E read \in Nat : revoked' = Kept(read)
    PROVE  TypeOK'
<1>1. /\ DOMAIN revoked' \subseteq Token
      /\ \A t \in DOMAIN revoked' : revoked'[t] \in Int
    BY DEF TypeOK, Kept
<1>2. /\ req' \in [Request -> RequestType]
      /\ \A q \in Request : req'[q].pc \notin {"idle", "denied"} => req'[q].token \in Token
    BY DEF TypeOK, RequestType
<1> QED
    BY <1>1, <1>2 DEF TypeOK, RequestType

(* The record a step of request r leaves behind.                           *)
LEMMA RequestSteps ==
    ASSUME TypeOK, NEW r \in Request
    PROVE  /\ req[r] \in RequestType
           /\ req[r].pc \notin {"idle", "denied"} => req[r].token \in Token
           /\ req[r].plan # << >> =>
                 [req[r] EXCEPT !.plan = Tail(@)] \in RequestType
           /\ req[r].plan # << >> =>
                 [req[r] EXCEPT !.pc = "checking", !.plan = Tail(@), !.read = 0] \in RequestType
           /\ [req[r] EXCEPT !.pc = "allowed"] \in RequestType
           /\ [req[r] EXCEPT !.pc = "executed"] \in RequestType
           /\ [req[r] EXCEPT !.pc = "reading", !.read = now] \in RequestType
<1>1. req[r] \in RequestType /\ now \in Nat
    BY DEF TypeOK, RequestType
<1>2. req[r].plan \in Seq(Check)
    BY <1>1 DEF RequestType
<1>3. req[r].plan # << >> => Tail(req[r].plan) \in Seq(Check)
    BY <1>2, TailPlan
<1>4. req[r].pc \notin {"idle", "denied"} => req[r].token \in Token
    BY DEF TypeOK
<1> QED
    BY <1>1, <1>2, <1>3, <1>4 DEF RequestType

(* A request that is reading the store's clock has a revocation check next. *)
Reading ==
    \A r \in Request : req[r].pc = "reading" =>
        /\ req[r].plan # << >>
        /\ Head(req[r].plan)[1] = "revoked"

LEMMA BeginRecord ==
    ASSUME TypeOK, NEW t \in Token, NEW guard \in Guards
    PROVE  /\ guard.async \in BOOLEAN /\ guard.tracked \in BOOLEAN
           /\ [pc |-> "checking", token |-> t, tracked |-> guard.tracked,
               plan |-> Plan(t, guard.async), read |-> 0,
               warned |-> marked \cap Chain(t)] \in RequestType
<1>1. guard.async \in BOOLEAN /\ guard.tracked \in BOOLEAN
    BY RevocationAssumption
<1>2. Plan(t, guard.async) \in Seq(Check)
    BY <1>1, PlanType
<1> QED
    BY <1>1, <1>2 DEF TypeOK, RequestType

LEMMA TypeStep == TypeOK /\ Reading /\ [Next]_vars => TypeOK' /\ Reading'
<1> SUFFICES ASSUME TypeOK, Reading, [Next]_vars PROVE TypeOK' /\ Reading'
    OBVIOUS
<1>1. ASSUME NEW t \in Token, NEW exp \in ExpiryArgs[t], RevokeCalled(t, exp)
      PROVE  TypeOK' /\ Reading'
  <2>1. exp \in Int
      BY RevocationAssumption
  <2> QED
      BY <1>1, <2>1 DEF RevokeCalled, TypeOK, Reading
<1>2. ASSUME RevokeReturns PROVE TypeOK' /\ Reading'
  <2>1. op.token \in Token /\ op.exp \in Int /\ op.calls \in Nat
      BY <1>2 DEF RevokeReturns, TypeOK
  <2>2. RetainedUntil(op.exp) \in Int
      BY <2>1, RetainedType
  <2>3. /\ DOMAIN Kept(op.read) \subseteq Token
        /\ \A t \in DOMAIN Kept(op.read) : Kept(op.read)[t] \in Int
      BY DEF TypeOK, Kept
  <2>4. /\ DOMAIN revoked' \subseteq Token
        /\ \A t \in DOMAIN revoked' : revoked'[t] \in Int
      BY <1>2, <2>1, <2>2, <2>3 DEF RevokeReturns, WithMarker
  <2> QED
      BY <1>2, <2>1, <2>4 DEF RevokeReturns, TypeOK, NoCall, Reading
<1>3. ASSUME NEW r \in Request, NEW t \in Token, NEW guard \in Guards, Begin(r, t, guard) PROVE TypeOK' /\ Reading'
  <2>1. TypeOK'
      BY <1>3, BeginRecord, StepType DEF Begin
  <2> QED
      BY <1>3, <2>1 DEF Begin, TypeOK, Reading
<1>4. ASSUME NEW r \in Request, CheckLifetime(r) PROVE TypeOK' /\ Reading'
  <2>0. req[r].plan # << >> /\ req[r].pc = "checking"
      BY <1>4 DEF CheckLifetime
  <2> DEFINE next == [req[r] EXCEPT !.plan = Tail(@)]
  <2>a. next \in RequestType /\ next.pc = "checking" /\ next.token = req[r].token
      BY <2>0, RequestSteps DEF RequestType
  <2>b. \/ req' = [req EXCEPT ![r] = next]
        \/ req' = [req EXCEPT ![r] = DeniedRequest]
      BY <1>4 DEF CheckLifetime
  <2> HIDE DEF next
  <2>1. \E new \in RequestType : /\ req' = [req EXCEPT ![r] = new]
                                 /\ new.pc \in {"checking", "denied"}
                                 /\ new.pc = "checking" => new.token = req[r].token
      BY <2>a, <2>b, DeniedType
  <2>2. UNCHANGED <<now, op, marked, revoked>> /\ req[r].token \in Token
      BY <1>4, RequestSteps DEF CheckLifetime
  <2>3. TypeOK'
      BY <2>1, <2>2, StepType
  <2> QED
      BY <2>1, <2>3 DEF TypeOK, Reading
<1>5. ASSUME NEW r \in Request, ReadStoreClock(r) PROVE TypeOK' /\ Reading'
  <2>1. /\ req' = [req EXCEPT ![r] = [req[r] EXCEPT !.pc = "reading", !.read = now]]
        /\ UNCHANGED <<now, op, marked, revoked>> /\ req[r].token \in Token
      BY <1>5, RequestSteps DEF ReadStoreClock, TypeOK
  <2>2. TypeOK'
      BY <2>1, RequestSteps, StepType DEF RequestType
  <2> QED
      BY <1>5, <2>1, <2>2 DEF ReadStoreClock, TypeOK, Reading
<1>6. ASSUME NEW r \in Request, CheckRevoked(r) PROVE TypeOK' /\ Reading'
  <2>0. req[r].plan # << >> /\ req[r].pc = "reading"
      BY <1>6 DEF CheckRevoked, Reading
  <2> DEFINE next == [req[r] EXCEPT !.pc = "checking", !.plan = Tail(@), !.read = 0]
  <2>a. next \in RequestType /\ next.pc = "checking" /\ next.token = req[r].token
      BY <2>0, RequestSteps DEF RequestType
  <2>b. \/ req' = [req EXCEPT ![r] = next]
        \/ req' = [req EXCEPT ![r] = DeniedRequest]
      BY <1>6 DEF CheckRevoked
  <2> HIDE DEF next
  <2>1. \E new \in RequestType : /\ req' = [req EXCEPT ![r] = new]
                                 /\ new.pc \in {"checking", "denied"}
                                 /\ new.pc = "checking" => new.token = req[r].token
      BY <2>a, <2>b, DeniedType
  <2>2. /\ UNCHANGED <<now, op, marked>> /\ req[r].token \in Token /\ req[r].read \in Nat
        /\ revoked' = Kept(req[r].read)
      BY <1>6, RequestSteps DEF CheckRevoked, RequestType
  <2>3. TypeOK'
      BY <2>1, <2>2, StepType
  <2> QED
      BY <2>1, <2>3 DEF TypeOK, Reading
<1>7. ASSUME NEW r \in Request, Decide(r) \/ Execute(r) PROVE TypeOK' /\ Reading'
  <2>1. \E new \in RequestType : /\ req' = [req EXCEPT ![r] = new]
                                 /\ new.pc \in {"allowed", "executed", "denied"}
                                 /\ new.pc # "denied" => new.token = req[r].token
    <3>1. CASE Decide(r)
      <4> DEFINE next == [req[r] EXCEPT !.pc = "allowed"]
      <4>1. next \in RequestType /\ next.pc = "allowed" /\ next.token = req[r].token
          BY RequestSteps DEF RequestType
      <4>2. \/ req' = [req EXCEPT ![r] = next]
            \/ req' = [req EXCEPT ![r] = DeniedRequest]
          BY <3>1 DEF Decide
      <4> HIDE DEF next
      <4> QED
          BY <4>1, <4>2, DeniedType
    <3>2. CASE Execute(r)
      <4> DEFINE next == [req[r] EXCEPT !.pc = "executed"]
      <4>1. next \in RequestType /\ next.pc = "executed" /\ next.token = req[r].token
          BY RequestSteps DEF RequestType
      <4>2. req' = [req EXCEPT ![r] = next]
          BY <3>2 DEF Execute, TypeOK
      <4> HIDE DEF next
      <4> QED
          BY <4>1, <4>2
    <3> QED
        BY <1>7, <3>1, <3>2
  <2>2. UNCHANGED <<now, op, marked, revoked>> /\ req[r].token \in Token
      BY <1>7, RequestSteps DEF Decide, Execute
  <2>3. TypeOK'
      BY <2>1, <2>2, StepType
  <2> QED
      BY <2>1, <2>3 DEF TypeOK, Reading
<1>8. ASSUME Tick \/ Terminated \/ UNCHANGED vars PROVE TypeOK' /\ Reading'
    BY <1>8 DEF Tick, Terminated, vars, TypeOK, Reading
<1> QED
    BY <1>1, <1>2, <1>3, <1>4, <1>5, <1>6, <1>7, <1>8 DEF Next

(* The store, the operator and the requests keep the shape of their data.  *)
THEOREM TypeCorrect == Spec => []TypeOK
<1>1. Init => TypeOK /\ Reading
    BY DeniedType DEF Init, TypeOK, NoCall, Reading, RequestType
<1>2. TypeOK /\ Reading /\ [Next]_vars => TypeOK' /\ Reading'
    BY TypeStep
<1> QED
    BY <1>1, <1>2, PTL DEF Spec

-----------------------------------------------------------------------------
(* Safety.  A warned request either still has the revocation check of the  *)
(* token it was warned about ahead of it, or the token is dead by now.     *)

Dead(t) == now >= RetainedUntil(Claims[t].exp)

StoreInv ==
    /\ \A t \in marked : \/ t \in DOMAIN revoked /\ revoked[t] >= RetainedUntil(Claims[t].exp)
                         \/ Dead(t)
    /\ op.read <= now
    /\ \A r \in Request : req[r].read <= now

RequestInv(r) ==
    /\ \A w \in req[r].warned :
          /\ w \in marked /\ w \in Chain(req[r].token)
          /\ InPlan(<<"revoked", w>>, req[r].plan) \/ Dead(w)
    /\ req[r].pc \in Passed => req[r].plan = << >>
    /\ req[r].tracked /\ req[r].pc \in Passed => req[r].warned = {}

IInv == TypeOK /\ Reading /\ StoreInv /\ \A r \in Request : RequestInv(r)

(* Once dead, dead for good.                                               *)
LEMMA DeadForGood ==
    ASSUME TypeOK, NEW t \in Token, Dead(t), now' \in Nat, now' >= now
    PROVE  Dead(t)'
    BY ClaimsFacts DEF TypeOK, Dead

(* Purging with a reading of the clock that is not ahead of it deletes     *)
(* only the markers of dead tokens.                                        *)
LEMMA KeptStore ==
    ASSUME IInv, NEW read \in Nat, read <= now, NEW t \in marked
    PROVE  \/ t \in DOMAIN Kept(read) /\ Kept(read)[t] >= RetainedUntil(Claims[t].exp)
           \/ Dead(t)
<1>1. t \in Token /\ now \in Nat /\ \A u \in DOMAIN revoked : revoked[u] \in Int
    BY DEF IInv, TypeOK
<1>2. RetainedUntil(Claims[t].exp) \in Int
    BY <1>1, ClaimsFacts
<1> QED
    BY <1>1, <1>2 DEF IInv, StoreInv, Kept, Dead

(* The requests a step does not touch keep their invariant.                *)
LEMMA Others ==
    ASSUME IInv, TypeOK', NEW q \in Request, req'[q] = req[q],
           marked \subseteq marked', now' >= now
    PROVE  RequestInv(q)'
<1>1. \A w \in req[q].warned : w \in Token
    BY DEF IInv, TypeOK
<1>2. \A w \in req[q].warned : Dead(w) => Dead(w)'
    BY <1>1, DeadForGood DEF IInv, TypeOK
<1> QED
    BY <1>2 DEF IInv, RequestInv

(* A check that finds no marker for a warned token finds it dead.          *)
LEMMA UnmarkedIsDead ==
    ASSUME IInv, NEW r \in Request, req[r].pc = "reading",
           Head(req[r].plan)[2] \notin DOMAIN Kept(req[r].read),
           NEW w \in req[r].warned, <<"revoked", w>> = Head(req[r].plan)
    PROVE  Dead(w)
<1>1. w \in marked /\ req[r].read \in Nat /\ req[r].read <= now
    BY DEF IInv, RequestInv, StoreInv, TypeOK
<1>2. w = Head(req[r].plan)[2]
    OBVIOUS
<1> QED
    BY <1>1, <1>2, KeptStore

(* With a tracker, a request that runs has no dead token in its chain: the *)
(* child dies no later than its parent.                                    *)
LEMMA TrackerRefusesDead ==
    ASSUME TypeOK, NEW t \in Token, Boundary(t, TRUE), NEW w \in Chain(t)
    PROVE  ~ Dead(w)
<1>1. now \in Nat /\ RetainedUntil(Claims[t].exp) \in Int
    BY ClaimsFacts DEF TypeOK
<1>2. t \in RecordedChain(t)
    BY DEF RecordedChain, Chain
<1>3. now < RetainedUntil(Claims[t].exp)
    BY <1>2 DEF Boundary
<1>4. w \in Token /\ Claims[t].exp <= Claims[w].exp
    BY ClaimsFacts DEF Chain
<1>5. RetainedUntil(Claims[t].exp) <= RetainedUntil(Claims[w].exp)
    BY <1>4, ClaimsFacts, RetainedMonotone
<1> QED
    BY <1>1, <1>3, <1>4, <1>5, ClaimsFacts DEF Dead

LEMMA SafetyStep == IInv /\ TypeOK' /\ Reading' /\ [Next]_vars => IInv'
<1> SUFFICES ASSUME IInv, TypeOK', Reading', [Next]_vars
             PROVE  StoreInv' /\ \A r \in Request : RequestInv(r)'
    BY DEF IInv
<1>0. /\ now \in Nat /\ now' \in Nat
      /\ \A r \in Request : /\ req[r].read \in Nat /\ req[r].read <= now
                            /\ req[r] \in RequestType
      /\ op.read \in Nat /\ op.read <= now
      /\ \A t \in marked : t \in Token
    BY DEF IInv, TypeOK, StoreInv, RequestType
<1>1. ASSUME NEW t \in Token, NEW exp \in ExpiryArgs[t], RevokeCalled(t, exp)
      PROVE  StoreInv' /\ \A r \in Request : RequestInv(r)'
  <2>1. UNCHANGED <<now, revoked, marked, req>> /\ op'.read = now
      BY <1>1 DEF RevokeCalled
  <2> QED
      BY <1>0, <2>1, Others DEF IInv, StoreInv, Dead
<1>2. ASSUME RevokeReturns PROVE StoreInv' /\ \A r \in Request : RequestInv(r)'
  <2>1. /\ UNCHANGED <<now, req>> /\ op'.read = 0
        /\ marked' = IF op.exp >= Claims[op.token].exp THEN marked \cup {op.token} ELSE marked
        /\ revoked' = WithMarker(Kept(op.read), op.token, RetainedUntil(op.exp), op.read)
      BY <1>2 DEF RevokeReturns, NoCall
  <2>2. op.token \in Token /\ op.exp \in Int
      BY <1>2 DEF RevokeReturns, IInv, TypeOK
  <2>3. /\ RetainedUntil(op.exp) \in Int
        /\ Claims[op.token].exp \in Int /\ RetainedUntil(Claims[op.token].exp) \in Int
      BY <2>2, ClaimsFacts, RetainedType
  <2>4. \A u \in DOMAIN Kept(op.read) : Kept(op.read)[u] \in Int
      BY DEF Kept, IInv, TypeOK
  <2>5. ASSUME NEW t \in marked'
        PROVE  \/ t \in DOMAIN revoked' /\ revoked'[t] >= RetainedUntil(Claims[t].exp)
               \/ Dead(t)'
    <3>0. t \in Token /\ RetainedUntil(Claims[t].exp) \in Int
        BY <1>0, <2>1, <2>2, <2>5, ClaimsFacts
    <3>1. CASE t \in marked
      <4>1. \/ t \in DOMAIN Kept(op.read) /\ Kept(op.read)[t] >= RetainedUntil(Claims[t].exp)
            \/ Dead(t)
          BY <1>0, <3>1, KeptStore
      <4> QED
          BY <2>1, <2>3, <2>4, <3>0, <4>1 DEF WithMarker, Dead
    <3>2. CASE t \notin marked
      <4>1. t = op.token /\ op.exp >= Claims[t].exp
          BY <2>1, <2>5, <3>2
      <4>2. RetainedUntil(Claims[t].exp) <= RetainedUntil(op.exp)
          BY <2>2, <2>3, <4>1, RetainedMonotone
      <4> QED
          BY <1>0, <2>1, <2>3, <2>4, <3>0, <4>1, <4>2 DEF WithMarker, Dead
    <3> QED
        BY <3>1, <3>2
  <2>6. StoreInv'
      BY <1>0, <2>1, <2>5 DEF StoreInv
  <2>7. marked \subseteq marked' /\ now' >= now
      BY <1>0, <2>1
  <2> QED
      BY <2>1, <2>6, <2>7, Others
<1>3. ASSUME NEW r \in Request, NEW t \in Token, NEW guard \in Guards, Begin(r, t, guard)
      PROVE  StoreInv' /\ \A q \in Request : RequestInv(q)'
  <2>1. /\ UNCHANGED <<now, revoked, op, marked>>
        /\ \A q \in Request : q # r => req'[q] = req[q]
        /\ req'[r] = [pc |-> "checking", token |-> t, tracked |-> guard.tracked,
                      plan |-> Plan(t, guard.async), read |-> 0,
                      warned |-> marked \cap Chain(t)]
      BY <1>3 DEF Begin, IInv, TypeOK
  <2>2. StoreInv'
      BY <1>0, <2>1 DEF IInv, StoreInv, Dead
  <2>3. RequestInv(r)'
    <3>1. /\ req'[r].warned = marked \cap Chain(t) /\ req'[r].token = t
          /\ req'[r].plan = Plan(t, guard.async) /\ req'[r].pc \notin Passed
        BY <2>1 DEF Passed
    <3>2. \A c \in Chain(t) : InPlan(<<"revoked", c>>, Plan(t, guard.async))
        BY PlanType, BeginRecord DEF IInv
    <3> QED
        BY <2>1, <3>1, <3>2 DEF RequestInv
  <2> QED
      BY <1>0, <2>1, <2>2, <2>3, Others
<1>4. ASSUME NEW r \in Request, CheckLifetime(r)
      PROVE  StoreInv' /\ \A q \in Request : RequestInv(q)'
  <2>1. /\ UNCHANGED <<now, revoked, op, marked>>
        /\ \A q \in Request : q # r => req'[q] = req[q]
        /\ req[r].pc = "checking" /\ req[r].plan # << >> /\ Head(req[r].plan)[1] = "lifetime"
        /\ req'[r] \in {[req[r] EXCEPT !.plan = Tail(@)], DeniedRequest}
      BY <1>4 DEF CheckLifetime, IInv, TypeOK
  <2>2. CASE req'[r] = DeniedRequest
    <3>1. StoreInv'
        BY <1>0, <2>1, <2>2, DeniedType DEF IInv, StoreInv, Dead
    <3>2. RequestInv(r)'
        BY <2>2, DeniedType DEF RequestInv, Passed
    <3> QED
        BY <1>0, <2>1, <3>1, <3>2, Others
  <2>3. CASE req'[r] = [req[r] EXCEPT !.plan = Tail(@)]
    <3>1. /\ req'[r].read = req[r].read /\ req'[r].warned = req[r].warned
          /\ req'[r].token = req[r].token /\ req'[r].pc = "checking"
          /\ req'[r].plan = Tail(req[r].plan)
        BY <1>0, <2>1, <2>3 DEF RequestType
    <3>2. StoreInv'
        BY <1>0, <2>1, <3>1 DEF IInv, StoreInv, Dead
    <3>3. req[r].plan \in Seq(Check)
        BY <1>0 DEF RequestType
    <3>4. \A w \in req[r].warned : InPlan(<<"revoked", w>>, req[r].plan)
                                     => InPlan(<<"revoked", w>>, Tail(req[r].plan))
        BY <2>1, <3>3, TailPlan
    <3>5. RequestInv(r)'
        BY <2>1, <3>1, <3>4 DEF IInv, RequestInv, Passed, Dead
    <3> QED
        BY <1>0, <2>1, <3>2, <3>5, Others
  <2> QED
      BY <2>1, <2>2, <2>3
<1>5. ASSUME NEW r \in Request, ReadStoreClock(r)
      PROVE  StoreInv' /\ \A q \in Request : RequestInv(q)'
  <2>1. /\ UNCHANGED <<now, revoked, op, marked>>
        /\ \A q \in Request : q # r => req'[q] = req[q]
        /\ req'[r].read = now /\ req'[r].pc = "reading"
        /\ req'[r].plan = req[r].plan /\ req'[r].token = req[r].token
        /\ req'[r].warned = req[r].warned
      BY <1>0, <1>5 DEF ReadStoreClock, IInv, TypeOK, RequestType
  <2>2. StoreInv'
      BY <1>0, <2>1 DEF IInv, StoreInv, Dead
  <2>3. RequestInv(r)'
      BY <2>1 DEF IInv, RequestInv, Passed, Dead
  <2> QED
      BY <1>0, <2>1, <2>2, <2>3, Others
<1>6. ASSUME NEW r \in Request, CheckRevoked(r)
      PROVE  StoreInv' /\ \A q \in Request : RequestInv(q)'
  <2>1. /\ UNCHANGED <<now, op, marked>> /\ revoked' = Kept(req[r].read)
        /\ req[r].pc = "reading"
        /\ \A q \in Request : q # r => req'[q] = req[q]
        /\ req'[r] = IF Head(req[r].plan)[2] \in DOMAIN Kept(req[r].read)
                     THEN DeniedRequest
                     ELSE [req[r] EXCEPT !.pc = "checking", !.plan = Tail(@), !.read = 0]
      BY <1>6 DEF CheckRevoked, IInv, TypeOK
  <2>2. \A t \in marked' : \/ t \in DOMAIN revoked' /\ revoked'[t] >= RetainedUntil(Claims[t].exp)
                           \/ Dead(t)'
      BY <1>0, <2>1, KeptStore DEF Dead
  <2>3. CASE Head(req[r].plan)[2] \in DOMAIN Kept(req[r].read)
    <3>1. StoreInv'
        BY <1>0, <2>1, <2>2, <2>3, DeniedType DEF StoreInv
    <3>2. RequestInv(r)'
        BY <2>1, <2>3, DeniedType DEF RequestInv, Passed
    <3> QED
        BY <1>0, <2>1, <3>1, <3>2, Others
  <2>4. CASE Head(req[r].plan)[2] \notin DOMAIN Kept(req[r].read)
    <3>1. /\ req'[r].read = 0 /\ req'[r].warned = req[r].warned
          /\ req'[r].token = req[r].token /\ req'[r].pc = "checking"
          /\ req'[r].plan = Tail(req[r].plan)
        BY <1>0, <2>1, <2>4 DEF RequestType
    <3>a. now \in Nat
        BY DEF IInv, TypeOK
    <3>b. \A q \in Request : req'[q].read <= now'
      <4>1. \A q \in Request : req[q].read <= now
          BY DEF IInv, StoreInv
      <4>2. req'[r].read <= now
          BY <3>1, <3>a
      <4> QED
          BY <2>1, <4>1, <4>2
    <3>2. StoreInv'
        BY <1>0, <2>1, <2>2, <3>b DEF StoreInv
    <3>3. req[r].plan \in Seq(Check) /\ req[r].plan # << >>
        BY <1>0, <2>1 DEF RequestType, IInv, Reading
    <3>4. \A w \in req[r].warned : InPlan(<<"revoked", w>>, req[r].plan)
                       => InPlan(<<"revoked", w>>, Tail(req[r].plan)) \/ Dead(w)
        BY <2>1, <2>4, <3>3, TailPlan, UnmarkedIsDead
    <3>5. RequestInv(r)'
        BY <2>1, <3>1, <3>4 DEF IInv, RequestInv, Passed, Dead
    <3> QED
        BY <1>0, <2>1, <3>2, <3>5, Others
  <2> QED
      BY <2>3, <2>4
<1>7. ASSUME NEW r \in Request, Decide(r)
      PROVE  StoreInv' /\ \A q \in Request : RequestInv(q)'
  <2>1. /\ UNCHANGED <<now, revoked, op, marked>>
        /\ \A q \in Request : q # r => req'[q] = req[q]
        /\ req[r].pc = "checking" /\ req[r].plan = << >>
        /\ req'[r] = IF Boundary(req[r].token, req[r].tracked)
                     THEN [req[r] EXCEPT !.pc = "allowed"] ELSE DeniedRequest
      BY <1>7 DEF Decide, IInv, TypeOK
  <2>2. CASE ~ Boundary(req[r].token, req[r].tracked)
    <3>1. StoreInv'
        BY <1>0, <2>1, <2>2, DeniedType DEF IInv, StoreInv, Dead
    <3>2. RequestInv(r)'
        BY <2>1, <2>2, DeniedType DEF RequestInv, Passed
    <3> QED
        BY <1>0, <2>1, <3>1, <3>2, Others
  <2>3. CASE Boundary(req[r].token, req[r].tracked)
    <3>1. /\ req'[r].read = req[r].read /\ req'[r].warned = req[r].warned
          /\ req'[r].token = req[r].token /\ req'[r].pc = "allowed"
          /\ req'[r].plan = req[r].plan /\ req'[r].tracked = req[r].tracked
        BY <1>0, <2>1, <2>3 DEF RequestType
    <3>2. StoreInv'
        BY <1>0, <2>1, <3>1 DEF IInv, StoreInv, Dead
    <3>3. \A c : ~ InPlan(c, << >>)
        BY DEF InPlan
    <3>4. \A w \in req[r].warned : w \in Chain(req[r].token) /\ Dead(w)
        BY <2>1, <3>3 DEF IInv, RequestInv
    <3>5. req[r].tracked => req[r].warned = {}
      <4> HAVE req[r].tracked
      <4>1. req[r].tracked = TRUE
          BY <1>0 DEF RequestType
      <4> QED
          BY <2>1, <2>3, <3>4, <4>1, TrackerRefusesDead DEF IInv, TypeOK
    <3>6. RequestInv(r)'
        BY <2>1, <3>1, <3>5 DEF IInv, RequestInv, Passed, Dead
    <3> QED
        BY <1>0, <2>1, <3>2, <3>6, Others
  <2> QED
      BY <2>2, <2>3
<1>8. ASSUME NEW r \in Request, Execute(r)
      PROVE  StoreInv' /\ \A q \in Request : RequestInv(q)'
  <2>1. /\ UNCHANGED <<now, revoked, op, marked>>
        /\ \A q \in Request : q # r => req'[q] = req[q]
        /\ req[r].pc = "allowed" /\ req'[r].pc = "executed"
        /\ req'[r].plan = req[r].plan /\ req'[r].token = req[r].token
        /\ req'[r].warned = req[r].warned /\ req'[r].read = req[r].read
        /\ req'[r].tracked = req[r].tracked
      BY <1>0, <1>8 DEF Execute, IInv, TypeOK, RequestType
  <2>2. StoreInv'
      BY <1>0, <2>1 DEF IInv, StoreInv, Dead
  <2>3. RequestInv(r)'
      BY <2>1 DEF IInv, RequestInv, Passed, Dead
  <2> QED
      BY <1>0, <2>1, <2>2, <2>3, Others
<1>9. ASSUME Tick \/ Terminated \/ UNCHANGED vars
      PROVE  StoreInv' /\ \A q \in Request : RequestInv(q)'
  <2>1. UNCHANGED <<revoked, op, marked, req>> /\ now' >= now
      BY <1>0, <1>9 DEF Tick, Terminated, vars
  <2>2. \A t \in marked : Dead(t) => Dead(t)'
      BY <1>0, <2>1, DeadForGood DEF IInv
  <2>3. StoreInv'
      BY <1>0, <2>1, <2>2 DEF IInv, StoreInv
  <2> QED
      BY <2>1, <2>3, Others
<1> QED
    BY <1>1, <1>2, <1>3, <1>4, <1>5, <1>6, <1>7, <1>8, <1>9 DEF Next

LEMMA Safety == Spec => []IInv
<1>1. Init => IInv
  <2> SUFFICES ASSUME Init PROVE IInv
      OBVIOUS
  <2>1. TypeOK /\ Reading
      BY DeniedType DEF Init, TypeOK, NoCall, Reading, RequestType
  <2>2. StoreInv
      BY DeniedType DEF Init, StoreInv, NoCall
  <2>3. \A r \in Request : RequestInv(r)
      BY DeniedType DEF Init, RequestInv, Passed
  <2> QED
      BY <2>1, <2>2, <2>3 DEF IInv
<1>2. IInv /\ [Next]_vars => IInv'
    BY TypeStep, SafetyStep DEF IInv
<1> QED
    BY <1>1, <1>2, PTL DEF Spec

(* With a tracker behind the boundary, a request that begins after its     *)
(* token or its parent was revoked never runs.                             *)
THEOREM RevokedNeverRunsCorrect == Spec => []RevokedNeverRuns
<1>1. IInv => RevokedNeverRuns
    BY DEF IInv, RequestInv, RevokedNeverRuns, Passed
<1> QED
    BY <1>1, Safety, PTL

(* With or without a tracker, no revoked token is let through while it     *)
(* could still be accepted.                                                *)
THEOREM NeverDuringAcceptanceCorrect == Spec => []NeverDuringAcceptance
<1>1. IInv => NeverDuringAcceptance
  <2> SUFFICES ASSUME IInv, NEW r \in Request, NEW w \in req[r].warned,
                      req[r].pc \in Passed
               PROVE  Expired(now, Claims[w].exp, MaxLeeway)
      BY DEF NeverDuringAcceptance, Passed
  <2>1. req[r].plan = << >> /\ w \in Token /\ now \in Nat
      BY DEF IInv, RequestInv, TypeOK
  <2>2. Dead(w)
      BY <2>1 DEF IInv, RequestInv, InPlan
  <2> QED
      BY <2>1, <2>2, ClaimsFacts, RetentionIsAcceptance DEF Dead
<1> QED
    BY <1>1, Safety, PTL

(* A revocation stays in the store through its token's acceptance window.  *)
THEOREM MarkersRetainedCorrect == Spec => []MarkersRetained
<1>1. IInv => MarkersRetained
  <2> SUFFICES ASSUME IInv, NEW t \in marked, t \notin DOMAIN revoked
               PROVE  Expired(now, Claims[t].exp, MaxLeeway)
      BY DEF MarkersRetained
  <2>1. t \in Token /\ now \in Nat /\ Dead(t)
      BY DEF IInv, TypeOK, StoreInv
  <2> QED
      BY <2>1, ClaimsFacts, RetentionIsAcceptance DEF Dead
<1> QED
    BY <1>1, Safety, PTL

Grown(t) ==
    IF t \in DOMAIN revoked' THEN revoked'[t] >= revoked[t] ELSE revoked[t] <= now

(* A purge keeps a marker as it is, or deletes one that was due.           *)
LEMMA PurgeNeverShortens ==
    ASSUME IInv, NEW read \in Nat, read <= now, NEW t \in DOMAIN revoked
    PROVE  /\ t \in DOMAIN Kept(read) => Kept(read)[t] = revoked[t]
           /\ t \notin DOMAIN Kept(read) => revoked[t] <= now
<1>1. now \in Nat /\ revoked[t] \in Int
    BY DEF IInv, TypeOK
<1> QED
    BY <1>1 DEF Kept

(* Revoking a token leaves every marker that is there as long or longer.   *)
LEMMA MarkerNeverShortens ==
    ASSUME NEW markers, NEW t, NEW until \in Int, NEW read \in Nat,
           NEW u \in DOMAIN markers, markers[u] \in Int
    PROVE  /\ u \in DOMAIN WithMarker(markers, t, until, read)
           /\ WithMarker(markers, t, until, read)[u] >= markers[u]
    BY DEF WithMarker

(* A marker that was not there lasts beyond the clock reading.             *)
LEMMA MarkerIsNew ==
    ASSUME NEW markers, NEW t, NEW until \in Int, NEW read \in Nat,
           NEW u, u \notin DOMAIN markers, u \in DOMAIN WithMarker(markers, t, until, read)
    PROVE  WithMarker(markers, t, until, read)[u] = until /\ until > read
<1>1. CASE until <= read
    BY <1>1 DEF WithMarker
<1>2. CASE until > read
  <2> DEFINE new == WithMarker(markers, t, until, read)
  <2>1. new = [v \in DOMAIN markers \cup {t} |->
                  IF v # t THEN markers[v]
                  ELSE IF t \in DOMAIN markers /\ markers[t] > until THEN markers[t]
                  ELSE until]
      BY <1>2 DEF WithMarker
  <2>2. u = t
      BY <2>1
  <2> QED
      BY <1>2, <2>1, <2>2
<1> QED
    BY <1>1, <1>2

(* Re-revoking a token never shortens its revocation, whatever expiry the  *)
(* operator gives and however old the clock reading of a purge is.         *)
THEOREM NeverShortenedCorrect == Spec => NeverShortened
<1>1. ASSUME IInv, [Next]_vars
      PROVE  [\A t \in DOMAIN revoked : Grown(t)]_vars
  <2> SUFFICES ASSUME NEW t \in DOMAIN revoked PROVE Grown(t)
      OBVIOUS
  <2>0. revoked[t] \in Int /\ op.read \in Nat /\ op.read <= now /\ op.exp \in Int
      BY <1>1 DEF IInv, TypeOK, StoreInv
  <2>1. CASE RevokeReturns
    <3> DEFINE kept == Kept(op.read)
               until == RetainedUntil(op.exp)
    <3>1. /\ t \in DOMAIN kept => kept[t] = revoked[t]
          /\ t \notin DOMAIN kept => revoked[t] <= now
        BY <1>1, <2>0, PurgeNeverShortens
    <3>2. until \in Int
        BY <2>0, RetainedType
    <3>3. revoked' = WithMarker(kept, op.token, until, op.read)
        BY <2>1 DEF RevokeReturns
    <3> HIDE DEF kept, until
    <3>4. CASE t \in DOMAIN kept
        BY <2>0, <3>1, <3>2, <3>3, <3>4, MarkerNeverShortens DEF Grown
    <3>5. CASE t \notin DOMAIN kept
      <4>1. t \notin DOMAIN revoked' \/ (revoked'[t] = until /\ until > op.read)
        <5> SUFFICES ASSUME t \in DOMAIN revoked' PROVE revoked'[t] = until /\ until > op.read
            OBVIOUS
        <5>1. t \in DOMAIN WithMarker(kept, op.token, until, op.read)
            BY <3>3
        <5>2. /\ WithMarker(kept, op.token, until, op.read)[t] = until
              /\ until > op.read
            BY <2>0, <3>2, <3>5, <5>1, MarkerIsNew
        <5> QED
            BY <3>3, <5>2
      <4>2. revoked[t] <= op.read
          BY <2>0, <3>5 DEF kept, Kept
      <4> QED
          BY <2>0, <3>1, <3>2, <3>5, <4>1, <4>2 DEF Grown
    <3> QED
        BY <3>4, <3>5
  <2>2. ASSUME NEW r \in Request, CheckRevoked(r) PROVE Grown(t)
    <3>1. revoked' = Kept(req[r].read) /\ req[r].read \in Nat /\ req[r].read <= now
        BY <1>1, <2>2 DEF CheckRevoked, IInv, TypeOK, StoreInv
    <3> QED
        BY <1>1, <2>0, <3>1, PurgeNeverShortens DEF Grown
  <2>3. CASE revoked' = revoked
      BY <2>0, <2>3 DEF Grown
  <2> QED
      BY <1>1, <2>1, <2>2, <2>3
      DEF Next, vars, RevokeCalled, Begin, CheckLifetime, ReadStoreClock, Decide, Execute,
          Tick, Terminated
<1> QED
    BY <1>1, Safety, PTL DEF Spec, NeverShortened, Grown

-----------------------------------------------------------------------------
(***************************************************************************)
(* The store that verifier processes share.  Module RedisRevocation has    *)
(* the same tokens and the same clock, its own calls of revoke() and its   *)
(* own markers.  A call may be given any expiry, so what is proved holds   *)
(* of every set ExpiryArgs that the module may be given.                   *)
(***************************************************************************)
CONSTANT Operator

VARIABLES keys, calls

Redis == INSTANCE RedisRevocation WITH op <- calls, ExpiryArgs <- Nat

Looping == {"loop", "watching", "setting"}

(* A call that is not over needs its marker for whole seconds that reach   *)
(* the end of the retention from whatever time it is now.                  *)
CallsReach ==
    \A o \in Operator :
        /\ calls[o].pc = "idle" <=> calls[o].token = None
        /\ calls[o].pc \in Looping =>
              /\ calls[o].ttl > 0
              /\ RetainedUntil(calls[o].exp) <= now + calls[o].ttl * TicksPerSecond

(* A marker was set by a call, and reaches the end of what it asked for.   *)
MarkersReach ==
    \A t \in DOMAIN keys : \E p \in Operator :
        calls[p].token = t /\ RetainedUntil(calls[p].exp) <= keys[t]

(* A call about to set a marker that nobody has touched since it looked    *)
(* will not set it to an earlier end.                                      *)
SetsLengthen ==
    \A o \in Operator :
        /\ calls[o].pc = "setting"
        /\ ~ calls[o].dirty
        /\ calls[o].token \in DOMAIN keys
        => keys[calls[o].token] <= now + calls[o].ttl * TicksPerSecond

RedisInv == Redis!TypeOK /\ CallsReach /\ MarkersReach /\ SetsLengthen

(* Division by the ticks of a second.                                      *)
LEMMA DivBounds ==
    ASSUME NEW x \in Int
    PROVE  /\ x \div TicksPerSecond \in Int
           /\ (x \div TicksPerSecond) * TicksPerSecond <= x
           /\ x < (x \div TicksPerSecond) * TicksPerSecond + TicksPerSecond
    BY LifetimeAssumption, Z3

LEMMA SpanType ==
    ASSUME NEW n \in Int
    PROVE  n * TicksPerSecond \in Int
    BY LifetimeAssumption

LEMMA SpanMonotone ==
    ASSUME NEW m \in Int, NEW n \in Int, m <= n
    PROVE  m * TicksPerSecond <= n * TicksPerSecond
    BY LifetimeAssumption, Z3

LEMMA SameRetention ==
    ASSUME NEW exp
    PROVE  Redis!RetainedUntil(exp) = RetainedUntil(exp)
    BY DEF Redis!RetainedUntil, RetainedUntil, Redis!RetentionAfterExp, RetentionAfterExp

(* The seconds a call computes reach the end of the retention; it computes *)
(* none only when that end is over.                                        *)
LEMMA SecondsNeededReach ==
    ASSUME NEW exp \in Int, NEW read \in Nat
    PROVE  /\ Redis!SecondsNeeded(exp, read) \in Int
           /\ RetainedUntil(exp) <= read + Redis!SecondsNeeded(exp, read) * TicksPerSecond
           /\ Redis!SecondsNeeded(exp, read) <= 0 => RetainedUntil(exp) <= read
<1> DEFINE x == RetainedUntil(exp) - read + TicksPerSecond - 1
           q == x \div TicksPerSecond
<1>1. x \in Int /\ RetainedUntil(exp) \in Int
    BY RetainedType, LifetimeAssumption
<1>2. q \in Int /\ x < q * TicksPerSecond + TicksPerSecond
    BY <1>1, DivBounds
<1>3. q * TicksPerSecond \in Int /\ (q <= 0 => q * TicksPerSecond <= 0)
    BY <1>2, SpanType, SpanMonotone, LifetimeAssumption
<1>4. Redis!SecondsNeeded(exp, read) = q
    BY SameRetention DEF Redis!SecondsNeeded
<1>5. RetainedUntil(exp) <= read + q * TicksPerSecond
    BY <1>1, <1>2, <1>3, LifetimeAssumption
<1> HIDE DEF q
<1>6. q <= 0 => RetainedUntil(exp) <= read
    BY <1>1, <1>3, <1>5
<1> QED
    BY <1>2, <1>4, <1>5, <1>6

(* A reply to TTL below the seconds needed means that the marker, if there *)
(* is one, ends before they are over, though the reply is rounded.         *)
LEMMA ShortReply ==
    ASSUME NEW t \in DOMAIN keys, keys[t] \in Nat, now \in Nat, NEW ttl \in Nat,
           ~ (Redis!TTLReply(t) >= ttl)
    PROVE  keys[t] <= now + ttl * TicksPerSecond
<1> DEFINE half == TicksPerSecond \div 2
           x == keys[t] - now + half
           q == x \div TicksPerSecond
<1>1. half \in Nat
    BY LifetimeAssumption, Z3
<1>2. x \in Int
    BY <1>1
<1>3. q \in Int /\ x < q * TicksPerSecond + TicksPerSecond
    BY <1>2, DivBounds
<1>4. Redis!TTLReply(t) = q
    BY DEF Redis!TTLReply
<1> HIDE DEF half, q
<1>5. q + 1 <= ttl
    BY <1>3, <1>4
<1>6. (q + 1) * TicksPerSecond <= ttl * TicksPerSecond
    BY <1>3, <1>5, SpanMonotone
<1>7. (q + 1) * TicksPerSecond = q * TicksPerSecond + TicksPerSecond
    BY <1>3, LifetimeAssumption, Z3
<1>8. q * TicksPerSecond \in Int /\ ttl * TicksPerSecond \in Int
    BY <1>3, SpanType
<1>9. keys[t] - now <= x
    BY <1>1
<1> HIDE DEF x
<1> QED
    BY <1>2, <1>3, <1>6, <1>7, <1>8, <1>9, LifetimeAssumption

CallRecord == [pc : {"idle"} \cup Looping \cup {"returned"}, token : Token \cup {None},
               exp : Nat, ttl : Nat, dirty : BOOLEAN]

RedisTypes ==
    /\ now \in Nat
    /\ DOMAIN keys \subseteq Token
    /\ \A t \in DOMAIN keys : keys[t] \in Nat
    /\ calls \in [Operator -> CallRecord]

LEMMA SameTypes == (Redis!TypeOK <=> RedisTypes) /\ (Redis!TypeOK' <=> RedisTypes')
<1>1. {"idle"} \cup Looping \cup {"returned"} =
        {"idle", "loop", "watching", "setting", "returned"}
    BY DEF Looping
<1> QED
    BY <1>1 DEF Redis!TypeOK, RedisTypes, CallRecord

LEMMA NoneIsNoToken == None \notin Token
    BY TokensAssumption

(* A change to a watched key marks the transactions that watch it dirty.   *)
LEMMA TouchedFacts ==
    ASSUME NEW ops \in [Operator -> CallRecord], NEW tokens
    PROVE  /\ Redis!Touched(ops, tokens) \in [Operator -> CallRecord]
           /\ \A o \in Operator :
                /\ Redis!Touched(ops, tokens)[o].pc = ops[o].pc
                /\ Redis!Touched(ops, tokens)[o].token = ops[o].token
                /\ Redis!Touched(ops, tokens)[o].exp = ops[o].exp
                /\ Redis!Touched(ops, tokens)[o].ttl = ops[o].ttl
                /\ ~ Redis!Touched(ops, tokens)[o].dirty =>
                      /\ ~ ops[o].dirty
                      /\ ~ (ops[o].pc = "setting" /\ ops[o].token \in tokens)
<1>1. ASSUME NEW o \in Operator
      PROVE  /\ Redis!Touched(ops, tokens)[o] =
                  IF ops[o].pc \in {"watching", "setting"} /\ ops[o].token \in tokens
                  THEN [ops[o] EXCEPT !.dirty = TRUE]
                  ELSE ops[o]
             /\ ops[o] \in CallRecord
    BY <1>1 DEF Redis!Touched
<1>2. ASSUME NEW o \in Operator
      PROVE  Redis!Touched(ops, tokens)[o] \in CallRecord
    BY <1>1, <1>2 DEF CallRecord
<1>3. Redis!Touched(ops, tokens) \in [Operator -> CallRecord]
    BY <1>2 DEF Redis!Touched
<1>4. ASSUME NEW o \in Operator
      PROVE  /\ Redis!Touched(ops, tokens)[o].pc = ops[o].pc
             /\ Redis!Touched(ops, tokens)[o].token = ops[o].token
             /\ Redis!Touched(ops, tokens)[o].exp = ops[o].exp
             /\ Redis!Touched(ops, tokens)[o].ttl = ops[o].ttl
             /\ ~ Redis!Touched(ops, tokens)[o].dirty =>
                   /\ ~ ops[o].dirty
                   /\ ~ (ops[o].pc = "setting" /\ ops[o].token \in tokens)
    BY <1>1, <1>4 DEF CallRecord
<1> QED
    BY <1>3, <1>4

(* revoke() begins.                                                        *)
LEMMA RevokePreserves ==
    ASSUME RedisInv, NEW o \in Operator, NEW t \in Token, NEW exp \in Nat,
           Redis!Revoke(o, t, exp)
    PROVE  RedisInv'
<1> DEFINE ttl == Redis!SecondsNeeded(exp, now)
           entered == [pc |-> "loop", token |-> t, exp |-> exp, ttl |-> ttl, dirty |-> FALSE]
           skipped == [Redis!NotCalled EXCEPT !.pc = "returned", !.token = t, !.exp = exp]
           call == IF ttl > 0 THEN entered ELSE skipped
<1>1. /\ now \in Nat /\ DOMAIN keys \subseteq Token
      /\ \A u \in DOMAIN keys : keys[u] \in Nat
      /\ calls \in [Operator -> CallRecord]
    BY SameTypes DEF RedisInv, RedisTypes
<1>2. /\ ttl \in Int
      /\ RetainedUntil(exp) <= now + ttl * TicksPerSecond
    BY <1>1, SecondsNeededReach
<1>3. /\ calls[o].pc = "idle" /\ now' = now /\ keys' = keys
      /\ calls' = [calls EXCEPT ![o] = call]
    BY DEF Redis!Revoke
<1> HIDE DEF ttl
<1>4. /\ call \in CallRecord /\ call.token = t /\ call.exp = exp
      /\ call.pc \in {"loop", "returned"}
      /\ call.pc = "loop" => ttl > 0 /\ call.ttl = ttl
  <2>1. CASE ttl > 0
    <3>1. call = entered
        BY <2>1
    <3> QED
        BY <1>2, <2>1, <3>1 DEF CallRecord, Looping
  <2>2. CASE ~ (ttl > 0)
    <3>1. call = [pc |-> "returned", token |-> t, exp |-> exp, ttl |-> 0, dirty |-> FALSE]
        BY <2>2 DEF Redis!NotCalled
    <3> HIDE DEF call
    <3> QED
        BY <3>1 DEF CallRecord
  <2> QED
      BY <2>1, <2>2
<1> HIDE DEF call
<1>5. calls'[o] = call /\ \A p \in Operator \ {o} : calls'[p] = calls[p]
    BY <1>1, <1>3
<1>6. Redis!TypeOK'
  <2>1. calls' \in [Operator -> CallRecord]
      BY <1>1, <1>3, <1>4
  <2> QED
      BY <1>1, <1>3, <2>1, SameTypes DEF RedisTypes
<1>7. CallsReach'
    BY <1>2, <1>3, <1>4, <1>5, NoneIsNoToken DEF RedisInv, CallsReach, Looping
<1>8. MarkersReach'
  <2> SUFFICES ASSUME NEW u \in DOMAIN keys
               PROVE  \E p \in Operator : calls'[p].token = u
                                          /\ RetainedUntil(calls'[p].exp) <= keys[u]
      BY <1>3 DEF MarkersReach
  <2>1. PICK p \in Operator : calls[p].token = u /\ RetainedUntil(calls[p].exp) <= keys[u]
      BY DEF RedisInv, MarkersReach
  <2>2. p # o
      BY <1>1, <1>3, <2>1, NoneIsNoToken DEF RedisInv, CallsReach
  <2> QED
      BY <1>5, <2>1, <2>2
<1>9. SetsLengthen'
    BY <1>3, <1>4, <1>5 DEF RedisInv, SetsLengthen
<1> QED
    BY <1>6, <1>7, <1>8, <1>9 DEF RedisInv

(* A step of a call that changes where it is and what it knows of the      *)
(* watched key, and nothing else.                                          *)
Moves(o) ==
    /\ UNCHANGED <<now, keys>>
    /\ calls' \in [Operator -> CallRecord]
    /\ \A p \in Operator \ {o} : calls'[p] = calls[p]
    /\ calls'[o].token = calls[o].token
    /\ calls'[o].exp = calls[o].exp
    /\ calls'[o].ttl = calls[o].ttl

LEMMA MovePreserves ==
    ASSUME RedisInv, NEW o \in Operator, Moves(o),
           calls[o].pc \in Looping, calls'[o].pc \in Looping \cup {"returned"},
           /\ calls'[o].pc = "setting"
           /\ calls[o].token \in DOMAIN keys
           => keys[calls[o].token] <= now + calls[o].ttl * TicksPerSecond
    PROVE  RedisInv'
<1>1. RedisTypes
    BY SameTypes DEF RedisInv
<1>2. Redis!TypeOK'
    BY <1>1, SameTypes DEF RedisTypes, Moves
<1>3. CallsReach'
    BY DEF RedisInv, CallsReach, Looping, Moves
<1>4. MarkersReach'
    BY DEF RedisInv, MarkersReach, Moves
<1>5. SetsLengthen'
    BY DEF RedisInv, SetsLengthen, Moves
<1> QED
    BY <1>2, <1>3, <1>4, <1>5 DEF RedisInv

(* WATCH, the comparison, and a transaction that fails.                    *)
LEMMA WatchMoves ==
    ASSUME RedisTypes, NEW o \in Operator, Redis!Watch(o)
    PROVE  Moves(o) /\ calls[o].pc = "loop" /\ calls'[o].pc = "watching"
<1>1. /\ calls[o] \in CallRecord /\ calls[o].pc = "loop"
      /\ calls' = [calls EXCEPT ![o] = [calls[o] EXCEPT !.pc = "watching", !.dirty = FALSE]]
    BY DEF RedisTypes, Redis!Watch
<1>2. [calls[o] EXCEPT !.pc = "watching", !.dirty = FALSE] \in CallRecord
    BY <1>1 DEF CallRecord, Looping
<1>3. /\ calls' \in [Operator -> CallRecord]
      /\ calls'[o] = [calls[o] EXCEPT !.pc = "watching", !.dirty = FALSE]
      /\ \A p \in Operator \ {o} : calls'[p] = calls[p]
    BY <1>1, <1>2 DEF RedisTypes
<1> QED
    BY <1>1, <1>3 DEF Moves, CallRecord, Redis!Watch

LEMMA PcMoves ==
    ASSUME RedisTypes, NEW o \in Operator, NEW pc \in Looping \cup {"returned"},
           calls' = [calls EXCEPT ![o].pc = pc], UNCHANGED <<now, keys>>
    PROVE  Moves(o) /\ calls'[o].pc = pc
<1>1. calls[o] \in CallRecord /\ calls' = [calls EXCEPT ![o] = [calls[o] EXCEPT !.pc = pc]]
    BY DEF RedisTypes
<1>2. [calls[o] EXCEPT !.pc = pc] \in CallRecord
    BY <1>1 DEF CallRecord
<1>3. /\ calls' \in [Operator -> CallRecord]
      /\ calls'[o] = [calls[o] EXCEPT !.pc = pc]
      /\ \A p \in Operator \ {o} : calls'[p] = calls[p]
    BY <1>1, <1>2 DEF RedisTypes
<1> QED
    BY <1>1, <1>3 DEF Moves, CallRecord

LEMMA ComparePreserves ==
    ASSUME RedisInv, NEW o \in Operator, Redis!Compare(o)
    PROVE  /\ RedisInv' /\ Moves(o) /\ calls[o].pc \in Looping
           /\ calls'[o].pc = "returned" => calls[o].token \in DOMAIN keys
<1> DEFINE pc == IF Redis!TTLReply(calls[o].token) >= calls[o].ttl
                 THEN "returned" ELSE "setting"
<1>1. RedisTypes
    BY SameTypes DEF RedisInv
<1>2. pc \in Looping \cup {"returned"}
    BY DEF Looping
<1>3. /\ calls[o].pc = "watching" /\ UNCHANGED <<now, keys>>
      /\ calls' = [calls EXCEPT ![o].pc = pc]
    BY DEF Redis!Compare
<1>4. Moves(o) /\ calls'[o].pc = pc
  <2> HIDE DEF pc
  <2> QED
      BY <1>1, <1>2, <1>3, PcMoves
<1>5. calls[o].pc \in Looping
    BY <1>3 DEF Looping
<1>6. calls[o].ttl \in Nat /\ calls[o].ttl > 0 /\ now \in Nat
    BY <1>1, <1>5 DEF RedisInv, CallsReach, RedisTypes, CallRecord
<1>7. calls'[o].pc = "returned" => calls[o].token \in DOMAIN keys
    BY <1>4, <1>6 DEF Redis!TTLReply
<1>8. /\ calls'[o].pc = "setting"
      /\ calls[o].token \in DOMAIN keys
      => keys[calls[o].token] <= now + calls[o].ttl * TicksPerSecond
  <2> SUFFICES ASSUME calls'[o].pc = "setting", calls[o].token \in DOMAIN keys
               PROVE  keys[calls[o].token] <= now + calls[o].ttl * TicksPerSecond
      OBVIOUS
  <2>1. ~ (Redis!TTLReply(calls[o].token) >= calls[o].ttl)
      BY <1>4
  <2>2. keys[calls[o].token] \in Nat
      BY <1>1 DEF RedisTypes
  <2> QED
      BY <1>6, <2>1, <2>2, ShortReply
<1>9. calls'[o].pc \in Looping \cup {"returned"}
    BY <1>2, <1>4
<1> QED
    BY <1>4, <1>5, <1>7, <1>8, <1>9, MovePreserves

(* EXEC goes through: the markers it leaves behind, and what the call and  *)
(* the others keep.                                                        *)
Sets(o) ==
    LET t == calls[o].token IN
    /\ now' = now /\ calls[o].pc = "setting" /\ t \in Token
    /\ now + calls[o].ttl * TicksPerSecond \in Nat
    /\ DOMAIN keys' = DOMAIN keys \cup {t}
    /\ keys'[t] = now + calls[o].ttl * TicksPerSecond
    /\ \A u \in DOMAIN keys \ {t} : keys'[u] = keys[u]
    /\ t \in DOMAIN keys => keys[t] <= keys'[t]
    /\ calls' \in [Operator -> CallRecord]
    /\ calls'[o].pc \in {"returned", "loop"}
    /\ \A p \in Operator \ {o} : calls'[p].pc = calls[p].pc
    /\ \A p \in Operator :
         /\ calls'[p].token = calls[p].token
         /\ calls'[p].exp = calls[p].exp
         /\ calls'[p].ttl = calls[p].ttl
         /\ calls'[p].pc = "setting" /\ ~ calls'[p].dirty =>
               ~ calls[p].dirty /\ calls[p].token # t

LEMMA ExecSetsFacts ==
    ASSUME RedisInv, NEW o \in Operator, NEW pc \in {"returned", "loop"}, Redis!ExecSets(o, pc)
    PROVE  Sets(o)
<1> DEFINE t == calls[o].token
           until == now + calls[o].ttl * TicksPerSecond
           ops == [calls EXCEPT ![o].pc = pc]
<1>1. RedisTypes
    BY SameTypes DEF RedisInv
<1>2. /\ calls[o].pc = "setting" /\ ~ calls[o].dirty /\ now' = now
      /\ keys' = [u \in DOMAIN keys \cup {t} |-> IF u = t THEN until ELSE keys[u]]
      /\ calls' = Redis!Touched(ops, {t})
    BY DEF Redis!ExecSets
<1>3. calls[o] \in CallRecord
    BY <1>1 DEF RedisTypes
<1>4. t \in Token /\ calls[o].ttl \in Nat
    BY <1>2, <1>3 DEF RedisInv, CallsReach, CallRecord
<1>5. until \in Nat
  <2>1. calls[o].ttl * TicksPerSecond \in Nat
      BY <1>4, LifetimeAssumption
  <2> QED
      BY <1>1, <2>1 DEF RedisTypes
<1>6. t \in DOMAIN keys => keys[t] <= until
    BY <1>2 DEF RedisInv, SetsLengthen
<1>7. ops = [calls EXCEPT ![o] = [calls[o] EXCEPT !.pc = pc]]
    BY <1>1 DEF RedisTypes
<1>8. [calls[o] EXCEPT !.pc = pc] \in CallRecord
    BY <1>3 DEF CallRecord, Looping
<1>9. /\ ops \in [Operator -> CallRecord]
      /\ ops[o] = [calls[o] EXCEPT !.pc = pc]
      /\ \A p \in Operator \ {o} : ops[p] = calls[p]
    BY <1>1, <1>7, <1>8 DEF RedisTypes
<1>10. /\ ops[o].pc = pc /\ ops[o].token = t
       /\ ops[o].exp = calls[o].exp /\ ops[o].ttl = calls[o].ttl
    BY <1>3, <1>9 DEF CallRecord
<1> HIDE DEF until, ops
<1>11. /\ DOMAIN keys' = DOMAIN keys \cup {t} /\ keys'[t] = until
       /\ \A u \in DOMAIN keys \ {t} : keys'[u] = keys[u]
    BY <1>2
<1>12. /\ calls' \in [Operator -> CallRecord]
       /\ \A p \in Operator :
            /\ calls'[p].pc = ops[p].pc
            /\ calls'[p].token = ops[p].token
            /\ calls'[p].exp = ops[p].exp
            /\ calls'[p].ttl = ops[p].ttl
            /\ ~ calls'[p].dirty =>
                  ~ ops[p].dirty /\ ~ (ops[p].pc = "setting" /\ ops[p].token \in {t})
    BY <1>2, <1>9, TouchedFacts
<1>13. ASSUME NEW p \in Operator
       PROVE  /\ p # o => calls'[p].pc = calls[p].pc
              /\ calls'[p].token = calls[p].token
              /\ calls'[p].exp = calls[p].exp
              /\ calls'[p].ttl = calls[p].ttl
              /\ calls'[p].pc = "setting" /\ ~ calls'[p].dirty =>
                      ~ calls[p].dirty /\ calls[p].token # t
  <2>1. CASE p = o
      BY <1>10, <1>12, <2>1
  <2>2. CASE p # o
      BY <1>9, <1>12, <2>2
  <2> QED
      BY <2>1, <2>2
<1>14. calls'[o].pc \in {"returned", "loop"}
    BY <1>10, <1>12
<1> QED
    BY <1>2, <1>4, <1>5, <1>6, <1>11, <1>12, <1>13, <1>14 DEF until, Sets

(* The reply arrives, or it is lost and the call goes round its loop.      *)
LEMMA SetsOrLost ==
    ASSUME RedisInv, NEW o \in Operator, Redis!Exec(o) \/ Redis!ExecReplyLost(o)
    PROVE  Sets(o)
    BY ExecSetsFacts DEF Redis!Exec, Redis!ExecReplyLost

LEMMA ExecSetsPreserves ==
    ASSUME RedisInv, NEW o \in Operator, Sets(o)
    PROVE  RedisInv'
<1> DEFINE t == calls[o].token
<1>1. RedisTypes /\ Sets(o)
    BY SameTypes DEF RedisInv
<1>2. Redis!TypeOK'
  <2>1. DOMAIN keys' \subseteq Token
      BY <1>1 DEF RedisTypes, Sets
  <2>2. \A u \in DOMAIN keys' : keys'[u] \in Nat
      BY <1>1 DEF RedisTypes, Sets
  <2> QED
      BY <1>1, <2>1, <2>2, SameTypes DEF RedisTypes, Sets
<1>3. CallsReach'
  <2> SUFFICES ASSUME NEW p \in Operator
               PROVE  /\ calls'[p].pc = "idle" <=> calls'[p].token = None
                      /\ calls'[p].pc \in Looping =>
                            /\ calls'[p].ttl > 0
                            /\ RetainedUntil(calls'[p].exp) <=
                                 now' + calls'[p].ttl * TicksPerSecond
      BY DEF CallsReach
  <2>1. CASE p = o
      BY <1>1, <2>1, NoneIsNoToken DEF RedisInv, CallsReach, Looping, Sets
  <2>2. CASE p # o
      BY <1>1, <2>2 DEF RedisInv, CallsReach, Sets
  <2> QED
      BY <2>1, <2>2
<1>4. MarkersReach'
  <2> SUFFICES ASSUME NEW u \in DOMAIN keys'
               PROVE  \E p \in Operator : calls'[p].token = u
                                          /\ RetainedUntil(calls'[p].exp) <= keys'[u]
      BY DEF MarkersReach
  <2>1. CASE u = t
    <3>1. RetainedUntil(calls[o].exp) <= now + calls[o].ttl * TicksPerSecond
        BY <1>1 DEF RedisInv, CallsReach, Looping, Sets
    <3> QED
        BY <1>1, <2>1, <3>1 DEF Sets
  <2>2. CASE u # t
    <3>1. u \in DOMAIN keys /\ keys'[u] = keys[u]
        BY <1>1, <2>2 DEF Sets
    <3>2. PICK p \in Operator : calls[p].token = u /\ RetainedUntil(calls[p].exp) <= keys[u]
        BY <3>1 DEF RedisInv, MarkersReach
    <3> QED
        BY <1>1, <3>1, <3>2 DEF Sets
  <2> QED
      BY <2>1, <2>2
<1>5. SetsLengthen'
  <2> SUFFICES ASSUME NEW p \in Operator, calls'[p].pc = "setting", ~ calls'[p].dirty,
                      calls'[p].token \in DOMAIN keys'
               PROVE  keys'[calls'[p].token] <= now' + calls'[p].ttl * TicksPerSecond
      BY DEF SetsLengthen
  <2>1. p # o /\ calls[p].pc = "setting" /\ ~ calls[p].dirty /\ calls[p].token # t
      BY <1>1 DEF Sets
  <2>2. calls[p].token \in DOMAIN keys /\ keys'[calls[p].token] = keys[calls[p].token]
      BY <1>1, <2>1 DEF Sets
  <2>3. keys[calls[p].token] <= now + calls[p].ttl * TicksPerSecond
      BY <2>1, <2>2 DEF RedisInv, SetsLengthen
  <2> QED
      BY <1>1, <2>2, <2>3 DEF Sets
<1> QED
    BY <1>2, <1>3, <1>4, <1>5 DEF RedisInv

(* Time passes: a marker that is left has not changed, one that is gone    *)
(* was due, and the calls keep their fields.                               *)
Passes ==
    /\ now' = now + 1
    /\ DOMAIN keys' = {t \in DOMAIN keys : ~ (keys[t] <= now + 1)}
    /\ \A t \in DOMAIN keys' : keys'[t] = keys[t]
    /\ calls' \in [Operator -> CallRecord]
    /\ \A p \in Operator :
         /\ calls'[p].pc = calls[p].pc
         /\ calls'[p].token = calls[p].token
         /\ calls'[p].exp = calls[p].exp
         /\ calls'[p].ttl = calls[p].ttl
         /\ ~ calls'[p].dirty => ~ calls[p].dirty

LEMMA TickFacts ==
    ASSUME RedisTypes, Redis!Tick
    PROVE  Passes
<1> DEFINE gone == {t \in DOMAIN keys : keys[t] <= now + 1}
<1>1. /\ now' = now + 1
      /\ keys' = [t \in DOMAIN keys \ gone |-> keys[t]]
      /\ calls' = Redis!Touched(calls, gone)
    BY DEF Redis!Tick
<1>2. /\ DOMAIN keys' = {t \in DOMAIN keys : ~ (keys[t] <= now + 1)}
      /\ \A t \in DOMAIN keys' : keys'[t] = keys[t]
    BY <1>1
<1> HIDE DEF gone
<1>3. /\ calls' \in [Operator -> CallRecord]
      /\ \A p \in Operator :
           /\ calls'[p].pc = calls[p].pc
           /\ calls'[p].token = calls[p].token
           /\ calls'[p].exp = calls[p].exp
           /\ calls'[p].ttl = calls[p].ttl
           /\ ~ calls'[p].dirty => ~ calls[p].dirty
    BY <1>1, TouchedFacts DEF RedisTypes
<1> QED
    BY <1>1, <1>2, <1>3 DEF Passes

LEMMA TickPreserves ==
    ASSUME RedisInv, Redis!Tick
    PROVE  RedisInv'
<1>1. RedisTypes /\ Passes
    BY SameTypes, TickFacts DEF RedisInv
<1>2. Redis!TypeOK'
    BY <1>1, SameTypes DEF RedisTypes, Passes
<1>3. ASSUME NEW p \in Operator
      PROVE  calls[p].ttl * TicksPerSecond \in Int /\ RetainedUntil(calls[p].exp) \in Int
  <2>1. calls[p].ttl \in Int /\ calls[p].exp \in Int
      BY <1>1, <1>3 DEF RedisTypes, CallRecord
  <2> QED
      BY <2>1, SpanType, RetainedType
<1>4. CallsReach'
  <2> SUFFICES ASSUME NEW p \in Operator
               PROVE  /\ calls'[p].pc = "idle" <=> calls'[p].token = None
                      /\ calls'[p].pc \in Looping =>
                            /\ calls'[p].ttl > 0
                            /\ RetainedUntil(calls'[p].exp) <=
                                 now' + calls'[p].ttl * TicksPerSecond
      BY DEF CallsReach
  <2>1. calls[p].pc \in Looping =>
          RetainedUntil(calls[p].exp) <= now + 1 + calls[p].ttl * TicksPerSecond
      BY <1>1, <1>3 DEF RedisInv, CallsReach, RedisTypes
  <2> QED
      BY <1>1, <2>1 DEF RedisInv, CallsReach, Passes
<1>5. MarkersReach'
    BY <1>1 DEF RedisInv, MarkersReach, Passes
<1>6. SetsLengthen'
  <2> SUFFICES ASSUME NEW p \in Operator, calls'[p].pc = "setting", ~ calls'[p].dirty,
                      calls'[p].token \in DOMAIN keys'
               PROVE  keys'[calls'[p].token] <= now' + calls'[p].ttl * TicksPerSecond
      BY DEF SetsLengthen
  <2>1. /\ calls[p].token \in DOMAIN keys /\ keys'[calls[p].token] = keys[calls[p].token]
        /\ calls[p].pc = "setting" /\ ~ calls[p].dirty
      BY <1>1 DEF Passes
  <2>2. keys[calls[p].token] <= now + calls[p].ttl * TicksPerSecond
      BY <2>1 DEF RedisInv, SetsLengthen
  <2>3. keys[calls[p].token] <= now + 1 + calls[p].ttl * TicksPerSecond
      BY <1>1, <1>3, <2>1, <2>2 DEF RedisTypes
  <2> QED
      BY <1>1, <2>1, <2>3 DEF Passes
<1> QED
    BY <1>2, <1>4, <1>5, <1>6 DEF RedisInv

LEMMA RedisInit == Redis!Init => RedisInv /\ Redis!SharedMarkersRetained
<1> SUFFICES ASSUME Redis!Init PROVE RedisInv /\ Redis!SharedMarkersRetained
    OBVIOUS
<1>1. /\ now = 0 /\ DOMAIN keys = {}
      /\ calls = [o \in Operator |-> Redis!NotCalled]
    BY DEF Redis!Init
<1>2. /\ Redis!NotCalled \in CallRecord
      /\ Redis!NotCalled.pc = "idle" /\ Redis!NotCalled.token = None
    BY DEF Redis!NotCalled, CallRecord
<1>3. \A o \in Operator : calls[o].pc = "idle" /\ calls[o].token = None
    BY <1>1, <1>2
<1>4. Redis!TypeOK
    BY <1>1, <1>2, SameTypes DEF RedisTypes
<1> QED
    BY <1>1, <1>3, <1>4
    DEF RedisInv, CallsReach, MarkersReach, SetsLengthen, Looping,
        Redis!SharedMarkersRetained

LEMMA AbortMoves ==
    ASSUME RedisTypes, NEW o \in Operator, Redis!ExecAborts(o) \/ Redis!Drops(o)
    PROVE  Moves(o) /\ calls[o].pc \in {"watching", "setting"} /\ calls'[o].pc = "loop"
<1>1. /\ calls[o].pc \in {"watching", "setting"} /\ UNCHANGED <<now, keys>>
      /\ calls' = [calls EXCEPT ![o].pc = "loop"]
    BY DEF Redis!ExecAborts, Redis!Drops
<1>2. "loop" \in Looping \cup {"returned"}
    BY DEF Looping
<1> QED
    BY <1>1, <1>2, PcMoves

LEMMA RedisStep == RedisInv /\ [Redis!Next]_(Redis!vars) => RedisInv'
<1> SUFFICES ASSUME RedisInv, [Redis!Next]_(Redis!vars) PROVE RedisInv'
    OBVIOUS
<1>0. RedisTypes
    BY SameTypes DEF RedisInv
<1>1. ASSUME NEW o \in Operator, NEW t \in Token, NEW exp \in Nat, Redis!Revoke(o, t, exp)
      PROVE  RedisInv'
    BY <1>1, RevokePreserves
<1>2. ASSUME NEW o \in Operator, Redis!Watch(o) PROVE RedisInv'
    BY <1>0, <1>2, WatchMoves, MovePreserves DEF Looping
<1>3. ASSUME NEW o \in Operator, Redis!Compare(o) PROVE RedisInv'
    BY <1>3, ComparePreserves
<1>4. ASSUME NEW o \in Operator, Redis!Exec(o) \/ Redis!ExecReplyLost(o) PROVE RedisInv'
    BY <1>4, SetsOrLost, ExecSetsPreserves
<1>5. ASSUME NEW o \in Operator, Redis!ExecAborts(o) \/ Redis!Drops(o) PROVE RedisInv'
    BY <1>0, <1>5, AbortMoves, MovePreserves DEF Looping
<1>6. CASE Redis!Tick
    BY <1>6, TickPreserves
<1>7. CASE UNCHANGED Redis!vars
  <2>1. UNCHANGED <<now, keys, calls>>
      BY <1>7 DEF Redis!vars
  <2>2. Redis!TypeOK'
      BY <1>0, <2>1, SameTypes DEF RedisTypes
  <2> QED
      BY <2>1, <2>2 DEF RedisInv, CallsReach, MarkersReach, SetsLengthen
<1> QED
    BY <1>1, <1>2, <1>3, <1>4, <1>5, <1>6, <1>7 DEF Redis!Next, Redis!Terminated

LEMMA RedisInvariant == Redis!Spec => []RedisInv
    BY RedisInit, RedisStep, PTL DEF Redis!Spec

(* RedisRevocationStore.revoke never brings the end of a marker forward,   *)
(* whatever expiry it is given and however the calls interleave: WATCH     *)
(* fails the transaction when the marker changed after the comparison.     *)
THEOREM SharedNeverShortenedCorrect == Redis!Spec => Redis!SharedNeverShortened
<1> DEFINE Grows == \A t \in DOMAIN keys : t \in DOMAIN keys' => keys'[t] >= keys[t]
<1>1. ASSUME RedisInv, [Redis!Next]_(Redis!vars) PROVE Grows
  <2>0. RedisTypes
      BY <1>1, SameTypes DEF RedisInv
  <2>1. CASE UNCHANGED keys
      BY <2>0, <2>1 DEF RedisTypes
  <2>2. ASSUME NEW o \in Operator, Redis!Exec(o) \/ Redis!ExecReplyLost(o) PROVE Grows
    <3>1. Sets(o)
        BY <1>1, <2>2, SetsOrLost
    <3> QED
        BY <2>0, <3>1 DEF Sets, RedisTypes
  <2>3. CASE Redis!Tick
    <3>1. Passes
        BY <2>0, <2>3, TickFacts
    <3> QED
        BY <2>0, <3>1 DEF Passes, RedisTypes
  <2> HIDE DEF Grows
  <2> QED
      BY <1>1, <2>1, <2>2, <2>3
      DEF Redis!Next, Redis!vars, Redis!Revoke, Redis!Watch, Redis!Compare,
          Redis!ExecAborts, Redis!Drops, Redis!Terminated
<1> QED
    BY <1>1, RedisInvariant, PTL DEF Redis!Spec, Redis!SharedNeverShortened

(* No call for the same token was given an earlier expiry.                 *)
Least(o) ==
    \A p \in Operator : calls[p].token = calls[o].token => calls[p].exp >= calls[o].exp

Needed(o) ==
    calls[o].pc = "returned" /\ now < RetainedUntil(calls[o].exp) /\ Least(o)

LEMMA RetainedForm ==
    /\ Redis!SharedMarkersRetained <=>
         Redis!TypeOK /\ \A o \in Operator : Needed(o) => calls[o].token \in DOMAIN keys
    /\ Redis!SharedMarkersRetained' <=>
         Redis!TypeOK' /\ \A o \in Operator : Needed(o)' => calls'[o].token \in DOMAIN keys'
    BY SameRetention DEF Redis!SharedMarkersRetained, Needed, Least

(* While no call names an earlier expiry, a marker that is there reaches   *)
(* the end of the retention, though the rounded reply to TTL that a call   *)
(* went by does not show it.                                               *)
LEMMA MarkerReaches ==
    ASSUME RedisInv, NEW o \in Operator, Least(o), calls[o].token \in DOMAIN keys
    PROVE  RetainedUntil(calls[o].exp) <= keys[calls[o].token]
<1>1. RedisTypes
    BY SameTypes DEF RedisInv
<1>2. PICK p \in Operator : /\ calls[p].token = calls[o].token
                            /\ RetainedUntil(calls[p].exp) <= keys[calls[o].token]
    BY DEF RedisInv, MarkersReach
<1>3. calls[p].exp \in Int /\ calls[o].exp \in Int /\ keys[calls[o].token] \in Int
    BY <1>1 DEF RedisTypes, CallRecord
<1>4. RetainedUntil(calls[o].exp) <= RetainedUntil(calls[p].exp)
    BY <1>2, <1>3, RetainedMonotone DEF Least
<1> QED
    BY <1>2, <1>3, <1>4, RetainedType

(* A marker once set lasts through the steps of every call, provided that  *)
(* the others have kept their tokens and expiries.                         *)
LEMMA StillNeeded ==
    ASSUME NEW o \in Operator, Needed(o)', now' = now, calls[o].pc = "returned",
           \A p \in Operator : calls'[p].token = calls[p].token
                               /\ calls'[p].exp = calls[p].exp
    PROVE  Needed(o)
    BY DEF Needed, Least

LEMMA RevokeRetains ==
    ASSUME RedisInv, Redis!SharedMarkersRetained, NEW o \in Operator, NEW t \in Token,
           NEW exp \in Nat, Redis!Revoke(o, t, exp), NEW p \in Operator, Needed(p)'
    PROVE  calls'[p].token \in DOMAIN keys'
<1> DEFINE ttl == Redis!SecondsNeeded(exp, now)
<1>1. RedisTypes
    BY SameTypes DEF RedisInv
<1>2. /\ ttl \in Int
      /\ ttl <= 0 => RetainedUntil(exp) <= now
      /\ RetainedUntil(exp) \in Int
    BY <1>1, SecondsNeededReach, RetainedType DEF RedisTypes
<1>3. /\ calls[o].pc = "idle" /\ now' = now /\ keys' = keys
      /\ \A q \in Operator \ {o} : calls'[q] = calls[q]
    BY <1>1 DEF Redis!Revoke, RedisTypes
<1>4. p # o
  <2> SUFFICES ASSUME p = o PROVE FALSE
      OBVIOUS
  <2>1. calls'[o] = IF ttl > 0
                    THEN [pc |-> "loop", token |-> t, exp |-> exp, ttl |-> ttl,
                          dirty |-> FALSE]
                    ELSE [Redis!NotCalled EXCEPT !.pc = "returned", !.token = t, !.exp = exp]
      BY <1>1 DEF Redis!Revoke, RedisTypes
  <2> HIDE DEF ttl
  <2>2. CASE ttl > 0
    <3>1. calls'[o].pc = "loop"
        BY <2>1, <2>2
    <3> QED
        BY <3>1 DEF Needed
  <2>3. CASE ~ (ttl > 0)
    <3>1. calls'[o].exp = exp
        BY <2>1, <2>3 DEF Redis!NotCalled
    <3> QED
        BY <1>1, <1>2, <1>3, <2>3, <3>1 DEF Needed, RedisTypes
  <2> QED
      BY <2>2, <2>3
<1>5. calls'[p] = calls[p] /\ calls[p].pc = "returned"
    BY <1>3, <1>4 DEF Needed
<1>6. calls[p].token # None /\ calls[o].token = None
    BY <1>3, <1>5 DEF RedisInv, CallsReach
<1>7. Least(p)
  <2> SUFFICES ASSUME NEW q \in Operator, calls[q].token = calls[p].token
               PROVE  calls[q].exp >= calls[p].exp
      BY DEF Least
  <2>1. q # o
      BY <1>6
  <2> QED
      BY <1>3, <1>5, <2>1 DEF Needed, Least
<1>8. Needed(p)
    BY <1>3, <1>5, <1>7 DEF Needed
<1> QED
    BY <1>3, <1>5, <1>8, RetainedForm

(* A call that moves returns only when it found a marker.                  *)
LEMMA MoveRetains ==
    ASSUME RedisInv, Redis!SharedMarkersRetained, NEW o \in Operator, Moves(o),
           calls[o].pc \in Looping,
           calls'[o].pc = "returned" => calls[o].token \in DOMAIN keys,
           NEW p \in Operator, Needed(p)'
    PROVE  calls'[p].token \in DOMAIN keys'
<1>1. keys' = keys /\ now' = now
      /\ \A q \in Operator : calls'[q].token = calls[q].token /\ calls'[q].exp = calls[q].exp
    BY DEF Moves
<1>2. CASE p = o
    BY <1>1, <1>2 DEF Needed
<1>3. CASE p # o
  <2>1. calls[p].pc = "returned"
      BY <1>3 DEF Needed, Moves
  <2>2. Needed(p)
      BY <1>1, <2>1, StillNeeded
  <2> QED
      BY <1>1, <2>2, RetainedForm
<1> QED
    BY <1>2, <1>3

LEMMA ExecRetains ==
    ASSUME RedisInv, Redis!SharedMarkersRetained, NEW o \in Operator, Sets(o),
           NEW p \in Operator, Needed(p)'
    PROVE  calls'[p].token \in DOMAIN keys'
<1>1. CASE p = o
    BY <1>1 DEF Sets
<1>2. CASE p # o
  <2>1. calls[p].pc = "returned"
      BY <1>2 DEF Needed, Sets
  <2>2. Needed(p)
      BY <2>1, StillNeeded DEF Sets
  <2> QED
      BY <2>2, RetainedForm DEF Sets
<1> QED
    BY <1>1, <1>2

LEMMA TickRetains ==
    ASSUME RedisInv, Redis!SharedMarkersRetained, Passes, NEW p \in Operator, Needed(p)'
    PROVE  calls'[p].token \in DOMAIN keys'
<1>1. RedisTypes
    BY SameTypes DEF RedisInv
<1>2. /\ calls[p].pc = "returned" /\ Least(p)
      /\ now + 1 < RetainedUntil(calls[p].exp)
    BY DEF Needed, Least, Passes
<1>3. RetainedUntil(calls[p].exp) \in Int
    BY <1>1, RetainedType DEF RedisTypes, CallRecord
<1>4. Needed(p)
    BY <1>1, <1>2, <1>3 DEF Needed, RedisTypes
<1>5. calls[p].token \in DOMAIN keys
    BY <1>4, RetainedForm
<1>6. RetainedUntil(calls[p].exp) <= keys[calls[p].token]
    BY <1>2, <1>5, MarkerReaches
<1>7. ~ (keys[calls[p].token] <= now + 1)
    BY <1>1, <1>2, <1>3, <1>5, <1>6 DEF RedisTypes
<1> QED
    BY <1>5, <1>7 DEF Passes

(* A revocation that has returned is known to every verifier process until *)
(* no verifier accepts the token, provided that no call for it named an    *)
(* earlier expiry: however late EXEC comes, whatever the other calls do,   *)
(* and although the comparison goes by a rounded TTL.                      *)
THEOREM SharedMarkersRetainedCorrect == Redis!Spec => []Redis!SharedMarkersRetained
<1>1. RedisInv /\ Redis!SharedMarkersRetained /\ [Redis!Next]_(Redis!vars) /\ RedisInv'
        => Redis!SharedMarkersRetained'
  <2> SUFFICES ASSUME RedisInv, Redis!SharedMarkersRetained, [Redis!Next]_(Redis!vars), RedisInv',
                      NEW p \in Operator, Needed(p)'
               PROVE  calls'[p].token \in DOMAIN keys'
      BY RetainedForm DEF RedisInv
  <2>0. RedisTypes
      BY SameTypes DEF RedisInv
  <2> DEFINE Goal == calls'[p].token \in DOMAIN keys'
  <2>1. ASSUME NEW o \in Operator, NEW t \in Token, NEW exp \in Nat,
               Redis!Revoke(o, t, exp)
        PROVE  Goal
      BY <2>1, RevokeRetains
  <2>2. ASSUME NEW o \in Operator, Redis!Watch(o) PROVE Goal
      BY <2>0, <2>2, WatchMoves, MoveRetains DEF Looping
  <2>3. ASSUME NEW o \in Operator, Redis!Compare(o) PROVE Goal
      BY <2>3, ComparePreserves, MoveRetains
  <2>4. ASSUME NEW o \in Operator, Redis!Exec(o) \/ Redis!ExecReplyLost(o) PROVE Goal
      BY <2>4, SetsOrLost, ExecRetains
  <2>5. ASSUME NEW o \in Operator, Redis!ExecAborts(o) \/ Redis!Drops(o) PROVE Goal
      BY <2>0, <2>5, AbortMoves, MoveRetains DEF Looping
  <2>6. CASE Redis!Tick
      BY <2>0, <2>6, TickFacts, TickRetains
  <2>7. CASE UNCHANGED Redis!vars
    <3>1. UNCHANGED <<now, keys, calls>>
        BY <2>7 DEF Redis!vars
    <3>2. Needed(p)
        BY <3>1 DEF Needed, Least
    <3> QED
        BY <3>1, <3>2, RetainedForm
  <2> HIDE DEF Goal
  <2> QED
      BY <2>1, <2>2, <2>3, <2>4, <2>5, <2>6, <2>7 DEF Redis!Next, Redis!Terminated, Goal
<1> QED
    BY <1>1, RedisInit, RedisInvariant, PTL DEF Redis!Spec

(* What that means at the tool: once revoke() has returned to any process, *)
(* every verifier that looks finds the marker or, the marker being gone,   *)
(* the token expired for every leeway that may be configured.              *)
RevocationsHold ==
    \A o \in Operator :
        calls[o].pc = "returned" /\ Least(o) =>
            \/ calls[o].token \in DOMAIN keys
            \/ Expired(now, calls[o].exp, MaxLeeway)

(* A shared revocation leaves no instant at which the store has forgotten  *)
(* the token and verification, which truncates the clock to seconds, still *)
(* accepts it (RedisRevocationStore.is_revoked, CapabilityToken.verify).   *)
THEOREM SharedRevocationsHold == Redis!Spec => []RevocationsHold
<1>1. Redis!SharedMarkersRetained => RevocationsHold
  <2> SUFFICES ASSUME Redis!SharedMarkersRetained, NEW o \in Operator,
                      calls[o].pc = "returned", Least(o), calls[o].token \notin DOMAIN keys
               PROVE  Expired(now, calls[o].exp, MaxLeeway)
      BY DEF RevocationsHold
  <2>1. RedisTypes /\ ~ Needed(o)
      BY RetainedForm, SameTypes
  <2>2. now \in Nat /\ calls[o].exp \in Int
      BY <2>1 DEF RedisTypes, CallRecord
  <2>3. now >= RetainedUntil(calls[o].exp)
      BY <2>1, <2>2, RetainedType DEF Needed
  <2> QED
      BY <2>2, <2>3, RetentionIsAcceptance
<1> QED
    BY <1>1, SharedMarkersRetainedCorrect, PTL
=============================================================================
