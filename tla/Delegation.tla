------------------------------ MODULE Delegation ------------------------------
(***************************************************************************)
(* From a grant to a call: the issuer's policy (swarmauth/policy.py), the  *)
(* issuers that sign and attenuate (TokenIssuer in middleware.py), the key *)
(* registry (registry.py), and verification (CapabilityToken.verify and    *)
(* the checks verify_and_check makes of a call).                           *)
(*                                                                         *)
(* Administrators rotate and revoke keys while calls are being verified,   *)
(* and a delegated token needs two lookups in the registry, each under the *)
(* lock, with anything in between.  Whoever has a key that no policy       *)
(* guards may sign whatever claims it likes with it, through the library   *)
(* or not; signatures cannot be forged, so the kid of a token is the key   *)
(* it was signed with.  Keys of one issuer are a set: verification asks    *)
(* whether kid is one of them, wherever it is in the list.                 *)
(***************************************************************************)
EXTENDS Lifetime, Capabilities, FiniteSets

CONSTANTS
    Agent, Key, Token, Request,
    Audience,           \* the tools calls are made to
    Param, budget_id,   \* parameter names; the one that names a budget
    Value,              \* JSON values of parameters
    Grant,              \* the grants the policy may be given
    PolicyKey,          \* keys whose TokenIssuer consults the policy
    RootKeys,           \* pairs of an issuer and a key that may be registered
    HolderKeys,         \* the same for register_holder
    Proposal,           \* the arguments of issue, attenuate and other signers
    Call,               \* what may be called: audience, capability, params
    Anchors,            \* None: verify with the registry; a key: with that key
    Skews,              \* how far off the clock other software dates its tokens
    MaxTime             \* bound on the clock, in ticks

LimitName == {"max_calls", "max_amount_usd", "rate_limit_per_min"}

Pins == [Param -> Value \cup {None}]

BudgetName == {v \in Value : v.type = "string"}

Capability == Seq(STRING)

(* What a caller asks to be signed; well formed as pydantic checks it.     *)
ProposalType ==
    [iss : Agent, sub : Audience, capabilities : SUBSET Capability, ttl : Int,
     limits : [LimitName -> Limit], pins : Pins, shared_budget : BudgetName \cup {None},
     dlg : Agent \cup {None}]

WellFormed(a) ==
    /\ a.capabilities # {}
    /\ a.shared_budget # None => a.pins[budget_id] = a.shared_budget

(* Grant.__post_init__.                                                    *)
GrantType ==
    [iss : Agent, sub : Audience, capabilities : SUBSET Capability \ {{}},
     max_ttl_seconds : 1 .. MaxTTL, limits : [LimitName -> Limit],
     delegates : SUBSET Agent, pinned_params : Pins]

ASSUME DelegationAssumption ==
    /\ None \notin Int \cup Agent \cup Key \cup Token \cup Value
    /\ budget_id \in Param
    /\ Value \subseteq [type : {"bool", "number", "string"}, value : Nat]
    /\ Grant \subseteq GrantType
    /\ PolicyKey \subseteq Key
    /\ RootKeys \subseteq Agent \X PolicyKey
    /\ HolderKeys \subseteq Agent \X Key
    /\ Proposal \subseteq ProposalType
    /\ \A a \in Proposal : WellFormed(a)
    /\ Call \subseteq [audience : Audience, capability : Capability, params : Pins]
    /\ Anchors \subseteq PolicyKey \cup {None}
    /\ Skews \subseteq Int
    /\ MaxTime \in Nat

VARIABLES
    now,                \* the wall clock, in ticks
    policy,             \* _grants of the issuer's policy
    keys,               \* _keys: the trusted root keys of every issuer
    holders,            \* _holders: the trusted holder keys
    token,              \* the tokens signed so far
    req,                \* the state of every guarded call
    distrusted          \* history: what administrators do not want trusted

vars == <<now, policy, keys, holders, token, req, distrusted>>

Unsigned == [made |-> "unsigned"]

Claims ==
    [made : {"issue", "attenuate", "elsewhere"}, kid : Key, prf : Token \cup {None},
     iss : Agent, sub : Audience, capabilities : SUBSET Capability,
     limits : [LimitName -> Limit], pins : Pins, shared_budget : BudgetName \cup {None},
     dlg : Agent \cup {None}, iat : Int, exp : Int]

Trust == {"root", "holder"} \X Agent \X Key

Verifying == {"leaf", "parent", "verified"}

Ended == {"executed", "denied", "untrusted", "delegation"}

Idle == [pc |-> "idle"]

(* struck is a history: what was distrusted when the call began and has    *)
(* been all along.                                                         *)
Started ==
    [pc : Verifying \cup Ended, token : Token, call : Call, anchor : Anchors,
     struck : SUBSET Trust]

TypeOK ==
    /\ now \in Nat
    /\ policy \subseteq Grant
    /\ keys \in [Agent -> SUBSET Key]
    /\ holders \in [Agent -> SUBSET Key]
    /\ token \in [Token -> {Unsigned} \cup Claims]
    /\ req \in [Request -> {Idle} \cup Started]
    /\ distrusted \subseteq Trust

-----------------------------------------------------------------------------
(* _grant_denies returns no reason.                                        *)
GrantCovers(g, a, sub, dlg) ==
    /\ g.iss = a.iss
    /\ g.sub = sub
    /\ \A c \in a.capabilities : capability_covered(c, g.capabilities)
    /\ a.ttl <= g.max_ttl_seconds
    /\ \A n \in LimitName : ~ limit_is_wider(a.limits[n], g.limits[n])
    /\ Honours(a.pins, g.pinned_params)
    /\ g.pinned_params[budget_id] # None =>
          a.shared_budget = g.pinned_params[budget_id]
    /\ dlg # None => dlg \in g.delegates

(* IssuerPolicy.check: some grant covers all of it.                        *)
PolicyCovers(a, sub, dlg) == \E g \in policy : GrantCovers(g, a, sub, dlg)

(* TokenIssuer consults the policy if it was given one.                    *)
PolicyAllows(k, a, sub, dlg) == k \in PolicyKey => PolicyCovers(a, sub, dlg)

(* Mutant: the expiry is left out.                                         *)
SignedForEver(made, k, a, sub, dlg, prf) ==
    [made |-> made, kid |-> k, prf |-> prf, iss |-> a.iss, sub |-> sub,
     capabilities |-> a.capabilities, limits |-> a.limits, pins |-> a.pins,
     shared_budget |-> a.shared_budget, dlg |-> dlg,
     iat |-> Seconds(now), exp |-> None]

(* The claims that are signed, at this second of the clock.                *)
Signed(made, k, a, sub, dlg, prf) ==
    [made |-> made, kid |-> k, prf |-> prf, iss |-> a.iss, sub |-> sub,
     capabilities |-> a.capabilities, limits |-> a.limits, pins |-> a.pins,
     shared_budget |-> a.shared_budget, dlg |-> dlg,
     iat |-> Seconds(now), exp |-> Seconds(now) + a.ttl]

(* _assert_constraints_not_wider.                                          *)
NotWider(parent, child) ==
    /\ parent.shared_budget # None => child.shared_budget = parent.shared_budget
    /\ \A n \in LimitName : ~ limit_is_wider(child.limits[n], parent.limits[n])
    /\ Honours(child.pins, parent.pins)

(* _assert_attenuated.                                                     *)
Attenuated(parent, child) ==
    /\ parent.prf = None
    /\ parent.dlg = child.iss
    /\ child.dlg = None
    /\ child.sub = parent.sub
    /\ parent.iat <= child.iat
    /\ child.exp <= parent.exp
    /\ \A c \in child.capabilities : capability_covered(c, parent.capabilities)
    /\ NotWider(parent, child)

Alive(c) == LifetimeOK(now, c.iat, c.exp, MaxLeeway)

(* Which record of trust verification needs for a token.                   *)
TrustNeeded(c) == <<IF c.prf = None THEN "root" ELSE "holder", c.iss, c.kid>>

(* Mutant: a holder's key is as good as a root key.                        *)
TrustedEither(c, anchor) ==
    IF anchor # None THEN c.kid = anchor
    ELSE c.kid \in keys[c.iss] \cup holders[c.iss]

(* _verify_kid_and_signature: the key named by kid, and no other.          *)
Trusted(c, anchor) ==
    IF anchor # None THEN c.kid = anchor
    ELSE IF c.prf = None THEN c.kid \in keys[c.iss]
    ELSE c.kid \in holders[c.iss]

-----------------------------------------------------------------------------
Init ==
    /\ now = 0
    /\ policy = {}
    /\ keys = [i \in Agent |-> {}]
    /\ holders = [i \in Agent |-> {}]
    /\ token = [t \in Token |-> Unsigned]
    /\ req = [r \in Request |-> Idle]
    /\ distrusted = Trust

Allow(g) ==
    /\ policy' = policy \cup {g}
    /\ UNCHANGED <<now, keys, holders, token, req, distrusted>>

(* TokenIssuer.issue, with and without a policy.                           *)
Issue(t, k, a) ==
    /\ token[t] = Unsigned
    /\ PolicyAllows(k, a, a.sub, a.dlg)
    /\ a.ttl \in 1 .. MaxTTL
    /\ token' = [token EXCEPT ![t] = Signed("issue", k, a, a.sub, a.dlg, None)]
    /\ UNCHANGED <<now, policy, keys, holders, req, distrusted>>

(* Mutant: the child is not compared with its parent.                      *)
AttenuateBlindly(t, k, p, a) ==
    LET parent == token[p]
        child  == Signed("attenuate", k, a, parent.sub, None, p)
    IN  /\ token[t] = Unsigned
        /\ parent # Unsigned
        /\ PolicyAllows(k, a, parent.sub, None)
        /\ a.ttl \in 1 .. MaxTTL
        /\ LifetimeOK(now, parent.iat, parent.exp, 0)
        /\ token' = [token EXCEPT ![t] = child]
        /\ UNCHANGED <<now, policy, keys, holders, req, distrusted>>

(* TokenIssuer.attenuate: the parent's signature is not looked at, but the *)
(* child must be one that verification would let through.                  *)
Attenuate(t, k, p, a) ==
    LET parent == token[p]
        child  == Signed("attenuate", k, a, parent.sub, None, p)
    IN  /\ token[t] = Unsigned
        /\ parent # Unsigned
        /\ PolicyAllows(k, a, parent.sub, None)
        /\ a.ttl \in 1 .. MaxTTL
        /\ LifetimeOK(now, parent.iat, parent.exp, 0)
        /\ Attenuated(parent, child)
        /\ token' = [token EXCEPT ![t] = child]
        /\ UNCHANGED <<now, policy, keys, holders, req, distrusted>>

(* Other software signs any claims, of any date, with a key that no policy *)
(* guards.                                                                 *)
SignElsewhere(t, k, p, a, skew) ==
    /\ token[t] = Unsigned
    /\ k \notin PolicyKey
    /\ p # None => p # t /\ token[p] # Unsigned
    /\ a.ttl > 0
    /\ token' = [token EXCEPT ![t] = [Signed("elsewhere", k, a, a.sub, a.dlg, p)
                                        EXCEPT !.iat = @ + skew, !.exp = @ + skew]]
    /\ UNCHANGED <<now, policy, keys, holders, req, distrusted>>

-----------------------------------------------------------------------------
(* History: administrators withdraw and give trust.                        *)
Administered(withdrawn, given) ==
    /\ distrusted' = (distrusted \cup withdrawn) \ given
    /\ req' = [r \in Request |->
                 IF req[r].pc = "idle" THEN req[r]
                 ELSE [req[r] EXCEPT !.struck = @ \ given]]

(* Mutant: a rotation replaces the keys.                                   *)
RegisterReplaces(i, k, rotate) ==
    /\ keys' = [keys EXCEPT ![i] = {k}]
    /\ Administered(IF rotate THEN {} ELSE {"root"} \X {i} \X Key, {<<"root", i, k>>})
    /\ UNCHANGED <<now, policy, holders, token>>

Register(i, k, rotate) ==
    /\ keys' = [keys EXCEPT ![i] = IF rotate THEN @ \cup {k} ELSE {k}]
    /\ Administered(IF rotate THEN {} ELSE {"root"} \X {i} \X Key, {<<"root", i, k>>})
    /\ UNCHANGED <<now, policy, holders, token>>

Revoke(i, k) ==
    /\ keys' = [keys EXCEPT ![i] = @ \ {k}]
    /\ Administered({<<"root", i, k>>}, {})
    /\ UNCHANGED <<now, policy, holders, token>>

(* Mutant: the issuer's holder keys stay.                                  *)
RevokeIssuerRoots(i) ==
    /\ keys' = [keys EXCEPT ![i] = {}]
    /\ Administered({"root", "holder"} \X {i} \X Key, {})
    /\ UNCHANGED <<now, policy, holders, token>>

RevokeIssuer(i) ==
    /\ keys' = [keys EXCEPT ![i] = {}]
    /\ holders' = [holders EXCEPT ![i] = {}]
    /\ Administered({"root", "holder"} \X {i} \X Key, {})
    /\ UNCHANGED <<now, policy, token>>

RegisterHolder(i, k) ==
    /\ holders' = [holders EXCEPT ![i] = @ \cup {k}]
    /\ Administered({}, {<<"holder", i, k>>})
    /\ UNCHANGED <<now, policy, keys, token>>

RevokeHolder(i, k) ==
    /\ holders' = [holders EXCEPT ![i] = @ \ {k}]
    /\ Administered({<<"holder", i, k>>}, {})
    /\ UNCHANGED <<now, policy, keys, token>>

-----------------------------------------------------------------------------
(* A guarded call is made; a single trusted key accepts no delegation.     *)
Present(r, t, call, anchor) ==
    /\ req[r].pc = "idle"
    /\ token[t] # Unsigned
    /\ req' = [req EXCEPT ![r] =
                 [pc |-> IF anchor # None /\ token[t].prf # None THEN "delegation" ELSE "leaf",
                  token |-> t, call |-> call, anchor |-> anchor, struck |-> distrusted]]
    /\ UNCHANGED <<now, policy, keys, holders, token, distrusted>>

(* _verify_core for the presented token, and its audience.                 *)
VerifyLeaf(r) ==
    LET c == token[req[r].token] IN
    /\ req[r].pc = "leaf"
    /\ req' = [req EXCEPT ![r].pc =
                 IF ~ Trusted(c, req[r].anchor) THEN "untrusted"
                 ELSE IF ~ Alive(c) \/ c.sub # req[r].call.audience THEN "denied"
                 ELSE IF c.prf # None THEN "parent"
                 ELSE IF c.dlg # None THEN "delegation"
                 ELSE "verified"]
    /\ UNCHANGED <<now, policy, keys, holders, token, distrusted>>

(* _verify_core for the parent it carries, looked up as a root.            *)
VerifyParent(r) ==
    LET c == token[req[r].token]
        p == token[c.prf]
    IN  /\ req[r].pc = "parent"
        /\ req' = [req EXCEPT ![r].pc =
                     IF p.prf # None THEN "delegation"
                     ELSE IF ~ Trusted(p, req[r].anchor) THEN "untrusted"
                     ELSE IF ~ Alive(p) THEN "denied"
                     ELSE IF ~ Attenuated(p, c) THEN "delegation"
                     ELSE "verified"]
        /\ UNCHANGED <<now, policy, keys, holders, token, distrusted>>

(* check_capability and check_params, and the tool runs.                   *)
CheckCall(r) ==
    LET c == token[req[r].token] IN
    /\ req[r].pc = "verified"
    /\ req' = [req EXCEPT ![r].pc =
                 IF /\ capability_covered(req[r].call.capability, c.capabilities)
                    /\ Honours(req[r].call.params, c.pins)
                 THEN "executed" ELSE "denied"]
    /\ UNCHANGED <<now, policy, keys, holders, token, distrusted>>

Tick ==
    /\ now < MaxTime
    /\ now' = now + 1
    /\ UNCHANGED <<policy, keys, holders, token, req, distrusted>>

Next ==
    \/ \E g \in Grant : Allow(g)
    \/ \E t \in Token, k \in Key, a \in Proposal :
          \/ Issue(t, k, a)
          \/ \E p \in Token : Attenuate(t, k, p, a)
          \/ \E p \in Token \cup {None}, skew \in Skews : SignElsewhere(t, k, p, a, skew)
    \/ \E ik \in RootKeys, rotate \in BOOLEAN : Register(ik[1], ik[2], rotate)
    \/ \E ik \in RootKeys : Revoke(ik[1], ik[2])
    \/ \E i \in Agent : RevokeIssuer(i)
    \/ \E ik \in HolderKeys : RegisterHolder(ik[1], ik[2]) \/ RevokeHolder(ik[1], ik[2])
    \/ \E r \in Request, t \in Token, call \in Call, anchor \in Anchors :
          Present(r, t, call, anchor)
    \/ \E r \in Request : VerifyLeaf(r) \/ VerifyParent(r) \/ CheckCall(r)
    \/ Tick

Spec == Init /\ [][Next]_vars

-----------------------------------------------------------------------------
Root(t) == IF token[t].prf = None THEN t ELSE token[t].prf

(* The call r, made with the token leaf, is within what grant g allows.    *)
WithinGrant(g, root, leaf, call) ==
    /\ g.iss = root.iss
    /\ g.sub = call.audience
    /\ capability_covered(call.capability, g.capabilities)
    /\ \A n \in Param : g.pinned_params[n] # None => call.params[n] = g.pinned_params[n]
    /\ leaf.exp <= root.iat + g.max_ttl_seconds
    /\ \A n \in LimitName : ~ limit_is_wider(leaf.limits[n], g.limits[n])
    /\ g.pinned_params[budget_id] # None =>
          leaf.shared_budget = g.pinned_params[budget_id]
    /\ leaf.prf # None => leaf.iss \in g.delegates

(* No amplification: whatever is executed, directly or through a delegate, *)
(* is within one grant of the policy, however the keys that no policy      *)
(* guards were used.  "a worker who can narrow a grant cannot mint a fresh *)
(* grant of their own" (registry.py).                                      *)
NoAmplification ==
    \A r \in Request : req[r].pc = "executed" =>
        LET leaf == token[req[r].token]
            root == token[Root(req[r].token)]
        IN  \E g \in policy : WithinGrant(g, root, leaf, req[r].call)

(* A key that was revoked or replaced before a call began, and not trusted *)
(* again since, does not help that call through the registry.              *)
RevokedKeyIsOut ==
    \A r \in Request : req[r].pc = "executed" /\ req[r].anchor = None =>
        LET leaf == token[req[r].token]
            root == token[Root(req[r].token)]
        IN  {TrustNeeded(leaf), TrustNeeded(root)} \cap req[r].struck = {}

(* Rotation has no downtime: a call is turned away for its key only if     *)
(* administrators do not want a key of its chain trusted at that moment.   *)
RotationIsSeamless ==
    [][\A r \in Request :
          req[r].pc # "untrusted" /\ req'[r].pc = "untrusted" /\ req[r].anchor = None =>
             LET leaf == token[req[r].token]
                 root == token[Root(req[r].token)]
             IN  {TrustNeeded(leaf), TrustNeeded(root)} \cap distrusted # {}]_vars

(* attenuate() "refuses to mint a child the attenuation rules would        *)
(* reject": no child it minted fails them later, at the tool.              *)
MintedChildStands ==
    \A r \in Request : req[r].pc = "delegation" /\ req[r].anchor = None =>
        token[req[r].token].made # "attenuate"
=============================================================================
