--------------------------- MODULE DelegationProofs ---------------------------
(***************************************************************************)
(* Delegation never amplifies, proved for every set of agents, keys,       *)
(* tokens, grants, proposals and calls.  The argument: every root token a  *)
(* policy key signed is within a grant (TokenInv); root keys are policy    *)
(* keys (KeyInv); a call that got past verification presents such a root,  *)
(* or a child that verification compared with one (RequestInv); and being  *)
(* narrower is transitive for capabilities, limits and pinned parameters.  *)
(***************************************************************************)
EXTENDS Delegation, TLAPS

(* Coverage of capabilities is transitive: what a wildcard covers, and     *)
(* that covers in turn, it covers (capability_covered).                    *)
LEMMA CoversTransitive ==
    ASSUME NEW a \in Capability, NEW b \in Capability, NEW c \in Capability,
           Covers(a, b), Covers(b, c)
    PROVE  Covers(a, c)
<1>1. CASE b = a \/ c = b
  BY <1>1 DEF Covers
<1>2. CASE b # a /\ c # b
  <2>1. /\ Wildcard(a) /\ Wildcard(b)
        /\ Len(b) >= Len(a) /\ Len(c) >= Len(b)
        /\ \A i \in 1 .. Len(a) - 1 : b[i] = a[i]
        /\ \A i \in 1 .. Len(b) - 1 : c[i] = b[i]
    BY <1>2 DEF Covers
  <2>2. Len(a) \in Nat /\ Len(b) \in Nat /\ Len(c) \in Nat
    BY DEF Capability
  <2>3. \A i \in 1 .. Len(a) - 1 : c[i] = a[i]
    BY <2>1, <2>2
  <2> QED BY <2>1, <2>2, <2>3 DEF Covers
<1> QED BY <1>1, <1>2

LEMMA CoveredTransitive ==
    ASSUME NEW c \in Capability, NEW S \in SUBSET Capability, NEW T \in SUBSET Capability,
           capability_covered(c, S), \A b \in S : capability_covered(b, T)
    PROVE  capability_covered(c, T)
<1>1. PICK b \in S : Covers(b, c)
  BY DEF capability_covered
<1>2. PICK a \in T : Covers(a, b)
  BY <1>1 DEF capability_covered
<1> QED BY <1>1, <1>2, CoversTransitive DEF capability_covered

(* A limit no wider than one that is no wider than a third (None is        *)
(* unlimited) is no wider than the third.                                  *)
LEMMA LimitTransitive ==
    ASSUME NEW a \in Limit, NEW b \in Limit, NEW c \in Limit,
           ~ limit_is_wider(a, b), ~ limit_is_wider(b, c)
    PROVE  ~ limit_is_wider(a, c)
BY DelegationAssumption DEF limit_is_wider, Limit

(* For the values of parameters structural equality is equality.           *)
LEMMA JsonEqualIsEqual ==
    ASSUME NEW v \in Value, NEW w \in Value, json_value_equal(v, w)
    PROVE  v = w
<1>1. v \in [type : {"bool", "number", "string"}, value : Nat]
      /\ w \in [type : {"bool", "number", "string"}, value : Nat]
  BY DelegationAssumption
<1>2. v.value = w.value
  BY DEF json_value_equal, PythonEqual
<1>3. v.type = w.type
  <2>1. CASE v.type = "bool" \/ w.type = "bool"
    BY <2>1 DEF json_value_equal
  <2>2. CASE v.type # "bool" /\ w.type # "bool"
    <3>1. "bool" \notin {v.type, w.type}
      BY <2>2
    <3>2. {v.type, w.type} # {"bool", "number"}
      BY <3>1
    <3> QED BY <3>2 DEF json_value_equal, PythonEqual
  <2> QED BY <2>1, <2>2
<1> QED BY <1>1, <1>2, <1>3

LEMMA HonoursIsEqual ==
    ASSUME NEW p \in Pins, NEW q \in Pins, Honours(p, q),
           NEW n \in Param, q[n] # None
    PROVE  p[n] = q[n]
<1>1. p[n] # None /\ json_value_equal(p[n], q[n])
  BY DEF Honours, Pins
<1>2. p[n] \in Value /\ q[n] \in Value
  BY <1>1 DEF Pins
<1> QED BY <1>1, <1>2, JsonEqualIsEqual

-----------------------------------------------------------------------------
(* The root token c is within grant g.                                     *)
IssuedUnder(g, c) ==
    /\ g.iss = c.iss
    /\ g.sub = c.sub
    /\ \A k \in c.capabilities : capability_covered(k, g.capabilities)
    /\ c.exp <= c.iat + g.max_ttl_seconds
    /\ \A n \in LimitName : ~ limit_is_wider(c.limits[n], g.limits[n])
    /\ Honours(c.pins, g.pinned_params)
    /\ g.pinned_params[budget_id] # None =>
          c.shared_budget = g.pinned_params[budget_id]
    /\ c.dlg # None => c.dlg \in g.delegates

(* What is known of a signed token for ever.                               *)
TokenInv ==
    \A t \in Token : token[t] # Unsigned =>
        LET c == token[t] IN
        /\ c.prf # None => token[c.prf] # Unsigned
        /\ c.kid \in PolicyKey /\ c.prf = None => \E g \in policy : IssuedUnder(g, c)
        /\ c.made = "attenuate" =>
              c.prf # None /\ Attenuated(token[c.prf], c)

(* The registry holds policy keys as roots, and what it trusts is exactly  *)
(* what administrators want it to.                                         *)
KeyInv ==
    /\ \A i \in Agent : keys[i] \subseteq PolicyKey
    /\ \A i \in Agent, k \in Key :
          /\ k \in keys[i] <=> <<"root", i, k>> \notin distrusted
          /\ k \in holders[i] <=> <<"holder", i, k>> \notin distrusted

(* What a verification has established when it gets that far.              *)
LeafVetted(q, c) ==
    /\ c.sub = q.call.audience
    /\ q.anchor = None => TrustNeeded(c) \notin q.struck

ChainVetted(q, c) ==
    IF c.prf = None
    THEN c.kid \in PolicyKey
    ELSE /\ q.anchor = None => TrustNeeded(token[c.prf]) \notin q.struck
         /\ token[c.prf].kid \in PolicyKey
         /\ Attenuated(token[c.prf], c)

Progress(q, c) ==
    /\ q.pc \in {"leaf", "parent"} /\ q.anchor # None => c.prf = None
    /\ q.pc = "parent" => c.prf # None /\ LeafVetted(q, c)
    /\ q.pc \in {"verified", "executed"} => LeafVetted(q, c) /\ ChainVetted(q, c)
    /\ q.pc = "executed" =>
          /\ capability_covered(q.call.capability, c.capabilities)
          /\ Honours(q.call.params, c.pins)
    /\ q.pc = "delegation" /\ q.anchor = None => c.made # "attenuate"

RequestInv ==
    \A r \in Request : req[r].pc # "idle" =>
        /\ token[req[r].token] # Unsigned
        /\ req[r].struck \subseteq distrusted
        /\ Progress(req[r], token[req[r].token])

IInv == TypeOK /\ TokenInv /\ KeyInv /\ RequestInv

-----------------------------------------------------------------------------
LEMMA SignedType ==
    ASSUME TypeOK, NEW made \in {"issue", "attenuate", "elsewhere"}, NEW k \in Key,
           NEW a \in Proposal, NEW sub \in Audience, NEW dlg \in Agent \cup {None},
           NEW prf \in Token \cup {None}
    PROVE  Signed(made, k, a, sub, dlg, prf) \in Claims
<1>1. a \in ProposalType
  BY DelegationAssumption
<1>2. Seconds(now) \in Int
  BY LifetimeAssumption DEF TypeOK, Seconds
<1>3. Seconds(now) + a.ttl \in Int
  BY <1>1, <1>2 DEF ProposalType
<1> QED BY <1>1, <1>2, <1>3 DEF Signed, Claims, ProposalType

(* Claims stay claims under any other date.                                *)
LEMMA SkewedType ==
    ASSUME NEW c \in Claims, NEW skew \in Skews
    PROVE  [c EXCEPT !.iat = @ + skew, !.exp = @ + skew] \in Claims
<1>1. c.iat + skew \in Int /\ c.exp + skew \in Int
  BY DelegationAssumption DEF Claims
<1> QED BY <1>1 DEF Claims

(* Signing a token changes nothing but the tokens.                         *)
LEMMA SigningOnlySigns ==
    ASSUME \E t \in Token, k \in Key, a \in Proposal :
             \/ Issue(t, k, a)
             \/ \E p \in Token : Attenuate(t, k, p, a)
             \/ \E p \in Token \cup {None}, skew \in Skews : SignElsewhere(t, k, p, a, skew)
    PROVE  UNCHANGED <<now, policy, keys, holders, req, distrusted>>
<1>1. ASSUME NEW t, NEW k, NEW a, Issue(t, k, a)
      PROVE  UNCHANGED <<now, policy, keys, holders, req, distrusted>>
  BY <1>1 DEF Issue
<1>2. ASSUME NEW t, NEW k, NEW p, NEW a, Attenuate(t, k, p, a)
      PROVE  UNCHANGED <<now, policy, keys, holders, req, distrusted>>
  BY <1>2 DEF Attenuate
<1>3. ASSUME NEW t, NEW k, NEW p, NEW a, NEW skew, SignElsewhere(t, k, p, a, skew)
      PROVE  UNCHANGED <<now, policy, keys, holders, req, distrusted>>
  BY <1>3 DEF SignElsewhere
<1> QED BY <1>1, <1>2, <1>3, Zenon

LEMMA TypeInit == ASSUME Init PROVE TypeOK
BY DEF Init, TypeOK, Trust

(* The state stays well typed under every action.                          *)
LEMMA TypeNext == ASSUME TypeOK, [Next]_vars PROVE TypeOK'
<1> USE DEF TypeOK
<1>1. ASSUME NEW g \in Grant, Allow(g) PROVE TypeOK'
  BY <1>1 DEF Allow
<1>2. ASSUME NEW t \in Token, NEW k \in Key, NEW a \in Proposal, Issue(t, k, a) PROVE TypeOK'
  <2>1. a \in ProposalType
    BY DelegationAssumption
  <2>2. Signed("issue", k, a, a.sub, a.dlg, None) \in Claims
    BY <2>1, SignedType DEF ProposalType
  <2> QED BY <1>2, <2>2 DEF Issue
<1>3. ASSUME NEW t \in Token, NEW k \in Key, NEW a \in Proposal, NEW p \in Token,
             Attenuate(t, k, p, a)
      PROVE  TypeOK'
  <2>1. token[p] \in Claims
    BY <1>3 DEF Attenuate
  <2>2. token[p].sub \in Audience
    BY <2>1 DEF Claims
  <2>3. Signed("attenuate", k, a, token[p].sub, None, p) \in Claims
    BY <2>2, SignedType
  <2> QED BY <1>3, <2>3 DEF Attenuate
<1>4. ASSUME NEW t \in Token, NEW k \in Key, NEW a \in Proposal, NEW p \in Token \cup {None},
             NEW skew \in Skews, SignElsewhere(t, k, p, a, skew)
      PROVE  TypeOK'
  <2>1. a \in ProposalType
    BY DelegationAssumption
  <2>2. Signed("elsewhere", k, a, a.sub, a.dlg, p) \in Claims
    BY <2>1, SignedType DEF ProposalType
  <2>3. [Signed("elsewhere", k, a, a.sub, a.dlg, p)
           EXCEPT !.iat = @ + skew, !.exp = @ + skew] \in Claims
    BY <2>2, SkewedType
  <2> QED BY <1>4, <2>3 DEF SignElsewhere
<1>5. ASSUME NEW W \in SUBSET Trust, NEW G \in SUBSET Trust, Administered(W, G)
      PROVE  distrusted' \subseteq Trust /\ req' \in [Request -> {Idle} \cup Started]
  <2>1. ASSUME NEW r \in Request
        PROVE  (IF req[r].pc = "idle" THEN req[r]
                ELSE [req[r] EXCEPT !.struck = @ \ G]) \in {Idle} \cup Started
    BY DEF Started, Idle
  <2> QED BY <1>5, <2>1 DEF Administered
<1>6. ASSUME NEW ik \in RootKeys, NEW rotate \in BOOLEAN, Register(ik[1], ik[2], rotate)
      PROVE  TypeOK'
  <2>1. ik[1] \in Agent /\ ik[2] \in Key
    BY DelegationAssumption
  <2>2. (IF rotate THEN {} ELSE {"root"} \X {ik[1]} \X Key) \in SUBSET Trust
        /\ {<<"root", ik[1], ik[2]>>} \in SUBSET Trust
    BY <2>1 DEF Trust
  <2>3. distrusted' \subseteq Trust /\ req' \in [Request -> {Idle} \cup Started]
    BY <1>5, <1>6, <2>2 DEF Register
  <2>4. keys' \in [Agent -> SUBSET Key]
    BY <1>6, <2>1 DEF Register
  <2> QED BY <1>6, <2>3, <2>4 DEF Register
<1>7. ASSUME NEW ik \in RootKeys, Revoke(ik[1], ik[2]) PROVE TypeOK'
  <2>1. ik[1] \in Agent /\ ik[2] \in Key
    BY DelegationAssumption
  <2>2. {} \in SUBSET Trust /\ {<<"root", ik[1], ik[2]>>} \in SUBSET Trust
    BY <2>1 DEF Trust
  <2>3. distrusted' \subseteq Trust /\ req' \in [Request -> {Idle} \cup Started]
    BY <1>5, <1>7, <2>2 DEF Revoke
  <2> QED BY <1>7, <2>1, <2>3 DEF Revoke
<1>8. ASSUME NEW i \in Agent, RevokeIssuer(i) PROVE TypeOK'
  <2>2. {} \in SUBSET Trust /\ {"root", "holder"} \X {i} \X Key \in SUBSET Trust
    BY DEF Trust
  <2>3. distrusted' \subseteq Trust /\ req' \in [Request -> {Idle} \cup Started]
    BY <1>5, <1>8, <2>2 DEF RevokeIssuer
  <2> QED BY <1>8, <2>3 DEF RevokeIssuer
<1>9. ASSUME NEW ik \in HolderKeys, RegisterHolder(ik[1], ik[2]) \/ RevokeHolder(ik[1], ik[2])
      PROVE  TypeOK'
  <2>1. ik[1] \in Agent /\ ik[2] \in Key
    BY DelegationAssumption
  <2>2. {} \in SUBSET Trust /\ {<<"holder", ik[1], ik[2]>>} \in SUBSET Trust
    BY <2>1 DEF Trust
  <2>3. distrusted' \subseteq Trust /\ req' \in [Request -> {Idle} \cup Started]
    BY <1>5, <1>9, <2>2 DEF RegisterHolder, RevokeHolder
  <2> QED BY <1>9, <2>1, <2>3 DEF RegisterHolder, RevokeHolder
<1>10. ASSUME NEW r \in Request, NEW t \in Token, NEW call \in Call, NEW anchor \in Anchors,
              Present(r, t, call, anchor)
       PROVE  TypeOK'
  <2>1. [pc |-> IF anchor # None /\ token[t].prf # None THEN "delegation" ELSE "leaf",
         token |-> t, call |-> call, anchor |-> anchor, struck |-> distrusted] \in Started
    BY DEF Started, Verifying, Ended
  <2> QED BY <1>10, <2>1 DEF Present
<1>11. ASSUME NEW r \in Request, NEW pc \in Verifying \cup Ended, req[r].pc # "idle",
              req' = [req EXCEPT ![r].pc = pc],
              UNCHANGED <<now, policy, keys, holders, token, distrusted>>
       PROVE  TypeOK'
  <2>1. req[r] \in Started
    BY <1>11 DEF Idle
  <2>2. [req[r] EXCEPT !.pc = pc] \in Started
    BY <2>1 DEF Started
  <2> QED BY <1>11, <2>2
<1>12. ASSUME NEW r \in Request, VerifyLeaf(r) \/ VerifyParent(r) \/ CheckCall(r) PROVE TypeOK'
  BY <1>11, <1>12 DEF VerifyLeaf, VerifyParent, CheckCall, Verifying, Ended
<1>13. ASSUME Tick PROVE TypeOK'
  BY <1>13 DEF Tick
<1>14. ASSUME UNCHANGED vars PROVE TypeOK'
  BY <1>14 DEF vars
<1> QED BY <1>1, <1>2, <1>3, <1>4, <1>6, <1>7, <1>8, <1>9, <1>10, <1>12, <1>13, <1>14 DEF Next

-----------------------------------------------------------------------------
LEMMA SignedIsSigned ==
    ASSUME NEW c \in Claims
    PROVE  c # Unsigned
BY DEF Claims, Unsigned

(* Only an unsigned token is ever written, and no grant is ever removed.   *)
LEMMA Grows ==
    ASSUME TypeOK, [Next]_vars
    PROVE  /\ \A t \in Token : token[t] # Unsigned => token'[t] = token[t]
           /\ policy \subseteq policy'
<1>1. ASSUME NEW t \in Token, NEW c, token[t] = Unsigned, token' = [token EXCEPT ![t] = c]
      PROVE  \A u \in Token : token[u] # Unsigned => token'[u] = token[u]
  BY <1>1 DEF TypeOK
<1>2. CASE UNCHANGED vars
  BY <1>2 DEF vars
<1>3. CASE \E g \in Grant : Allow(g)
  BY <1>3 DEF Allow
<1>4. CASE \E t \in Token, k \in Key, a \in Proposal :
             \/ Issue(t, k, a)
             \/ \E p \in Token : Attenuate(t, k, p, a)
             \/ \E p \in Token \cup {None}, skew \in Skews : SignElsewhere(t, k, p, a, skew)
  <2>1. PICK t \in Token, k \in Key, a \in Proposal :
             \/ Issue(t, k, a)
             \/ \E p \in Token : Attenuate(t, k, p, a)
             \/ \E p \in Token \cup {None}, skew \in Skews : SignElsewhere(t, k, p, a, skew)
    BY <1>4
  <2>2. UNCHANGED policy /\ token[t] = Unsigned /\ \E c : token' = [token EXCEPT ![t] = c]
    BY <2>1 DEF Issue, Attenuate, SignElsewhere
  <2> QED BY <1>1, <2>2
<1>5. CASE \/ \E ik \in RootKeys, rotate \in BOOLEAN : Register(ik[1], ik[2], rotate)
           \/ \E ik \in RootKeys : Revoke(ik[1], ik[2])
           \/ \E i \in Agent : RevokeIssuer(i)
           \/ \E ik \in HolderKeys : RegisterHolder(ik[1], ik[2]) \/ RevokeHolder(ik[1], ik[2])
  BY <1>5 DEF Register, Revoke, RevokeIssuer, RegisterHolder, RevokeHolder
<1>6. CASE \/ \E r \in Request, t \in Token, call \in Call, anchor \in Anchors :
                 Present(r, t, call, anchor)
           \/ \E r \in Request : VerifyLeaf(r) \/ VerifyParent(r) \/ CheckCall(r)
           \/ Tick
  BY <1>6 DEF Present, VerifyLeaf, VerifyParent, CheckCall, Tick
<1> QED BY <1>2, <1>3, <1>4, <1>5, <1>6 DEF Next

(* What the policy let through is within the grant once it is signed.      *)
LEMMA CoveredIsIssued ==
    ASSUME TypeOK, NEW g \in policy, NEW k \in Key, NEW a \in Proposal,
           GrantCovers(g, a, a.sub, a.dlg)
    PROVE  IssuedUnder(g, Signed("issue", k, a, a.sub, a.dlg, None))
<1>1. a \in ProposalType /\ g \in GrantType
  BY DelegationAssumption DEF TypeOK
<1>2. Seconds(now) \in Int /\ a.ttl \in Int /\ g.max_ttl_seconds \in Int
  BY <1>1, LifetimeAssumption DEF TypeOK, Seconds, ProposalType, GrantType
<1>3. Seconds(now) + a.ttl <= Seconds(now) + g.max_ttl_seconds
  BY <1>2 DEF GrantCovers
<1> QED BY <1>3 DEF GrantCovers, IssuedUnder, Signed

(* Signing one more token, with a record that keeps the invariant.         *)
LEMMA TokenInvSigned ==
    ASSUME TypeOK, TokenInv, NEW t \in Token, NEW c \in Claims, token[t] = Unsigned,
           token' = [token EXCEPT ![t] = c], UNCHANGED policy,
           c.prf # None => c.prf # t /\ token[c.prf] # Unsigned,
           c.kid \in PolicyKey /\ c.prf = None => \E g \in policy : IssuedUnder(g, c),
           c.made = "attenuate" => c.prf # None /\ Attenuated(token[c.prf], c)
    PROVE  TokenInv'
<1> SUFFICES ASSUME NEW u \in Token, token'[u] # Unsigned
             PROVE  LET d == token'[u] IN
                    /\ d.prf # None => token'[d.prf] # Unsigned
                    /\ d.kid \in PolicyKey /\ d.prf = None => \E g \in policy' : IssuedUnder(g, d)
                    /\ d.made = "attenuate" => d.prf # None /\ Attenuated(token'[d.prf], d)
  BY DEF TokenInv, IssuedUnder, Attenuated, NotWider
<1>1. token'[t] = c /\ c # Unsigned
  BY SignedIsSigned DEF TypeOK
<1>2. CASE u = t
  <2>1. c.prf # None => token'[c.prf] = token[c.prf]
    BY DEF TypeOK, Claims
  <2> QED BY <1>1, <1>2, <2>1
<1>3. CASE u # t
  <2>1. token'[u] = token[u]
    BY <1>3 DEF TypeOK
  <2>2. token[u] \in Claims
    BY <2>1 DEF TypeOK
  <2>3. token[u].prf # None => token[u].prf \in Token /\ token[token[u].prf] # Unsigned
    BY <2>1, <2>2 DEF TokenInv, Claims
  <2>4. token[u].prf # None => token'[token[u].prf] = token[token[u].prf]
    BY <2>3 DEF TypeOK
  <2> QED BY <2>1, <2>3, <2>4 DEF TokenInv
<1> QED BY <1>2, <1>3

LEMMA TokenNext == ASSUME IInv, [Next]_vars PROVE TokenInv'
<1> USE DEF IInv
<1>1. ASSUME NEW t \in Token, NEW k \in Key, NEW a \in Proposal, Issue(t, k, a) PROVE TokenInv'
  <2> DEFINE c == Signed("issue", k, a, a.sub, a.dlg, None)
  <2>1. a \in ProposalType
    BY DelegationAssumption
  <2>2. c \in Claims
    BY <2>1, SignedType DEF ProposalType
  <2>3. c.prf = None /\ c.kid = k /\ c.made = "issue"
    BY DEF Signed
  <2>4. c.kid \in PolicyKey => \E g \in policy : IssuedUnder(g, c)
    <3> HAVE c.kid \in PolicyKey
    <3>1. PICK g \in policy : GrantCovers(g, a, a.sub, a.dlg)
      BY <1>1, <2>3 DEF Issue, PolicyAllows, PolicyCovers
    <3> QED BY <3>1, CoveredIsIssued
  <2>5. token[t] = Unsigned /\ token' = [token EXCEPT ![t] = c] /\ UNCHANGED policy
    BY <1>1 DEF Issue
  <2> HIDE DEF c
  <2> QED BY <2>2, <2>3, <2>4, <2>5, TokenInvSigned
<1>2. ASSUME NEW t \in Token, NEW k \in Key, NEW a \in Proposal, NEW p \in Token,
             Attenuate(t, k, p, a)
      PROVE  TokenInv'
  <2> DEFINE c == Signed("attenuate", k, a, token[p].sub, None, p)
  <2>1. token[p] \in Claims
    BY <1>2 DEF Attenuate, TypeOK
  <2>2. c \in Claims
    BY <2>1, SignedType DEF Claims
  <2>3. c.prf = p /\ p # None
    BY DelegationAssumption DEF Signed
  <2>4. /\ token[t] = Unsigned /\ token' = [token EXCEPT ![t] = c] /\ UNCHANGED policy
        /\ p # t /\ token[p] # Unsigned
        /\ Attenuated(token[p], c)
    BY <1>2 DEF Attenuate
  <2> HIDE DEF c
  <2> QED BY <2>2, <2>3, <2>4, TokenInvSigned
<1>3. ASSUME NEW t \in Token, NEW k \in Key, NEW a \in Proposal, NEW p \in Token \cup {None},
             NEW skew \in Skews, SignElsewhere(t, k, p, a, skew)
      PROVE  TokenInv'
  <2> DEFINE d == Signed("elsewhere", k, a, a.sub, a.dlg, p)
             c == [d EXCEPT !.iat = @ + skew, !.exp = @ + skew]
  <2>1. a \in ProposalType
    BY DelegationAssumption
  <2>2. c \in Claims
    BY <2>1, SignedType, SkewedType DEF ProposalType
  <2>3. c.prf = p /\ c.kid = k /\ c.made = "elsewhere"
    BY DEF Signed
  <2>4. /\ token[t] = Unsigned /\ token' = [token EXCEPT ![t] = c] /\ UNCHANGED policy
        /\ k \notin PolicyKey
        /\ p # None => p # t /\ token[p] # Unsigned
    BY <1>3 DEF SignElsewhere
  <2> HIDE DEF c
  <2> QED BY <2>2, <2>3, <2>4, TokenInvSigned
<1>4. ASSUME UNCHANGED token PROVE TokenInv'
  BY <1>4, Grows DEF TokenInv, IssuedUnder, Attenuated, NotWider
<1>5. CASE UNCHANGED vars
  BY <1>4, <1>5 DEF vars
<1>6. CASE \E g \in Grant : Allow(g)
  BY <1>4, <1>6 DEF Allow
<1>7. CASE \/ \E ik \in RootKeys, rotate \in BOOLEAN : Register(ik[1], ik[2], rotate)
           \/ \E ik \in RootKeys : Revoke(ik[1], ik[2])
           \/ \E i \in Agent : RevokeIssuer(i)
           \/ \E ik \in HolderKeys : RegisterHolder(ik[1], ik[2]) \/ RevokeHolder(ik[1], ik[2])
  BY <1>4, <1>7 DEF Register, Revoke, RevokeIssuer, RegisterHolder, RevokeHolder
<1>8. CASE \/ \E r \in Request, t \in Token, call \in Call, anchor \in Anchors :
                 Present(r, t, call, anchor)
           \/ \E r \in Request : VerifyLeaf(r) \/ VerifyParent(r) \/ CheckCall(r)
           \/ Tick
  BY <1>4, <1>8 DEF Present, VerifyLeaf, VerifyParent, CheckCall, Tick
<1> QED BY <1>1, <1>2, <1>3, <1>5, <1>6, <1>7, <1>8 DEF Next

-----------------------------------------------------------------------------
(* The registry follows the administrators.                                *)
LEMMA KeyNext == ASSUME IInv, [Next]_vars PROVE KeyInv'
<1> USE DEF IInv, TypeOK
<1>1. ASSUME NEW ik \in RootKeys, NEW rotate \in BOOLEAN, Register(ik[1], ik[2], rotate)
      PROVE  KeyInv'
  <2>1. ik[1] \in Agent /\ ik[2] \in PolicyKey /\ ik[2] \in Key
    BY DelegationAssumption
  <2> QED BY <1>1, <2>1 DEF Register, Administered, KeyInv
<1>2. ASSUME NEW ik \in RootKeys, Revoke(ik[1], ik[2]) PROVE KeyInv'
  <2>1. ik[1] \in Agent /\ ik[2] \in Key
    BY DelegationAssumption
  <2> QED BY <1>2, <2>1 DEF Revoke, Administered, KeyInv
<1>3. ASSUME NEW i \in Agent, RevokeIssuer(i) PROVE KeyInv'
  BY <1>3 DEF RevokeIssuer, Administered, KeyInv
<1>4. ASSUME NEW ik \in HolderKeys, RegisterHolder(ik[1], ik[2]) \/ RevokeHolder(ik[1], ik[2])
      PROVE  KeyInv'
  <2>1. ik[1] \in Agent /\ ik[2] \in Key
    BY DelegationAssumption
  <2> QED BY <1>4, <2>1 DEF RegisterHolder, RevokeHolder, Administered, KeyInv
<1>5. ASSUME UNCHANGED <<keys, holders, distrusted>> PROVE KeyInv'
  BY <1>5 DEF KeyInv
<1>6. CASE UNCHANGED vars
  BY <1>5, <1>6 DEF vars
<1>7. CASE \E g \in Grant : Allow(g)
  BY <1>5, <1>7 DEF Allow
<1>8. CASE \E t \in Token, k \in Key, a \in Proposal :
             \/ Issue(t, k, a)
             \/ \E p \in Token : Attenuate(t, k, p, a)
             \/ \E p \in Token \cup {None}, skew \in Skews : SignElsewhere(t, k, p, a, skew)
  <2>1. UNCHANGED <<keys, holders, distrusted>>
    BY <1>8, SigningOnlySigns
  <2> QED BY <1>5, <2>1
<1>9. CASE \/ \E r \in Request, t \in Token, call \in Call, anchor \in Anchors :
                 Present(r, t, call, anchor)
           \/ \E r \in Request : VerifyLeaf(r) \/ VerifyParent(r) \/ CheckCall(r)
           \/ Tick
  <2>1. UNCHANGED <<keys, holders, distrusted>>
    BY <1>9 DEF Present, VerifyLeaf, VerifyParent, CheckCall, Tick
  <2> QED BY <1>5, <2>1
<1> QED BY <1>1, <1>2, <1>3, <1>4, <1>6, <1>7, <1>8, <1>9 DEF Next

-----------------------------------------------------------------------------
(* What is known of the token of a call, and of its parent.                *)
LEMMA TokenFacts ==
    ASSUME IInv, NEW r \in Request, req[r].pc # "idle"
    PROVE  /\ req[r] \in Started
           /\ token[req[r].token] \in Claims
           /\ token[req[r].token].prf # None =>
                 /\ token[req[r].token].prf \in Token
                 /\ token[token[req[r].token].prf] \in Claims
<1>1. req[r] \in Started
  BY DEF IInv, TypeOK, Idle
<1>2. req[r].token \in Token /\ token[req[r].token] # Unsigned
  BY <1>1 DEF IInv, RequestInv, Started
<1>3. token[req[r].token] \in Claims
  BY <1>2 DEF IInv, TypeOK
<1>4. ASSUME token[req[r].token].prf # None
      PROVE  /\ token[req[r].token].prf \in Token
             /\ token[token[req[r].token].prf] \in Claims
  <2>1. token[req[r].token].prf \in Token
    BY <1>3, <1>4 DEF Claims
  <2>2. token[token[req[r].token].prf] # Unsigned
    BY <1>2, <1>4 DEF IInv, TokenInv
  <2> QED BY <2>1, <2>2 DEF IInv, TypeOK
<1> QED BY <1>1, <1>3, <1>4

(* A step that does not move a call keeps what the call has established.   *)
LEMMA RequestKept ==
    ASSUME IInv, [Next]_vars, NEW r \in Request, req[r].pc # "idle",
           req'[r].pc = req[r].pc, req'[r].token = req[r].token,
           req'[r].call = req[r].call, req'[r].anchor = req[r].anchor,
           req'[r].struck \subseteq req[r].struck,
           req'[r].struck \subseteq distrusted'
    PROVE  /\ token'[req'[r].token] # Unsigned
           /\ req'[r].struck \subseteq distrusted'
           /\ Progress(req[r], token[req[r].token])'
<1> DEFINE c == token[req[r].token]
<1>1. c \in Claims /\ c # Unsigned /\ req[r].token \in Token
  BY TokenFacts, SignedIsSigned DEF Started
<1>2. c.prf # None => c.prf \in Token /\ token[c.prf] \in Claims /\ token[c.prf] # Unsigned
  BY TokenFacts, SignedIsSigned
<1>3. token'[req[r].token] = c
  BY <1>1, Grows DEF IInv
<1>4. c.prf # None => token'[c.prf] = token[c.prf]
  BY <1>2, Grows DEF IInv
<1>5. Progress(req[r], c)
  BY DEF IInv, RequestInv
<1> HIDE DEF c
<1>6. LeafVetted(req[r], c) => LeafVetted(req'[r], c)
  BY DEF LeafVetted, TrustNeeded
<1>7. ChainVetted(req[r], c) => ChainVetted(req[r], c)'
  <2>0. c' = c
    BY <1>3 DEF c
  <2>1. CASE c.prf = None
    BY <2>0, <2>1 DEF ChainVetted
  <2>2. CASE c.prf # None
    BY <2>0, <2>2, <1>4 DEF ChainVetted, TrustNeeded, Attenuated, NotWider
  <2> QED BY <2>1, <2>2
<1>8. c' = c
  BY <1>3 DEF c
<1>9. Progress(req[r], c)'
  BY <1>5, <1>6, <1>7, <1>8 DEF Progress, LeafVetted
<1> QED BY <1>1, <1>3, <1>8, <1>9 DEF c

(* The calls when administrators act.                                      *)
LEMMA RequestAdministered ==
    ASSUME IInv, [Next]_vars, NEW W \in SUBSET Trust, NEW G \in SUBSET Trust,
           Administered(W, G)
    PROVE  RequestInv'
<1> SUFFICES ASSUME NEW r \in Request, req'[r].pc # "idle"
             PROVE  /\ token'[req'[r].token] # Unsigned
                    /\ req'[r].struck \subseteq distrusted'
                    /\ Progress(req[r], token[req[r].token])'
  BY DEF RequestInv
<1>1. req[r].pc # "idle"
  BY DEF Administered
<1>2. req'[r] = [req[r] EXCEPT !.struck = @ \ G]
  BY <1>1 DEF Administered
<1>3. req[r] \in Started
  BY <1>1, TokenFacts
<1>4. /\ req'[r].pc = req[r].pc /\ req'[r].token = req[r].token
      /\ req'[r].call = req[r].call /\ req'[r].anchor = req[r].anchor
      /\ req'[r].struck = req[r].struck \ G
  BY <1>2, <1>3 DEF Started
<1>5. req[r].struck \subseteq distrusted
  BY <1>1 DEF IInv, RequestInv
<1>6. req'[r].struck \subseteq distrusted'
  BY <1>4, <1>5 DEF Administered
<1> QED BY <1>1, <1>4, <1>6, RequestKept

(* The call r is moved to pc, where everything that is needed holds.       *)
LEMMA RequestMoved ==
    ASSUME IInv, [Next]_vars, NEW r \in Request, NEW pc, req[r].pc # "idle",
           req' = [req EXCEPT ![r].pc = pc], UNCHANGED <<token, distrusted>>,
           Progress([req[r] EXCEPT !.pc = pc], token[req[r].token])
    PROVE  RequestInv'
<1> SUFFICES ASSUME NEW s \in Request, req'[s].pc # "idle"
             PROVE  /\ token'[req'[s].token] # Unsigned
                    /\ req'[s].struck \subseteq distrusted'
                    /\ Progress(req[s], token[req[s].token])'
  BY DEF RequestInv
<1>1. CASE s = r
  <2>1. req[r] \in Started
    BY TokenFacts
  <2>2. req'[r] = [req[r] EXCEPT !.pc = pc]
    BY DEF IInv, TypeOK
  <2>3. req'[r].token = req[r].token /\ req'[r].struck = req[r].struck
    BY <2>1, <2>2 DEF Started
  <2>4. token[req[r].token] # Unsigned /\ req[r].struck \subseteq distrusted
    BY DEF IInv, RequestInv
  <2>5. Progress(req[r], token[req[r].token])'
    BY <2>2, <2>3 DEF Progress, LeafVetted, ChainVetted, TrustNeeded, Attenuated, NotWider
  <2> QED BY <1>1, <2>3, <2>4, <2>5
<1>2. CASE s # r
  <2>1. req'[s] = req[s]
    BY <1>2 DEF IInv, TypeOK
  <2>2. req[s].struck \subseteq distrusted
    BY <2>1 DEF IInv, RequestInv
  <2> QED BY <2>1, <2>2, RequestKept
<1> QED BY <1>1, <1>2

(* A trusted token has a record of trust that no administrator withdrew,   *)
(* and as a root it was signed with a policy key.                          *)
LEMMA TrustedMeans ==
    ASSUME IInv, NEW c \in Claims, NEW anchor \in Anchors, Trusted(c, anchor)
    PROVE  /\ anchor = None => TrustNeeded(c) \notin distrusted
           /\ anchor # None \/ c.prf = None => c.kid \in PolicyKey
<1>1. c.iss \in Agent /\ c.kid \in Key
  BY DEF Claims
<1> QED BY <1>1, DelegationAssumption DEF IInv, KeyInv, Trusted, TrustNeeded

LEMMA LeafStep ==
    ASSUME IInv, [Next]_vars, NEW r \in Request, VerifyLeaf(r)
    PROVE  RequestInv'
<1> DEFINE c  == token[req[r].token]
           pc == IF ~ Trusted(c, req[r].anchor) THEN "untrusted"
                 ELSE IF ~ Alive(c) \/ c.sub # req[r].call.audience THEN "denied"
                 ELSE IF c.prf # None THEN "parent"
                 ELSE IF c.dlg # None THEN "delegation"
                 ELSE "verified"
           q  == [req[r] EXCEPT !.pc = pc]
<1>1. req[r].pc = "leaf" /\ req' = [req EXCEPT ![r].pc = pc] /\ UNCHANGED <<token, distrusted>>
  BY DEF VerifyLeaf
<1>2. req[r] \in Started /\ c \in Claims /\ c # Unsigned /\ req[r].token \in Token
  BY <1>1, TokenFacts, SignedIsSigned DEF Started
<1>3. Progress(req[r], c) /\ req[r].struck \subseteq distrusted
  BY <1>1 DEF IInv, RequestInv
<1>4. req[r].anchor # None => c.prf = None
  BY <1>1, <1>3 DEF Progress
<1>5. c.made = "attenuate" => c.prf # None
  BY <1>2 DEF IInv, TokenInv
<1>6. Trusted(c, req[r].anchor) =>
         /\ req[r].anchor = None => TrustNeeded(c) \notin req[r].struck
         /\ c.prf = None => c.kid \in PolicyKey
  BY <1>2, <1>3, TrustedMeans DEF Started
<1>7. /\ q.pc = pc /\ q.token = req[r].token /\ q.call = req[r].call
      /\ q.anchor = req[r].anchor /\ q.struck = req[r].struck
  BY <1>2 DEF Started
<1>8. Progress(q, c)
  <2> HIDE DEF c, q
  <2>1. pc \in {"parent", "verified"} => LeafVetted(q, c)
    BY <1>6, <1>7 DEF LeafVetted
  <2>2. pc = "verified" => ChainVetted(q, c)
    BY <1>6, <1>7 DEF ChainVetted
  <2>3. pc = "delegation" => c.made # "attenuate"
    BY <1>5
  <2>4. pc = "parent" => c.prf # None
    OBVIOUS
  <2>5. pc \in {"untrusted", "denied", "parent", "delegation", "verified"}
    OBVIOUS
  <2> HIDE DEF pc
  <2> QED BY <1>4, <1>7, <2>1, <2>2, <2>3, <2>4, <2>5 DEF Progress
<1> HIDE DEF pc
<1> QED BY <1>1, <1>8, RequestMoved

LEMMA ParentStep ==
    ASSUME IInv, [Next]_vars, NEW r \in Request, VerifyParent(r)
    PROVE  RequestInv'
<1> DEFINE c  == token[req[r].token]
           p  == token[c.prf]
           pc == IF p.prf # None THEN "delegation"
                 ELSE IF ~ Trusted(p, req[r].anchor) THEN "untrusted"
                 ELSE IF ~ Alive(p) THEN "denied"
                 ELSE IF ~ Attenuated(p, c) THEN "delegation"
                 ELSE "verified"
           q  == [req[r] EXCEPT !.pc = pc]
<1>1. req[r].pc = "parent" /\ req' = [req EXCEPT ![r].pc = pc] /\ UNCHANGED <<token, distrusted>>
  BY DEF VerifyParent
<1>2. req[r] \in Started /\ c \in Claims /\ c # Unsigned /\ req[r].token \in Token
  BY <1>1, TokenFacts, SignedIsSigned DEF Started
<1>3. Progress(req[r], c) /\ req[r].struck \subseteq distrusted
  BY <1>1 DEF IInv, RequestInv
<1>4. c.prf # None /\ LeafVetted(req[r], c) /\ req[r].anchor = None
  BY <1>1, <1>3 DEF Progress
<1>5. p \in Claims
  BY <1>1, <1>4, TokenFacts
<1>6. c.made = "attenuate" => Attenuated(p, c)
  BY <1>2 DEF IInv, TokenInv
<1>7. Trusted(p, req[r].anchor) /\ p.prf = None =>
         TrustNeeded(p) \notin req[r].struck /\ p.kid \in PolicyKey
  BY <1>2, <1>3, <1>4, <1>5, TrustedMeans DEF Started
<1>8. /\ q.pc = pc /\ q.token = req[r].token /\ q.call = req[r].call
      /\ q.anchor = req[r].anchor /\ q.struck = req[r].struck
  BY <1>2 DEF Started
<1>9. Progress(q, c)
  <2> HIDE DEF c, q
  <2>1. LeafVetted(q, c)
    BY <1>4, <1>8 DEF LeafVetted
  <2>2. pc = "verified" => ChainVetted(q, c)
    BY <1>4, <1>7, <1>8 DEF ChainVetted
  <2>3. pc = "delegation" => c.made # "attenuate"
    BY <1>6 DEF Attenuated
  <2>4. pc \in {"untrusted", "denied", "delegation", "verified"}
    OBVIOUS
  <2> HIDE DEF pc
  <2> QED BY <1>8, <2>1, <2>2, <2>3, <2>4 DEF Progress
<1> HIDE DEF pc
<1> QED BY <1>1, <1>9, RequestMoved

LEMMA CallStep ==
    ASSUME IInv, [Next]_vars, NEW r \in Request, CheckCall(r)
    PROVE  RequestInv'
<1> DEFINE c  == token[req[r].token]
           pc == IF /\ capability_covered(req[r].call.capability, c.capabilities)
                    /\ Honours(req[r].call.params, c.pins)
                 THEN "executed" ELSE "denied"
           q  == [req[r] EXCEPT !.pc = pc]
<1>1. req[r].pc = "verified" /\ req' = [req EXCEPT ![r].pc = pc] /\ UNCHANGED <<token, distrusted>>
  BY DEF CheckCall
<1>2. req[r] \in Started
  BY <1>1, TokenFacts
<1>3. Progress(req[r], c)
  BY <1>1 DEF IInv, RequestInv
<1>4. LeafVetted(req[r], c) /\ ChainVetted(req[r], c)
  BY <1>1, <1>3 DEF Progress
<1>5. /\ q.pc = pc /\ q.token = req[r].token /\ q.call = req[r].call
      /\ q.anchor = req[r].anchor /\ q.struck = req[r].struck
  BY <1>2 DEF Started
<1>6. Progress(q, c)
  <2> HIDE DEF c, q
  <2>1. LeafVetted(q, c) /\ ChainVetted(q, c)
    BY <1>4, <1>5 DEF LeafVetted, ChainVetted
  <2> QED BY <1>5, <2>1 DEF Progress
<1> HIDE DEF pc
<1> QED BY <1>1, <1>6, RequestMoved

LEMMA RequestNext == ASSUME IInv, [Next]_vars PROVE RequestInv'
<1>1. ASSUME UNCHANGED <<req, distrusted>> PROVE RequestInv'
  <2> SUFFICES ASSUME NEW r \in Request, req'[r].pc # "idle"
               PROVE  /\ token'[req'[r].token] # Unsigned
                      /\ req'[r].struck \subseteq distrusted'
                      /\ Progress(req[r], token[req[r].token])'
    BY DEF RequestInv
  <2>1. req'[r] = req[r] /\ req[r].struck \subseteq distrusted
    BY <1>1 DEF IInv, RequestInv
  <2> QED BY <1>1, <2>1, RequestKept
<1>2. CASE UNCHANGED vars
  BY <1>1, <1>2 DEF vars
<1>3. CASE \E g \in Grant : Allow(g)
  BY <1>1, <1>3 DEF Allow
<1>4. CASE \E t \in Token, k \in Key, a \in Proposal :
             \/ Issue(t, k, a)
             \/ \E p \in Token : Attenuate(t, k, p, a)
             \/ \E p \in Token \cup {None}, skew \in Skews : SignElsewhere(t, k, p, a, skew)
  <2>1. UNCHANGED <<req, distrusted>>
    BY <1>4, SigningOnlySigns
  <2> QED BY <1>1, <2>1
<1>5. ASSUME NEW ik \in RootKeys, NEW rotate \in BOOLEAN, Register(ik[1], ik[2], rotate)
      PROVE  RequestInv'
  <2>1. (IF rotate THEN {} ELSE {"root"} \X {ik[1]} \X Key) \in SUBSET Trust
        /\ {<<"root", ik[1], ik[2]>>} \in SUBSET Trust
    BY DelegationAssumption DEF Trust
  <2> QED BY <1>5, <2>1, RequestAdministered DEF Register
<1>6. ASSUME NEW ik \in RootKeys, Revoke(ik[1], ik[2]) PROVE RequestInv'
  <2>1. {} \in SUBSET Trust /\ {<<"root", ik[1], ik[2]>>} \in SUBSET Trust
    BY DelegationAssumption DEF Trust
  <2> QED BY <1>6, <2>1, RequestAdministered DEF Revoke
<1>7. ASSUME NEW i \in Agent, RevokeIssuer(i) PROVE RequestInv'
  <2>1. {} \in SUBSET Trust /\ {"root", "holder"} \X {i} \X Key \in SUBSET Trust
    BY DEF Trust
  <2> QED BY <1>7, <2>1, RequestAdministered DEF RevokeIssuer
<1>8. ASSUME NEW ik \in HolderKeys, RegisterHolder(ik[1], ik[2]) \/ RevokeHolder(ik[1], ik[2])
      PROVE  RequestInv'
  <2>1. {} \in SUBSET Trust /\ {<<"holder", ik[1], ik[2]>>} \in SUBSET Trust
    BY DelegationAssumption DEF Trust
  <2> QED BY <1>8, <2>1, RequestAdministered DEF RegisterHolder, RevokeHolder
<1>9. ASSUME NEW r \in Request, NEW t \in Token, NEW call \in Call, NEW anchor \in Anchors,
             Present(r, t, call, anchor)
      PROVE  RequestInv'
  <2> SUFFICES ASSUME NEW s \in Request, req'[s].pc # "idle"
               PROVE  /\ token'[req'[s].token] # Unsigned
                      /\ req'[s].struck \subseteq distrusted'
                      /\ Progress(req[s], token[req[s].token])'
    BY DEF RequestInv
  <2>1. CASE s = r
    <3>1. req'[r] = [pc |-> IF anchor # None /\ token[t].prf # None THEN "delegation" ELSE "leaf",
                     token |-> t, call |-> call, anchor |-> anchor, struck |-> distrusted]
      BY <1>9 DEF Present, IInv, TypeOK
    <3> QED BY <1>9, <2>1, <3>1 DEF Present, Progress
  <2>2. CASE s # r
    <3>1. req'[s] = req[s] /\ req[s].struck \subseteq distrusted /\ distrusted' = distrusted
      BY <1>9, <2>2 DEF Present, IInv, TypeOK, RequestInv
    <3> QED BY <3>1, RequestKept
  <2> QED BY <2>1, <2>2
<1>10. CASE Tick
  BY <1>1, <1>10 DEF Tick
<1> QED BY <1>2, <1>3, <1>4, <1>5, <1>6, <1>7, <1>8, <1>9, <1>10,
           LeafStep, ParentStep, CallStep DEF Next

-----------------------------------------------------------------------------
LEMMA Inductive == Spec => []IInv
<1>1. Init => IInv
  <2> SUFFICES ASSUME Init PROVE IInv
    OBVIOUS
  <2>1. TypeOK
    BY TypeInit
  <2>2. TokenInv /\ RequestInv
    BY DEF Init, TokenInv, RequestInv, Idle
  <2>3. KeyInv
    BY DEF Init, KeyInv, Trust
  <2> QED BY <2>1, <2>2, <2>3 DEF IInv
<1>2. IInv /\ [Next]_vars => IInv'
  BY TypeNext, TokenNext, KeyNext, RequestNext DEF IInv
<1> QED BY <1>1, <1>2, PTL DEF Spec

(* Type correctness of issuers, registry and verification.                 *)
THEOREM TypeCorrect == Spec => []TypeOK
<1>1. IInv => TypeOK
  BY DEF IInv
<1> QED BY <1>1, Inductive, PTL

(* A call that presents a root token is within the grant it was issued     *)
(* under, and so is one that presents a child that is narrower than it.    *)
LEMMA WithinIssued ==
    ASSUME NEW g \in GrantType, NEW root \in Claims, NEW leaf \in Claims, NEW call \in Call,
           IssuedUnder(g, root), leaf.sub = call.audience,
           leaf = root \/ Attenuated(root, leaf),
           leaf.prf # None => Attenuated(root, leaf),
           capability_covered(call.capability, leaf.capabilities),
           Honours(call.params, leaf.pins)
    PROVE  WithinGrant(g, root, leaf, call)
<1>0. /\ call.capability \in Capability /\ call.params \in Pins
      /\ g.pinned_params \in Pins /\ root.pins \in Pins /\ leaf.pins \in Pins
      /\ g.capabilities \in SUBSET Capability
      /\ root.capabilities \in SUBSET Capability /\ leaf.capabilities \in SUBSET Capability
  BY DelegationAssumption DEF GrantType, Claims
<1>1. g.iss = root.iss /\ g.sub = call.audience
  BY DEF IssuedUnder, Attenuated
<1>2. capability_covered(call.capability, g.capabilities)
  <2>1. capability_covered(call.capability, root.capabilities)
    <3>1. CASE leaf = root
      BY <3>1
    <3>2. CASE Attenuated(root, leaf)
      BY <1>0, <3>2, CoveredTransitive DEF Attenuated
    <3> QED BY <3>1, <3>2
  <2> QED BY <1>0, <2>1, CoveredTransitive DEF IssuedUnder
<1>3. \A n \in Param : g.pinned_params[n] # None => call.params[n] = g.pinned_params[n]
  <2> TAKE n \in Param
  <2> HAVE g.pinned_params[n] # None
  <2>1. root.pins[n] = g.pinned_params[n]
    BY <1>0, HonoursIsEqual DEF IssuedUnder
  <2>2. leaf.pins[n] = root.pins[n]
    <3>1. CASE leaf = root
      BY <3>1
    <3>2. CASE Attenuated(root, leaf)
      BY <1>0, <2>1, <3>2, HonoursIsEqual DEF Attenuated, NotWider
    <3> QED BY <3>1, <3>2
  <2>3. call.params[n] = leaf.pins[n]
    BY <1>0, <2>1, <2>2, HonoursIsEqual
  <2> QED BY <2>1, <2>2, <2>3
<1>4. leaf.exp <= root.iat + g.max_ttl_seconds
  <2>1. /\ leaf.exp \in Int /\ root.exp \in Int /\ root.iat \in Int
        /\ g.max_ttl_seconds \in Int
    BY LifetimeAssumption DEF Claims, GrantType
  <2>2. leaf.exp <= root.exp
    BY <2>1 DEF Attenuated
  <2> QED BY <2>1, <2>2 DEF IssuedUnder
<1>5. \A n \in LimitName : ~ limit_is_wider(leaf.limits[n], g.limits[n])
  <2> TAKE n \in LimitName
  <2>1. leaf.limits[n] \in Limit /\ root.limits[n] \in Limit /\ g.limits[n] \in Limit
    BY DEF Claims, GrantType
  <2>2. ~ limit_is_wider(root.limits[n], g.limits[n])
    BY DEF IssuedUnder
  <2>3. CASE leaf = root
    BY <2>2, <2>3
  <2>4. CASE Attenuated(root, leaf)
    BY <2>1, <2>2, <2>4, LimitTransitive DEF Attenuated, NotWider
  <2> QED BY <2>3, <2>4
<1>6. g.pinned_params[budget_id] # None =>
         leaf.shared_budget = g.pinned_params[budget_id]
  <2> HAVE g.pinned_params[budget_id] # None
  <2>1. root.shared_budget = g.pinned_params[budget_id] /\ root.shared_budget # None
    BY DEF IssuedUnder
  <2> QED BY <2>1 DEF Attenuated, NotWider
<1>7. leaf.prf # None => leaf.iss \in g.delegates
  <2> HAVE leaf.prf # None
  <2>1. root.dlg = leaf.iss /\ leaf.iss \in Agent
    BY DEF Attenuated, Claims
  <2> QED BY <2>1, DelegationAssumption DEF IssuedUnder
<1> QED BY <1>1, <1>2, <1>3, <1>4, <1>5, <1>6, <1>7 DEF WithinGrant

(* No amplification, whatever tokens are signed with unguarded keys and    *)
(* whatever happens to the registry during verification.                   *)
THEOREM NoAmplificationCorrect == Spec => []NoAmplification
<1>1. IInv => NoAmplification
  <2> SUFFICES ASSUME IInv, NEW r \in Request, req[r].pc = "executed"
               PROVE  \E g \in policy : WithinGrant(g, token[Root(req[r].token)],
                                                    token[req[r].token], req[r].call)
    BY DEF NoAmplification
  <2> DEFINE leaf == token[req[r].token]
             root == token[Root(req[r].token)]
  <2>1. req[r] \in Started /\ leaf \in Claims /\ req[r].token \in Token
    BY TokenFacts DEF Started
  <2>2. /\ LeafVetted(req[r], leaf) /\ ChainVetted(req[r], leaf)
        /\ capability_covered(req[r].call.capability, leaf.capabilities)
        /\ Honours(req[r].call.params, leaf.pins)
    BY DEF IInv, RequestInv, Progress
  <2>3. /\ Root(req[r].token) \in Token /\ root \in Claims
        /\ root.prf = None /\ root.kid \in PolicyKey
        /\ leaf = root \/ Attenuated(root, leaf)
        /\ leaf.prf # None => Attenuated(root, leaf)
    <3>1. CASE leaf.prf = None
      BY <2>1, <2>2, <3>1 DEF Root, ChainVetted
    <3>2. CASE leaf.prf # None
      BY <2>2, <3>2, TokenFacts DEF Root, ChainVetted, Attenuated
    <3> QED BY <3>1, <3>2
  <2>4. root # Unsigned
    BY <2>3, SignedIsSigned
  <2>5. PICK g \in policy : IssuedUnder(g, root)
    BY <2>3, <2>4 DEF IInv, TokenInv
  <2>6. g \in GrantType
    BY DelegationAssumption DEF IInv, TypeOK
  <2>7. leaf.sub = req[r].call.audience /\ req[r].call \in Call
    BY <2>1, <2>2 DEF LeafVetted, Started
  <2> HIDE DEF leaf, root
  <2>8. WithinGrant(g, root, leaf, req[r].call)
    BY <2>1, <2>2, <2>3, <2>5, <2>6, <2>7, WithinIssued
  <2> QED BY <2>8 DEF leaf, root
<1> QED BY <1>1, Inductive, PTL

(* A key withdrawn before a call began never helps that call.              *)
THEOREM RevokedKeyIsOutCorrect == Spec => []RevokedKeyIsOut
<1>1. IInv => RevokedKeyIsOut
  <2> SUFFICES ASSUME IInv, NEW r \in Request, req[r].pc = "executed", req[r].anchor = None
               PROVE  {TrustNeeded(token[req[r].token]),
                       TrustNeeded(token[Root(req[r].token)])} \cap req[r].struck = {}
    BY DEF RevokedKeyIsOut
  <2>1. LeafVetted(req[r], token[req[r].token]) /\ ChainVetted(req[r], token[req[r].token])
    BY DEF IInv, RequestInv, Progress
  <2>2. TrustNeeded(token[req[r].token]) \notin req[r].struck
    BY <2>1 DEF LeafVetted
  <2>3. TrustNeeded(token[Root(req[r].token)]) \notin req[r].struck
    BY <2>1, <2>2 DEF ChainVetted, Root
  <2> QED BY <2>2, <2>3
<1> QED BY <1>1, Inductive, PTL

(* attenuate() mints no child that verification turns down as amplified.   *)
THEOREM MintedChildStandsCorrect == Spec => []MintedChildStands
<1>1. IInv => MintedChildStands
  BY DEF IInv, RequestInv, Progress, MintedChildStands
<1> QED BY <1>1, Inductive, PTL

-----------------------------------------------------------------------------
LEMMA DistrustedMeans ==
    ASSUME IInv, NEW c \in Claims, ~ Trusted(c, None)
    PROVE  TrustNeeded(c) \in distrusted
<1>1. c.iss \in Agent /\ c.kid \in Key
  BY DEF Claims
<1> QED BY <1>1 DEF IInv, KeyInv, Trusted, TrustNeeded

(* Only the two lookups turn a call away for its key.                      *)
LEMMA UntrustedBy ==
    ASSUME IInv, [Next]_vars, NEW r \in Request,
           req[r].pc # "untrusted", req'[r].pc = "untrusted"
    PROVE  VerifyLeaf(r) \/ VerifyParent(r)
<1>1. ASSUME UNCHANGED req PROVE FALSE
  BY <1>1
<1>2. ASSUME NEW W, NEW G, Administered(W, G) PROVE FALSE
  <2>1. CASE req[r].pc = "idle"
    BY <1>2, <2>1 DEF Administered
  <2>2. CASE req[r].pc # "idle"
    <3>1. req[r] \in Started /\ req'[r] = [req[r] EXCEPT !.struck = @ \ G]
      BY <1>2, <2>2, TokenFacts DEF Administered
    <3> QED BY <3>1 DEF Started
  <2> QED BY <2>1, <2>2
<1>3. CASE UNCHANGED vars
  BY <1>1, <1>3 DEF vars
<1>4. CASE (\E g \in Grant : Allow(g)) \/ Tick
  BY <1>1, <1>4 DEF Allow, Tick
<1>5. CASE \E t \in Token, k \in Key, a \in Proposal :
             \/ Issue(t, k, a)
             \/ \E p \in Token : Attenuate(t, k, p, a)
             \/ \E p \in Token \cup {None}, skew \in Skews : SignElsewhere(t, k, p, a, skew)
  <2>1. UNCHANGED req
    BY <1>5, SigningOnlySigns
  <2> QED BY <1>1, <2>1
<1>6. CASE \/ \E ik \in RootKeys, rotate \in BOOLEAN : Register(ik[1], ik[2], rotate)
           \/ \E ik \in RootKeys : Revoke(ik[1], ik[2])
           \/ \E i \in Agent : RevokeIssuer(i)
           \/ \E ik \in HolderKeys : RegisterHolder(ik[1], ik[2]) \/ RevokeHolder(ik[1], ik[2])
  BY <1>2, <1>6 DEF Register, Revoke, RevokeIssuer, RegisterHolder, RevokeHolder
<1>7. ASSUME NEW s \in Request, NEW t \in Token, NEW call \in Call, NEW anchor \in Anchors,
             Present(s, t, call, anchor)
      PROVE  FALSE
  BY <1>7 DEF Present, IInv, TypeOK
<1>8. ASSUME NEW s \in Request, VerifyLeaf(s) \/ VerifyParent(s) \/ CheckCall(s)
      PROVE  VerifyLeaf(r) \/ VerifyParent(r)
  <2>1. CASE s # r
    <3>1. req'[r] = req[r]
      BY <1>8, <2>1 DEF VerifyLeaf, VerifyParent, CheckCall, IInv, TypeOK
    <3> QED BY <3>1
  <2>2. CASE s = r /\ CheckCall(r)
    <3>1. req[r] \in Started
      BY <2>2, TokenFacts DEF CheckCall
    <3>2. req'[r].pc \in {"executed", "denied"}
      BY <2>2, <3>1 DEF CheckCall, IInv, TypeOK, Started
    <3> QED BY <3>2
  <2> QED BY <1>8, <2>1, <2>2
<1> QED BY <1>3, <1>4, <1>5, <1>6, <1>7, <1>8 DEF Next

(* Rotation has no downtime: a call is turned away for its key only while  *)
(* administrators do not want a key of its chain trusted.                  *)
THEOREM RotationIsSeamlessCorrect == Spec => RotationIsSeamless
<1>1. ASSUME IInv, [Next]_vars, NEW r \in Request,
             req[r].pc # "untrusted", req'[r].pc = "untrusted", req[r].anchor = None
      PROVE  {TrustNeeded(token[req[r].token]),
              TrustNeeded(token[Root(req[r].token)])} \cap distrusted # {}
  <2> DEFINE c == token[req[r].token]
             p == token[c.prf]
  <2>1. VerifyLeaf(r) \/ VerifyParent(r)
    BY <1>1, UntrustedBy
  <2>2. req[r].pc # "idle" /\ req[r] \in Started /\ c \in Claims
    BY <1>1, <2>1, TokenFacts DEF VerifyLeaf, VerifyParent
  <2>3. CASE VerifyLeaf(r)
    <3>1. ~ Trusted(c, None)
      BY <1>1, <2>2, <2>3 DEF VerifyLeaf, IInv, TypeOK, Started
    <3>2. TrustNeeded(c) \in distrusted
      BY <1>1, <2>2, <3>1, DistrustedMeans
    <3> QED BY <3>2
  <2>4. CASE VerifyParent(r)
    <3>1. c.prf # None /\ p \in Claims
      BY <1>1, <2>2, <2>4, TokenFacts DEF VerifyParent, IInv, RequestInv, Progress
    <3>2. ~ Trusted(p, None)
      BY <1>1, <2>2, <2>4 DEF VerifyParent, IInv, TypeOK, Started
    <3>3. TrustNeeded(p) \in distrusted
      BY <1>1, <3>1, <3>2, DistrustedMeans
    <3>4. token[Root(req[r].token)] = p
      BY <3>1 DEF Root
    <3> QED BY <3>3, <3>4
  <2> QED BY <2>1, <2>3, <2>4
<1>2. IInv /\ [Next]_vars =>
        [\A r \in Request :
           req[r].pc # "untrusted" /\ req'[r].pc = "untrusted" /\ req[r].anchor = None =>
             LET leaf == token[req[r].token]
                 root == token[Root(req[r].token)]
             IN  {TrustNeeded(leaf), TrustNeeded(root)} \cap distrusted # {}]_vars
  BY <1>1
<1> QED BY <1>2, Inductive, PTL DEF Spec, RotationIsSeamless
=============================================================================
