----------------------- MODULE RedisUsageTrackerProofs -----------------------
(***************************************************************************)
(* Proofs about RedisUsageTracker, for every set of tokens and claims,     *)
(* every number of processes and requests, every TTL, rate window and      *)
(* clock resolution: the keys in Redis hold exact totals for as long as a  *)
(* token can be charged, the rate limit holds across processes, a refusal  *)
(* is justified, and the transactions implement the ledger that forgets    *)
(* nothing.                                                                *)
(***************************************************************************)
EXTENDS RedisUsageTracker, FiniteSetTheorems, TLAPS

-----------------------------------------------------------------------------
Totals == UNION {[S -> Nat] : S \in SUBSET Token}

RequestRecord ==
    [pc : {"idle", "verified"} \cup InTransaction \cup Charged \cup Ended,
     token : Token \cup {None}, amount : Nat, at : Nat, left : Seq(Token),
     totals : Totals, dirty : BOOLEAN]

Types ==
    /\ now \in Nat
    /\ DOMAIN db \subseteq Token
    /\ \A t \in DOMAIN db : db[t] \in Entry
    /\ req \in [Request -> RequestRecord]
    /\ ledger \in [Token -> [calls : Nat, spent : Nat]]
    /\ grants \subseteq Grant
    /\ drops \in 0 .. MaxDrops

Window == RateWindow * TicksPerSecond

Working == {"verified"} \cup InTransaction \cup Charged

Open == {"idle", "verified"} \cup InTransaction

Live(t) == now < RetainedUntil(Claims[t].exp)

-----------------------------------------------------------------------------
(* The inductive invariant.  What a key holds never exceeds what was       *)
(* committed, whether or not the key was dropped in between ...            *)
Bounded(t) ==
    /\ Stored(t).calls <= ledger[t].calls
    /\ Stored(t).amount <= ledger[t].spent
    /\ Stored(t).stamps \subseteq Granted(t)

(* ... and it is exact, down to the stamps in the window of the last       *)
(* commit, until the key was dropped.                                      *)
Exact(t) ==
    /\ Stored(t).calls = ledger[t].calls
    /\ Stored(t).amount = ledger[t].spent
    /\ \A g \in Granted(t) :
          (\A h \in Granted(t) : g.at >= h.at - Window) => g \in Stored(t).stamps

KeyInv(t) ==
    /\ Bounded(t)
    /\ t \in DOMAIN db => db[t].expires >= RetainedUntil(Claims[t].exp)
    /\ Live(t) => Exact(t)

(* What an undisturbed transaction has read of a key is still there, and   *)
(* no commit on the key has a later reading of the clock.                  *)
Reads(q, t) ==
    /\ Exact(t)
    /\ \A g \in Granted(t) : g.at <= q.at
    /\ t \in DOMAIN q.totals =>
          Allows(t, q.amount, q.at) /\ q.totals[t] = Stored(t).amount + q.amount

InOrder(t, left) == \E i \in 1 .. Len(left) : left[i] = t

Sound(q) ==
    /\ q.pc \in Working => q.token \in Token
    /\ q.amount \in (Amount \cap Nat) \cup {0}
    /\ q.at <= now
    /\ q.pc # "reading" => DOMAIN q.totals = {}
    /\ q.pc = "reading" =>
          /\ \A i \in 1 .. Len(q.left) : q.left[i] \in RecordedChain(q.token)
          /\ \A t \in RecordedChain(q.token) : t \in DOMAIN q.totals \/ InOrder(t, q.left)
          /\ q.dirty = FALSE => \A t \in RecordedChain(q.token) : Reads(q, t)

(* Every request is charged for what it presented, and more than once only *)
(* when a connection was lost in between.                                  *)
Accounted ==
    /\ \A r \in Request : req[r].pc \in Charged =>
          \E g \in grants : g.req = r /\ g.token = req[r].token
    /\ \A g, h \in grants : g.req = h.req /\ g.drops = h.drops => g = h

(* The commits that were made: a request that may commit again has lost a  *)
(* connection since its last one.                                          *)
GrantInv ==
    /\ IsFiniteSet(grants)
    /\ \A g \in grants : g.at <= now
    /\ \A g \in grants : req[g.req].pc \in Open => g.drops < drops
    /\ Accounted

UInv ==
    /\ Types
    /\ GrantInv
    /\ \A t \in Token : KeyInv(t)
    /\ \A r \in Request : Sound(req[r])
    /\ RateCap

-----------------------------------------------------------------------------
(* Facts about claims, chains and entries.                                 *)
LEMMA ClaimsFacts ==
    ASSUME NEW t \in Token
    PROVE  /\ Claims[t].exp \in Int
           /\ Claims[t].prf \in Token \cup {None}
           /\ Claims[t].max_calls \in Limit /\ Claims[t].max_amount_usd \in Limit
           /\ Claims[t].rate_limit_per_min \in Limit
           /\ RetainedUntil(Claims[t].exp) \in Int
  <1>1. Claims[t] \in ClaimsType
    BY TokensAssumption
  <1>2. Claims[t].exp \in Int
    BY <1>1 DEF ClaimsType
  <1>3. RetainedUntil(Claims[t].exp) \in Int
    BY <1>2, LifetimeAssumption DEF RetainedUntil, RetentionAfterExp
  <1> QED BY <1>1, <1>3 DEF ClaimsType

LEMMA WindowType == Window \in Nat
  BY RedisAssumption, LifetimeAssumption DEF Window

LEMMA ChainFacts ==
    ASSUME NEW t \in Token
    PROVE  /\ RecordedChain(t) \subseteq Token
           /\ ChainOrder(t) \in Seq(Token)
           /\ \A i \in 1 .. Len(ChainOrder(t)) : ChainOrder(t)[i] \in RecordedChain(t)
           /\ \A u \in RecordedChain(t) : InOrder(u, ChainOrder(t))
  <1>1. CASE RecordedChain(t) = {t}
    <2>1. ChainOrder(t) = <<t>>
      BY <1>1 DEF ChainOrder
    <2>2. ChainOrder(t) \in Seq(Token) /\ Len(ChainOrder(t)) = 1 /\ ChainOrder(t)[1] = t
      BY <2>1
    <2> QED BY <1>1, <2>2 DEF InOrder
  <1>2. CASE RecordedChain(t) # {t}
    <2> DEFINE p == Claims[t].prf
    <2>1. p # None /\ RecordedChain(t) = {p, t}
      BY <1>2 DEF RecordedChain, Chain
    <2>2. p \in Token
      BY <2>1, ClaimsFacts
    <2>3. ChainOrder(t) = <<p, t>>
      BY <1>2 DEF ChainOrder
    <2> HIDE DEF p
    <2>4. /\ ChainOrder(t) \in Seq(Token) /\ Len(ChainOrder(t)) = 2
          /\ ChainOrder(t)[1] = p /\ ChainOrder(t)[2] = t
      BY <2>2, <2>3
    <2> QED BY <2>1, <2>2, <2>4 DEF InOrder
  <1> QED BY <1>1, <1>2

LEMMA StoredType ==
    ASSUME Types, NEW t \in Token
    PROVE  /\ Stored(t) \in Entry
           /\ Stored(t).calls \in Nat /\ Stored(t).amount \in Nat
           /\ Stored(t).stamps \in SUBSET Grant
  <1>1. Stored(t) \in Entry
    BY DEF Types, Stored, Entry
  <1> QED BY <1>1 DEF Entry

LEMMA GrantedFinite ==
    ASSUME UInv, NEW t
    PROVE  /\ IsFiniteSet(Granted(t)) /\ Granted(t) \subseteq Grant
           /\ \A g \in Granted(t) : g.at \in Nat /\ g.at <= now
           /\ \A S \in SUBSET Granted(t) : IsFiniteSet(S) /\ Cardinality(S) \in Nat
  <1>1. Granted(t) \in SUBSET grants /\ grants \subseteq Grant /\ IsFiniteSet(grants)
          /\ \A g \in grants : g.at <= now
    BY DEF Granted, UInv, GrantInv, Types
  <1>2. \A S \in SUBSET Granted(t) : IsFiniteSet(S)
    BY <1>1, FS_Subset
  <1>3. \A g \in Grant : g.at \in Nat
    BY DEF Grant
  <1> QED BY <1>1, <1>2, <1>3, FS_CardinalityType

LEMMA Typed == UInv => TypeOK
  <1> SUFFICES ASSUME UInv PROVE TypeOK
    OBVIOUS
  <1>1. ASSUME NEW r \in Request
        PROVE  /\ DOMAIN req[r].totals \subseteq Token
               /\ \A t \in DOMAIN req[r].totals : req[r].totals[t] \in Nat
    <2>1. req[r].totals \in Totals
      BY DEF UInv, Types, RequestRecord
    <2> QED BY <2>1 DEF Totals
  <1> QED BY <1>1 DEF UInv, Types, TypeOK, RequestRecord

-----------------------------------------------------------------------------
(* A step as a key sees it, when it changes nothing about the key.         *)
SameGrants(t) == Granted(t)' = Granted(t)

SameKey(t) == Stored(t)' = Stored(t) /\ ledger'[t] = ledger[t] /\ SameGrants(t)

LEMMA SameKeyKeeps ==
    ASSUME NEW t, SameKey(t)
    PROVE  /\ Exact(t) => Exact(t)'
           /\ Bounded(t) => Bounded(t)'
           /\ \A q : Reads(q, t) => Reads(q, t)'
  <1>1. Exact(t) => Exact(t)'
    BY DEF SameKey, SameGrants, Exact
  <1>2. Bounded(t) => Bounded(t)'
    BY DEF SameKey, SameGrants, Bounded
  <1>3. ASSUME NEW q, Reads(q, t) PROVE Reads(q, t)'
    <2>1. Allows(t, q.amount, q.at) => Allows(t, q.amount, q.at)'
      BY DEF SameKey, SameGrants, Allows, Recent
    <2> QED BY <1>1, <1>3, <2>1 DEF Reads, SameKey, SameGrants
  <1> QED BY <1>1, <1>2, <1>3

(* The requests that a step does not mark keep what they have read.        *)
Moves(keys) ==
    /\ now' \in Nat /\ now' >= now
    /\ \A t \in Token \ keys : SameKey(t)

Marked(q, keys) ==
    IF q.pc \in InTransaction /\ RecordedChain(q.token) \cap keys # {}
    THEN [q EXCEPT !.dirty = TRUE] ELSE q

LEMMA TouchedIsMarked ==
    ASSUME NEW requests, NEW keys
    PROVE  /\ Touched(requests, keys) = [q \in Request |-> Marked(requests[q], keys)]
           /\ \A q \in Request : Touched(requests, keys)[q] = Marked(requests[q], keys)
  BY DEF Touched, Marked

LEMMA MarkedFacts ==
    ASSUME NEW q \in RequestRecord, NEW keys
    PROVE  /\ Marked(q, keys) \in RequestRecord
           /\ Marked(q, keys).pc = q.pc /\ Marked(q, keys).token = q.token
           /\ Marked(q, keys).amount = q.amount /\ Marked(q, keys).at = q.at
           /\ Marked(q, keys).left = q.left /\ Marked(q, keys).totals = q.totals
           /\ Marked(q, keys).dirty = IF q.pc \in InTransaction /\ RecordedChain(q.token) \cap keys # {}
                                      THEN TRUE ELSE q.dirty
  <1>1. CASE q.pc \in InTransaction /\ RecordedChain(q.token) \cap keys # {}
    <2>1. Marked(q, keys) = [q EXCEPT !.dirty = TRUE]
      BY <1>1 DEF Marked
    <2> QED BY <1>1, <2>1 DEF RequestRecord
  <1>2. CASE ~ (q.pc \in InTransaction /\ RecordedChain(q.token) \cap keys # {})
    <2>1. Marked(q, keys) = q
      BY <1>2 DEF Marked
    <2> QED BY <1>2, <2>1
  <1> QED BY <1>1, <1>2

LEMMA MovesKeepsSound ==
    ASSUME Types, NEW q \in RequestRecord, Sound(q), NEW keys, Moves(keys),
           NEW new, new = Marked(q, keys)
    PROVE  Sound(new)'
  <1>1. /\ new.pc = q.pc /\ new.token = q.token /\ new.amount = q.amount /\ new.at = q.at
        /\ new.left = q.left /\ new.totals = q.totals
        /\ new.dirty = IF q.pc \in InTransaction /\ RecordedChain(q.token) \cap keys # {}
                       THEN TRUE ELSE q.dirty
    BY MarkedFacts
  <1>2. q.at <= now'
    BY DEF Types, Sound, Moves, RequestRecord
  <1>3. ASSUME q.pc = "reading", new.dirty = FALSE, NEW t \in RecordedChain(q.token)
        PROVE  Reads(new, t)'
    <2>1. q.token \in Token
      BY <1>3 DEF Sound, Working, InTransaction
    <2>2. t \in Token \ keys /\ q.dirty = FALSE
      BY <1>1, <1>3, <2>1, ChainFacts DEF InTransaction
    <2>3. Reads(q, t)
      BY <1>3, <2>2 DEF Sound
    <2>4. Reads(q, t)'
      BY <2>2, <2>3, SameKeyKeeps DEF Moves
    <2> QED BY <1>1, <2>4 DEF Reads, Allows
  <1> QED BY <1>1, <1>2, <1>3 DEF Sound

LEMMA MovesInv ==
    ASSUME UInv, Types', NEW keys, Moves(keys), req' = Touched(req, keys), UNCHANGED <<grants, drops>>,
           \A t \in Token : KeyInv(t)', RateCap'
    PROVE  UInv'
  <1>1. ASSUME NEW q \in Request
        PROVE  Sound(req[q])' /\ req'[q].pc = req[q].pc /\ req'[q].token = req[q].token
    <2>1. PICK v \in RequestRecord : v = req[q]
      BY DEF UInv, Types
    <2>2. PICK new : new = Marked(v, keys)
      OBVIOUS
    <2>3. Sound(v) /\ Types
      BY <2>1 DEF UInv
    <2>4. Sound(new)'
      BY <2>2, <2>3, MovesKeepsSound
    <2>5. req'[q] = new
      BY <2>1, <2>2, TouchedIsMarked
    <2>6. new.pc = v.pc /\ new.token = v.token
      BY <2>2, MarkedFacts
    <2> QED BY <2>1, <2>4, <2>5, <2>6 DEF Sound, Reads, Allows
  <1>2. GrantInv'
    <2>1. \A g \in grants : g.req \in Request /\ g.at \in Nat
      BY DEF UInv, Types, Grant
    <2>2. now \in Nat /\ now' \in Nat /\ now <= now'
      BY DEF UInv, Types, Moves
    <2> QED BY <1>1, <2>1, <2>2 DEF UInv, GrantInv, Accounted
  <1> QED BY <1>1, <1>2 DEF UInv

(* The commits in the window that ends with a clock reading.               *)
InWindow(t, at) == {g \in Granted(t) : g.at <= at /\ g.at >= at - Window}

LEMMA RateCapIs ==
    RateCap <=> \A t \in Token : Claims[t].rate_limit_per_min # None =>
                    \A g \in Granted(t) :
                        Cardinality(InWindow(t, g.at)) <= Claims[t].rate_limit_per_min
  BY DEF RateCap, InWindow, Window

LEMMA SameGrantsRate ==
    ASSUME NEW t, SameGrants(t)
    PROVE  \A at : InWindow(t, at)' = InWindow(t, at)
  BY DEF SameGrants, InWindow

LEMMA RateKept ==
    ASSUME RateCap, \A t \in Token : SameGrants(t)
    PROVE  RateCap'
  <1> SUFFICES ASSUME NEW t \in Token, Claims[t].rate_limit_per_min # None, NEW g \in Granted(t)'
               PROVE  Cardinality(InWindow(t, g.at)') <= Claims[t].rate_limit_per_min
    BY RateCapIs DEF RateCap, InWindow, Window
  <1>1. g \in Granted(t)
    BY DEF SameGrants
  <1>2. InWindow(t, g.at)' = InWindow(t, g.at)
    BY SameGrantsRate
  <1> QED BY <1>1, <1>2, RateCapIs

-----------------------------------------------------------------------------
(* Steps of one request, which commit nothing.                             *)
LEMMA OneRequest ==
    ASSUME UInv, NEW r \in Request, NEW new \in RequestRecord, UNCHANGED <<now, db, ledger, grants>>,
           drops' \in 0 .. MaxDrops, drops' >= drops,
           req' = [req EXCEPT ![r] = new], Sound(new),
           new.pc \in Open => req[r].pc \in Open,
           new.pc \in Charged => req[r].pc \in Charged /\ new.token = req[r].token
    PROVE  UInv'
  <1>1. Types'
    BY DEF UInv, Types
  <1>2. \A q \in Request : req'[q] = IF q = r THEN new ELSE req[q]
    BY DEF UInv, Types
  <1>3. ASSUME NEW t \in Token PROVE SameKey(t)
    <2>1. Stored(t)' = Stored(t)
      BY DEF Stored
    <2>2. Granted(t)' = Granted(t)
      BY DEF Granted
    <2> QED BY <2>1, <2>2 DEF SameKey, SameGrants
  <1>4. ASSUME NEW t \in Token PROVE KeyInv(t)'
    BY <1>3, SameKeyKeeps DEF UInv, KeyInv, Live
  <1>5. RateCap'
    BY <1>3, RateKept DEF UInv, SameKey
  <1>6. Moves({})
    BY <1>3 DEF Moves, UInv, Types
  <1>7. ASSUME NEW q \in Request PROVE Sound(req[q])'
    <2>1. PICK v : v = req'[q]
      OBVIOUS
    <2>2. v \in RequestRecord /\ Sound(v) /\ Types
      BY <1>2, <2>1 DEF UInv, Types
    <2>3. v = Marked(v, {})
      BY DEF Marked
    <2>4. Sound(v)'
      BY <1>6, <2>2, <2>3, MovesKeepsSound
    <2> QED BY <2>1, <2>4 DEF Sound, Reads, Allows
  <1>8. GrantInv'
    <2>1. \A g \in grants : g.req \in Request /\ g.drops \in Nat
      BY DEF UInv, Types, Grant
    <2>2. \A g \in grants : req'[g.req].pc \in Open => g.drops < drops'
      <3> SUFFICES ASSUME NEW g \in grants, req'[g.req].pc \in Open PROVE g.drops < drops'
        OBVIOUS
      <3>1. req[g.req].pc \in Open
        BY <1>2, <2>1
      <3>2. g.drops < drops
        BY <3>1 DEF UInv, GrantInv
      <3>3. drops \in Nat /\ drops' \in Nat
        BY RedisAssumption DEF UInv, Types
      <3> QED BY <2>1, <3>2, <3>3
    <2>3. Accounted'
      BY <1>2 DEF UInv, GrantInv, Accounted
    <2> QED BY <2>2, <2>3 DEF UInv, GrantInv
  <1> QED BY <1>1, <1>4, <1>5, <1>7, <1>8 DEF UInv

LEMMA IdleFacts ==
    /\ Idle \in RequestRecord /\ Idle.totals \in Totals /\ DOMAIN Idle.totals = {}
    /\ Idle.at = 0 /\ Idle.amount = 0
    /\ \A pc \in {"denied", "late", "refused", "failed"} :
          Out(pc) \in RequestRecord /\ Out(pc).pc = pc /\ Out(pc).amount = 0 /\ Out(pc).at = 0
            /\ DOMAIN Out(pc).totals = {}
  <1> DEFINE none == [t \in {} |-> 0]
  <1>1. none \in [{} -> Nat] /\ DOMAIN none = {}
    OBVIOUS
  <1>2. none \in Totals
    BY <1>1 DEF Totals
  <1>3. Idle = [pc |-> "idle", token |-> None, amount |-> 0, at |-> 0,
                left |-> << >>, totals |-> none, dirty |-> FALSE]
    BY DEF Idle
  <1> HIDE DEF none
  <1>4. << >> \in Seq(Token)
    OBVIOUS
  <1>5. Idle \in RequestRecord /\ Idle.totals = none /\ Idle.at = 0 /\ Idle.amount = 0
    BY <1>2, <1>3, <1>4 DEF RequestRecord
  <1>6. ASSUME NEW pc \in {"denied", "late", "refused", "failed"}
        PROVE  Out(pc) \in RequestRecord /\ Out(pc).pc = pc /\ Out(pc).amount = 0
                 /\ Out(pc).at = 0 /\ Out(pc).totals = none
    BY <1>5 DEF Out, RequestRecord, Ended
  <1> QED BY <1>1, <1>2, <1>5, <1>6 DEF none

(* The number of lost connections, in a step that loses none.              *)
LEMMA DropsKept ==
    ASSUME UInv, UNCHANGED drops
    PROVE  drops' \in 0 .. MaxDrops /\ drops' >= drops
  BY RedisAssumption DEF UInv, Types

LEMMA DropsGrow ==
    ASSUME UInv, Lose
    PROVE  drops' \in 0 .. MaxDrops /\ drops' >= drops /\ drops' = drops + 1 /\ drops \in Nat
  BY RedisAssumption DEF UInv, Types, Lose

(* A request that ends without a commit.                                   *)
LEMMA OutInv ==
    ASSUME UInv, NEW r \in Request, NEW pc \in {"denied", "late", "refused", "failed"},
           UNCHANGED <<now, db, ledger, grants, drops>>, req' = [req EXCEPT ![r] = Out(pc)]
    PROVE  UInv'
  <1> DEFINE new == Out(pc)
  <1>1. new \in RequestRecord /\ new.pc = pc /\ new.amount = 0 /\ new.at = 0
          /\ DOMAIN new.totals = {}
    BY IdleFacts
  <1> HIDE DEF new
  <1>2. 0 <= now
    BY DEF UInv, Types
  <1>3. new.pc \notin Charged /\ new.pc \notin Open
    BY <1>1 DEF Charged, Open, InTransaction
  <1>4. new.pc \notin Working /\ new.pc # "reading"
    BY <1>1 DEF Working, InTransaction, Charged
  <1>5. Sound(new)
    BY <1>1, <1>2, <1>4 DEF Sound
  <1> QED BY <1>1, <1>3, <1>5, DropsKept, OneRequest DEF new

(* A request back at the top of its loop.                                  *)
LEMMA LoopInv ==
    ASSUME UInv, NEW r \in Request, req[r].pc \in InTransaction,
           UNCHANGED <<now, db, ledger, grants>>, drops' \in 0 .. MaxDrops, drops' >= drops,
           req' = [req EXCEPT ![r] = AtLoop(r, "verified")]
    PROVE  UInv'
  <1> DEFINE new == AtLoop(r, "verified")
  <1>0. req[r] \in RequestRecord /\ Sound(req[r]) /\ now \in Nat
    BY DEF UInv, Types
  <1>1. << >> \in Seq(Token)
    OBVIOUS
  <1>2. /\ new \in RequestRecord /\ new.pc = "verified" /\ new.token = req[r].token
        /\ new.amount = req[r].amount /\ new.at = 0 /\ new.totals = Idle.totals
    BY <1>0, <1>1, IdleFacts DEF AtLoop, RequestRecord
  <1> HIDE DEF new
  <1>3. Sound(new) /\ new.pc \notin Charged /\ req[r].pc \in Open
    BY <1>0, <1>2, IdleFacts DEF Sound, Working, InTransaction, Charged, Open
  <1> QED BY <1>2, <1>3, OneRequest DEF new

LEMMA VerifyInv ==
    ASSUME UInv, NEW r \in Request, NEW t \in Token, NEW amount \in Amount, Verify(r, t, amount)
    PROVE  UInv'
  <1>0. req[r].pc = "idle" /\ UNCHANGED <<now, db, ledger, grants, drops>> /\ req[r].pc \in Open
    BY DEF Verify, Open
  <1>1. CASE VerifiedAt(t, now) /\ ValidAmount(t, amount)
    <2> DEFINE new == [Idle EXCEPT !.pc = "verified", !.token = t, !.amount = ResolvedAmount(amount)]
    <2>1. ResolvedAmount(amount) \in (Amount \cap Nat) \cup {0}
      BY <1>1, RedisAssumption DEF ValidAmount, ResolvedAmount
    <2>2. req' = [req EXCEPT ![r] = new]
      BY <1>1 DEF Verify
    <2>3. /\ new \in RequestRecord /\ new.pc = "verified" /\ new.token = t
          /\ new.amount = ResolvedAmount(amount) /\ new.at = 0 /\ DOMAIN new.totals = {}
      BY <2>1, IdleFacts DEF RequestRecord
    <2> HIDE DEF new
    <2>4. Sound(new) /\ new.pc \notin Charged
      BY <2>1, <2>3 DEF Sound, Charged, UInv, Types
    <2> QED BY <1>0, <2>2, <2>3, <2>4, DropsKept, OneRequest
  <1>2. CASE ~ (VerifiedAt(t, now) /\ ValidAmount(t, amount))
    <2>1. req' = [req EXCEPT ![r] = Out("denied")]
      BY <1>2 DEF Verify
    <2> QED BY <1>0, <2>1, OutInv
  <1> QED BY <1>1, <1>2

LEMMA WatchInv ==
    ASSUME UInv, NEW r \in Request, Watch(r)
    PROVE  UInv'
  <1> DEFINE new == [req[r] EXCEPT !.pc = "watched"]
  <1>0. /\ req[r] \in RequestRecord /\ Sound(req[r]) /\ req[r].pc = "verified"
        /\ UNCHANGED <<now, db, ledger, grants, drops>> /\ req' = [req EXCEPT ![r] = new]
    BY DEF Watch, UInv, Types
  <1>1. /\ new \in RequestRecord /\ new.pc = "watched" /\ new.token = req[r].token
        /\ new.amount = req[r].amount /\ new.at = req[r].at /\ new.totals = req[r].totals
    BY <1>0 DEF RequestRecord, InTransaction
  <1> HIDE DEF new
  <1>2. Sound(new) /\ new.pc \notin Charged /\ req[r].pc \in Open
    BY <1>0, <1>1 DEF Sound, Working, InTransaction, Charged, Open
  <1> QED BY <1>0, <1>1, <1>2, DropsKept, OneRequest

LEMMA FailsInv ==
    ASSUME UInv, NEW r \in Request, Fails(r)
    PROVE  UInv'
  BY OutInv DEF Fails

LEMMA ExecuteInv ==
    ASSUME UInv, NEW r \in Request, Execute(r)
    PROVE  UInv'
  <1> DEFINE new == [req[r] EXCEPT !.pc = "executed"]
  <1>0. /\ req[r] \in RequestRecord /\ Sound(req[r]) /\ req[r].pc = "reserved"
        /\ UNCHANGED <<now, db, ledger, grants, drops>> /\ req' = [req EXCEPT ![r] = new]
    BY DEF Execute, UInv, Types
  <1>1. /\ new \in RequestRecord /\ new.pc = "executed" /\ new.token = req[r].token
        /\ new.amount = req[r].amount /\ new.at = req[r].at /\ new.totals = req[r].totals
    BY <1>0 DEF RequestRecord, Charged
  <1> HIDE DEF new
  <1>2. Sound(new) /\ req[r].pc \in Charged /\ new.pc \notin Open
    BY <1>0, <1>1 DEF Sound, Working, InTransaction, Charged, Open
  <1> QED BY <1>0, <1>1, <1>2, DropsKept, OneRequest

LEMMA ExecAbortsInv ==
    ASSUME UInv, NEW r \in Request, ExecAborts(r)
    PROVE  UInv'
  <1>1. req[r].pc \in InTransaction /\ UNCHANGED <<now, db, ledger, grants, drops>>
          /\ req' = [req EXCEPT ![r] = AtLoop(r, "verified")]
    BY DEF ExecAborts, InTransaction
  <1> QED BY <1>1, DropsKept, LoopInv

LEMMA DropsInv ==
    ASSUME UInv, NEW r \in Request, Drops(r)
    PROVE  UInv'
  <1>1. req[r].pc \in InTransaction /\ UNCHANGED <<now, db, ledger, grants>> /\ Lose
          /\ req' = [req EXCEPT ![r] = AtLoop(r, "verified")]
    BY DEF Drops
  <1> QED BY <1>1, DropsGrow, LoopInv

(* The clock reading starts an attempt: the chain is alive, its keys are   *)
(* exact, and no commit on them is later.                                  *)
LEMMA ReadClockInv ==
    ASSUME UInv, NEW r \in Request, ReadClock(r)
    PROVE  UInv'
  <1>0. /\ req[r] \in RequestRecord /\ Sound(req[r]) /\ req[r].pc = "watched" /\ now \in Nat
        /\ UNCHANGED <<now, db, ledger, grants, drops>> /\ req[r].pc \in Open
    BY DEF ReadClock, UInv, Types, Open, InTransaction
  <1> DEFINE k == req[r].token
             late == \E t \in RecordedChain(k) : now >= RetainedUntil(Claims[t].exp)
  <1>1. k \in Token /\ DOMAIN req[r].totals = {}
    BY <1>0 DEF Sound, Working, InTransaction
  <1>2. CASE late
    <2>1. req' = [req EXCEPT ![r] = Out("late")]
      BY <1>2 DEF ReadClock
    <2> QED BY <1>0, <2>1, OutInv
  <1>3. CASE ~ late
    <2> DEFINE new == [req[r] EXCEPT !.pc = "reading", !.at = now, !.left = ChainOrder(k)]
    <2>1. req' = [req EXCEPT ![r] = new]
      BY <1>3 DEF ReadClock
    <2>2. ChainOrder(k) \in Seq(Token)
      BY <1>1, ChainFacts
    <2>3. /\ new \in RequestRecord /\ new.pc = "reading" /\ new.token = k /\ new.at = now
          /\ new.amount = req[r].amount /\ new.left = ChainOrder(k)
          /\ DOMAIN new.totals = {}
      BY <1>0, <1>1, <2>2 DEF RequestRecord, InTransaction
    <2> HIDE DEF new
    <2>4. ASSUME NEW t \in RecordedChain(k) PROVE Reads(new, t)
      <3>1. t \in Token /\ RetainedUntil(Claims[t].exp) \in Int
        BY <1>1, ChainFacts, ClaimsFacts
      <3>2. Exact(t)
        BY <1>0, <1>3, <3>1 DEF UInv, KeyInv, Live
      <3>3. \A g \in Granted(t) : g.at <= now
        BY GrantedFinite
      <3> QED BY <2>3, <3>2, <3>3 DEF Reads
    <2>5. /\ \A i \in 1 .. Len(new.left) : new.left[i] \in RecordedChain(k)
          /\ \A t \in RecordedChain(k) : InOrder(t, new.left)
      BY <1>1, <2>3, ChainFacts
    <2>6. Sound(new) /\ new.pc \notin Charged
      BY <1>0, <1>1, <2>3, <2>4, <2>5 DEF Sound, Charged
    <2> QED BY <1>0, <2>1, <2>3, <2>6, DropsKept, OneRequest
  <1> QED BY <1>2, <1>3

LEMMA TailInOrder ==
    ASSUME NEW left \in Seq(Token), left # << >>
    PROVE  /\ Tail(left) \in Seq(Token) /\ Head(left) \in Token
           /\ Head(left) = left[1] /\ 1 \in 1 .. Len(left)
           /\ \A i \in 1 .. Len(Tail(left)) : i + 1 \in 1 .. Len(left) /\ Tail(left)[i] = left[i + 1]
           /\ \A t : InOrder(t, left) => t = Head(left) \/ InOrder(t, Tail(left))
  <1>1. /\ Tail(left) \in Seq(Token) /\ Head(left) \in Token /\ Len(left) \in Nat
        /\ Head(left) = left[1] /\ 1 \in 1 .. Len(left) /\ Len(Tail(left)) = Len(left) - 1
        /\ \A i \in 1 .. Len(Tail(left)) : Tail(left)[i] = left[i + 1]
    OBVIOUS
  <1>2. \A i \in 1 .. Len(Tail(left)) : i + 1 \in 1 .. Len(left)
    BY <1>1
  <1>3. ASSUME NEW t, NEW i \in 1 .. Len(left), left[i] = t, i # 1
        PROVE  InOrder(t, Tail(left))
    <2>1. i - 1 \in 1 .. Len(Tail(left)) /\ Tail(left)[i - 1] = left[i]
      BY <1>1, <1>3
    <2> QED BY <1>3, <2>1 DEF InOrder
  <1> QED BY <1>1, <1>2, <1>3 DEF InOrder

LEMMA ReadKeyInv ==
    ASSUME UInv, NEW r \in Request, ReadKey(r)
    PROVE  UInv'
  <1> DEFINE q == req[r]
             t == Head(q.left)
             sum == Stored(t).amount + q.amount
             read == [u \in DOMAIN q.totals \cup {t} |-> IF u = t THEN sum ELSE q.totals[u]]
             new == [q EXCEPT !.left = Tail(@), !.totals = read]
  <1>0. /\ q \in RequestRecord /\ Sound(q) /\ q.pc = "reading" /\ Types
        /\ q.left # << >> /\ Allows(t, q.amount, q.at)
        /\ UNCHANGED <<now, db, ledger, grants, drops>>
    BY DEF ReadKey, UInv, Types
  <1>1. req' = [req EXCEPT ![r] = new]
    BY DEF ReadKey, UInv, Types
  <1>2. q.left \in Seq(Token) /\ q.totals \in Totals /\ q.amount \in Nat /\ q.token \in Token
    BY <1>0 DEF RequestRecord, Sound, Working, InTransaction
  <1>3. Tail(q.left) \in Seq(Token) /\ t \in Token
    BY <1>0, <1>2, TailInOrder
  <1>4. sum \in Nat
    BY <1>0, <1>2, <1>3, StoredType
  <1> HIDE DEF t, sum
  <1>5. DOMAIN read = DOMAIN q.totals \cup {t} /\ read \in Totals
    <2>1. DOMAIN q.totals \subseteq Token /\ \A u \in DOMAIN q.totals : q.totals[u] \in Nat
      BY <1>2 DEF Totals
    <2>2. read \in [DOMAIN q.totals \cup {t} -> Nat]
      BY <1>4, <2>1
    <2> QED BY <1>3, <2>1, <2>2 DEF Totals
  <1>6. read[t] = sum /\ \A u \in DOMAIN q.totals : u # t => read[u] = q.totals[u]
    OBVIOUS
  <1> HIDE DEF read
  <1>7. /\ new \in RequestRecord /\ new.pc = "reading" /\ new.token = q.token /\ new.at = q.at
        /\ new.amount = q.amount /\ new.left = Tail(q.left) /\ new.totals = read
        /\ new.dirty = q.dirty
    BY <1>0, <1>3, <1>5 DEF RequestRecord
  <1>8. \A i \in 1 .. Len(new.left) : new.left[i] \in RecordedChain(q.token)
    BY <1>0, <1>2, <1>7, TailInOrder DEF Sound
  <1>9. \A u \in RecordedChain(q.token) : u \in DOMAIN read \/ InOrder(u, new.left)
    BY <1>0, <1>2, <1>5, <1>7, TailInOrder DEF Sound, t
  <1>10. ASSUME q.dirty = FALSE, NEW u \in RecordedChain(q.token) PROVE Reads(new, u)
    <2>1. Reads(q, u)
      BY <1>0, <1>10 DEF Sound
    <2>2. u \in DOMAIN read => Allows(u, q.amount, q.at) /\ read[u] = Stored(u).amount + q.amount
      BY <1>0, <1>5, <1>6, <2>1 DEF Reads, sum
    <2> HIDE DEF q, new
    <2> QED BY <1>7, <2>1, <2>2 DEF Reads
  <1>11. q.at <= now /\ q.amount \in (Amount \cap Nat) \cup {0}
    BY <1>0 DEF Sound
  <1> HIDE DEF new
  <1>12. Sound(new)
    BY <1>2, <1>5, <1>7, <1>8, <1>9, <1>10, <1>11 DEF Sound
  <1>13. new.pc \notin Charged /\ q.pc \in Open
    BY <1>0, <1>7 DEF Charged, Open, InTransaction
  <1> QED BY <1>0, <1>1, <1>7, <1>12, <1>13, DropsKept, OneRequest

LEMMA ReadKeyRefusedInv ==
    ASSUME UInv, NEW r \in Request, ReadKeyRefused(r)
    PROVE  UInv'
  BY OutInv DEF ReadKeyRefused

(* Time passes.  Redis drops only keys of tokens that are dead then.       *)
LEMMA TickInv ==
    ASSUME UInv, Tick
    PROVE  UInv'
  <1>0. /\ now \in Nat /\ now' = now + 1 /\ UNCHANGED <<ledger, grants, drops>> /\ Types
        /\ ledger \in [Token -> [calls : Nat, spent : Nat]]
    BY DEF UInv, Types, Tick
  <1>1. PICK gone : /\ gone = {t \in DOMAIN db : db[t].expires <= now + 1}
                    /\ db' = [t \in DOMAIN db \ gone |-> db[t]]
                    /\ req' = Touched(req, gone)
    BY DEF Tick
  <1>2. ASSUME NEW q \in Request
        PROVE  Marked(req[q], gone) \in RequestRecord
    <2>1. PICK v \in RequestRecord : v = req[q]
      BY DEF UInv, Types
    <2> QED BY <2>1, MarkedFacts
  <1>3. Types'
    <2>1. req' = [q \in Request |-> Marked(req[q], gone)]
      BY <1>1, TouchedIsMarked
    <2>2. req' \in [Request -> RequestRecord]
      BY <1>2, <2>1
    <2>3. DOMAIN db' \subseteq Token /\ \A t \in DOMAIN db' : db'[t] \in Entry
      BY <1>1 DEF UInv, Types
    <2> QED BY <1>0, <2>2, <2>3 DEF Types
  <1>4. \A t \in Token : SameGrants(t)
    BY <1>0 DEF SameGrants, Granted
  <1>5. ASSUME NEW t \in Token \ gone PROVE SameKey(t)
    <2>1. Stored(t)' = Stored(t)
      BY <1>1 DEF Stored
    <2> QED BY <1>0, <1>4, <2>1 DEF SameKey
  <1>6. ASSUME NEW t \in Token PROVE KeyInv(t)'
    <2>0. RetainedUntil(Claims[t].exp) \in Int /\ KeyInv(t)
      BY ClaimsFacts DEF UInv
    <2>1. CASE t \in gone
      <3>1. db[t].expires \in Nat
        BY <1>1, <2>1 DEF UInv, Types, Entry
      <3>2. ~ Live(t)'
        BY <1>0, <1>1, <2>0, <2>1, <3>1 DEF KeyInv, Live
      <3>3. t \notin DOMAIN db'
        BY <1>1, <2>1
      <3>4. Stored(t)' = [calls |-> 0, amount |-> 0, stamps |-> {}, expires |-> 0]
        BY <3>3 DEF Stored
      <3>5. ledger'[t].calls \in Nat /\ ledger'[t].spent \in Nat
        BY <1>0
      <3>6. Bounded(t)'
        BY <3>4, <3>5 DEF Bounded
      <3> QED BY <3>2, <3>3, <3>6 DEF KeyInv
    <2>2. CASE t \notin gone
      <3>1. SameKey(t)
        BY <1>5, <2>2
      <3>2. Live(t)' => Live(t)
        BY <1>0, <2>0 DEF Live
      <3>3. t \in DOMAIN db' => t \in DOMAIN db /\ db'[t] = db[t]
        BY <1>1
      <3> QED BY <2>0, <3>1, <3>2, <3>3, SameKeyKeeps DEF KeyInv
    <2> QED BY <2>1, <2>2
  <1>7. RateCap'
    BY <1>4, RateKept DEF UInv
  <1>8. Moves(gone)
    BY <1>0, <1>5 DEF Moves
  <1> QED BY <1>0, <1>1, <1>3, <1>6, <1>7, <1>8, MovesInv

-----------------------------------------------------------------------------
(* The TTL of a key outlasts the token, however late EXEC is after the     *)
(* clock was read.                                                         *)
LEMMA RoundedUp ==
    ASSUME NEW n \in Int
    PROVE  /\ (n + TicksPerSecond - 1) \div TicksPerSecond \in Int
           /\ ((n + TicksPerSecond - 1) \div TicksPerSecond) * TicksPerSecond >= n
  BY LifetimeAssumption, Z3

LEMMA TimesMonotone ==
    ASSUME NEW m \in Int, NEW n \in Int, m <= n
    PROVE  m * TicksPerSecond <= n * TicksPerSecond /\ m * TicksPerSecond \in Int
  BY LifetimeAssumption, Z3

LEMMA TTLOutlasts ==
    ASSUME NEW t \in Token, NEW read \in Nat, NEW i \in Nat, read <= i
    PROVE  /\ i + TTL(t, read) * TicksPerSecond \in Nat
           /\ i + TTL(t, read) * TicksPerSecond >= RetainedUntil(Claims[t].exp)
  <1> DEFINE until == RetainedUntil(Claims[t].exp)
             left == (until - read + TicksPerSecond - 1) \div TicksPerSecond
  <1>1. until \in Int
    BY ClaimsFacts
  <1>2. TTL(t, read) = IF KeyTTL > left THEN KeyTTL ELSE left
    BY DEF TTL
  <1> HIDE DEF until
  <1>3. left \in Int /\ left * TicksPerSecond >= until - read
    BY <1>1, RoundedUp
  <1> HIDE DEF left
  <1>4. TTL(t, read) \in Int /\ 0 <= TTL(t, read) /\ left <= TTL(t, read)
    BY <1>2, <1>3, RedisAssumption
  <1>5. /\ left * TicksPerSecond <= TTL(t, read) * TicksPerSecond
        /\ 0 * TicksPerSecond <= TTL(t, read) * TicksPerSecond
        /\ TTL(t, read) * TicksPerSecond \in Int /\ left * TicksPerSecond \in Int
    BY <1>3, <1>4, TimesMonotone
  <1>6. 0 * TicksPerSecond = 0
    BY LifetimeAssumption
  <1> QED BY <1>1, <1>3, <1>5, <1>6 DEF until

(* What ZCOUNT answers never exceeds the commits in the window ...         *)
Since(t, at) == {g \in Granted(t) : g.at >= at - Window}

LEMMA RecentIsGranted ==
    ASSUME UInv, NEW t \in Token, NEW at
    PROVE  /\ IsFiniteSet(Since(t, at)) /\ Cardinality(Since(t, at)) \in Nat
           /\ Recent(t, at) \subseteq Since(t, at) /\ Cardinality(Recent(t, at)) \in Nat
           /\ Cardinality(Recent(t, at)) <= Cardinality(Since(t, at))
  <1>1. IsFiniteSet(Since(t, at)) /\ Cardinality(Since(t, at)) \in Nat
    BY GrantedFinite DEF Since
  <1>2. Recent(t, at) \subseteq Since(t, at)
    BY DEF UInv, KeyInv, Bounded, Recent, Since, Window
  <1> QED BY <1>1, <1>2, FS_Subset, FS_CardinalityType

(* ... and is their number for a transaction that was not disturbed.       *)
LEMMA RecentIsAll ==
    ASSUME UInv, NEW t \in Token, NEW q \in RequestRecord, Reads(q, t)
    PROVE  /\ Recent(t, q.at) = Since(t, q.at)
           /\ Since(t, q.at) = InWindow(t, q.at)
  <1>0. q.at \in Nat /\ Window \in Nat /\ \A g \in Granted(t) : g.at \in Nat
    BY WindowType, GrantedFinite DEF RequestRecord
  <1>1. ASSUME NEW g \in Since(t, q.at) PROVE g \in Recent(t, q.at)
    <2>1. /\ g \in Granted(t) /\ g.at >= q.at - Window
          /\ \A h \in Granted(t) : h.at <= q.at
      BY DEF Since, Reads
    <2>2. \A h \in Granted(t) : g.at >= h.at - Window
      BY <1>0, <2>1
    <2>3. g \in Stored(t).stamps
      BY <2>1, <2>2 DEF Reads, Exact
    <2> QED BY <2>1, <2>3 DEF Recent, Window
  <1>2. Since(t, q.at) = InWindow(t, q.at)
    BY DEF Since, InWindow, Reads
  <1> QED BY <1>1, <1>2, RecentIsGranted

-----------------------------------------------------------------------------
(* EXEC.  The transaction that commits has read every key of its chain,    *)
(* and what it read is what is there.                                      *)
LEMMA CommitReads ==
    ASSUME UInv, NEW r \in Request, NEW outcome, ExecCommits(r, outcome)
    PROVE  /\ req[r] \in RequestRecord /\ req[r].pc = "reading" /\ req[r].dirty = FALSE
           /\ req[r].token \in Token /\ RecordedChain(req[r].token) \subseteq Token
           /\ req[r].at \in Nat /\ req[r].at <= now /\ req[r].amount \in Nat
           /\ req[r].amount \in (Amount \cap Nat) \cup {0}
           /\ \A t \in RecordedChain(req[r].token) :
                 /\ Reads(req[r], t)
                 /\ Allows(t, req[r].amount, req[r].at)
                 /\ req[r].totals[t] = Stored(t).amount + req[r].amount
  <1>1. PICK q \in RequestRecord : q = req[r]
    BY DEF UInv, Types
  <1>2. Sound(q) /\ q.pc = "reading" /\ q.left = << >> /\ q.dirty = FALSE
    BY <1>1 DEF UInv, ExecCommits, Undisturbed, RequestRecord
  <1>3. q.token \in Token /\ RecordedChain(q.token) \subseteq Token
    BY <1>2, ChainFacts DEF Sound, Working, InTransaction
  <1>4. \A t : ~ InOrder(t, q.left)
    BY <1>2 DEF InOrder
  <1>5. \A t \in RecordedChain(q.token) : t \in DOMAIN q.totals /\ Reads(q, t)
    BY <1>2, <1>4 DEF Sound
  <1>6. \A t \in RecordedChain(q.token) :
           Allows(t, q.amount, q.at) /\ q.totals[t] = Stored(t).amount + q.amount
    BY <1>5 DEF Reads
  <1>7. q.at \in Nat /\ q.amount \in Nat
    BY DEF RequestRecord
  <1>8. q.at <= now /\ q.amount \in (Amount \cap Nat) \cup {0}
    BY <1>2 DEF Sound
  <1> QED BY <1>1, <1>2, <1>3, <1>5, <1>6, <1>7, <1>8

(* The requests afterwards: one is charged, and the transactions that      *)
(* watch one of its keys are marked.                                       *)
Answers == {"reserved", "lost", "verified"}

LEMMA CommitRequests ==
    ASSUME UInv, NEW r \in Request, NEW outcome \in Answers, ExecCommits(r, outcome),
           NEW chain, chain = RecordedChain(req[r].token)
    PROVE  /\ req' \in [Request -> RequestRecord]
           /\ \A q \in Request : q # r => req'[q] = Marked(req[q], chain)
           /\ \A q \in Request : /\ req'[q].pc = IF q = r THEN outcome ELSE req[q].pc
                                 /\ req'[q].token = req[q].token
           /\ req'[r].amount = req[r].amount /\ req'[r].at = 0 /\ DOMAIN req'[r].totals = {}
  <1> DEFINE done == AtLoop(r, outcome)
             requests == [req EXCEPT ![r] = done]
  <1>0. req' = Touched(requests, chain)
    BY DEF ExecCommits
  <1>1. req[r] \in RequestRecord /\ << >> \in Seq(Token)
          /\ outcome \in {"idle", "verified"} \cup InTransaction \cup Charged \cup Ended
    BY DEF Answers, Charged, UInv, Types
  <1>2. /\ done \in RequestRecord /\ done.pc = outcome /\ done.token = req[r].token
        /\ done.amount = req[r].amount /\ done.at = 0 /\ DOMAIN done.totals = {}
    BY <1>1, IdleFacts DEF AtLoop, RequestRecord
  <1> HIDE DEF done
  <1>3. \A q \in Request : requests[q] = IF q = r THEN done ELSE req[q]
    BY DEF UInv, Types
  <1> HIDE DEF requests
  <1>4. /\ req' = [q \in Request |-> Marked(requests[q], chain)]
        /\ \A q \in Request : req'[q] = Marked(requests[q], chain)
    BY <1>0, TouchedIsMarked
  <1>5. ASSUME NEW q \in Request
        PROVE  /\ Marked(requests[q], chain) \in RequestRecord
               /\ req'[q].pc = requests[q].pc /\ req'[q].token = requests[q].token
    <2>1. PICK v \in RequestRecord : v = requests[q]
      BY <1>2, <1>3 DEF UInv, Types
    <2>2. /\ Marked(v, chain) \in RequestRecord
          /\ Marked(v, chain).pc = v.pc /\ Marked(v, chain).token = v.token
      BY MarkedFacts
    <2>3. req'[q] = Marked(v, chain)
      BY <1>4, <2>1
    <2> QED BY <2>1, <2>2, <2>3
  <1>6. req' \in [Request -> RequestRecord]
    BY <1>4, <1>5
  <1>7. req'[r] = done
    <2>1. done.pc \notin InTransaction
      BY <1>2 DEF InTransaction, Answers
    <2> QED BY <1>3, <1>4, <2>1 DEF Marked
  <1> QED BY <1>2, <1>3, <1>4, <1>5, <1>6, <1>7

(* The commit is a new one, although the request may have made others.     *)
LEMMA CommitIsNew ==
    ASSUME UInv, NEW r \in Request, NEW outcome, ExecCommits(r, outcome)
    PROVE  /\ Commit(r) \in Grant /\ Commit(r) \notin grants
           /\ Commit(r).req = r /\ Commit(r).token = req[r].token /\ Commit(r).at = req[r].at
           /\ Commit(r).drops = drops
           /\ \A g \in grants : g.req = r => g.drops < drops
           /\ grants' = grants \cup {Commit(r)}
  <1>1. req[r].pc \in Open /\ req[r].token \in Token /\ req[r].at \in Nat
    BY CommitReads DEF Open, InTransaction
  <1>2. \A g \in grants : g.req = r => g.drops < drops
    BY <1>1 DEF UInv, GrantInv
  <1>3. drops \in Nat
    BY RedisAssumption DEF UInv, Types
  <1>4. /\ Commit(r) \in Grant /\ Commit(r).req = r /\ Commit(r).token = req[r].token
        /\ Commit(r).at = req[r].at /\ Commit(r).drops = drops
    BY <1>1, <1>3 DEF Commit, Grant
  <1>5. Commit(r) \notin grants
    BY <1>2, <1>3, <1>4
  <1> QED BY <1>2, <1>4, <1>5 DEF ExecCommits

(* The keys afterwards.                                                    *)
LEMMA CommitKeys ==
    ASSUME UInv, NEW r \in Request, NEW outcome \in Answers, ExecCommits(r, outcome),
           NEW chain, chain = RecordedChain(req[r].token), NEW t \in Token
    PROVE  /\ Granted(t)' = IF t \in chain THEN Granted(t) \cup {Commit(r)} ELSE Granted(t)
           /\ Commit(r) \notin Granted(t)
           /\ t \notin chain => SameKey(t) /\ (t \in DOMAIN db' => t \in DOMAIN db /\ db'[t] = db[t])
           /\ t \in chain =>
                 /\ t \in DOMAIN db' /\ Stored(t)' = db'[t]
                 /\ db'[t].calls = Stored(t).calls + 1
                 /\ db'[t].amount = Stored(t).amount + req[r].amount
                 /\ db'[t].stamps = Recent(t, req[r].at) \cup {Commit(r)}
                 /\ db'[t].expires = now + TTL(t, req[r].at) * TicksPerSecond
                 /\ ledger'[t].calls = ledger[t].calls + 1
                 /\ ledger'[t].spent = ledger[t].spent + req[r].amount
  <1>1. Commit(r) \notin Granted(t)
    BY CommitIsNew DEF Granted
  <1>2. Granted(t)' = IF t \in chain THEN Granted(t) \cup {Commit(r)} ELSE Granted(t)
    BY CommitIsNew DEF Granted
  <1>3. db' = Written(r) /\ ledger' = Ledger!Charge(chain, req[r].amount)
    BY DEF ExecCommits
  <1>4. t \notin chain => SameKey(t) /\ (t \in DOMAIN db' => t \in DOMAIN db /\ db'[t] = db[t])
    <2> SUFFICES ASSUME t \notin chain
                 PROVE  SameKey(t) /\ (t \in DOMAIN db' => t \in DOMAIN db /\ db'[t] = db[t])
      OBVIOUS
    <2>1. /\ t \in DOMAIN db' <=> t \in DOMAIN db
          /\ t \in DOMAIN db => db'[t] = db[t]
      BY <1>3 DEF Written
    <2>2. Stored(t)' = Stored(t)
      BY <2>1 DEF Stored
    <2>3. ledger'[t] = ledger[t]
      BY <1>3 DEF Ledger!Charge
    <2>4. SameGrants(t)
      BY <1>2 DEF SameGrants
    <2> QED BY <2>1, <2>2, <2>3, <2>4 DEF SameKey
  <1>5. ASSUME t \in chain
        PROVE  /\ t \in DOMAIN db' /\ Stored(t)' = db'[t]
               /\ db'[t].calls = Stored(t).calls + 1
               /\ db'[t].amount = Stored(t).amount + req[r].amount
               /\ db'[t].stamps = Recent(t, req[r].at) \cup {Commit(r)}
               /\ db'[t].expires = now + TTL(t, req[r].at) * TicksPerSecond
    <2>1. /\ t \in DOMAIN db'
          /\ db'[t] = [calls   |-> Stored(t).calls + 1,
                       amount  |-> req[r].totals[t],
                       stamps  |-> Recent(t, req[r].at) \cup {Commit(r)},
                       expires |-> now + TTL(t, req[r].at) * TicksPerSecond]
      BY <1>3, <1>5 DEF Written
    <2>2. req[r].totals[t] = Stored(t).amount + req[r].amount
      BY <1>5, CommitReads
    <2>3. Stored(t)' = db'[t]
      BY <2>1 DEF Stored
    <2> QED BY <2>1, <2>2, <2>3
  <1>6. t \in chain => /\ ledger'[t].calls = ledger[t].calls + 1
                       /\ ledger'[t].spent = ledger[t].spent + req[r].amount
    BY <1>3 DEF Ledger!Charge
  <1> QED BY <1>1, <1>2, <1>4, <1>5, <1>6

(* A commit adds one call to the window that ends with it, which had room, *)
(* and to none that ended before.                                          *)
LEMMA CommitRate ==
    ASSUME UInv, NEW r \in Request, NEW outcome \in Answers, ExecCommits(r, outcome)
    PROVE  RateCap'
  <1>1. PICK chain : chain = RecordedChain(req[r].token)
    OBVIOUS
  <1>2. PICK at \in Nat : at = req[r].at
    BY CommitReads
  <1>3. PICK new : new = Commit(r) /\ new.at = at
    BY <1>2, CommitIsNew
  <1> SUFFICES ASSUME NEW t \in Token, Claims[t].rate_limit_per_min # None, NEW p \in Granted(t)'
               PROVE  Cardinality(InWindow(t, p.at)') <= Claims[t].rate_limit_per_min
    BY DEF RateCap, InWindow, Window
  <1>4. /\ Window \in Nat /\ Claims[t].rate_limit_per_min \in Nat
        /\ \A g \in Granted(t) : g.at \in Nat
    BY WindowType, ClaimsFacts, GrantedFinite DEF Limit
  <1>5. CASE t \notin chain
    <2>1. SameGrants(t) /\ p \in Granted(t)
      BY <1>1, <1>5, CommitKeys DEF SameKey
    <2>2. InWindow(t, p.at)' = InWindow(t, p.at)
      BY <2>1, SameGrantsRate
    <2> QED BY <2>1, <2>2, RateCapIs DEF UInv
  <1>6. CASE t \in chain
    <2>1. Granted(t)' = Granted(t) \cup {new} /\ new \notin Granted(t)
      BY <1>1, <1>3, <1>6, CommitKeys
    <2>2. Reads(req[r], t) /\ Allows(t, req[r].amount, at) /\ req[r] \in RequestRecord
      BY <1>1, <1>2, <1>6, CommitReads
    <2>3. Recent(t, at) = InWindow(t, at)
      BY <1>2, <2>2, RecentIsAll
    <2>4. \A g \in Granted(t) : g.at <= at
      BY <1>2, <2>2 DEF Reads
    <2>5. CASE p.at = at
      <3> DEFINE S == InWindow(t, at)
      <3>1. InWindow(t, p.at)' = S \cup {new}
        BY <1>3, <1>4, <2>1, <2>5 DEF InWindow
      <3>2. IsFiniteSet(S) /\ new \notin S /\ Cardinality(S) \in Nat
        BY <2>1, GrantedFinite DEF InWindow
      <3>3. Cardinality(S) + 1 <= Claims[t].rate_limit_per_min
        BY <2>2, <2>3 DEF Allows
      <3> HIDE DEF S
      <3>4. Cardinality(S \cup {new}) = Cardinality(S) + 1
        BY <3>2, FS_AddElement
      <3> QED BY <3>1, <3>3, <3>4
    <2>6. CASE p.at # at
      <3>1. p \in Granted(t) /\ p.at < at
        BY <1>3, <1>4, <2>1, <2>4, <2>6
      <3>2. InWindow(t, p.at)' = InWindow(t, p.at)
        BY <1>3, <1>4, <2>1, <3>1 DEF InWindow
      <3> QED BY <3>1, <3>2, RateCapIs DEF UInv
    <2> QED BY <2>5, <2>6
  <1> QED BY <1>5, <1>6

LEMMA CommitKeyInv ==
    ASSUME UInv, NEW r \in Request, NEW outcome \in Answers, ExecCommits(r, outcome),
           NEW t \in Token
    PROVE  /\ KeyInv(t)'
           /\ t \in DOMAIN db' => db'[t] \in Entry
  <1>0. now' = now /\ now \in Nat /\ KeyInv(t)
    BY DEF ExecCommits, UInv, Types
  <1>1. PICK chain : chain = RecordedChain(req[r].token)
    OBVIOUS
  <1>2. PICK at \in Nat : at = req[r].at
    BY CommitReads
  <1>5. PICK new : new = Commit(r) /\ new.at = at /\ new \in Grant
    BY <1>2, CommitIsNew
  <1>3. CASE t \notin chain
    <2>1. SameKey(t) /\ (t \in DOMAIN db' => t \in DOMAIN db /\ db'[t] = db[t])
      BY <1>1, <1>3, CommitKeys
    <2>2. KeyInv(t)'
      BY <1>0, <2>1, SameKeyKeeps DEF KeyInv, Live
    <2> QED BY <2>1, <2>2 DEF UInv, Types
  <1>4. CASE t \in chain
    <2>1. /\ Granted(t)' = Granted(t) \cup {new} /\ new \notin Granted(t)
          /\ t \in DOMAIN db' /\ Stored(t)' = db'[t]
          /\ db'[t].calls = Stored(t).calls + 1
          /\ db'[t].amount = Stored(t).amount + req[r].amount
          /\ db'[t].stamps = Recent(t, at) \cup {new}
          /\ db'[t].expires = now + TTL(t, at) * TicksPerSecond
          /\ ledger'[t].calls = ledger[t].calls + 1
          /\ ledger'[t].spent = ledger[t].spent + req[r].amount
      BY <1>1, <1>2, <1>4, <1>5, CommitKeys
    <2>2. /\ Reads(req[r], t) /\ Exact(t) /\ req[r].amount \in Nat /\ at <= now
          /\ req[r] \in RequestRecord
      BY <1>1, <1>2, <1>4, CommitReads DEF Reads
    <2>3. /\ Stored(t).calls \in Nat /\ Stored(t).amount \in Nat
          /\ Recent(t, at) \in SUBSET Grant
      BY StoredType DEF Recent, UInv
    <2>4. /\ db'[t].expires \in Nat /\ db'[t].expires >= RetainedUntil(Claims[t].exp)
      BY <1>0, <2>1, <2>2, TTLOutlasts
    <2>5. db'[t] \in Entry
      <3>1. db'[t] = [calls |-> Stored(t).calls + 1, amount |-> req[r].totals[t],
                      stamps |-> Recent(t, req[r].at) \cup {Commit(r)},
                      expires |-> now + TTL(t, req[r].at) * TicksPerSecond]
        BY <1>1, <1>4 DEF ExecCommits, Written
      <3>2. db'[t].calls \in Nat /\ db'[t].amount \in Nat /\ db'[t].stamps \in SUBSET Grant
        BY <1>5, <2>1, <2>2, <2>3
      <3> QED BY <2>4, <3>1, <3>2 DEF Entry
    <2>7. Bounded(t)
      BY <1>0 DEF KeyInv
    <2>8. /\ Stored(t)'.calls = ledger'[t].calls
          /\ Stored(t)'.amount = ledger'[t].spent
      BY <2>1, <2>2 DEF Exact
    <2>9. Stored(t)'.stamps \subseteq Granted(t)'
      BY <2>1, <2>7 DEF Recent, Bounded
    <2>10. ASSUME NEW g \in Granted(t)', \A h \in Granted(t)' : g.at >= h.at - Window
           PROVE  g \in Stored(t)'.stamps
      <3>1. g.at >= at - Window
        BY <1>5, <2>1, <2>10
      <3>2. CASE g = new
        BY <2>1, <3>2
      <3>3. CASE g # new
        <4>1. g \in Since(t, at)
          BY <2>1, <3>1, <3>3 DEF Since
        <4>2. Recent(t, at) = Since(t, at)
          BY <1>2, <2>2, RecentIsAll
        <4> QED BY <2>1, <4>1, <4>2
      <3> QED BY <3>2, <3>3
    <2>11. Exact(t)'
      BY <2>8, <2>10 DEF Exact
    <2>12. Stored(t)'.calls \in Nat /\ Stored(t)'.amount \in Nat
      BY <2>1, <2>5 DEF Entry
    <2>13. Bounded(t)'
      BY <2>8, <2>9, <2>12 DEF Bounded
    <2> QED BY <2>4, <2>5, <2>11, <2>13 DEF KeyInv
  <1> QED BY <1>3, <1>4

LEMMA ExecCommitsInv ==
    ASSUME UInv, NEW r \in Request, NEW outcome \in Answers, ExecCommits(r, outcome),
           drops' \in 0 .. MaxDrops, drops' >= drops, outcome \in Open => drops' = drops + 1
    PROVE  UInv'
  <1>0. now' = now /\ now \in Nat /\ Types
    BY DEF ExecCommits, UInv, Types
  <1>1. PICK chain : chain = RecordedChain(req[r].token)
    OBVIOUS
  <1>2. chain \subseteq Token /\ req[r].amount \in Nat /\ req[r].at <= now /\ req[r].token \in Token
          /\ req[r].amount \in (Amount \cap Nat) \cup {0}
    BY <1>1, CommitReads
  <1>3. Types'
    <2>1. DOMAIN db' \subseteq Token
      BY <1>0, <1>1, <1>2 DEF ExecCommits, Written, Types
    <2>2. \A t \in DOMAIN db' : db'[t] \in Entry
      BY <2>1, CommitKeyInv
    <2>3. ledger' \in [Token -> [calls : Nat, spent : Nat]]
      <3>1. ledger' = Ledger!Charge(chain, req[r].amount)
        BY <1>1 DEF ExecCommits
      <3>2. \A t \in Token : ledger[t] \in [calls : Nat, spent : Nat]
        BY <1>0 DEF Types
      <3> QED BY <1>2, <3>1, <3>2 DEF Ledger!Charge
    <2>4. req' \in [Request -> RequestRecord]
      BY <1>1, CommitRequests
    <2>5. grants' \subseteq Grant
      BY <1>0, CommitIsNew DEF Types
    <2> QED BY <1>0, <2>1, <2>2, <2>3, <2>4, <2>5 DEF Types
  <1>4. Moves(chain)
    BY <1>0, <1>1, CommitKeys DEF Moves
  <1>5. ASSUME NEW q \in Request PROVE Sound(req[q])'
    <2>1. CASE q = r
      <3>1. PICK v : v = req'[r]
        OBVIOUS
      <3>2. /\ v.pc = outcome /\ v.token = req[r].token /\ v.at = 0
            /\ v.amount = req[r].amount /\ DOMAIN v.totals = {}
        BY <1>1, <3>1, CommitRequests
      <3>3. Sound(v)'
        BY <1>0, <1>2, <3>2 DEF Sound, Answers
      <3> QED BY <2>1, <3>1, <3>3 DEF Sound, Reads, Allows
    <2>2. CASE q # r
      <3>1. PICK new : new = Marked(req[q], chain)
        OBVIOUS
      <3>2. req[q] \in RequestRecord /\ Sound(req[q])
        BY DEF UInv, Types
      <3>3. Sound(new)'
        BY <1>0, <1>4, <3>1, <3>2, MovesKeepsSound
      <3>4. req'[q] = new
        BY <1>1, <2>2, <3>1, CommitRequests
      <3> QED BY <3>3, <3>4 DEF Sound, Reads, Allows
    <2> QED BY <2>1, <2>2
  <1>6. \A t \in Token : KeyInv(t)'
    BY CommitKeyInv
  <1>7. RateCap'
    BY CommitRate
  <1>8. GrantInv'
    <2>0. PICK new : new = Commit(r)
      OBVIOUS
    <2>1. /\ grants' = grants \cup {new} /\ new.req = r /\ new.drops = drops
          /\ new.token = req[r].token /\ new.at = req[r].at
          /\ \A g \in grants : g.req = r => g.drops < drops
      BY <2>0, CommitIsNew
    <2>2. \A g \in grants : g.req \in Request /\ g.drops \in Nat /\ g.at <= now
      BY DEF UInv, GrantInv, Types, Grant
    <2>3. \A q \in Request : /\ req'[q].pc = (IF q = r THEN outcome ELSE req[q].pc)
                              /\ req'[q].token = req[q].token
      BY <1>1, CommitRequests
    <2>4. drops \in Nat /\ drops' \in Nat
      BY RedisAssumption DEF UInv, Types
    <2>5. IsFiniteSet(grants')
      BY <2>1, FS_AddElement DEF UInv, GrantInv
    <2>6. \A g \in grants' : g.at <= now'
      BY <1>0, <1>2, <2>1, <2>2
    <2>7. ASSUME NEW g \in grants', req'[g.req].pc \in Open PROVE g.drops < drops'
      <3>1. CASE g.req = r
        <4>1. outcome \in Open
          BY <2>3, <2>7, <3>1
        <4>2. drops' = drops + 1
          BY <4>1
        <4> QED BY <2>1, <2>2, <2>4, <3>1, <4>2
      <3>2. CASE g.req # r
        <4>1. g \in grants /\ req[g.req].pc \in Open
          BY <2>1, <2>2, <2>3, <2>7, <3>2
        <4>2. g.drops < drops
          BY <4>1 DEF UInv, GrantInv
        <4> QED BY <2>2, <2>4, <4>1, <4>2
      <3> QED BY <3>1, <3>2
    <2>8. ASSUME NEW q \in Request, req'[q].pc \in Charged
          PROVE  \E g \in grants' : g.req = q /\ g.token = req'[q].token
      <3>1. CASE q = r
        BY <2>1, <2>3, <3>1
      <3>2. CASE q # r
        BY <2>1, <2>3, <2>8, <3>2 DEF UInv, GrantInv, Accounted
      <3> QED BY <3>1, <3>2
    <2>9. ASSUME NEW g \in grants', NEW h \in grants', g.req = h.req, g.drops = h.drops
          PROVE  g = h
      BY <2>1, <2>2, <2>4, <2>9 DEF UInv, GrantInv, Accounted
    <2>10. Accounted'
      BY <2>8, <2>9 DEF Accounted
    <2> QED BY <2>5, <2>6, <2>7, <2>10 DEF GrantInv
  <1> QED BY <1>3, <1>5, <1>6, <1>7, <1>8 DEF UInv

(* The three ways a commit goes on.                                        *)
LEMMA AnyCommitInv ==
    ASSUME UInv, NEW r \in Request, Exec(r) \/ ExecDies(r) \/ ExecReplyLost(r)
    PROVE  UInv' /\ \E outcome \in Answers : ExecCommits(r, outcome)
  <1>1. ASSUME NEW outcome \in {"reserved", "lost"}, ExecCommits(r, outcome), UNCHANGED drops
        PROVE  UInv' /\ \E answer \in Answers : ExecCommits(r, answer)
    <2>1. outcome \in Answers /\ outcome \notin Open
      BY DEF Answers, Open, InTransaction
    <2> QED BY <1>1, <2>1, DropsKept, ExecCommitsInv
  <1>2. CASE ExecReplyLost(r)
    <2>1. "verified" \in Answers /\ ExecCommits(r, "verified") /\ Lose
      BY <1>2 DEF Answers, ExecReplyLost
    <2> QED BY <2>1, DropsGrow, ExecCommitsInv
  <1> QED BY <1>1, <1>2 DEF Exec, ExecDies


-----------------------------------------------------------------------------
LEMMA UInit == Init => UInv
  <1> SUFFICES ASSUME Init PROVE UInv
    OBVIOUS
  <1>1. /\ now = 0 /\ db = [t \in {} |-> 0] /\ req = [r \in Request |-> Idle]
        /\ ledger = [t \in Token |-> [calls |-> 0, spent |-> 0]]
        /\ grants = {} /\ drops = 0
    BY DEF Init, Ledger!Empty
  <1>2. DOMAIN db = {} /\ \A r \in Request : req[r] = Idle
    BY <1>1
  <1>3. Types
    BY <1>1, <1>2, IdleFacts, RedisAssumption DEF Types
  <1>4. Idle.pc = "idle"
    BY DEF Idle
  <1>5. \A t : Granted(t) = {}
    BY <1>1 DEF Granted
  <1>6. ASSUME NEW t \in Token PROVE KeyInv(t)
    <2>1. Stored(t) = [calls |-> 0, amount |-> 0, stamps |-> {}, expires |-> 0]
      BY <1>2 DEF Stored
    <2>2. ledger[t].calls = 0 /\ ledger[t].spent = 0
      BY <1>1
    <2> QED BY <1>2, <1>5, <2>1, <2>2 DEF KeyInv, Bounded, Exact
  <1>7. Sound(Idle)
    BY <1>1, <1>4, IdleFacts DEF Sound, Working, InTransaction, Charged
  <1>8. ASSUME NEW r \in Request PROVE Sound(req[r])
    BY <1>2, <1>7
  <1>9. RateCap
    BY <1>5 DEF RateCap
  <1>10. GrantInv
    BY <1>1, <1>2, <1>4, FS_EmptySet DEF GrantInv, Accounted, Charged
  <1> QED BY <1>3, <1>6, <1>8, <1>9, <1>10 DEF UInv

LEMMA UStutter == UInv /\ UNCHANGED vars => UInv'
  <1> SUFFICES ASSUME UInv, UNCHANGED vars PROVE UInv'
    OBVIOUS
  <1>1. UNCHANGED <<now, db, req, ledger, grants, drops>>
    BY DEF vars
  <1>2. ASSUME NEW t \in Token PROVE SameKey(t)
    BY <1>1 DEF SameKey, SameGrants, Stored, Granted
  <1>3. Types /\ Types' /\ RateCap'
    BY <1>1, <1>2, RateKept DEF UInv, Types, SameKey
  <1>4. ASSUME NEW t \in Token PROVE KeyInv(t)'
    BY <1>1, <1>2, SameKeyKeeps DEF UInv, KeyInv, Live
  <1>5. Moves({})
    BY <1>1, <1>2 DEF Moves, UInv, Types
  <1>6. req' = Touched(req, {})
    BY <1>1 DEF Touched, UInv, Types
  <1> QED BY <1>1, <1>3, <1>4, <1>5, <1>6, MovesInv

LEMMA UStep == UInv /\ [Next]_vars => UInv'
  <1> SUFFICES ASSUME UInv, [Next]_vars PROVE UInv'
    OBVIOUS
  <1>1. ASSUME NEW r \in Request, NEW t \in Token, NEW amount \in Amount, Verify(r, t, amount)
        PROVE  UInv'
    BY <1>1, VerifyInv
  <1>2. ASSUME NEW r \in Request, Watch(r) PROVE UInv'
    BY <1>2, WatchInv
  <1>3. ASSUME NEW r \in Request, ReadClock(r) PROVE UInv'
    BY <1>3, ReadClockInv
  <1>4. ASSUME NEW r \in Request, ReadKey(r) PROVE UInv'
    BY <1>4, ReadKeyInv
  <1>5. ASSUME NEW r \in Request, ReadKeyRefused(r) PROVE UInv'
    BY <1>5, ReadKeyRefusedInv
  <1>6. ASSUME NEW r \in Request, Exec(r) \/ ExecDies(r) \/ ExecReplyLost(r) PROVE UInv'
    BY <1>6, AnyCommitInv
  <1>7. ASSUME NEW r \in Request, ExecAborts(r) PROVE UInv'
    BY <1>7, ExecAbortsInv
  <1>8. ASSUME NEW r \in Request, Fails(r) PROVE UInv'
    BY <1>8, FailsInv
  <1>9. ASSUME NEW r \in Request, Execute(r) PROVE UInv'
    BY <1>9, ExecuteInv
  <1>10. CASE Tick
    BY <1>10, TickInv
  <1>11. CASE UNCHANGED vars
    BY <1>11, UStutter
  <1>12. CASE Terminated
    BY <1>11, <1>12 DEF Terminated
  <1>13. ASSUME NEW r \in Request, Drops(r) PROVE UInv'
    BY <1>13, DropsInv
  <1> QED BY <1>1, <1>2, <1>3, <1>4, <1>5, <1>6, <1>7, <1>8, <1>9, <1>10, <1>11, <1>12, <1>13
          DEF Next, Loop

(* Every reachable state satisfies the inductive invariant: what Redis     *)
(* holds is exact while it matters, and what an undisturbed transaction    *)
(* has read of it is still true.                                           *)
THEOREM TrackerInvariant == Spec => []UInv
  BY UInit, UStep, PTL DEF Spec

(* The keys in Redis are well formed and hold the exact totals of every    *)
(* token that can still be charged: no key expires too early, and EXEC     *)
(* loses no update of a racing process.                                    *)
THEOREM KeysExactCorrect == Spec => []KeysExact
  <1>1. UInv => KeysExact
    <2> SUFFICES ASSUME UInv PROVE KeysExact
      OBVIOUS
    <2>1. TypeOK
      BY Typed
    <2> QED BY <2>1 DEF KeysExact, UInv, KeyInv, Exact, Live
  <1> QED BY <1>1, TrackerInvariant, PTL

(* rate_limit_per_min holds across processes, by the clock readings that   *)
(* were recorded.                                                          *)
THEOREM RateCapCorrect == Spec => []RateCap
  <1>1. UInv => RateCap
    BY DEF UInv
  <1> QED BY <1>1, TrackerInvariant, PTL

-----------------------------------------------------------------------------
(* Counters that forbid a call are an allowance that is exhausted, even    *)
(* when the key was dropped or changed since WATCH.                        *)
LEMMA RefusedForCause ==
    ASSUME UInv, NEW t \in Token, NEW amount \in Nat, NEW at \in Nat, ~ Allows(t, amount, at)
    PROVE  \/ ~ Ledger!HasRoom(t, amount)
           \/ /\ Claims[t].rate_limit_per_min # None
              /\ Cardinality(Since(t, at)) >= Claims[t].rate_limit_per_min
  <1>1. /\ Stored(t).calls \in Nat /\ Stored(t).amount \in Nat
        /\ ledger[t].calls \in Nat /\ ledger[t].spent \in Nat
    BY StoredType DEF UInv, Types
  <1>2. /\ Claims[t].max_calls # None => Claims[t].max_calls \in Nat
        /\ Claims[t].max_amount_usd # None => Claims[t].max_amount_usd \in Nat
        /\ Claims[t].rate_limit_per_min # None => Claims[t].rate_limit_per_min \in Nat
    BY ClaimsFacts DEF Limit
  <1>3. Stored(t).calls <= ledger[t].calls /\ Stored(t).amount <= ledger[t].spent
    BY DEF UInv, KeyInv, Bounded
  <1>4. /\ Cardinality(Recent(t, at)) \in Nat /\ Cardinality(Since(t, at)) \in Nat
        /\ Cardinality(Recent(t, at)) <= Cardinality(Since(t, at))
    BY RecentIsGranted
  <1>5. \/ Claims[t].max_calls # None /\ ~ (Stored(t).calls + 1 <= Claims[t].max_calls)
        \/ Claims[t].max_amount_usd # None /\ ~ (Stored(t).amount + amount <= Claims[t].max_amount_usd)
        \/ Claims[t].rate_limit_per_min # None
             /\ ~ (Cardinality(Recent(t, at)) + 1 <= Claims[t].rate_limit_per_min)
    BY DEF Allows
  <1>6. CASE Claims[t].max_calls # None /\ ~ (Stored(t).calls + 1 <= Claims[t].max_calls)
    <2>1. ~ (ledger[t].calls + 1 <= Claims[t].max_calls)
      BY <1>1, <1>2, <1>3, <1>6
    <2> QED BY <1>6, <2>1 DEF Ledger!HasRoom
  <1>7. CASE Claims[t].max_amount_usd # None /\ ~ (Stored(t).amount + amount <= Claims[t].max_amount_usd)
    <2>1. ~ (ledger[t].spent + amount <= Claims[t].max_amount_usd)
      BY <1>1, <1>2, <1>3, <1>7
    <2> QED BY <1>7, <2>1 DEF Ledger!HasRoom
  <1>8. CASE Claims[t].rate_limit_per_min # None
               /\ ~ (Cardinality(Recent(t, at)) + 1 <= Claims[t].rate_limit_per_min)
    BY <1>2, <1>4, <1>8
  <1> QED BY <1>5, <1>6, <1>7, <1>8

(* Only a key's counters refuse a reservation.                             *)
LEMMA OnlyCountersRefuse ==
    ASSUME UInv, [Next]_vars, NEW r \in Request, req[r].pc # "refused", req'[r].pc = "refused"
    PROVE  ReadKeyRefused(r)
  <1>0. req \in [Request -> RequestRecord]
    BY DEF UInv, Types
  <1>1. ASSUME NEW o \in Request, NEW t \in Token, NEW amount \in Amount, Verify(o, t, amount)
        PROVE  FALSE
    <2>1. [Idle EXCEPT !.pc = "verified", !.token = t, !.amount = ResolvedAmount(amount)].pc = "verified"
            /\ Out("denied").pc = "denied"
      BY DEF Idle, Out
    <2> QED BY <1>0, <1>1, <2>1 DEF Verify
  <1>2. ASSUME NEW o \in Request, Watch(o) \/ ReadKey(o) \/ Execute(o) PROVE FALSE
    <2>1. \A new \in {"watched", "reading", "executed"} : [req[o] EXCEPT !.pc = new].pc = new
      BY <1>0 DEF RequestRecord
    <2>2. CASE Watch(o)
      BY <1>0, <2>2 DEF Watch, RequestRecord
    <2>3. CASE ReadKey(o)
      BY <1>0, <2>3 DEF ReadKey, RequestRecord
    <2>4. CASE Execute(o)
      BY <1>0, <2>4 DEF Execute, RequestRecord
    <2> QED BY <1>2, <2>2, <2>3, <2>4
  <1>3. ASSUME NEW o \in Request, ReadClock(o) PROVE FALSE
    <2> DEFINE new == [req[o] EXCEPT !.pc = "reading", !.at = now, !.left = ChainOrder(req[o].token)]
    <2>1. new.pc = "reading" /\ Out("late").pc = "late"
      BY <1>0 DEF RequestRecord, Out, Idle
    <2>2. req' = [req EXCEPT ![o] = new] \/ req' = [req EXCEPT ![o] = Out("late")]
      BY <1>3 DEF ReadClock
    <2> QED BY <1>0, <2>1, <2>2
  <1>4. ASSUME NEW o \in Request, ReadKeyRefused(o) PROVE o = r
    BY <1>0, <1>4 DEF ReadKeyRefused
  <1>5. ASSUME NEW o \in Request, Exec(o) \/ ExecDies(o) \/ ExecReplyLost(o) PROVE FALSE
    BY <1>5, AnyCommitInv, CommitRequests DEF Answers
  <1>6. ASSUME NEW o \in Request, ExecAborts(o) \/ Drops(o) PROVE FALSE
    <2>1. AtLoop(o, "verified").pc = "verified"
      BY <1>0 DEF AtLoop, RequestRecord
    <2> QED BY <1>0, <1>6, <2>1 DEF ExecAborts, Drops
  <1>7. ASSUME NEW o \in Request, Fails(o) PROVE FALSE
    <2>1. Out("failed").pc = "failed"
      BY DEF Out, Idle
    <2> QED BY <1>0, <1>7, <2>1 DEF Fails
  <1>8. ~ Tick
    <2> SUFFICES ASSUME Tick PROVE FALSE
      OBVIOUS
    <2>1. PICK gone : req' = Touched(req, gone)
      BY DEF Tick
    <2>2. PICK v \in RequestRecord : v = req[r]
      BY <1>0
    <2>3. req'[r] = Marked(v, gone)
      BY <2>1, <2>2, TouchedIsMarked
    <2>4. Marked(v, gone).pc = v.pc
      BY MarkedFacts
    <2> QED BY <2>2, <2>3, <2>4
  <1>9. ~ UNCHANGED vars /\ ~ Terminated
    BY DEF Terminated, vars
  <1> QED BY <1>1, <1>2, <1>3, <1>4, <1>5, <1>6, <1>7, <1>8, <1>9 DEF Next, Loop

(* A reservation that gives up for want of an allowance gives up because   *)
(* an allowance of its chain is exhausted, however stale the counters were *)
(* that it read.                                                           *)
THEOREM RefusalJustifiedCorrect == Spec => RefusalJustified
  <1>1. ASSUME UInv, [Next]_vars, NEW r \in Request, req[r].pc # "refused", req'[r].pc = "refused"
        PROVE  \E t \in RecordedChain(req[r].token) :
                  \/ ~ Ledger!HasRoom(t, req[r].amount)
                  \/ /\ Claims[t].rate_limit_per_min # None
                     /\ Cardinality({g \in Granted(t) :
                           g.at >= req[r].at - RateWindow * TicksPerSecond})
                          >= Claims[t].rate_limit_per_min
    <2>1. ReadKeyRefused(r)
      BY <1>1, OnlyCountersRefuse
    <2>2. /\ req[r] \in RequestRecord /\ Sound(req[r]) /\ req[r].pc = "reading"
          /\ req[r].left # << >>
      BY <1>1, <2>1 DEF ReadKeyRefused, UInv, Types
    <2>3. req[r].left \in Seq(Token) /\ req[r].amount \in Nat /\ req[r].at \in Nat
      BY <2>2 DEF RequestRecord
    <2>4. PICK t \in Token : t = Head(req[r].left)
      BY <2>2, <2>3, TailInOrder
    <2>5. t \in RecordedChain(req[r].token)
      BY <2>2, <2>3, <2>4, TailInOrder DEF Sound
    <2>6. ~ Allows(t, req[r].amount, req[r].at)
      BY <2>1, <2>4 DEF ReadKeyRefused
    <2>7. \/ ~ Ledger!HasRoom(t, req[r].amount)
          \/ /\ Claims[t].rate_limit_per_min # None
             /\ Cardinality(Since(t, req[r].at)) >= Claims[t].rate_limit_per_min
      BY <1>1, <2>3, <2>6, RefusedForCause
    <2> QED BY <2>5, <2>7 DEF Since, Window
  <1>2. UInv /\ [Next]_vars =>
          [\A r \in Request : (req[r].pc # "refused" /\ req'[r].pc = "refused") =>
              \E t \in RecordedChain(req[r].token) :
                  \/ ~ Ledger!HasRoom(t, req[r].amount)
                  \/ /\ Claims[t].rate_limit_per_min # None
                     /\ Cardinality({g \in Granted(t) :
                           g.at >= req[r].at - RateWindow * TicksPerSecond})
                          >= Claims[t].rate_limit_per_min]_vars
    BY <1>1
  <1> QED BY <1>2, TrackerInvariant, PTL DEF Spec, RefusalJustified

(* Redis transactions implement the ledger that forgets nothing: every     *)
(* commit is a grant that every token of the chain had room for, and no    *)
(* other step changes what was granted.                                    *)
THEOREM Implementation == Spec => ImplementsLedger
  <1>1. Init => Ledger!Init
    BY DEF Init, Ledger!Init
  <1>2. ASSUME UInv, [Next]_vars
        PROVE  [Ledger!Next]_ledger
    <2>1. ASSUME NEW r \in Request, NEW outcome, ExecCommits(r, outcome) PROVE Ledger!Next
      <3>1. PICK k \in Token : k = req[r].token
        BY <1>2, <2>1, CommitReads
      <3>2. PICK amount : amount = req[r].amount
        OBVIOUS
      <3>3. amount \in (Amount \cup {0}) \cap Nat
        BY <1>2, <2>1, <3>2, CommitReads
      <3>4. ASSUME NEW c \in RecordedChain(k) PROVE Ledger!HasRoom(c, amount)
        BY <1>2, <2>1, <3>1, <3>2, CommitReads DEF Reads, Exact, Allows, Ledger!HasRoom
      <3>5. Ledger!Grant(k, amount)
        BY <2>1, <3>1, <3>2, <3>4
           DEF ExecCommits, Ledger!Grant, RecordedChain, Ledger!RecordedChain, Chain, Ledger!Chain,
               Stateful, Ledger!Stateful
      <3> QED BY <3>3, <3>5 DEF Ledger!Next
    <2>2. CASE UNCHANGED ledger
      BY <2>2
    <2>3. ASSUME NEW r \in Request, Exec(r) \/ ExecDies(r) \/ ExecReplyLost(r) PROVE Ledger!Next
      BY <2>1, <2>3 DEF Exec, ExecDies, ExecReplyLost
    <2> QED BY <1>2, <2>2, <2>3
            DEF Next, Loop, vars, Verify, Watch, ReadClock, ReadKey, ReadKeyRefused, ExecAborts,
                Drops, Fails, Execute, Tick, Terminated
  <1> QED BY <1>1, <1>2, TrackerInvariant, PTL DEF Spec, ImplementsLedger, Ledger!Spec

-----------------------------------------------------------------------------
(* Every commit was counted once.                                          *)
Counted == \A t \in Token : ledger[t].calls = Cardinality(Granted(t))

(* The signed limits, over the whole life of the system: max_calls bounds  *)
(* the charges that were made, those of retried requests included.         *)
LimitsHold ==
    \A t \in Token :
        /\ Claims[t].max_calls # None => Cardinality(Granted(t)) <= Claims[t].max_calls
        /\ Claims[t].max_amount_usd # None => ledger[t].spent <= Claims[t].max_amount_usd

(* No step but a commit changes the histories.                             *)
LEMMA OnlyCommitsGrant ==
    ASSUME [Next]_vars, \A r \in Request : ~ (Exec(r) \/ ExecDies(r) \/ ExecReplyLost(r))
    PROVE  grants' = grants /\ ledger' = ledger
  BY DEF Next, Loop, vars, Verify, Watch, ReadClock, ReadKey, ReadKeyRefused, ExecAborts,
         Drops, Fails, Execute, Tick, Terminated

LEMMA CountedStep == UInv /\ Counted /\ [Next]_vars => Counted'
  <1> SUFFICES ASSUME UInv, Counted, [Next]_vars, NEW t \in Token
               PROVE  ledger'[t].calls = Cardinality(Granted(t)')
    BY DEF Counted
  <1>1. ledger[t].calls = Cardinality(Granted(t)) /\ IsFiniteSet(Granted(t))
    BY GrantedFinite DEF Counted
  <1>2. ASSUME NEW r \in Request, NEW outcome \in Answers, ExecCommits(r, outcome)
        PROVE  ledger'[t].calls = Cardinality(Granted(t)')
    <2>1. PICK chain : chain = RecordedChain(req[r].token)
      OBVIOUS
    <2>2. CASE t \in chain
      <3>1. Granted(t)' = Granted(t) \cup {Commit(r)} /\ Commit(r) \notin Granted(t)
        BY <1>2, <2>1, <2>2, CommitKeys
      <3>2. ledger'[t].calls = ledger[t].calls + 1
        BY <1>2, <2>1, <2>2, CommitKeys
      <3> QED BY <1>1, <3>1, <3>2, FS_AddElement
    <2>3. CASE t \notin chain
      <3>1. Granted(t)' = Granted(t)
        BY <1>2, <2>1, <2>3, CommitKeys
      <3>2. ledger'[t] = ledger[t]
        BY <1>2, <2>1, <2>3 DEF ExecCommits, Ledger!Charge
      <3> QED BY <1>1, <3>1, <3>2
    <2> QED BY <2>2, <2>3
  <1>3. CASE \A r \in Request : ~ (Exec(r) \/ ExecDies(r) \/ ExecReplyLost(r))
    BY <1>1, <1>3, OnlyCommitsGrant DEF Granted
  <1>4. ASSUME NEW r \in Request, Exec(r) \/ ExecDies(r) \/ ExecReplyLost(r)
        PROVE  ledger'[t].calls = Cardinality(Granted(t)')
    BY <1>2, <1>4, AnyCommitInv
  <1> QED BY <1>3, <1>4

(* What the ledger promises, its implementations keep.                     *)
WithinLimits ==
    \A t \in Token :
        /\ Claims[t].max_calls # None => ledger[t].calls <= Claims[t].max_calls
        /\ Claims[t].max_amount_usd # None => ledger[t].spent <= Claims[t].max_amount_usd

LEMMA LedgerWithinLimits ==
    WithinLimits /\ [Ledger!Next]_ledger => WithinLimits'
  <1> SUFFICES ASSUME WithinLimits, [Ledger!Next]_ledger PROVE WithinLimits'
    OBVIOUS
  <1>1. ASSUME NEW k \in Token, NEW amount \in (Amount \cup {0}) \cap Nat, Ledger!Grant(k, amount)
        PROVE  WithinLimits'
    BY <1>1 DEF WithinLimits, Ledger!Grant, Ledger!HasRoom, Ledger!Charge
  <1>2. CASE UNCHANGED ledger
    BY <1>2 DEF WithinLimits
  <1> QED BY <1>1, <1>2 DEF Ledger!Next

(* Across any number of processes that share only Redis, no token is       *)
(* charged more calls than max_calls or more money than max_amount_usd,    *)
(* and no lost update or expired key makes room again.  A tool runs only   *)
(* for a request that was charged; a request is charged again only when    *)
(* the connection was lost after a commit, and then the second charge      *)
(* counts against the limits like any other.                               *)
THEOREM LimitsHoldCorrect == Spec => [](Counted /\ LimitsHold /\ Accounted)
  <1>1. Init => Counted /\ WithinLimits
    <2> SUFFICES ASSUME Init, NEW t \in Token
                 PROVE  /\ Cardinality(Granted(t)) = 0
                        /\ ledger[t].calls = 0 /\ ledger[t].spent = 0
                        /\ Claims[t].max_calls # None => 0 <= Claims[t].max_calls
                        /\ Claims[t].max_amount_usd # None => 0 <= Claims[t].max_amount_usd
      BY DEF Counted, WithinLimits
    <2>1. Granted(t) = {}
      BY DEF Init, Granted
    <2>2. ledger[t].calls = 0 /\ ledger[t].spent = 0
      BY DEF Init, Ledger!Empty
    <2> QED BY <2>1, <2>2, FS_EmptySet, ClaimsFacts DEF Limit
  <1>2. Counted /\ WithinLimits => LimitsHold
    BY DEF Counted, WithinLimits, LimitsHold
  <1>3. UInv => Accounted
    BY DEF UInv, GrantInv
  <1> QED BY <1>1, <1>2, <1>3, CountedStep, LedgerWithinLimits, TrackerInvariant, Implementation, PTL
          DEF Spec, ImplementsLedger, Ledger!Spec
=============================================================================
