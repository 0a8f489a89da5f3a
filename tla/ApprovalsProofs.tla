--------------------------- MODULE ApprovalsProofs ---------------------------
(***************************************************************************)
(* Proofs about Approvals, for every set of approvals, resources, tokens   *)
(* and requests, every expiry and clock resolution, both stores and every  *)
(* number of attempts: an approval authorizes at most one action, the      *)
(* store knows the approval in force until it expires, consume() refuses   *)
(* only what is over and loses at most one attempt to contention, and the  *)
(* service implements the promise of ApprovalGrant.                        *)
(***************************************************************************)
EXTENDS Approvals, FiniteSetTheorems, TLAPS

-----------------------------------------------------------------------------
(* The parts of the type invariant.                                        *)
StoreType ==
    /\ store \in Stores
    /\ now \in Nat
    /\ DOMAIN records \subseteq Approval
    /\ \A a \in DOMAIN records : records[a] \in Nat
    /\ DOMAIN active \subseteq Resource
    /\ \A x \in DOMAIN active : active[x] \in [id : Approval, until : Nat]
    /\ approving \in [Approval -> [pc : {"new", "checked", "sending", "stored"}, read : Nat]]
    /\ current \in [Resource -> Approval \cup {None}]
    /\ consumed \subseteq Approval

TokenType ==
    /\ token \in [Token -> [pc : {"none", "signing", "issued", "spent"},
                            approval : Approval \cup {None}, ttl : Nat, exp : Nat]]
    /\ \A k \in Token : token[k].pc # "none" => token[k].approval \in Approval

RequestRecord ==
    [pc : {"idle", "vetted", "reserved"} \cup Watching \cup Ended,
     token : Token \cup {None}, approval : Approval \cup {None},
     tries : 0 .. MaxRetries, drops : 0 .. MaxRetries, dirty : BOOLEAN]

(* The request is about an approval: until it is refused or fails.         *)
Engaged == {"vetted", "reserved", "contended"} \cup Watching \cup Consumers

(* The approval was stored, once.                                          *)
Granted(a) == approving[a].pc = "stored"

(* The approval can authorize nothing any more.                            *)
Over(a) == current[ResourceOf(a)] # a \/ now >= ExpiryTick(a)

-----------------------------------------------------------------------------
(* The inductive invariant.  What is in force was granted, for that        *)
(* resource, and both keys outlast it; a consumed approval is not in force *)
(* and, being granted, never again will be.                                *)
StoreInv ==
    /\ \A x \in DOMAIN active : active[x].id = current[x]
    /\ \A x \in Resource : current[x] # None =>
          Granted(current[x]) /\ ResourceOf(current[x]) = x
    /\ \A x \in Resource : current[x] # None /\ now < ExpiryTick(current[x]) =>
          /\ x \in DOMAIN active /\ active[x].until >= ExpiryTick(current[x])
          /\ current[x] \in DOMAIN records
          /\ records[current[x]] >= ExpiryTick(current[x])
    /\ \A a \in DOMAIN records : Granted(a)
    /\ \A a \in Approval : approving[a].read <= now
    /\ \A a \in consumed : Granted(a) /\ current[ResourceOf(a)] # a

(* A request that will delete the key watches a key that is still its own  *)
(* approval's; one whose key was touched, and so one that has lost an      *)
(* attempt to anything but its connection, is about an approval that is    *)
(* over.                                                                   *)
Sound(q) ==
    /\ q.pc \in Engaged => q.approval \in Approval /\ q.token \in Token /\ Granted(q.approval)
    /\ q.pc \in Watching => store = "redis"
    /\ q.pc \notin Watching => q.dirty = FALSE
    /\ q.pc = "vetted" => q.tries = 0 /\ q.drops = 0
    /\ q.pc \in {"reserved", "contended"} =>
          q.drops <= q.tries /\ q.tries <= q.drops + 1
    /\ q.pc \in {"reserved", "contended"} /\ q.tries > q.drops => Over(q.approval)
    /\ q.pc \in Watching => q.drops + 1 <= q.tries /\ q.tries <= q.drops + 2
    /\ q.pc \in Watching /\ q.tries > q.drops + 1 => Over(q.approval)
    /\ q.pc = "deleting" => q.tries = q.drops + 1
    /\ q.pc = "deleting" /\ q.dirty = FALSE => IsActive(q.approval)
    /\ q.pc \in Watching /\ q.dirty = TRUE => Over(q.approval)
    /\ q.pc \in Consumers => q.approval \in consumed

Unique ==
    \A r, q \in Request :
        req[r].pc \in Consumers /\ req[q].pc \in Consumers /\ req[r].approval = req[q].approval
            => r = q

AInv ==
    /\ StoreType /\ TokenType /\ req \in [Request -> RequestRecord]
    /\ StoreInv
    /\ \A r \in Request : Sound(req[r])
    /\ Unique
(* AInv is well typed: it says what TypeOK says, and more.                 *)
LEMMA Typed == AInv => TypeOK
  BY DEF AInv, StoreType, TokenType, RequestRecord, Sound, Engaged, TypeOK

-----------------------------------------------------------------------------
(* Facts about approvals and time.                                         *)
LEMMA GrantFacts ==
    ASSUME NEW a \in Approval
    PROVE  /\ ResourceOf(a) \in Resource
           /\ ExpiryTick(a) \in Nat
           /\ Grants[a].expires_at \in Nat
           /\ a # None
  <1>1. Grants[a].expires_at \in Nat /\ Grants[a].resource \in Resource
    BY ApprovalsAssumption
  <1> QED BY <1>1, ApprovalsAssumption, LifetimeAssumption DEF ResourceOf, ExpiryTick

LEMMA WholeSeconds ==
    ASSUME NEW t \in Nat
    PROVE  /\ Seconds(t) \in Int
           /\ TicksPerSecond * Seconds(t) <= t
  BY LifetimeAssumption, Z3 DEF Seconds

LEMMA TimesMonotone ==
    ASSUME NEW m \in Int, NEW n \in Int, m <= n
    PROVE  TicksPerSecond * m <= TicksPerSecond * n
  BY LifetimeAssumption, Z3

(* A key that is given TTL seconds outlasts the approval, however late it  *)
(* is stored after the clock was read.                                     *)
LEMMA TTLOutlasts ==
    ASSUME NEW a \in Approval, NEW read \in Nat, NEW t \in Nat, read <= t
    PROVE  /\ t + TTL(a, read) * TicksPerSecond \in Nat
           /\ t + TTL(a, read) * TicksPerSecond >= ExpiryTick(a)
  <1> DEFINE e == Grants[a].expires_at
             s == Seconds(read)
             left == TTL(a, read)
  <1>1. e \in Nat /\ s \in Int /\ TicksPerSecond * s <= read /\ TicksPerSecond \in Nat
    BY GrantFacts, WholeSeconds, LifetimeAssumption
  <1>2. left \in Nat /\ left >= e - s
    BY <1>1 DEF TTL
  <1>3. ExpiryTick(a) = TicksPerSecond * e
    BY <1>1 DEF ExpiryTick
  <1> HIDE DEF e, s, left
  <1>4. TicksPerSecond * e <= TicksPerSecond * (s + left)
    BY <1>1, <1>2, TimesMonotone
  <1>5. TicksPerSecond * (s + left) = TicksPerSecond * s + TicksPerSecond * left
    BY <1>1, <1>2, Z3
  <1>6. left * TicksPerSecond = TicksPerSecond * left /\ left * TicksPerSecond \in Nat
    BY <1>1, <1>2, Z3
  <1>7. TicksPerSecond * e \in Int /\ TicksPerSecond * s \in Int /\ TicksPerSecond * left \in Int
    BY <1>1, <1>2
  <1>8. t + left * TicksPerSecond \in Nat
    BY <1>6
  <1>9. t + TicksPerSecond * left >= TicksPerSecond * e
    BY <1>1, <1>4, <1>5, <1>7
  <1> QED BY <1>3, <1>6, <1>8, <1>9 DEF left

(* consume() compares what the store says with the approval in force.      *)
LEMMA ActiveIsCurrent ==
    ASSUME AInv, NEW a \in Approval
    PROVE  /\ IsActive(a) => current[ResourceOf(a)] = a
           /\ ~ (ExpiryTick(a) > now /\ IsActive(a)) => Over(a)
           /\ ExpiryTick(a) > now /\ IsActive(a) => ~ Over(a)
  <1>1. ResourceOf(a) \in Resource /\ ExpiryTick(a) \in Nat /\ now \in Nat /\ a # None
    BY GrantFacts DEF AInv, StoreType
  <1>2. IsActive(a) => current[ResourceOf(a)] = a
    BY DEF IsActive, AInv, StoreInv
  <1>3. current[ResourceOf(a)] = a /\ now < ExpiryTick(a) => IsActive(a)
    BY <1>1 DEF IsActive, AInv, StoreInv
  <1> QED BY <1>1, <1>2, <1>3 DEF Over

-----------------------------------------------------------------------------
(* Steps of one request, which leave the store alone.                      *)
StoreSame == UNCHANGED <<store, now, records, active, approving, current, consumed>>

LEMMA StoreStays ==
    ASSUME AInv, StoreSame
    PROVE  /\ StoreType' /\ StoreInv'
           /\ \A q : Sound(q) => Sound(q)'
  <1>1. StoreType'
    BY DEF AInv, StoreType, StoreSame
  <1>2. StoreInv'
    BY DEF AInv, StoreInv, StoreSame, Granted
  <1>3. ASSUME NEW q, Sound(q) PROVE Sound(q)'
    BY <1>3 DEF Sound, StoreSame, Granted, Over, IsActive
  <1> QED BY <1>1, <1>2, <1>3

LEMMA OneRequest ==
    ASSUME AInv, StoreSame, TokenType', NEW r \in Request, NEW new \in RequestRecord,
           req' = [req EXCEPT ![r] = new], Sound(new), new.pc \notin Consumers
    PROVE  AInv'
  <1>1. req' \in [Request -> RequestRecord]
    BY DEF AInv
  <1>2. StoreType' /\ StoreInv' /\ \A q : Sound(q) => Sound(q)'
    BY StoreStays
  <1>3. ASSUME NEW q \in Request PROVE Sound(req[q])'
    <2>1. req'[q] = IF q = r THEN new ELSE req[q]
      BY DEF AInv
    <2>2. Sound(req'[q])
      BY <2>1 DEF AInv
    <2>3. PICK v : v = req'[q]
      OBVIOUS
    <2>4. Sound(v)'
      BY <1>2, <2>2, <2>3
    <2> QED BY <2>3, <2>4 DEF Sound
  <1>4. Unique'
    <2>1. \A q \in Request : req'[q].pc \in Consumers => q # r /\ req'[q] = req[q]
      BY DEF AInv
    <2> QED BY <2>1 DEF AInv, Unique
  <1> QED BY <1>1, <1>2, <1>3, <1>4 DEF AInv

LEMMA FreshRecords ==
    /\ [NoRequest EXCEPT !.pc = "denied"] \in RequestRecord
    /\ \A k \in Token, a \in Approval :
          [NoRequest EXCEPT !.pc = "vetted", !.token = k, !.approval = a] \in RequestRecord
  <1>1. 0 \in 0 .. MaxRetries
    BY ApprovalsAssumption
  <1> QED BY <1>1 DEF NoRequest, RequestRecord, Ended, Watching, Consumers

LEMMA AuthorizeInv ==
    ASSUME AInv, NEW r \in Request, NEW k \in Token, NEW a \in Approval, NEW c \in Content,
           Authorize(r, k, a, c)
    PROVE  AInv'
  <1> DEFINE vetted == [NoRequest EXCEPT !.pc = "vetted", !.token = k, !.approval = a]
             denied == [NoRequest EXCEPT !.pc = "denied"]
  <1>1. StoreSame /\ TokenType'
    BY DEF Authorize, StoreSame, AInv, TokenType
  <1>2. vetted \in RequestRecord /\ denied \in RequestRecord
    BY FreshRecords
  <1>3. /\ denied.pc = "denied" /\ denied.dirty = FALSE
        /\ vetted.pc = "vetted" /\ vetted.dirty = FALSE /\ vetted.tries = 0 /\ vetted.drops = 0
        /\ vetted.token = k /\ vetted.approval = a
    BY DEF NoRequest
  <1>4. \/ Usable(a) /\ req' = [req EXCEPT ![r] = vetted]
        \/ req' = [req EXCEPT ![r] = denied]
    BY DEF Authorize
  <1> HIDE DEF vetted, denied
  <1>5. Usable(a) => Granted(a)
    BY DEF Usable, AInv, StoreInv
  <1>6. Sound(denied) /\ denied.pc \notin Consumers
    BY <1>3 DEF Sound, Engaged, Watching, Consumers
  <1>7. Usable(a) => Sound(vetted) /\ vetted.pc \notin Consumers
    BY <1>3, <1>5 DEF Sound, Engaged, Watching, Consumers
  <1> QED BY <1>1, <1>2, <1>4, <1>6, <1>7, OneRequest

LEMMA SpendInv ==
    ASSUME AInv, NEW r \in Request, Spend(r)
    PROVE  AInv'
  <1> DEFINE reserved == [req[r] EXCEPT !.pc = "reserved"]
             denied == [NoRequest EXCEPT !.pc = "denied"]
             k == req[r].token
  <1>0. req[r] \in RequestRecord /\ Sound(req[r]) /\ req[r].pc = "vetted"
    BY DEF AInv, Spend
  <1>1. k \in Token
    BY <1>0 DEF Sound, Engaged
  <1>2. StoreSame
    BY DEF Spend, StoreSame
  <1>3. TokenType'
    <2>1. \/ token' = [token EXCEPT ![k].pc = "spent"] /\ token[k].pc = "issued"
          \/ token' = token
      BY DEF Spend
    <2> HIDE DEF k
    <2>2. token[k].pc = "issued" => token[k].approval \in Approval
      BY <1>1 DEF AInv, TokenType
    <2> QED BY <1>1, <2>1, <2>2 DEF AInv, TokenType
  <1>4. \/ req' = [req EXCEPT ![r] = reserved]
        \/ req' = [req EXCEPT ![r] = denied]
    BY DEF Spend, AInv
  <1>5. reserved \in RequestRecord /\ denied \in RequestRecord
    BY <1>0, FreshRecords DEF RequestRecord
  <1>6. /\ denied.pc = "denied" /\ denied.dirty = FALSE
        /\ reserved.pc = "reserved" /\ reserved.dirty = req[r].dirty
        /\ reserved.tries = req[r].tries /\ reserved.drops = req[r].drops
        /\ reserved.token = req[r].token /\ reserved.approval = req[r].approval
    BY <1>0 DEF NoRequest, RequestRecord
  <1> HIDE DEF reserved, denied, k
  <1>7. Sound(denied) /\ denied.pc \notin Consumers
    BY <1>6 DEF Sound, Engaged, Watching, Consumers
  <1>8. Sound(reserved) /\ reserved.pc \notin Consumers
    BY <1>0, <1>6 DEF Sound, Engaged, Watching, Consumers
  <1> QED BY <1>2, <1>3, <1>4, <1>5, <1>7, <1>8, OneRequest

(* A refused request.                                                      *)
LEMMA RefusedInv ==
    ASSUME AInv, NEW r \in Request, StoreSame, UNCHANGED token, req' = Refused(r)
    PROVE  AInv'
  <1> DEFINE new == [req[r] EXCEPT !.pc = "refused", !.dirty = FALSE]
  <1>0. req[r] \in RequestRecord
    BY DEF AInv
  <1>1. new \in RequestRecord /\ new.pc = "refused" /\ new.dirty = FALSE
    BY <1>0 DEF RequestRecord, Ended
  <1>2. req' = [req EXCEPT ![r] = new] /\ TokenType'
    BY DEF Refused, Left, AInv, TokenType
  <1> HIDE DEF new
  <1>3. Sound(new) /\ new.pc \notin Consumers
    BY <1>1 DEF Sound, Engaged, Watching, Consumers
  <1> QED BY <1>1, <1>2, <1>3, OneRequest

(* WATCH starts an attempt, or there is none left.                         *)
LEMMA ConsumeWatchInv ==
    ASSUME AInv, NEW r \in Request, ConsumeWatch(r)
    PROVE  AInv'
  <1> DEFINE watched == [req[r] EXCEPT !.pc = "watched", !.tries = @ + 1]
             contended == [req[r] EXCEPT !.pc = "contended"]
  <1>0. req[r] \in RequestRecord /\ Sound(req[r]) /\ req[r].pc = "reserved" /\ store = "redis"
    BY DEF AInv, ConsumeWatch
  <1>1. StoreSame /\ TokenType'
    BY DEF ConsumeWatch, StoreSame, AInv, TokenType
  <1>2. \/ req[r].tries < MaxRetries /\ req' = [req EXCEPT ![r] = watched]
        \/ ~ (req[r].tries < MaxRetries) /\ req' = [req EXCEPT ![r] = contended]
    BY DEF ConsumeWatch
  <1>3. /\ req[r].tries \in 0 .. MaxRetries /\ req[r].drops \in 0 .. MaxRetries
        /\ MaxRetries \in Nat
    BY <1>0, ApprovalsAssumption DEF RequestRecord
  <1>4. req[r].tries < MaxRetries => watched \in RequestRecord
    <2>1. req[r].tries < MaxRetries => req[r].tries + 1 \in 0 .. MaxRetries
      BY <1>3
    <2> QED BY <1>0, <2>1 DEF RequestRecord, Watching
  <1>5. contended \in RequestRecord
    BY <1>0 DEF RequestRecord, Ended
  <1>6. /\ contended.pc = "contended" /\ contended.dirty = req[r].dirty
        /\ contended.tries = req[r].tries /\ contended.drops = req[r].drops
        /\ contended.token = req[r].token /\ contended.approval = req[r].approval
        /\ watched.pc = "watched" /\ watched.dirty = req[r].dirty
        /\ watched.tries = req[r].tries + 1 /\ watched.drops = req[r].drops
        /\ watched.token = req[r].token /\ watched.approval = req[r].approval
    BY <1>0 DEF RequestRecord
  <1> HIDE DEF watched, contended
  <1>7. /\ req[r].drops <= req[r].tries /\ req[r].tries <= req[r].drops + 1
        /\ req[r].tries > req[r].drops => Over(req[r].approval)
    BY <1>0 DEF Sound
  <1>8. req[r].dirty = FALSE /\ Granted(req[r].approval)
        /\ req[r].approval \in Approval /\ req[r].token \in Token
    BY <1>0 DEF Sound, Engaged, Watching
  <1>9. /\ watched.drops + 1 <= watched.tries /\ watched.tries <= watched.drops + 2
        /\ watched.tries > watched.drops + 1 => Over(watched.approval)
    BY <1>3, <1>6, <1>7
  <1>10. Sound(watched) /\ watched.pc \notin Consumers
    BY <1>0, <1>6, <1>8, <1>9 DEF Sound, Engaged, Watching, Consumers
  <1>11. Sound(contended) /\ contended.pc \notin Consumers
    BY <1>6, <1>7, <1>8 DEF Sound, Engaged, Watching, Consumers
  <1> QED BY <1>1, <1>2, <1>4, <1>5, <1>10, <1>11, OneRequest

LEMMA ConsumeGetInv ==
    ASSUME AInv, NEW r \in Request, ConsumeGet(r)
    PROVE  AInv'
  <1> DEFINE a == req[r].approval
             deleting == [req[r] EXCEPT !.pc = "deleting"]
  <1>0. req[r] \in RequestRecord /\ Sound(req[r]) /\ req[r].pc = "watched"
    BY DEF AInv, ConsumeGet
  <1>1. StoreSame /\ TokenType' /\ UNCHANGED token
    BY DEF ConsumeGet, StoreSame, AInv, TokenType
  <1>2. CASE ExpiryTick(a) > now /\ IsActive(a)
    <2>1. req' = [req EXCEPT ![r] = deleting]
      BY <1>2 DEF ConsumeGet, AInv
    <2>2. deleting \in RequestRecord
      BY <1>0 DEF RequestRecord, Watching
    <2>3. /\ deleting.pc = "deleting" /\ deleting.dirty = req[r].dirty
          /\ deleting.tries = req[r].tries /\ deleting.drops = req[r].drops
          /\ deleting.token = req[r].token /\ deleting.approval = req[r].approval
      BY <1>0 DEF RequestRecord
    <2>4. a \in Approval
      BY <1>0 DEF Sound, Engaged, Watching
    <2>5. ~ Over(a)
      BY <1>2, <2>4, ActiveIsCurrent
    <2> HIDE DEF deleting
    <2>6. /\ ~ (req[r].tries > req[r].drops + 1) /\ ~ (req[r].dirty = TRUE)
          /\ req[r].drops + 1 <= req[r].tries /\ req[r].tries <= req[r].drops + 2
      BY <1>0, <2>5 DEF Sound, Watching
    <2>7. req[r].tries = req[r].drops + 1
      <3>1. req[r].tries \in Int /\ req[r].drops \in Int
        BY <1>0, ApprovalsAssumption DEF RequestRecord
      <3> QED BY <2>6, <3>1
    <2>8. Sound(deleting) /\ deleting.pc \notin Consumers
      BY <1>0, <1>2, <2>3, <2>6, <2>7 DEF Sound, Engaged, Watching, Consumers
    <2> QED BY <1>1, <2>1, <2>2, <2>8, OneRequest
  <1>3. CASE ~ (ExpiryTick(a) > now /\ IsActive(a))
    <2>1. req' = Refused(r)
      BY <1>3 DEF ConsumeGet
    <2> QED BY <1>1, <2>1, RefusedInv
  <1> QED BY <1>2, <1>3

LEMMA ConsumeAbortsInv ==
    ASSUME AInv, NEW r \in Request, ConsumeAborts(r)
    PROVE  AInv'
  <1> DEFINE new == [req[r] EXCEPT !.pc = "reserved", !.dirty = FALSE]
  <1>0. req[r] \in RequestRecord /\ Sound(req[r]) /\ req[r].pc = "deleting"
    BY DEF AInv, ConsumeAborts
  <1>1. req[r].dirty = TRUE
    BY <1>0 DEF ConsumeAborts, RequestRecord
  <1>2. StoreSame /\ TokenType'
    BY DEF ConsumeAborts, StoreSame, AInv, TokenType
  <1>3. req' = [req EXCEPT ![r] = new]
    BY DEF ConsumeAborts, Left, AInv
  <1>4. new \in RequestRecord
    BY <1>0 DEF RequestRecord
  <1>5. /\ new.pc = "reserved" /\ new.dirty = FALSE
        /\ new.tries = req[r].tries /\ new.drops = req[r].drops
        /\ new.token = req[r].token /\ new.approval = req[r].approval
    BY <1>0 DEF RequestRecord
  <1> HIDE DEF new
  <1>6. Over(req[r].approval) /\ req[r].tries = req[r].drops + 1
    BY <1>0, <1>1 DEF Sound, Watching
  <1>7. new.drops <= new.tries /\ new.tries <= new.drops + 1
    <2>1. req[r].drops \in Int
      BY <1>0, ApprovalsAssumption DEF RequestRecord
    <2> QED BY <1>5, <1>6, <2>1
  <1>8. Sound(new) /\ new.pc \notin Consumers
    BY <1>0, <1>5, <1>6, <1>7 DEF Sound, Engaged, Watching, Consumers
  <1> QED BY <1>2, <1>3, <1>4, <1>8, OneRequest

(* A lost connection takes the attempt with it, whether or not the key was *)
(* touched and whether or not EXEC ran.                                    *)
LEMMA DroppedFacts ==
    ASSUME AInv, NEW r \in Request, req[r].pc \in Watching, NEW new, new = Dropped(r)
    PROVE  /\ new \in RequestRecord /\ Sound(new)
           /\ new.pc = "reserved" /\ new.approval = req[r].approval
           /\ new.token = req[r].token /\ new.dirty = FALSE
  <1>0. req[r] \in RequestRecord /\ Sound(req[r])
    BY DEF AInv
  <1>1. /\ req[r].tries \in 0 .. MaxRetries /\ req[r].drops \in 0 .. MaxRetries
        /\ MaxRetries \in Nat
    BY <1>0, ApprovalsAssumption DEF RequestRecord
  <1>2. /\ req[r].drops + 1 <= req[r].tries /\ req[r].tries <= req[r].drops + 2
        /\ req[r].tries > req[r].drops + 1 => Over(req[r].approval)
        /\ req[r].approval \in Approval /\ req[r].token \in Token /\ Granted(req[r].approval)
    BY <1>0 DEF Sound, Engaged
  <1>3. PICK d \in 0 .. MaxRetries : d = req[r].drops + 1
    BY <1>1, <1>2
  <1>4. new = [req[r] EXCEPT !.pc = "reserved", !.dirty = FALSE, !.drops = d]
    BY <1>0, <1>3 DEF Dropped, Left, RequestRecord
  <1>5. /\ new \in RequestRecord /\ new.pc = "reserved" /\ new.dirty = FALSE
        /\ new.tries = req[r].tries /\ new.drops = d
        /\ new.token = req[r].token /\ new.approval = req[r].approval
    BY <1>0, <1>4 DEF RequestRecord
  <1>6. /\ new.drops <= new.tries /\ new.tries <= new.drops + 1
        /\ new.tries > new.drops => Over(new.approval)
    BY <1>1, <1>2, <1>3, <1>5
  <1>7. Sound(new)
    BY <1>2, <1>5, <1>6 DEF Sound, Engaged, Watching, Consumers
  <1> QED BY <1>5, <1>7

LEMMA DropsInv ==
    ASSUME AInv, NEW r \in Request, Drops(r)
    PROVE  AInv'
  <1>1. StoreSame /\ TokenType'
    BY DEF Drops, StoreSame, AInv, TokenType
  <1>2. PICK new : new = Dropped(r)
    OBVIOUS
  <1>3. req' = [req EXCEPT ![r] = new] /\ req[r].pc \in Watching
    BY <1>2 DEF Drops
  <1>4. new \in RequestRecord /\ Sound(new) /\ new.pc = "reserved"
    BY <1>2, <1>3, DroppedFacts
  <1>5. new.pc \notin Consumers
    BY <1>4 DEF Consumers
  <1> QED BY <1>1, <1>3, <1>4, <1>5, OneRequest

LEMMA FailsInv ==
    ASSUME AInv, NEW r \in Request, Fails(r)
    PROVE  AInv'
  <1> DEFINE new == [req[r] EXCEPT !.pc = "failed", !.dirty = FALSE]
  <1>0. req[r] \in RequestRecord
    BY DEF AInv
  <1>1. StoreSame /\ TokenType'
    BY DEF Fails, StoreSame, AInv, TokenType
  <1>2. req' = [req EXCEPT ![r] = new]
    BY DEF Fails, Left, AInv
  <1>3. new \in RequestRecord /\ new.pc = "failed" /\ new.dirty = FALSE
    BY <1>0 DEF RequestRecord, Ended
  <1> HIDE DEF new
  <1>4. Sound(new) /\ new.pc \notin Consumers
    BY <1>3 DEF Sound, Engaged, Watching, Consumers
  <1> QED BY <1>1, <1>2, <1>3, <1>4, OneRequest

(* Steps that leave the requests alone as well.                            *)
LEMMA TokenStep ==
    ASSUME AInv, StoreSame, UNCHANGED req, TokenType'
    PROVE  AInv'
  <1>1. StoreType' /\ StoreInv' /\ \A q : Sound(q) => Sound(q)'
    BY StoreStays
  <1>2. ASSUME NEW r \in Request PROVE Sound(req[r])'
    <2>1. PICK v : v = req[r]
      OBVIOUS
    <2>2. Sound(v)'
      BY <1>1, <2>1 DEF AInv
    <2> QED BY <2>1, <2>2 DEF Sound
  <1>3. req' \in [Request -> RequestRecord] /\ Unique'
    BY DEF AInv, Unique
  <1> QED BY <1>1, <1>2, <1>3 DEF AInv

LEMMA IssueInv ==
    ASSUME AInv, NEW k \in Token, NEW a \in Approval, NEW ttl \in Lifetimes, Issue(k, a, ttl)
    PROVE  AInv'
  <1>1. ttl \in Nat
    BY ApprovalsAssumption, LifetimeAssumption
  <1>2. StoreSame /\ UNCHANGED req
    BY DEF Issue, StoreSame
  <1>3. TokenType'
    BY <1>1 DEF Issue, AInv, TokenType
  <1> QED BY <1>2, <1>3, TokenStep

LEMMA SignInv ==
    ASSUME AInv, NEW k \in Token, Sign(k)
    PROVE  AInv'
  <1> DEFINE exp == Seconds(now) + token[k].ttl
             new == [token[k] EXCEPT !.pc = "issued", !.exp = exp]
  <1>1. exp \in Nat
    <2>1. now \in Nat /\ token[k].ttl \in Nat
      BY DEF AInv, StoreType, TokenType
    <2>2. Seconds(now) \in Nat
      BY <2>1, LifetimeAssumption, Z3 DEF Seconds
    <2> QED BY <2>1, <2>2
  <1>2. StoreSame /\ UNCHANGED req
    BY DEF Sign, StoreSame
  <1>3. token' = [token EXCEPT ![k] = new] /\ token[k].pc = "signing"
    BY DEF Sign, AInv, TokenType
  <1> HIDE DEF exp
  <1>4. /\ new \in [pc : {"none", "signing", "issued", "spent"},
                    approval : Approval \cup {None}, ttl : Nat, exp : Nat]
        /\ new.approval = token[k].approval
    BY <1>1 DEF AInv, TokenType
  <1>5. token[k].approval \in Approval
    BY <1>3 DEF AInv, TokenType
  <1> HIDE DEF new
  <1>6. TokenType'
    BY <1>3, <1>4, <1>5 DEF AInv, TokenType
  <1> QED BY <1>2, <1>6, TokenStep

-----------------------------------------------------------------------------
(* Steps that change the store, as the requests see them: an approval that *)
(* is over stays over, Redis marks every transaction that watches a key of *)
(* the touched resources, and every touched approval is over.              *)
Moves(resources) ==
    /\ store' = store
    /\ consumed \subseteq consumed'
    /\ \A a \in Approval : Granted(a) =>
          /\ Granted(a)'
          /\ Over(a) => Over(a)'
          /\ ResourceOf(a) \in resources => Over(a)'
          /\ store = "redis" /\ ResourceOf(a) \notin resources /\ IsActive(a) => IsActive(a)'

Marked(q, resources) ==
    IF q.pc \in Watching /\ ResourceOf(q.approval) \in resources
    THEN [q EXCEPT !.dirty = TRUE] ELSE q

LEMMA TouchedIsMarked ==
    ASSUME NEW requests, NEW resources
    PROVE  /\ Touched(requests, resources) = [q \in Request |-> Marked(requests[q], resources)]
           /\ \A q \in Request :
                 Touched(requests, resources)[q] = Marked(requests[q], resources)
  BY DEF Touched, Marked

LEMMA MarkedFacts ==
    ASSUME NEW q \in RequestRecord, NEW resources
    PROVE  /\ Marked(q, resources) \in RequestRecord
           /\ Marked(q, resources).pc = q.pc
           /\ Marked(q, resources).token = q.token
           /\ Marked(q, resources).approval = q.approval
           /\ Marked(q, resources).tries = q.tries
           /\ Marked(q, resources).drops = q.drops
           /\ Marked(q, resources).dirty =
                IF q.pc \in Watching /\ ResourceOf(q.approval) \in resources
                THEN TRUE ELSE q.dirty
  <1>1. CASE q.pc \in Watching /\ ResourceOf(q.approval) \in resources
    <2>1. Marked(q, resources) = [q EXCEPT !.dirty = TRUE]
      BY <1>1 DEF Marked
    <2> QED BY <1>1, <2>1 DEF RequestRecord
  <1>2. CASE ~ (q.pc \in Watching /\ ResourceOf(q.approval) \in resources)
    <2>1. Marked(q, resources) = q
      BY <1>2 DEF Marked
    <2> QED BY <1>2, <2>1
  <1> QED BY <1>1, <1>2

LEMMA MovesKeepsSound ==
    ASSUME NEW q \in RequestRecord, Sound(q), NEW resources, Moves(resources),
           NEW new, new = Marked(q, resources)
    PROVE  Sound(new)'
  <1>1. /\ new.pc = q.pc /\ new.token = q.token /\ new.approval = q.approval
        /\ new.tries = q.tries /\ new.drops = q.drops
        /\ new.dirty = IF q.pc \in Watching /\ ResourceOf(q.approval) \in resources
                       THEN TRUE ELSE q.dirty
    BY MarkedFacts
  <1> DEFINE a == q.approval
  <1>2. q.pc \in Engaged =>
          /\ a \in Approval /\ q.token \in Token /\ Granted(a) /\ Granted(a)'
          /\ Over(a) => Over(a)'
          /\ ResourceOf(a) \in resources => Over(a)'
          /\ store = "redis" /\ ResourceOf(a) \notin resources /\ IsActive(a) => IsActive(a)'
    BY DEF Sound, Moves
  <1>3. {"vetted", "reserved", "contended", "watched", "deleting"} \subseteq Engaged
        /\ Watching = {"watched", "deleting"} /\ Consumers \subseteq Engaged
    BY DEF Engaged, Watching
  <1>4. /\ q.pc \in Watching => store = "redis" /\ store' = "redis"
        /\ q.pc \notin Watching => q.dirty = FALSE
        /\ q.pc = "vetted" => q.tries = 0 /\ q.drops = 0
        /\ q.pc \in {"reserved", "contended"} =>
              q.drops <= q.tries /\ q.tries <= q.drops + 1
        /\ q.pc \in {"reserved", "contended"} /\ q.tries > q.drops => Over(a)
        /\ q.pc \in Watching => q.drops + 1 <= q.tries /\ q.tries <= q.drops + 2
        /\ q.pc \in Watching /\ q.tries > q.drops + 1 => Over(a)
        /\ q.pc = "deleting" => q.tries = q.drops + 1
        /\ q.pc = "deleting" /\ q.dirty = FALSE => IsActive(a)
        /\ q.pc \in Watching /\ q.dirty = TRUE => Over(a)
        /\ q.pc \in Consumers => a \in consumed'
    BY DEF Sound, Moves
  <1>5. /\ q.pc \in Engaged => new.approval \in Approval /\ new.token \in Token /\ Granted(a)'
        /\ new.pc \notin Watching => new.dirty = FALSE
        /\ q.pc \in {"reserved", "contended"} /\ q.tries > q.drops => Over(a)'
        /\ q.pc \in Watching /\ q.tries > q.drops + 1 => Over(a)'
        /\ q.pc = "deleting" /\ new.dirty = FALSE => IsActive(a)'
        /\ q.pc \in Watching /\ new.dirty = TRUE => Over(a)'
    BY <1>1, <1>2, <1>3, <1>4
  <1>6. a = new.approval
    BY <1>1
  <1> HIDE DEF a
  <1> QED BY <1>1, <1>4, <1>5, <1>6 DEF Sound

LEMMA MovesInv ==
    ASSUME AInv, NEW resources, Moves(resources), StoreType', StoreInv', TokenType',
           req' = Touched(req, resources)
    PROVE  AInv'
  <1>1. \A q \in Request : req[q] \in RequestRecord /\ Sound(req[q])
    BY DEF AInv
  <1>0. ASSUME NEW q \in Request
        PROVE  /\ Marked(req[q], resources) \in RequestRecord
               /\ Marked(req[q], resources).pc = req[q].pc
               /\ Marked(req[q], resources).approval = req[q].approval
    <2>1. req[q] \in RequestRecord
      BY <1>1
    <2> QED BY <2>1, MarkedFacts
  <1>2. req' \in [Request -> RequestRecord]
    <2>1. req' = [q \in Request |-> Marked(req[q], resources)]
      BY TouchedIsMarked
    <2> QED BY <1>0, <2>1
  <1>3. \A q \in Request : req'[q] = Marked(req[q], resources)
    BY TouchedIsMarked
  <1>4. ASSUME NEW q \in Request PROVE Sound(req[q])'
    <2>1. PICK new : new = Marked(req[q], resources)
      OBVIOUS
    <2>2. Sound(new)'
      BY <1>1, <2>1, MovesKeepsSound
    <2> QED BY <1>3, <2>1, <2>2 DEF Sound
  <1>5. \A q \in Request : req'[q].pc = req[q].pc /\ req'[q].approval = req[q].approval
    BY <1>0, <1>3
  <1>6. Unique'
    BY <1>5 DEF AInv, Unique
  <1> QED BY <1>2, <1>4, <1>6 DEF AInv

(* A step that touches no watched key.                                     *)
LEMMA UntouchedInv ==
    ASSUME AInv, Moves({}), StoreType', StoreInv', UNCHANGED <<token, req>>
    PROVE  AInv'
  <1>1. \A q \in Request : Marked(req[q], {}) = req[q]
    BY DEF Marked
  <1>2. Touched(req, {}) = [q \in Request |-> req[q]]
    BY <1>1, TouchedIsMarked
  <1>3. req' = Touched(req, {})
    BY <1>2 DEF AInv
  <1>4. TokenType'
    BY DEF AInv, TokenType
  <1> QED BY <1>3, <1>4, MovesInv

LEMMA ApproveInv ==
    ASSUME AInv, NEW a \in Approval, Approve(a) \/ PutSent(a)
    PROVE  AInv'
  <1>1. /\ UNCHANGED <<store, now, records, active, token, req, current, consumed>>
        /\ approving[a].pc \in {"new", "checked"}
        /\ \E pc \in {"checked", "sending"}, read \in {approving[a].read, now} :
              approving' = [approving EXCEPT ![a] = [pc |-> pc, read |-> read]]
    <2>1. approving[a] \in [pc : {"new", "checked", "sending", "stored"}, read : Nat]
      BY DEF AInv, StoreType
    <2>2. CASE Approve(a)
      <3>1. [approving[a] EXCEPT !.pc = "checked"] = [pc |-> "checked", read |-> approving[a].read]
        BY <2>1
      <3>2. approving' = [approving EXCEPT ![a] = [approving[a] EXCEPT !.pc = "checked"]]
        BY <2>2 DEF Approve, AInv, StoreType
      <3> QED BY <2>2, <3>1, <3>2 DEF Approve
    <2>3. CASE PutSent(a)
      BY <2>3 DEF PutSent
    <2> QED BY <2>2, <2>3
  <1>2. PICK pc \in {"checked", "sending"}, read \in {approving[a].read, now} :
              approving' = [approving EXCEPT ![a] = [pc |-> pc, read |-> read]]
    BY <1>1
  <1>3. read \in Nat /\ read <= now /\ now \in Nat
    BY DEF AInv, StoreType, StoreInv
  <1>4. StoreType'
    BY <1>1, <1>2, <1>3 DEF AInv, StoreType
  <1>5. \A b \in Approval : Granted(b) => Granted(b)'
    BY <1>1, <1>2 DEF AInv, StoreType, Granted
  <1>6. \A b \in Approval : approving'[b].read <= now
    BY <1>2, <1>3 DEF AInv, StoreType, StoreInv
  <1>7. StoreInv'
    BY <1>1, <1>4, <1>5, <1>6, ApprovalsAssumption DEF AInv, StoreType, StoreInv
  <1>8. Moves({})
    BY <1>1, <1>5 DEF Moves, Over, IsActive
  <1> QED BY <1>1, <1>4, <1>7, <1>8, UntouchedInv

-----------------------------------------------------------------------------
(* What put() does in either store.                                        *)
Puts(a) ==
    /\ approving[a].pc # "stored"
    /\ UNCHANGED <<store, now, token, consumed>>
    /\ approving' = [approving EXCEPT ![a].pc = "stored"]
    /\ current' = [current EXCEPT ![ResourceOf(a)] = a]

(* The new approval supersedes: nothing granted before is in force for its *)
(* resource, and what was over stays over, for no id is stored twice.      *)
LEMMA PutFacts ==
    ASSUME AInv, NEW a \in Approval, Puts(a)
    PROVE  /\ approving' \in [Approval -> [pc : {"new", "checked", "sending", "stored"}, read : Nat]]
           /\ current' \in [Resource -> Approval \cup {None}]
           /\ Granted(a)'
           /\ \A b \in Approval : approving'[b].read = approving[b].read
           /\ \A x \in Resource : current'[x] = IF x = ResourceOf(a) THEN a ELSE current[x]
           /\ \A b \in Approval : Granted(b) =>
                 /\ b # a
                 /\ Granted(b)'
                 /\ Over(b) => Over(b)'
                 /\ ResourceOf(b) = ResourceOf(a) => Over(b)'
  <1>0. ResourceOf(a) \in Resource
    BY GrantFacts
  <1>1. /\ approving' \in [Approval -> [pc : {"new", "checked", "sending", "stored"}, read : Nat]]
        /\ \A b \in Approval : /\ approving'[b].read = approving[b].read
                               /\ approving'[b].pc = IF b = a THEN "stored" ELSE approving[b].pc
    BY DEF Puts, AInv, StoreType
  <1>2. /\ current' \in [Resource -> Approval \cup {None}]
        /\ \A x \in Resource : current'[x] = IF x = ResourceOf(a) THEN a ELSE current[x]
    BY <1>0 DEF Puts, AInv, StoreType
  <1>3. ASSUME NEW b \in Approval, Granted(b)
        PROVE  /\ b # a /\ Granted(b)'
               /\ Over(b) => Over(b)'
               /\ ResourceOf(b) = ResourceOf(a) => Over(b)'
    <2>1. b # a /\ Granted(b)'
      BY <1>1, <1>3 DEF Granted, Puts
    <2>2. ResourceOf(b) \in Resource /\ now' = now
      BY GrantFacts DEF Puts
    <2> QED BY <1>2, <2>1, <2>2 DEF Over
  <1> QED BY <1>1, <1>2, <1>3 DEF Granted

(* The resource map of the store loses at most entries of approvals that   *)
(* are over, and the records too.                                          *)
PutKeeps(a, map) ==
    /\ DOMAIN map \subseteq DOMAIN active
    /\ \A x \in DOMAIN map : map[x] = active[x]
    /\ DOMAIN records' \subseteq DOMAIN records \cup {a}
    /\ \A b \in DOMAIN records' : records'[b] \in Nat
    /\ a \in DOMAIN records' /\ records'[a] >= ExpiryTick(a)
    /\ \A x \in Resource : current[x] # None /\ now < ExpiryTick(current[x]) =>
          x \in DOMAIN map /\ (current[x] \in DOMAIN records =>
              current[x] \in DOMAIN records' /\ records'[current[x]] >= ExpiryTick(current[x]))

LEMMA WithFacts ==
    ASSUME NEW map, NEW a, NEW until
    PROVE  /\ DOMAIN With(map, a, until) = DOMAIN map \cup {ResourceOf(a)}
           /\ With(map, a, until)[ResourceOf(a)] = [id |-> a, until |-> until]
           /\ \A x \in DOMAIN map : x # ResourceOf(a) => With(map, a, until)[x] = map[x]
  BY DEF With

LEMMA PutStore ==
    ASSUME AInv, NEW a \in Approval, Puts(a), NEW map, PutKeeps(a, map),
           NEW until \in Nat, until >= ExpiryTick(a), active' = With(map, a, until)
    PROVE  StoreType' /\ StoreInv'
  <1> DEFINE x0 == ResourceOf(a)
  <1>0. x0 \in Resource /\ ExpiryTick(a) \in Nat /\ a # None /\ now' = now /\ now \in Nat
    BY GrantFacts DEF Puts, AInv, StoreType
  <1>1. /\ DOMAIN active' = DOMAIN map \cup {x0}
        /\ active'[x0] = [id |-> a, until |-> until]
        /\ \A x \in DOMAIN map : x # x0 => active'[x] = active[x]
    BY WithFacts DEF PutKeeps
  <1>2. /\ active'[x0].id = a /\ active'[x0].until = until
        /\ active'[x0] \in [id : Approval, until : Nat]
    BY <1>1
  <1>3. /\ DOMAIN active' \subseteq Resource
        /\ \A x \in DOMAIN active' : active'[x] \in [id : Approval, until : Nat]
    BY <1>0, <1>1, <1>2 DEF PutKeeps, AInv, StoreType
  <1>4. DOMAIN records' \subseteq Approval /\ \A b \in DOMAIN records' : records'[b] \in Nat
    BY DEF PutKeeps, AInv, StoreType
  <1>5. StoreType'
    BY <1>3, <1>4, PutFacts DEF Puts, AInv, StoreType
  <1>6. \A x \in Resource : current'[x] = IF x = x0 THEN a ELSE current[x]
    BY PutFacts
  <1>7. \A x \in Resource \ {x0} : current[x] # None =>
          /\ current[x] \in Approval
          /\ Granted(current[x]) /\ ResourceOf(current[x]) = x
    BY DEF AInv, StoreType, StoreInv
  <1>8. \A b \in Approval : Granted(b) => Granted(b)'
    BY PutFacts
  <1>9. \A x \in DOMAIN active' : active'[x].id = current'[x]
    <2>1. \A x \in DOMAIN map \ {x0} : active[x].id = current[x] /\ x \in Resource
      BY DEF PutKeeps, AInv, StoreInv, StoreType
    <2> QED BY <1>0, <1>1, <1>2, <1>6, <2>1
  <1>10. ASSUME NEW x \in Resource, current'[x] # None
         PROVE  Granted(current[x])' /\ ResourceOf(current'[x]) = x
    <2>1. CASE x = x0
      BY <1>6, <2>1, PutFacts DEF Granted
    <2>2. CASE x # x0
      <3>1. current'[x] = current[x]
        BY <1>6, <2>2
      <3>2. /\ current[x] \in Approval /\ Granted(current[x])
            /\ ResourceOf(current[x]) = x
        BY <1>7, <1>10, <2>2, <3>1
      <3>3. approving'[current[x]].pc = "stored"
        BY <1>8, <3>2 DEF Granted
      <3> QED BY <3>1, <3>2, <3>3 DEF Granted
    <2> QED BY <2>1, <2>2
  <1>11. ASSUME NEW x \in Resource, current'[x] # None, now' < ExpiryTick(current'[x])
         PROVE  /\ x \in DOMAIN active' /\ active'[x].until >= ExpiryTick(current'[x])
                /\ current'[x] \in DOMAIN records'
                /\ records'[current'[x]] >= ExpiryTick(current'[x])
    <2>1. CASE x = x0
      <3>1. current'[x] = a
        BY <1>6, <2>1
      <3> QED BY <1>1, <1>2, <2>1, <3>1 DEF PutKeeps
    <2>2. CASE x # x0
      <3>1. current'[x] = current[x]
        BY <1>6, <2>2
      <3>2. /\ current[x] \in DOMAIN records
            /\ active[x].until >= ExpiryTick(current[x])
        BY <1>0, <1>11, <3>1 DEF AInv, StoreInv
      <3>3. /\ x \in DOMAIN map /\ current[x] \in DOMAIN records'
            /\ records'[current[x]] >= ExpiryTick(current[x])
        BY <1>0, <1>11, <3>1, <3>2 DEF PutKeeps
      <3> QED BY <1>1, <2>2, <3>1, <3>2, <3>3
    <2> QED BY <2>1, <2>2
  <1>12. \A b \in DOMAIN records' : Granted(b)'
    <2>1. \A b \in DOMAIN records : b \in Approval /\ Granted(b)
      BY DEF AInv, StoreType, StoreInv
    <2>2. DOMAIN records' \subseteq DOMAIN records \cup {a}
      BY DEF PutKeeps
    <2> QED BY <1>8, <2>1, <2>2, PutFacts
  <1>13. \A b \in Approval : approving'[b].read <= now'
    BY <1>0, PutFacts DEF AInv, StoreInv
  <1>14. \A b \in consumed' : Granted(b)' /\ current'[ResourceOf(b)] # b
    <2> SUFFICES ASSUME NEW b \in consumed PROVE Granted(b)' /\ current'[ResourceOf(b)] # b
      BY DEF Puts
    <2>1. b \in Approval /\ Granted(b) /\ current[ResourceOf(b)] # b /\ ResourceOf(b) \in Resource
      BY GrantFacts DEF AInv, StoreType, StoreInv
    <2>2. b # a /\ Granted(b)'
      BY <2>1, PutFacts
    <2> QED BY <1>6, <2>1, <2>2
  <1> QED BY <1>5, <1>9, <1>10, <1>11, <1>12, <1>13, <1>14 DEF StoreInv

LEMMA PutLocalInv ==
    ASSUME AInv, NEW a \in Approval, PutLocal(a)
    PROVE  AInv'
  <1> DEFINE kept == {b \in DOMAIN records : ExpiryTick(b) > now}
             map == [x \in {x \in DOMAIN active : active[x].id \in kept} |-> active[x]]
  <1>0. store = "memory" /\ Puts(a) /\ UNCHANGED <<token, req>>
    BY DEF PutLocal, Puts
  <1>1. records' = [b \in kept \cup {a} |-> ExpiryTick(b)] /\ active' = With(map, a, ExpiryTick(a))
    BY DEF PutLocal
  <1>2. ExpiryTick(a) \in Nat /\ now \in Nat
    BY GrantFacts DEF AInv, StoreType
  <1>3. \A b \in DOMAIN records : ExpiryTick(b) \in Nat
    BY GrantFacts DEF AInv, StoreType
  <1>4. PutKeeps(a, map)
    <2>1. ASSUME NEW x \in Resource, current[x] # None, now < ExpiryTick(current[x])
          PROVE  x \in DOMAIN map /\ current[x] \in kept
      <3>1. x \in DOMAIN active /\ active[x].id = current[x] /\ current[x] \in DOMAIN records
        BY <2>1 DEF AInv, StoreInv
      <3>2. current[x] \in kept
        BY <1>2, <1>3, <2>1, <3>1
      <3> QED BY <3>1, <3>2
    <2>2. DOMAIN map \subseteq DOMAIN active /\ \A x \in DOMAIN map : map[x] = active[x]
      OBVIOUS
    <2>3. kept \subseteq DOMAIN records
      OBVIOUS
    <2> HIDE DEF kept, map
    <2>4. /\ DOMAIN records' = kept \cup {a}
          /\ \A b \in kept \cup {a} : records'[b] = ExpiryTick(b) /\ ExpiryTick(b) \in Nat
      BY <1>1, <1>2, <1>3, <2>3
    <2> QED BY <2>1, <2>2, <2>3, <2>4 DEF PutKeeps
  <1> HIDE DEF map
  <1>5. StoreType' /\ StoreInv'
    BY <1>0, <1>1, <1>2, <1>4, PutStore
  <1>6. Moves({})
    BY <1>0, PutFacts DEF Moves, Puts
  <1> QED BY <1>0, <1>5, <1>6, UntouchedInv

LEMMA PutStoredInv ==
    ASSUME AInv, NEW a \in Approval, PutStored(a)
    PROVE  AInv'
  <1> DEFINE until == now + TTL(a, approving[a].read) * TicksPerSecond
  <1>0. Puts(a) /\ UNCHANGED token
    BY DEF PutStored, Puts
  <1>1. /\ records' = [b \in DOMAIN records \cup {a} |-> IF b = a THEN until ELSE records[b]]
        /\ active' = With(active, a, until) /\ req' = Touched(req, {ResourceOf(a)})
    BY DEF PutStored
  <1>2. /\ approving[a].read \in Nat /\ approving[a].read <= now /\ now \in Nat
    BY DEF AInv, StoreType, StoreInv
  <1>3. until \in Nat /\ until >= ExpiryTick(a)
    BY <1>2, TTLOutlasts
  <1> HIDE DEF until
  <1>4. PutKeeps(a, active)
    <2>1. /\ DOMAIN records' = DOMAIN records \cup {a} /\ records'[a] = until
          /\ \A b \in DOMAIN records : b # a => records'[b] = records[b]
      BY <1>1
    <2>2. ASSUME NEW x \in Resource, current[x] # None, now < ExpiryTick(current[x])
          PROVE  /\ x \in DOMAIN active /\ current[x] \in DOMAIN records'
                 /\ records'[current[x]] >= ExpiryTick(current[x])
      <3>1. /\ x \in DOMAIN active /\ current[x] \in DOMAIN records /\ Granted(current[x])
            /\ records[current[x]] >= ExpiryTick(current[x])
        BY <2>2 DEF AInv, StoreInv
      <3>2. current[x] # a
        BY <1>0, <3>1 DEF Puts, Granted
      <3> QED BY <2>1, <3>1, <3>2
    <2>3. \A b \in DOMAIN records' : records'[b] \in Nat
      BY <1>3, <2>1 DEF AInv, StoreType
    <2> QED BY <1>3, <2>1, <2>2, <2>3 DEF PutKeeps
  <1>5. StoreType' /\ StoreInv'
    BY <1>0, <1>1, <1>3, <1>4, PutStore
  <1>6. \A b \in Approval : ResourceOf(b) # ResourceOf(a) /\ IsActive(b) => IsActive(b)'
    <2>1. /\ DOMAIN active' = DOMAIN active \cup {ResourceOf(a)}
          /\ \A x \in DOMAIN active : x # ResourceOf(a) => active'[x] = active[x]
      BY <1>1 DEF With
    <2> QED BY <2>1 DEF IsActive
  <1>7. Moves({ResourceOf(a)})
    BY <1>0, <1>6, PutFacts DEF Moves, Puts
  <1>8. TokenType'
    BY <1>0 DEF AInv, TokenType
  <1> QED BY <1>1, <1>5, <1>7, <1>8, MovesInv

-----------------------------------------------------------------------------
(* The resource loses its approval: invalidate(), and EXEC of a consume(). *)
Ends(x) ==
    /\ UNCHANGED <<store, now, records, approving, token>>
    /\ active' = Without(x)
    /\ current' = [current EXCEPT ![x] = None]

LEMMA EndsFacts ==
    ASSUME AInv, NEW x \in Resource, Ends(x)
    PROVE  /\ current' \in [Resource -> Approval \cup {None}]
           /\ \A y \in Resource : current'[y] = IF y = x THEN None ELSE current[y]
           /\ DOMAIN active' = DOMAIN active \ {x}
           /\ \A y \in DOMAIN active \ {x} : active'[y] = active[y]
           /\ \A b \in Approval :
                 /\ Over(b) => Over(b)'
                 /\ ResourceOf(b) = x => Over(b)'
                 /\ ResourceOf(b) # x /\ IsActive(b) => IsActive(b)'
  <1>1. /\ current' \in [Resource -> Approval \cup {None}]
        /\ \A y \in Resource : current'[y] = IF y = x THEN None ELSE current[y]
    BY DEF Ends, AInv, StoreType
  <1>2. /\ DOMAIN active' = DOMAIN active \ {x}
        /\ \A y \in DOMAIN active \ {x} : active'[y] = active[y]
    BY DEF Ends, Without
  <1>3. ASSUME NEW b \in Approval
        PROVE  /\ Over(b) => Over(b)'
               /\ ResourceOf(b) = x => Over(b)'
    BY <1>1, GrantFacts DEF Over, Ends
  <1>4. ASSUME NEW b \in Approval, ResourceOf(b) # x, IsActive(b) PROVE IsActive(b)'
    BY <1>2, <1>4 DEF IsActive
  <1> QED BY <1>1, <1>2, <1>3, <1>4

LEMMA EndsStore ==
    ASSUME AInv, NEW x \in Resource, Ends(x), consumed' \subseteq Approval,
           \A b \in consumed' : b \in consumed \/ (Granted(b) /\ ResourceOf(b) = x)
    PROVE  StoreType' /\ StoreInv'
  <1>0. now' = now /\ records' = records /\ approving' = approving
    BY DEF Ends
  <1>1. /\ \A y \in Resource : current'[y] = IF y = x THEN None ELSE current[y]
        /\ DOMAIN active' = DOMAIN active \ {x}
        /\ \A y \in DOMAIN active \ {x} : active'[y] = active[y]
        /\ current' \in [Resource -> Approval \cup {None}]
    BY EndsFacts
  <1>2. StoreType'
    BY <1>0, <1>1 DEF AInv, StoreType, Ends
  <1>3. \A y \in DOMAIN active' : active'[y].id = current'[y]
    BY <1>1 DEF AInv, StoreType, StoreInv
  <1>4. \A y \in Resource : current'[y] # None =>
          /\ Granted(current[y])' /\ ResourceOf(current'[y]) = y
          /\ now' < ExpiryTick(current'[y]) =>
                /\ y \in DOMAIN active' /\ active'[y].until >= ExpiryTick(current'[y])
                /\ current'[y] \in DOMAIN records'
                /\ records'[current'[y]] >= ExpiryTick(current'[y])
    <2> SUFFICES ASSUME NEW y \in Resource, current'[y] # None
                 PROVE  /\ approving'[current'[y]].pc = "stored" /\ ResourceOf(current'[y]) = y
                        /\ now' < ExpiryTick(current'[y]) =>
                              /\ y \in DOMAIN active' /\ active'[y].until >= ExpiryTick(current'[y])
                              /\ current'[y] \in DOMAIN records'
                              /\ records'[current'[y]] >= ExpiryTick(current'[y])
      BY DEF Granted
    <2>1. y # x /\ current'[y] = current[y]
      BY <1>1
    <2> QED BY <1>0, <1>1, <2>1 DEF AInv, StoreInv, Granted
  <1>5. \A b \in DOMAIN records' : Granted(b)'
    BY <1>0 DEF AInv, StoreInv, Granted
  <1>6. \A b \in Approval : approving'[b].read <= now'
    BY <1>0 DEF AInv, StoreInv
  <1>7. \A b \in consumed' : Granted(b)' /\ current'[ResourceOf(b)] # b
    <2> SUFFICES ASSUME NEW b \in consumed' PROVE Granted(b) /\ current'[ResourceOf(b)] # b
      BY <1>0 DEF Granted
    <2>1. b \in Approval /\ ResourceOf(b) \in Resource /\ b # None
      BY GrantFacts
    <2>2. Granted(b) /\ (current[ResourceOf(b)] # b \/ ResourceOf(b) = x)
      BY DEF AInv, StoreInv
    <2> QED BY <1>1, <2>1, <2>2
  <1> QED BY <1>2, <1>3, <1>4, <1>5, <1>6, <1>7 DEF StoreInv

LEMMA InvalidateInv ==
    ASSUME AInv, NEW x \in Resource, Invalidate(x)
    PROVE  AInv'
  <1>0. Ends(x) /\ UNCHANGED <<token, consumed>> /\ req' = Touched(req, {x})
    BY DEF Invalidate, Ends
  <1>1. consumed' \subseteq Approval
    BY <1>0 DEF AInv, StoreType
  <1>2. StoreType' /\ StoreInv'
    BY <1>0, <1>1, EndsStore
  <1>3. \A b \in Approval : Granted(b) => Granted(b)'
    BY <1>0 DEF Ends, Granted
  <1>4. Moves({x})
    BY <1>0, <1>3, EndsFacts DEF Moves, Ends
  <1>5. TokenType'
    BY <1>0 DEF AInv, TokenType
  <1> QED BY <1>0, <1>2, <1>4, <1>5, MovesInv

(* Time passes.  Redis drops only keys of approvals that are over then.    *)
LEMMA TickInv ==
    ASSUME AInv, Tick
    PROVE  AInv'
  <1>0. now \in Nat /\ now' = now + 1 /\ UNCHANGED <<store, approving, token, current, consumed>>
    BY DEF AInv, StoreType, Tick
  <1>1. PICK gone : /\ gone = IF store = "redis"
                              THEN {x \in DOMAIN active : active[x].until <= now + 1} ELSE {}
                    /\ active' = [x \in DOMAIN active \ gone |-> active[x]]
                    /\ req' = Touched(req, gone)
    BY DEF Tick
  <1>2. /\ DOMAIN active' = DOMAIN active \ gone
        /\ \A x \in DOMAIN active' : active'[x] = active[x]
    BY <1>1
  <1>3. /\ DOMAIN records' = {a \in DOMAIN records : store = "redis" => records[a] > now + 1}
        /\ \A a \in DOMAIN records' : records'[a] = records[a]
    BY DEF Tick
  <1>4. StoreType'
    BY <1>0, <1>2, <1>3 DEF AInv, StoreType
  <1>5. ASSUME NEW x \in Resource, current[x] # None, now + 1 < ExpiryTick(current[x])
        PROVE  /\ x \in DOMAIN active' /\ active'[x].until >= ExpiryTick(current[x])
               /\ current[x] \in DOMAIN records'
               /\ records'[current[x]] >= ExpiryTick(current[x])
    <2>1. current[x] \in Approval /\ ExpiryTick(current[x]) \in Nat
      BY <1>5, GrantFacts DEF AInv, StoreType
    <2>2. now < ExpiryTick(current[x])
      BY <1>0, <1>5, <2>1
    <2>3. /\ x \in DOMAIN active /\ active[x].until >= ExpiryTick(current[x])
          /\ current[x] \in DOMAIN records
          /\ records[current[x]] >= ExpiryTick(current[x])
      BY <1>5, <2>2 DEF AInv, StoreInv
    <2>4. active[x].until \in Nat /\ records[current[x]] \in Nat
      BY <2>3 DEF AInv, StoreType
    <2>5. x \notin gone /\ records[current[x]] > now + 1
      BY <1>0, <1>1, <1>5, <2>1, <2>3, <2>4
    <2> QED BY <1>2, <1>3, <2>3, <2>5
  <1>6. StoreInv'
    <2>1. \A x \in DOMAIN active' : active'[x].id = current'[x]
      BY <1>0, <1>2 DEF AInv, StoreInv
    <2>2. \A x \in Resource : current'[x] # None =>
            Granted(current[x])' /\ ResourceOf(current'[x]) = x
      BY <1>0 DEF AInv, StoreInv, Granted
    <2>3. \A b \in DOMAIN records' : Granted(b)'
      BY <1>0, <1>3 DEF AInv, StoreInv, Granted
    <2>4. \A b \in Approval : approving'[b].read <= now'
      BY <1>0 DEF AInv, StoreInv, StoreType
    <2>5. \A b \in consumed' : Granted(b)' /\ current'[ResourceOf(b)] # b
      BY <1>0 DEF AInv, StoreInv, Granted
    <2>6. \A x \in Resource : current'[x] # None /\ now' < ExpiryTick(current'[x]) =>
            /\ x \in DOMAIN active' /\ active'[x].until >= ExpiryTick(current'[x])
            /\ current'[x] \in DOMAIN records'
            /\ records'[current'[x]] >= ExpiryTick(current'[x])
      BY <1>0, <1>5
    <2> QED BY <2>1, <2>2, <2>3, <2>4, <2>5, <2>6 DEF StoreInv
  <1>7. ASSUME NEW b \in Approval, Granted(b)
        PROVE  /\ Granted(b)'
               /\ Over(b) => Over(b)'
               /\ ResourceOf(b) \in gone => Over(b)'
               /\ ResourceOf(b) \notin gone /\ IsActive(b) => IsActive(b)'
    <2>1. Granted(b)'
      BY <1>0, <1>7 DEF Granted
    <2>2. ExpiryTick(b) \in Nat /\ ResourceOf(b) \in Resource /\ b # None
      BY GrantFacts
    <2>3. Over(b) => Over(b)'
      BY <1>0, <2>2 DEF Over
    <2>4. current[ResourceOf(b)] = b /\ now + 1 < ExpiryTick(b) => ResourceOf(b) \notin gone
      BY <1>2, <1>5, <2>2
    <2>5. ResourceOf(b) \in gone => Over(b)'
      BY <1>0, <2>2, <2>4 DEF Over
    <2>6. ResourceOf(b) \notin gone /\ IsActive(b) => IsActive(b)'
      BY <1>2 DEF IsActive
    <2> QED BY <2>1, <2>3, <2>5, <2>6
  <1>8. Moves(gone)
    BY <1>0, <1>7 DEF Moves
  <1>9. TokenType'
    BY <1>0 DEF AInv, TokenType
  <1> QED BY <1>1, <1>4, <1>6, <1>8, <1>9, MovesInv

-----------------------------------------------------------------------------
(* The approval is consumed while it is in force, which ends it: no other  *)
(* request has consumed it, and none will.                                 *)
LEMMA ConsumedInv ==
    ASSUME AInv, NEW r \in Request, NEW after \in RequestRecord, Consumed(r, after),
           req[r].pc \in {"reserved", "deleting"}, IsActive(req[r].approval),
           after.approval = req[r].approval, after.token = req[r].token, after.dirty = FALSE,
           \/ after.pc \in Consumers
           \/ after.pc = "reserved" /\ Sound(after)
    PROVE  AInv'
  <1>0. req[r] \in RequestRecord /\ Sound(req[r])
    BY DEF AInv
  <1>1. PICK a : a = req[r].approval
    OBVIOUS
  <1>2. a \in Approval /\ req[r].token \in Token /\ Granted(a) /\ IsActive(a)
    BY <1>0, <1>1 DEF Sound, Engaged, Watching
  <1>3. PICK x \in Resource : x = ResourceOf(a)
    BY <1>2, GrantFacts
  <1>4. /\ Ends(x) /\ consumed' = consumed \cup {a} /\ UNCHANGED token
        /\ req' = Touched([req EXCEPT ![r] = after], {x})
    BY <1>1, <1>3 DEF Consumed, Ends
  <1>5. StoreType' /\ StoreInv'
    <2>1. consumed' \subseteq Approval
      BY <1>2, <1>4 DEF AInv, StoreType
    <2>2. \A b \in consumed' : b \in consumed \/ (Granted(b) /\ ResourceOf(b) = x)
      BY <1>2, <1>3, <1>4
    <2> QED BY <1>4, <2>1, <2>2, EndsStore
  <1>6. ASSUME NEW b \in Approval, Granted(b)
        PROVE  /\ Granted(b)'
               /\ Over(b) => Over(b)'
               /\ ResourceOf(b) \in {x} => Over(b)'
               /\ ResourceOf(b) \notin {x} /\ IsActive(b) => IsActive(b)'
    <2>1. Granted(b)'
      BY <1>4, <1>6 DEF Ends, Granted
    <2> QED BY <1>4, <2>1, EndsFacts
  <1>7. Moves({x})
    BY <1>4, <1>6 DEF Moves, Ends
  <1> DEFINE requests == [req EXCEPT ![r] = after]
  <1>9. req' = Touched(requests, {x})
    BY <1>4
  <1>10. \A q \in Request : requests[q] = IF q = r THEN after ELSE req[q]
    BY DEF AInv
  <1> HIDE DEF requests
  <1>11. /\ req' = [q \in Request |-> Marked(requests[q], {x})]
         /\ \A q \in Request : req'[q] = Marked(requests[q], {x})
    BY <1>9, TouchedIsMarked
  <1>12. ASSUME NEW q \in Request
         PROVE  /\ requests[q] \in RequestRecord
                /\ Marked(requests[q], {x}) \in RequestRecord
                /\ req'[q].pc = requests[q].pc /\ req'[q].approval = requests[q].approval
    <2>1. requests[q] \in RequestRecord
      BY <1>10 DEF AInv
    <2> QED BY <1>11, <2>1, MarkedFacts
  <1>13. req' \in [Request -> RequestRecord]
    BY <1>11, <1>12
  <1>14. after.pc \notin Watching
    BY DEF Consumers, Watching
  <1>15. ASSUME NEW q \in Request PROVE Sound(req[q])'
    <2>1. CASE q = r
      <3>1. req'[q] = after
        BY <1>10, <1>11, <1>14, <2>1 DEF Marked
      <3>2. Granted(a)' /\ a \in consumed'
        BY <1>2, <1>4, <1>6
      <3>3. CASE after.pc \in Consumers
        <4>1. /\ after.pc \in {"authorized", "lost"} /\ after.approval = a
              /\ after.token \in Token /\ after.dirty = FALSE
          BY <1>1, <1>2, <3>3 DEF Consumers
        <4>2. Sound(after)'
          BY <1>2, <3>2, <4>1 DEF Sound, Watching
        <4> QED BY <3>1, <4>2 DEF Sound
      <3>4. CASE after.pc = "reserved" /\ Sound(after)
        <4>1. Marked(after, {x}) = after
          BY <1>14 DEF Marked
        <4>2. Sound(after)'
          BY <1>7, <3>4, <4>1, MovesKeepsSound
        <4> QED BY <3>1, <4>2 DEF Sound
      <3> QED BY <3>3, <3>4
    <2>2. CASE q # r
      <3>1. PICK new : new = Marked(req[q], {x})
        OBVIOUS
      <3>2. req[q] \in RequestRecord /\ Sound(req[q])
        BY DEF AInv
      <3>3. Sound(new)'
        BY <1>7, <3>1, <3>2, MovesKeepsSound
      <3>4. req'[q] = new
        BY <1>10, <1>11, <2>2, <3>1
      <3> QED BY <3>3, <3>4 DEF Sound
    <2> QED BY <2>1, <2>2
  <1>16. Unique'
    <2>1. a \notin consumed
      BY <1>2, ActiveIsCurrent DEF AInv, StoreInv
    <2>2. \A q \in Request : req[q].pc \in Consumers => req[q].approval # a
      BY <2>1 DEF AInv, Sound
    <2>3. \A q \in Request : q # r =>
            req'[q].pc = req[q].pc /\ req'[q].approval = req[q].approval
      BY <1>10, <1>12
    <2>4. req'[r].approval = a
      BY <1>1, <1>10, <1>12
    <2> QED BY <2>2, <2>3, <2>4 DEF AInv, Unique
  <1>17. TokenType'
    BY <1>4 DEF AInv, TokenType
  <1> QED BY <1>5, <1>13, <1>15, <1>16, <1>17 DEF AInv

(* The states EXEC may leave a request in.                                 *)
LEMMA LeftFacts ==
    ASSUME AInv, NEW r \in Request, NEW pc \in Ended
    PROVE  /\ Left(r, pc) \in RequestRecord
           /\ Left(r, pc).pc = pc /\ Left(r, pc).dirty = FALSE
           /\ Left(r, pc).approval = req[r].approval /\ Left(r, pc).token = req[r].token
  <1>1. req[r] \in RequestRecord
    BY DEF AInv
  <1> QED BY <1>1 DEF Left, RequestRecord

LEMMA ConsumeExecInv ==
    ASSUME AInv, NEW r \in Request,
           NEW after \in {Left(r, "authorized"), Left(r, "lost"), Dropped(r)},
           ConsumeExec(r, after)
    PROVE  AInv'
  <1>1. req[r] \in RequestRecord /\ Sound(req[r]) /\ req[r].pc = "deleting" /\ Consumed(r, after)
    BY DEF AInv, ConsumeExec
  <1>2. req[r].dirty = FALSE
    BY <1>1 DEF ConsumeExec, RequestRecord
  <1>3. IsActive(req[r].approval)
    BY <1>1, <1>2 DEF Sound
  <1>4. CASE after = Dropped(r)
    <2>1. /\ after \in RequestRecord /\ Sound(after) /\ after.pc = "reserved"
          /\ after.approval = req[r].approval
          /\ after.token = req[r].token /\ after.dirty = FALSE
      BY <1>1, <1>4, DroppedFacts DEF Watching
    <2> QED BY <1>1, <1>3, <2>1, ConsumedInv
  <1>5. CASE after \in {Left(r, "authorized"), Left(r, "lost")}
    <2>1. PICK pc \in Consumers : after = Left(r, pc)
      BY <1>5 DEF Consumers
    <2>2. pc \in Ended
      BY DEF Ended
    <2>3. /\ after \in RequestRecord /\ after.pc \in Consumers
          /\ after.approval = req[r].approval
          /\ after.token = req[r].token /\ after.dirty = FALSE
      BY <2>1, <2>2, LeftFacts
    <2> QED BY <1>1, <1>3, <2>3, ConsumedInv
  <1> QED BY <1>4, <1>5

LEMMA ConsumeLocalInv ==
    ASSUME AInv, NEW r \in Request, ConsumeLocal(r)
    PROVE  AInv'
  <1> DEFINE a == req[r].approval
  <1>1. Sound(req[r]) /\ req[r].pc = "reserved"
    BY DEF AInv, ConsumeLocal
  <1>2. CASE ExpiryTick(a) > now /\ IsActive(a)
    <2>1. PICK after : after = Left(r, "authorized")
      OBVIOUS
    <2>2. Consumed(r, after)
      BY <1>2, <2>1 DEF ConsumeLocal
    <2>3. /\ after \in RequestRecord /\ after.pc \in Consumers
          /\ after.approval = req[r].approval
          /\ after.token = req[r].token /\ after.dirty = FALSE
      BY <2>1, LeftFacts DEF Ended, Consumers
    <2> QED BY <1>1, <1>2, <2>2, <2>3, ConsumedInv
  <1>3. CASE ~ (ExpiryTick(a) > now /\ IsActive(a))
    <2>1. StoreSame /\ UNCHANGED token /\ req' = Refused(r)
      BY <1>3 DEF ConsumeLocal, StoreSame
    <2> QED BY <2>1, RefusedInv
  <1> QED BY <1>2, <1>3

-----------------------------------------------------------------------------
LEMMA ApprovalsInit == Init => AInv
  <1> SUFFICES ASSUME Init PROVE AInv
    OBVIOUS
  <1>1. StoreType /\ TokenType
    BY DEF Init, StoreType, TokenType, NoToken
  <1>2. NoRequest \in RequestRecord /\ NoRequest.pc = "idle" /\ NoRequest.dirty = FALSE
    <2>1. 0 \in 0 .. MaxRetries
      BY ApprovalsAssumption
    <2> QED BY <2>1 DEF NoRequest, RequestRecord
  <1>3. req \in [Request -> RequestRecord] /\ \A r \in Request : req[r] = NoRequest
    BY <1>2 DEF Init
  <1>4. \A r \in Request : Sound(req[r])
    BY <1>2, <1>3 DEF Sound, Engaged, Watching, Consumers
  <1>5. StoreInv
    BY DEF Init, StoreInv
  <1>6. Unique
    BY <1>2, <1>3 DEF Unique, Consumers
  <1> QED BY <1>1, <1>3, <1>4, <1>5, <1>6 DEF AInv

LEMMA ApprovalsStep == AInv /\ [Next]_vars => AInv'
  <1> SUFFICES ASSUME AInv, [Next]_vars PROVE AInv'
    OBVIOUS
  <1>1. CASE UNCHANGED vars
    <2>1. StoreSame /\ UNCHANGED req /\ TokenType'
      BY <1>1 DEF vars, StoreSame, AInv, TokenType
    <2> QED BY <2>1, TokenStep
  <1>2. CASE Next
    <2>2. CASE \E a \in Approval : Approve(a) \/ PutLocal(a) \/ PutSent(a) \/ PutStored(a)
      BY <2>2, ApproveInv, PutLocalInv, PutStoredInv
    <2>3. CASE \E x \in Resource : Invalidate(x)
      BY <2>3, InvalidateInv
    <2>4. CASE \E k \in Token : \E a \in Approval, ttl \in Lifetimes : Issue(k, a, ttl)
      BY <2>4, IssueInv
    <2>5. CASE \E k \in Token : Sign(k)
      BY <2>5, SignInv
    <2>6. CASE \E r \in Request, k \in Token, a \in Approval, c \in Content : Authorize(r, k, a, c)
      BY <2>6, AuthorizeInv
    <2>7. CASE \E r \in Request :
                 \/ Spend(r) \/ ConsumeLocal(r)
                 \/ ConsumeWatch(r) \/ ConsumeGet(r) \/ ConsumeAborts(r)
                 \/ ConsumeExec(r, Left(r, "authorized"))
                 \/ ConsumeExec(r, Left(r, "lost"))
                 \/ ConsumeExec(r, Dropped(r))
                 \/ Drops(r) \/ Fails(r)
      BY <2>7, SpendInv, ConsumeLocalInv, ConsumeWatchInv, ConsumeGetInv, ConsumeAbortsInv,
         ConsumeExecInv, DropsInv, FailsInv
    <2>8. CASE Tick
      BY <2>8, TickInv
    <2>9. CASE Terminated
      BY <1>1, <2>9 DEF Terminated
    <2> QED BY <1>2, <2>2, <2>3, <2>4, <2>5, <2>6, <2>7, <2>8, <2>9 DEF Next
  <1> QED BY <1>1, <1>2

(* The inductive invariant of Approvals.                                   *)
THEOREM ApprovalsInvariant == Spec => []AInv
  BY ApprovalsInit, ApprovalsStep, PTL DEF Spec

(* An approval authorizes one action, however many tokens were issued for  *)
(* it and however many processes consume it at once.                       *)
THEOREM AtMostOnceCorrect == Spec => []AtMostOnce
  <1>1. ASSUME AInv PROVE AtMostOnce
    <2> SUFFICES ASSUME NEW a \in Approval
                 PROVE  Cardinality({r \in Request : req[r].pc \in Consumers
                                                     /\ req[r].approval = a}) <= 1
      BY DEF AtMostOnce
    <2> DEFINE S == {r \in Request : req[r].pc \in Consumers /\ req[r].approval = a}
    <2>1. \A r, q \in S : r = q
      BY <1>1 DEF AInv, Unique
    <2>2. CASE S = {}
      BY <2>2, FS_EmptySet
    <2>3. CASE S # {}
      <3>1. PICK r : r \in S
        BY <2>3
      <3>2. S = {r}
        BY <2>1, <3>1
      <3> HIDE DEF S
      <3>3. Cardinality(S) = 1
        BY <3>2, FS_Singleton
      <3> QED BY <3>3 DEF S
    <2> QED BY <2>2, <2>3
  <1> QED BY <1>1, ApprovalsInvariant, PTL

(* The store is well formed and knows the approval in force until it       *)
(* expires, whatever put() purged and Redis dropped.                       *)
THEOREM StoreExactCorrect == Spec => []StoreExact
  <1>1. AInv => StoreExact
    BY Typed DEF AInv, StoreInv, StoreExact
  <1> QED BY <1>1, ApprovalsInvariant, PTL

(* consume() loses at most one attempt to contention, and runs out of them *)
(* on an approval in force only when every one lost its connection.        *)
THEOREM ContentionCostsOneTryCorrect == Spec => []ContentionCostsOneTry
  <1>1. AInv => ContentionCostsOneTry
    BY DEF AInv, Sound, Over, ContentionCostsOneTry
  <1> QED BY <1>1, ApprovalsInvariant, PTL

-----------------------------------------------------------------------------
(* Which steps refuse, and when.                                           *)
LEMMA TouchedRefusesNone ==
    ASSUME AInv, NEW requests \in [Request -> RequestRecord], NEW resources,
           req' = Touched(requests, resources), NEW r \in Request,
           requests[r].pc = "refused" => req[r].pc = "refused"
    PROVE  req'[r].pc = "refused" => req[r].pc = "refused"
  <1>1. req'[r] = Marked(requests[r], resources)
    BY TouchedIsMarked
  <1>2. PICK q \in RequestRecord : q = requests[r]
    OBVIOUS
  <1>3. Marked(q, resources).pc = q.pc
    BY MarkedFacts
  <1> QED BY <1>1, <1>2, <1>3

LEMMA ConsumedRefusesNone ==
    ASSUME AInv, NEW s \in Request, NEW after \in RequestRecord, after.pc # "refused",
           Consumed(s, after), NEW r \in Request
    PROVE  req'[r].pc = "refused" => req[r].pc = "refused"
  <1> DEFINE requests == [req EXCEPT ![s] = after]
  <1>1. requests \in [Request -> RequestRecord]
    BY DEF AInv
  <1>2. requests[r].pc = "refused" => req[r].pc = "refused"
    BY DEF AInv
  <1>3. req' = Touched(requests, {ResourceOf(req[s].approval)})
    BY DEF Consumed
  <1> HIDE DEF requests
  <1> QED BY <1>1, <1>2, <1>3, TouchedRefusesNone

(* consume() gives up only on an approval that is over.                    *)
THEOREM RefusalJustifiedCorrect == Spec => RefusalJustified
  <1>1. ASSUME AInv, [Next]_vars
        PROVE  [\A r \in Request : (req[r].pc # "refused" /\ req'[r].pc = "refused") =>
                   \/ current[ResourceOf(req[r].approval)] # req[r].approval
                   \/ now >= ExpiryTick(req[r].approval)]_vars
    <2> SUFFICES ASSUME NEW r \in Request, req[r].pc # "refused", req'[r].pc = "refused"
                 PROVE  Over(req[r].approval)
      BY DEF Over
    <2>0. req[r] \in RequestRecord /\ Sound(req[r]) /\ req \in [Request -> RequestRecord]
      BY <1>1 DEF AInv
    <2>1. CASE \E a \in Approval : PutStored(a)
      BY <1>1, <2>0, <2>1, TouchedRefusesNone DEF PutStored
    <2>2. CASE \E x \in Resource : Invalidate(x)
      BY <1>1, <2>0, <2>2, TouchedRefusesNone DEF Invalidate
    <2>3. CASE Tick
      BY <1>1, <2>0, <2>3, TouchedRefusesNone DEF Tick
    <2>4. ASSUME NEW s \in Request, NEW after \in RequestRecord, after.pc # "refused",
                 Consumed(s, after)
          PROVE  FALSE
      BY <1>1, <2>4, ConsumedRefusesNone
    <2>5. ASSUME NEW s \in Request,
                 NEW after \in {Left(s, "authorized"), Left(s, "lost"), Dropped(s)},
                 ConsumeExec(s, after)
          PROVE  FALSE
      <3>1. after \in RequestRecord /\ after.pc # "refused"
        <4>1. CASE after = Dropped(s)
          <5>1. req[s].pc \in Watching
            BY <2>5 DEF ConsumeExec, Watching
          <5> QED BY <1>1, <4>1, <5>1, DroppedFacts
        <4>2. CASE after \in {Left(s, "authorized"), Left(s, "lost")}
          <5>1. {"authorized", "lost"} \subseteq Ended
            BY DEF Ended, Consumers
          <5> QED BY <1>1, <4>2, <5>1, LeftFacts
        <4> QED BY <4>1, <4>2
      <3> QED BY <2>4, <2>5, <3>1 DEF ConsumeExec
    <2>6. ASSUME NEW s \in Request, ConsumeLocal(s) \/ ConsumeGet(s)
          PROVE  Over(req[r].approval)
      <3>1. CASE ExpiryTick(req[s].approval) > now /\ IsActive(req[s].approval)
        <4>1. \/ Consumed(s, Left(s, "authorized"))
              \/ req' = [req EXCEPT ![s].pc = "deleting"]
          BY <2>6, <3>1 DEF ConsumeLocal, ConsumeGet
        <4>2. req' # [req EXCEPT ![s].pc = "deleting"]
          BY <2>0 DEF RequestRecord
        <4>3. Left(s, "authorized") \in RequestRecord /\ Left(s, "authorized").pc # "refused"
          BY <1>1, LeftFacts DEF Ended, Consumers
        <4> QED BY <2>4, <4>1, <4>2, <4>3
      <3>2. CASE ~ (ExpiryTick(req[s].approval) > now /\ IsActive(req[s].approval))
        <4>1. req' = Refused(s) /\ req[s].pc \in {"reserved", "watched"}
          BY <2>6, <3>2 DEF ConsumeLocal, ConsumeGet
        <4>2. r = s
          BY <2>0, <4>1 DEF Refused
        <4>3. req[r].approval \in Approval
          BY <2>0, <4>1, <4>2 DEF Sound, Engaged, Watching
        <4> QED BY <1>1, <3>2, <4>2, <4>3, ActiveIsCurrent
      <3> QED BY <3>1, <3>2
    <2>7. ASSUME NEW s \in Request,
                 Spend(s) \/ ConsumeWatch(s) \/ ConsumeAborts(s) \/ Drops(s) \/ Fails(s)
          PROVE  FALSE
      <3>1. \E new : req' = [req EXCEPT ![s] = new] /\ new.pc # "refused"
        <4>1. CASE Spend(s)
          BY <2>0, <4>1 DEF Spend, NoRequest, RequestRecord
        <4>2. CASE ConsumeWatch(s)
          BY <2>0, <4>2 DEF ConsumeWatch, RequestRecord
        <4>3. CASE ConsumeAborts(s)
          BY <2>0, <4>3 DEF ConsumeAborts, Left, RequestRecord
        <4>4. CASE Fails(s)
          BY <2>0, <4>4 DEF Fails, Left, RequestRecord
        <4>5. CASE Drops(s)
          BY <1>1, <4>5, DroppedFacts DEF Drops
        <4> QED BY <2>7, <4>1, <4>2, <4>3, <4>4, <4>5
      <3> QED BY <2>0, <3>1
    <2>8. ASSUME NEW s \in Request, NEW k, NEW a, NEW c, Authorize(s, k, a, c)
          PROVE  FALSE
      <3>1. \E new : req' = [req EXCEPT ![s] = new] /\ new.pc # "refused"
        BY <2>8 DEF Authorize, NoRequest
      <3> QED BY <2>0, <3>1
    <2>9. CASE UNCHANGED req
      BY <2>9
    <2> QED BY <1>1, <2>1, <2>2, <2>3, <2>5, <2>6, <2>7, <2>8, <2>9
            DEF Next, vars, Approve, PutLocal, PutSent, Issue, Sign, Terminated
  <1> QED BY <1>1, ApprovalsInvariant, PTL DEF Spec, RefusalJustified

-----------------------------------------------------------------------------
(* The refinement.                                                         *)
LEMMA GrantedSame ==
    ASSUME \A a \in Approval : approving'[a].pc = "stored" <=> approving[a].pc = "stored"
    PROVE  {a \in Approval : approving'[a].pc = "stored"}
             = {a \in Approval : approving[a].pc = "stored"}
  OBVIOUS

LEMMA PutIsGrant ==
    ASSUME AInv, NEW a \in Approval, Puts(a)
    PROVE  Promise!Grant(a)
  <1>1. \A b \in Approval : approving'[b].pc = IF b = a THEN "stored" ELSE approving[b].pc
    BY DEF Puts, AInv, StoreType
  <1>2. {b \in Approval : approving'[b].pc = "stored"}
          = {b \in Approval : approving[b].pc = "stored"} \cup {a}
    BY <1>1
  <1>3. a \notin {b \in Approval : approving[b].pc = "stored"}
    BY DEF Puts
  <1> QED BY <1>2, <1>3 DEF Promise!Grant, Puts

LEMMA ConsumedIsConsume ==
    ASSUME AInv, NEW r \in Request, NEW after, Consumed(r, after),
           NEW a \in Approval, a = req[r].approval, IsActive(a)
    PROVE  Promise!Consume(a)
  <1>1. current[ResourceOf(a)] = a
    BY ActiveIsCurrent
  <1>2. UNCHANGED approving /\ consumed' = consumed \cup {a}
        /\ current' = [current EXCEPT ![ResourceOf(a)] = None]
    BY DEF Consumed
  <1> QED BY <1>1, <1>2 DEF Promise!Consume

(* The service with either store implements the promise of ApprovalGrant:  *)
(* an approval is consumed while it is in force, once, and never returns.  *)
THEOREM Implementation == Spec => ImplementsPromise
  <1>1. Init => Promise!Init
    BY DEF Init, Promise!Init
  <1>2. ASSUME AInv, [Next]_vars
        PROVE  [Promise!Next]_<<{a \in Approval : approving[a].pc = "stored"}, current, consumed>>
    <2>1. ASSUME NEW a \in Approval, PutLocal(a) \/ PutStored(a) PROVE Promise!Next
      <3>1. Puts(a)
        BY <2>1 DEF PutLocal, PutStored, Puts
      <3> QED BY <1>2, <3>1, PutIsGrant DEF Promise!Next
    <2>2. ASSUME NEW x \in Resource, Invalidate(x) PROVE Promise!Next
      <3>1. Promise!Withdraw(x)
        BY <2>2 DEF Invalidate, Promise!Withdraw
      <3> QED BY <3>1 DEF Promise!Next
    <2>3. ASSUME NEW r \in Request, NEW after, Consumed(r, after),
                 req[r].pc \in {"reserved", "deleting"}, IsActive(req[r].approval)
          PROVE  Promise!Next
      <3>1. PICK a \in Approval : a = req[r].approval
        BY <1>2, <2>3 DEF AInv, Sound, Engaged, Watching
      <3>2. Promise!Consume(a)
        BY <1>2, <2>3, <3>1, ConsumedIsConsume
      <3> QED BY <3>2 DEF Promise!Next
    <2>4. ASSUME NEW r \in Request, NEW after, ConsumeExec(r, after)
          PROVE  Promise!Next
      <3>1. req[r].pc = "deleting" /\ req[r].dirty = FALSE /\ Sound(req[r])
        BY <1>2, <2>4 DEF AInv, ConsumeExec, RequestRecord
      <3>2. IsActive(req[r].approval)
        BY <3>1 DEF Sound
      <3> QED BY <2>3, <2>4, <3>1, <3>2 DEF ConsumeExec
    <2>5. ASSUME NEW r \in Request, ConsumeLocal(r)
          PROVE  Promise!Next \/ UNCHANGED <<approving, current, consumed>>
      BY <2>3, <2>5 DEF ConsumeLocal
    <2>6. ASSUME NEW a \in Approval, Approve(a) \/ PutSent(a)
          PROVE  UNCHANGED <<{b \in Approval : approving[b].pc = "stored"}, current, consumed>>
      <3>1. \A b \in Approval : approving'[b].pc = "stored" <=> approving[b].pc = "stored"
        BY <1>2, <2>6 DEF Approve, PutSent, AInv, StoreType
      <3>2. UNCHANGED <<current, consumed>>
        BY <2>6 DEF Approve, PutSent
      <3> QED BY <3>1, <3>2, GrantedSame
    <2>7. CASE UNCHANGED <<approving, current, consumed>>
      BY <2>7
    <2> QED BY <1>2, <2>1, <2>2, <2>4, <2>5, <2>6, <2>7
            DEF Next, vars, Issue, Sign, Authorize, Spend, ConsumeWatch, ConsumeGet,
                ConsumeAborts, Drops, Fails, Tick, Terminated
  <1> QED BY <1>1, <1>2, ApprovalsInvariant, PTL DEF Spec, ImplementsPromise, Promise!Spec
=============================================================================
