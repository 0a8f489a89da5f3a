--------------------------- MODULE SharedBudgetProofs ---------------------------
(***************************************************************************)
(* Proofs about SharedBudget, for every set of budgets, tokens and         *)
(* requests, each of the three trackers, every retry limit, rate window    *)
(* and clock resolution: no budget and no token is overspent, entries are  *)
(* exact for as long as an account can be charged, every attempt a call    *)
(* lost is accounted for by its connection, by another call's charge or by *)
(* an account that is over, and the trackers implement the ledger that     *)
(* forgets nothing.                                                        *)
(***************************************************************************)
EXTENDS SharedBudget, FiniteSetTheorems, TLAPS

-----------------------------------------------------------------------------
Readings == UNION {[S -> Entry] : S \in SUBSET Account}

RequestRecord ==
    [pc : {"idle", "verified", "started"} \cup InTransaction \cup Paid \cup Ended,
     token : Token \cup {None}, amount : Nat, at : Nat, left : Seq(Account),
     seen : Readings, tries : 0 .. MaxRetries, drops : 0 .. MaxRetries, before : Nat,
     dirty : BOOLEAN]

Types ==
    /\ store \in Stores
    /\ now \in Nat
    /\ DOMAIN entries \subseteq Account
    /\ \A k \in DOMAIN entries : entries[k] \in Entry
    /\ req \in [Request -> RequestRecord]
    /\ ledger \in [Account -> [calls : Nat, usd : Nat, minor : Nat]]
    /\ payments \subseteq Payment
    /\ IsFiniteSet(payments)
    /\ \A p \in payments : p.at <= now

Window == RateWindow * TicksPerSecond

Live(k) == now < Retained(k)

(* A token whose accounts all exist: it names no budget, or one that is    *)
(* configured.                                                             *)
Known(t) == t \in Token /\ (Names(t) => Pins[t].shared_budget \in Budget)

-----------------------------------------------------------------------------
(* The inductive invariant.  The totals of an account stay within its      *)
(* limits and count every call charged to it ...                           *)
Within(k) ==
    IF k \in Budget
    THEN /\ ledger[k].minor <= Rules[k].max_amount_minor
         /\ Rules[k].max_calls # None => ledger[k].calls <= Rules[k].max_calls
    ELSE /\ Claims[k].max_calls # None => ledger[k].calls <= Claims[k].max_calls
         /\ Claims[k].max_amount_usd # None => ledger[k].usd <= Claims[k].max_amount_usd

(* ... the windows that end with a charged call too ...                    *)
InWindow(k, at) == {q \in PaidBy(k) : q.at <= at /\ q.at >= at - Window}

RateCap(k) ==
    RateOf(k) # None => \A p \in PaidBy(k) : Cardinality(InWindow(k, p.at)) <= RateOf(k)

(* ... an entry that is there holds the totals and the stamps in the       *)
(* window of the last call, until the account is over ...                  *)
Exact(k) ==
    /\ Stored(k).calls = ledger[k].calls
    /\ Stored(k).usd = ledger[k].usd
    /\ Stored(k).minor = ledger[k].minor
    /\ RateOf(k) # None =>
          \A q \in PaidBy(k) :
             (\A p \in PaidBy(k) : q.at >= p.at - Window) => q \in Stored(k).stamps

Stamped(k) == Stored(k).stamps \subseteq PaidBy(k)

AccountInv(k) ==
    /\ ledger[k].calls = Cardinality(PaidBy(k))
    /\ Within(k)
    /\ RateCap(k)
    /\ Stamped(k)
    /\ k \in DOMAIN entries => entries[k].until >= Retained(k)
    /\ Live(k) => Exact(k)

(* ... what an undisturbed transaction has read and decided still holds    *)
(* ...                                                                     *)
Decided(q, k) ==
    /\ Exact(k)
    /\ \A p \in PaidBy(k) : p.at <= q.at
    /\ Fits(k, Stored(k), BillOf(q.token, q.amount)[k], q.at)

InOrder(k, left) == \E i \in 1 .. Len(left) : left[i] = k

Trying == {"started"} \cup InTransaction

Sound(q) ==
    /\ q.pc = "verified" => q.token \in Token
    /\ q.pc \in {"contended"} \cup Trying \/ q.tries # 0 => Known(q.token)
    /\ q.amount \in (Amount \cap Nat) \cup {0}
    /\ q.at <= now
    /\ q.pc \in Trying \/ q.tries # 0 => store # "memory"
    /\ q.pc \notin InTransaction => DOMAIN q.seen = {} /\ q.dirty = FALSE
    /\ q.pc \in InTransaction =>
          /\ \A i \in 1 .. Len(q.left) : q.left[i] \in Charges(q.token)
          /\ \A k \in Charges(q.token) : k \in DOMAIN q.seen \/ InOrder(k, q.left)
          /\ q.dirty = FALSE =>
                \A k \in Charges(q.token) : k \in DOMAIN q.seen => q.seen[k] = Stored(k)
    /\ q.pc = "committing" =>
          /\ q.left = << >>
          /\ q.dirty = FALSE => \A k \in Charges(q.token) : Decided(q, k)

(* ... and the attempts of a request are accounted for: each but the one   *)
(* under way was lost to its connection or to a charge of a rival made     *)
(* since the first began, or an account is over; and the attempt under way *)
(* has not been charged.                                                   *)
Made(r, q) == Cardinality(Rivals(r, q.token)) - q.before

Late(q) == \E k \in Charges(q.token) : now >= Retained(k)

Lost(r, q, n) == n <= q.drops + Made(r, q) + (IF Late(q) THEN 1 ELSE 0)

Tallied(r, q) ==
    /\ q.pc = "idle" => q.tries = 0
    /\ q.pc \in {"idle", "verified"} => q.drops <= q.tries
    /\ q.pc \in Trying => q.drops + 1 <= q.tries
    /\ q.pc \in {"verified", "contended"} /\ q.tries # 0 => Lost(r, q, q.tries)
    /\ q.pc \in Trying => q.tries <= q.drops + Made(r, q) + 1
    /\ q.pc \in InTransaction /\ q.dirty = TRUE => Lost(r, q, q.tries)
    /\ q.pc = "contended" => q.tries = MaxRetries
    /\ q.pc \in {"idle", "verified"} =>
          \A p \in payments : p.req = r => p.try >= 1 /\ p.try <= q.tries
    /\ q.pc \in Trying =>
          \A p \in payments : p.req = r => p.try >= 1 /\ p.try < q.tries

SInv ==
    /\ Types
    /\ \A k \in Account : AccountInv(k)
    /\ \A r \in Request : Sound(req[r]) /\ Tallied(r, req[r])

-----------------------------------------------------------------------------
(* Facts about claims, rules, accounts and bills.                          *)
LEMMA AccountFacts ==
    ASSUME NEW k \in Account
    PROVE  /\ Retained(k) \in Int
           /\ RateOf(k) # None => RateOf(k) \in Nat
           /\ k \in Budget => /\ Rules[k].max_amount_minor \in Nat
                              /\ Rules[k].max_calls # None => Rules[k].max_calls \in Nat
           /\ k \notin Budget => /\ k \in Token
                                 /\ Claims[k].max_calls # None => Claims[k].max_calls \in Nat
                                 /\ Claims[k].max_amount_usd # None => Claims[k].max_amount_usd \in Nat
  <1>1. CASE k \in Budget
    <2>1. BudgetRule(Rules[k])
      BY <1>1, BudgetAssumption
    <2>2. Rules[k].expires_at * TicksPerSecond \in Int
      BY <2>1, LifetimeAssumption DEF BudgetRule
    <2> QED BY <1>1, <2>1, <2>2 DEF BudgetRule, Retained, RateOf, Limit
  <1>2. CASE k \notin Budget
    <2>1. k \in Token /\ Claims[k] \in ClaimsType
      BY <1>2, TokensAssumption DEF Account
    <2>2. Claims[k].exp \in Int
      BY <2>1 DEF ClaimsType
    <2>3. RetainedUntil(Claims[k].exp) \in Int
      BY <2>2, LifetimeAssumption DEF RetainedUntil, RetentionAfterExp
    <2> QED BY <1>2, <2>1, <2>3 DEF ClaimsType, Retained, RateOf, Limit
  <1> QED BY <1>1, <1>2

LEMMA WindowType == Window \in Nat
  BY BudgetAssumption, LifetimeAssumption DEF Window

LEMMA ChargeFacts ==
    ASSUME NEW t, Known(t)
    PROVE  /\ Charges(t) \subseteq Account
           /\ ChargeOrder(t) \in Seq(Account)
           /\ \A i \in 1 .. Len(ChargeOrder(t)) : ChargeOrder(t)[i] \in Charges(t)
           /\ \A k \in Charges(t) : InOrder(k, ChargeOrder(t))
  <1> DEFINE p == Claims[t].prf
             b == Pins[t].shared_budget
             chain == IF p = None THEN <<t>> ELSE <<p, t>>
             rest == IF Names(t) THEN <<b>> ELSE << >>
  <1>1. Claims[t] \in ClaimsType /\ t \in Token
    BY TokensAssumption DEF Known
  <1>2. p # None => p \in Token
    BY <1>1 DEF ClaimsType
  <1>3. Names(t) => b \in Budget
    BY DEF Known
  <1>4. ChargeOrder(t) = chain \o rest
    BY DEF ChargeOrder
  <1>5. Charges(t) = (IF p = None THEN {t} ELSE {p, t}) \cup (IF Names(t) THEN {b} ELSE {})
    BY DEF Charges, Chain
  <1> HIDE DEF p, b
  <1>6. CASE p = None /\ ~ Names(t)
    <2>1. ChargeOrder(t) = <<t>> /\ Charges(t) = {t}
      BY <1>4, <1>5, <1>6
    <2> QED BY <1>1, <2>1 DEF InOrder, Account
  <1>7. CASE p # None /\ ~ Names(t)
    <2>1. ChargeOrder(t) = <<p, t>> /\ Charges(t) = {p, t}
      BY <1>4, <1>5, <1>7
    <2> QED BY <1>1, <1>2, <1>7, <2>1 DEF InOrder, Account
  <1>8. CASE p = None /\ Names(t)
    <2>1. ChargeOrder(t) = <<t>> \o <<b>> /\ Charges(t) = {t, b}
      BY <1>4, <1>5, <1>8
    <2> QED BY <1>1, <1>3, <1>8, <2>1 DEF InOrder, Account
  <1>9. CASE p # None /\ Names(t)
    <2>1. ChargeOrder(t) = <<p, t>> \o <<b>> /\ Charges(t) = {p, t, b}
      BY <1>4, <1>5, <1>9
    <2> QED BY <1>1, <1>2, <1>3, <1>9, <2>1 DEF InOrder, Account
  <1> QED BY <1>6, <1>7, <1>8, <1>9

LEMMA BillFacts ==
    ASSUME NEW t \in Token, NEW amount \in Nat
    PROVE  /\ DOMAIN BillOf(t, amount) = Charges(t)
           /\ \A k \in Charges(t) : /\ BillOf(t, amount)[k].usd = amount
                                    /\ BillOf(t, amount)[k].usd \in Nat
                                    /\ BillOf(t, amount)[k].minor \in Nat
  BY BudgetAssumption DEF BillOf

LEMMA StoredType ==
    ASSUME Types, NEW k \in Account
    PROVE  /\ Stored(k) \in Entry
           /\ Stored(k).calls \in Nat /\ Stored(k).usd \in Nat /\ Stored(k).minor \in Nat
           /\ Stored(k).stamps \in SUBSET Payment
  <1>1. Stored(k) \in Entry
    BY DEF Types, Stored, NoEntry, Entry
  <1> QED BY <1>1 DEF Entry

LEMMA PaidFinite ==
    ASSUME Types, NEW k
    PROVE  /\ IsFiniteSet(PaidBy(k)) /\ Cardinality(PaidBy(k)) \in Nat
           /\ PaidBy(k) \subseteq Payment /\ \A p \in PaidBy(k) : p.at \in Nat
           /\ \A S \in SUBSET PaidBy(k) : IsFiniteSet(S) /\ Cardinality(S) \in Nat
  <1>1. PaidBy(k) \in SUBSET payments
    BY DEF PaidBy
  <1>2. \A S \in SUBSET PaidBy(k) : IsFiniteSet(S)
    BY <1>1, FS_Subset DEF Types
  <1>3. IsFiniteSet(PaidBy(k))
    BY <1>2
  <1>4. PaidBy(k) \subseteq Payment /\ \A p \in PaidBy(k) : p.at \in Nat
    BY <1>1 DEF Types, Payment
  <1> QED BY <1>1, <1>2, <1>3, <1>4, FS_CardinalityType

LEMMA RivalsFinite ==
    ASSUME Types, NEW r, NEW t
    PROVE  IsFiniteSet(Rivals(r, t)) /\ Cardinality(Rivals(r, t)) \in Nat
  <1>1. Rivals(r, t) \in SUBSET payments
    BY DEF Rivals
  <1>2. IsFiniteSet(Rivals(r, t))
    BY <1>1, FS_Subset DEF Types
  <1> QED BY <1>2, FS_CardinalityType

(* The numbers of attempts are integers.                                   *)
LEMMA Numbers ==
    ASSUME Types, NEW r, NEW q \in RequestRecord
    PROVE  /\ q.tries \in Nat /\ q.drops \in Nat /\ q.before \in Nat
           /\ q.tries <= MaxRetries /\ q.drops <= MaxRetries /\ MaxRetries \in Nat \ {0}
           /\ Made(r, q) \in Int
  BY RivalsFinite, BudgetAssumption DEF RequestRecord, Made

LEMMA Typed == SInv => TypeOK
  <1> SUFFICES ASSUME SInv PROVE TypeOK
    OBVIOUS
  <1>1. ASSUME NEW r \in Request
        PROVE  /\ DOMAIN req[r].seen \subseteq Account
               /\ \A k \in DOMAIN req[r].seen : req[r].seen[k] \in Entry
    <2>1. req[r].seen \in Readings
      BY DEF SInv, Types, RequestRecord
    <2> QED BY <2>1 DEF Readings
  <1> QED BY <1>1 DEF SInv, Types, TypeOK, RequestRecord

(* The three properties follow.                                            *)
LEMMA Consequences == SInv => CapsHold /\ EntriesExact /\ ContentionIsProgress
  <1> SUFFICES ASSUME SInv PROVE CapsHold /\ EntriesExact /\ ContentionIsProgress
    OBVIOUS
  <1>1. EntriesExact
    BY Typed DEF SInv, AccountInv, Exact, EntriesExact, Live
  <1>2. ContentionIsProgress
    <2> SUFFICES ASSUME NEW r \in Request, req[r].pc = "contended"
                 PROVE  Lost(r, req[r], MaxRetries)
      BY DEF ContentionIsProgress, Lost, Made, Late
    <2>1. Tallied(r, req[r])
      BY DEF SInv
    <2>2. req[r].tries = MaxRetries /\ MaxRetries # 0
      BY <2>1, BudgetAssumption DEF Tallied
    <2> QED BY <2>1, <2>2 DEF Tallied
  <1>3. ASSUME NEW b \in Budget
        PROVE  /\ ledger[b].minor <= Rules[b].max_amount_minor
               /\ Rules[b].max_calls # None => Cardinality(PaidBy(b)) <= Rules[b].max_calls
    BY DEF SInv, AccountInv, Within, Account
  <1>4. ASSUME NEW t \in Token
        PROVE  /\ Claims[t].max_calls # None => Cardinality(PaidBy(t)) <= Claims[t].max_calls
               /\ Claims[t].max_amount_usd # None => ledger[t].usd <= Claims[t].max_amount_usd
               /\ Claims[t].rate_limit_per_min # None =>
                     \A p \in PaidBy(t) :
                         Cardinality({q \in PaidBy(t) :
                            q.at \in p.at - RateWindow * TicksPerSecond .. p.at})
                           <= Claims[t].rate_limit_per_min
    <2>1. AccountInv(t) /\ t \notin Budget
      BY BudgetAssumption DEF SInv, Account
    <2>2. /\ Claims[t].max_calls # None => Cardinality(PaidBy(t)) <= Claims[t].max_calls
          /\ Claims[t].max_amount_usd # None => ledger[t].usd <= Claims[t].max_amount_usd
      BY <2>1 DEF AccountInv, Within
    <2>3. ASSUME NEW p \in PaidBy(t)
          PROVE  InWindow(t, p.at)
                   = {q \in PaidBy(t) : q.at \in p.at - RateWindow * TicksPerSecond .. p.at}
      <3>1. \A q \in PaidBy(t) : q.at \in Nat
        BY PaidFinite DEF SInv
      <3> QED BY <3>1, WindowType DEF InWindow, Window
    <2> QED BY <2>1, <2>2, <2>3 DEF AccountInv, RateCap, RateOf
  <1>5. CapsHold
    BY <1>3, <1>4 DEF CapsHold
  <1> QED BY <1>1, <1>2, <1>5

-----------------------------------------------------------------------------
(* A step as an account sees it, when it changes nothing about it.         *)
SamePaid(k) == PaidBy(k)' = PaidBy(k)

SameAccount(k) == Stored(k)' = Stored(k) /\ ledger'[k] = ledger[k] /\ SamePaid(k)

LEMMA SameAccountKeeps ==
    ASSUME NEW k, SameAccount(k)
    PROVE  /\ Exact(k) => Exact(k)'
           /\ Stamped(k) => Stamped(k)'
           /\ \A q : Decided(q, k) => Decided(q, k)'
  <1>1. Exact(k) => Exact(k)'
    BY DEF SameAccount, SamePaid, Exact
  <1>2. Stamped(k) => Stamped(k)'
    BY DEF SameAccount, SamePaid, Stamped
  <1>3. ASSUME NEW q, Decided(q, k) PROVE Decided(q, k)'
    BY <1>1, <1>3 DEF Decided, SameAccount, SamePaid
  <1> QED BY <1>1, <1>2, <1>3

LEMMA SamePaidKeeps ==
    ASSUME NEW k, SamePaid(k), ledger'[k] = ledger[k]
    PROVE  /\ ledger[k].calls = Cardinality(PaidBy(k)) => ledger'[k].calls = Cardinality(PaidBy(k)')
           /\ Within(k) => Within(k)'
           /\ RateCap(k) => RateCap(k)'
  <1>1. \A p \in PaidBy(k) : InWindow(k, p.at)' = InWindow(k, p.at)
    BY DEF SamePaid, InWindow
  <1> QED BY <1>1 DEF SamePaid, Within, RateCap

LEMMA SameAccountInv ==
    ASSUME NEW k \in Account, SameAccount(k), AccountInv(k), now \in Nat, now' \in Nat, now' >= now,
           k \in DOMAIN entries' => k \in DOMAIN entries /\ entries'[k] = entries[k]
    PROVE  AccountInv(k)'
  <1>1. Live(k)' => Live(k)
    BY AccountFacts DEF Live
  <1>2. /\ ledger'[k].calls = Cardinality(PaidBy(k)')
        /\ Within(k)' /\ RateCap(k)'
    BY SamePaidKeeps DEF AccountInv, SameAccount
  <1> QED BY <1>1, <1>2, SameAccountKeeps DEF AccountInv

(* The requests that a step does not mark keep what they have read and     *)
(* decided.                                                                *)
Moves(keys) ==
    /\ store' = store
    /\ now' \in Nat /\ now' >= now
    /\ \A k \in Account \ keys : SameAccount(k)

Marked(q, keys) ==
    IF q.pc \in InTransaction /\ Charges(q.token) \cap keys # {}
    THEN [q EXCEPT !.dirty = TRUE] ELSE q

LEMMA TouchedIsMarked ==
    ASSUME NEW requests, NEW keys
    PROVE  /\ Touched(requests, keys) = [q \in Request |-> Marked(requests[q], keys)]
           /\ \A q \in Request : Touched(requests, keys)[q] = Marked(requests[q], keys)
  BY DEF Touched, Marked

LEMMA MarkedFacts ==
    ASSUME NEW q \in RequestRecord, NEW keys
    PROVE  /\ Marked(q, keys) \in RequestRecord
           /\ Marked(q, keys).pc = q.pc /\ Marked(q, keys).token = q.token
           /\ Marked(q, keys).amount = q.amount /\ Marked(q, keys).at = q.at
           /\ Marked(q, keys).left = q.left /\ Marked(q, keys).seen = q.seen
           /\ Marked(q, keys).tries = q.tries /\ Marked(q, keys).drops = q.drops
           /\ Marked(q, keys).before = q.before
           /\ Marked(q, keys).dirty = IF q.pc \in InTransaction /\ Charges(q.token) \cap keys # {}
                                      THEN TRUE ELSE q.dirty
  <1>1. CASE q.pc \in InTransaction /\ Charges(q.token) \cap keys # {}
    <2>1. Marked(q, keys) = [q EXCEPT !.dirty = TRUE]
      BY <1>1 DEF Marked
    <2> QED BY <1>1, <2>1 DEF RequestRecord
  <1>2. CASE ~ (q.pc \in InTransaction /\ Charges(q.token) \cap keys # {})
    <2>1. Marked(q, keys) = q
      BY <1>2 DEF Marked
    <2> QED BY <1>2, <2>1
  <1> QED BY <1>1, <1>2

LEMMA MovesKeepsSound ==
    ASSUME Types, NEW q \in RequestRecord, Sound(q), NEW keys, Moves(keys),
           NEW new, new = Marked(q, keys)
    PROVE  Sound(new)'
  <1>1. /\ new.pc = q.pc /\ new.token = q.token /\ new.amount = q.amount /\ new.at = q.at
        /\ new.left = q.left /\ new.seen = q.seen /\ new.tries = q.tries
        /\ new.dirty = IF q.pc \in InTransaction /\ Charges(q.token) \cap keys # {}
                       THEN TRUE ELSE q.dirty
    BY MarkedFacts
  <1>2. q.at <= now' /\ store' = store
    BY DEF Types, Sound, Moves, RequestRecord
  <1>3. q.pc \in InTransaction => Known(q.token)
    BY DEF Sound, Trying
  <1>4. ASSUME q.pc \in InTransaction, new.dirty = FALSE, NEW k \in Charges(q.token)
        PROVE  k \in Account /\ SameAccount(k) /\ q.dirty = FALSE
    <2>1. k \in Account
      BY <1>3, <1>4, ChargeFacts
    <2>2. Charges(q.token) \cap keys = {} /\ q.dirty = FALSE
      BY <1>1, <1>4
    <2> QED BY <1>4, <2>1, <2>2 DEF Moves
  <1>5. ASSUME q.pc \in InTransaction, new.dirty = FALSE, NEW k \in Charges(q.token),
               k \in DOMAIN q.seen
        PROVE  q.seen[k] = Stored(k)'
    BY <1>4, <1>5 DEF Sound, SameAccount
  <1>6. ASSUME q.pc = "committing", new.dirty = FALSE, NEW k \in Charges(q.token)
        PROVE  Decided(new, k)'
    <2>1. q.pc \in InTransaction
      BY <1>6 DEF InTransaction
    <2>2. Decided(q, k) /\ SameAccount(k)
      BY <1>4, <1>6, <2>1 DEF Sound
    <2>3. Decided(q, k)'
      BY <2>2, SameAccountKeeps
    <2> QED BY <1>1, <2>3 DEF Decided
  <1>8. /\ new.pc = "verified" => new.token \in Token
        /\ new.pc \in {"contended"} \cup Trying \/ new.tries # 0 => Known(new.token)
        /\ new.amount \in (Amount \cap Nat) \cup {0}
        /\ new.pc \in Trying \/ new.tries # 0 => store' # "memory"
    BY <1>1, <1>2 DEF Sound
  <1>9. /\ new.pc \notin InTransaction => DOMAIN new.seen = {} /\ new.dirty = FALSE
        /\ new.pc \in InTransaction =>
              /\ \A i \in 1 .. Len(new.left) : new.left[i] \in Charges(new.token)
              /\ \A k \in Charges(new.token) : k \in DOMAIN new.seen \/ InOrder(k, new.left)
        /\ new.pc = "committing" => new.left = << >>
    BY <1>1 DEF Sound
  <1> QED BY <1>1, <1>2, <1>5, <1>6, <1>8, <1>9 DEF Sound

(* What others do adds to the charges of rivals, and only that; a request  *)
(* is marked by a rival's charge, or because an account is over.           *)
Elsewhere(r) ==
    now' >= now /\ payments \subseteq payments' /\ \A p \in payments' \ payments : p.req # r

Struck(q, keys) ==
    q.pc \in InTransaction /\ Charges(q.token) \cap keys # {} =>
        \/ Late(q)'
        \/ \E p \in payments' \ payments : Charges(p.token) \cap Charges(q.token) # {}

LEMMA TallyKept ==
    ASSUME Types, Types', NEW r, NEW q \in RequestRecord, Sound(q), Tallied(r, q),
           Elsewhere(r), NEW keys, Struck(q, keys), NEW new, new = Marked(q, keys)
    PROVE  Tallied(r, new)'
  <1>1. /\ new.pc = q.pc /\ new.token = q.token
        /\ new.tries = q.tries /\ new.drops = q.drops /\ new.before = q.before
        /\ new.dirty = IF q.pc \in InTransaction /\ Charges(q.token) \cap keys # {}
                       THEN TRUE ELSE q.dirty
    BY MarkedFacts
  <1>2. PICK t : t = q.token
    OBVIOUS
  <1> DEFINE S == Rivals(r, t)
             T == Rivals(r, t)'
             m == Made(r, q)
             n == Made(r, new)'
  <1>3. S \subseteq T /\ \A p \in payments' \ payments :
                            Charges(p.token) \cap Charges(t) # {} => p \in T \ S
    BY DEF Rivals, Elsewhere
  <1>4. /\ IsFiniteSet(S) /\ Cardinality(S) \in Nat
        /\ IsFiniteSet(T) /\ Cardinality(T) \in Nat
    <2>1. IsFiniteSet(S) /\ Cardinality(S) \in Nat
      BY RivalsFinite
    <2>2. T \in SUBSET payments' /\ IsFiniteSet(payments')
      BY DEF Rivals, Types
    <2> QED BY <2>1, <2>2, FS_Subset, FS_CardinalityType
  <1>5. /\ m = Cardinality(S) - q.before /\ n = Cardinality(T) - q.before
    BY <1>1, <1>2 DEF Made
  <1> HIDE DEF S, T
  <1>6. Cardinality(S) <= Cardinality(T) /\ (S # T => Cardinality(S) < Cardinality(T))
    BY <1>3, <1>4, FS_Subset
  <1>7. /\ q.tries \in Nat /\ q.drops \in Nat /\ q.before \in Nat
    BY Numbers
  <1>8. m \in Int /\ n \in Int /\ m <= n
    BY <1>4, <1>5, <1>6, <1>7
  <1>9. ASSUME Known(t), Late(q) PROVE Late(new)'
    <2>1. PICK k \in Charges(t) : now >= Retained(k)
      BY <1>2, <1>9 DEF Late
    <2>2. Retained(k) \in Int
      BY <1>9, ChargeFacts, AccountFacts
    <2>3. now' >= Retained(k)
      BY <2>1, <2>2 DEF Types, Elsewhere
    <2> QED BY <1>1, <1>2, <2>3 DEF Late
  <1>10. /\ q.pc \in {"contended"} \cup Trying \/ q.tries # 0 => Known(t)
         /\ q.pc \in InTransaction => q.pc \in Trying
    BY <1>2 DEF Sound, Trying
  <1>11. n <= n + (IF Late(new)' THEN 1 ELSE 0) /\ (IF Late(new)' THEN 1 ELSE 0) \in 0 .. 1
    BY <1>8
  <1> HIDE DEF m, n
  <1>12. ASSUME Known(t), Lost(r, q, q.tries) PROVE Lost(r, new, new.tries)'
    <2>1. q.tries <= q.drops + m + (IF Late(q) THEN 1 ELSE 0)
      BY <1>12 DEF Lost, m
    <2>2. q.tries <= q.drops + n + (IF Late(new)' THEN 1 ELSE 0)
      BY <1>7, <1>8, <1>9, <1>12, <2>1
    <2> QED BY <1>1, <2>2 DEF Lost, n
  <1>13. ASSUME q.pc \in InTransaction, new.dirty = TRUE PROVE Lost(r, new, new.tries)'
    <2>1. q.tries <= q.drops + m + 1 /\ Known(t)
      BY <1>10, <1>13 DEF Tallied, m
    <2>2. CASE Charges(q.token) \cap keys # {}
      <3>1. CASE Late(q)'
        <4>1. Late(new)'
          BY <1>1, <3>1 DEF Late
        <4>2. q.tries <= q.drops + n + (IF Late(new)' THEN 1 ELSE 0)
          BY <1>7, <1>8, <2>1, <4>1
        <4> QED BY <1>1, <4>2 DEF Lost, n
      <3>2. CASE \E p \in payments' \ payments : Charges(p.token) \cap Charges(q.token) # {}
        <4>1. S # T
          BY <1>2, <1>3, <3>2
        <4>2. m + 1 <= n
          BY <1>4, <1>5, <1>6, <1>7, <4>1
        <4>3. q.tries <= q.drops + n + (IF Late(new)' THEN 1 ELSE 0)
          BY <1>7, <1>8, <2>1, <4>2
        <4> QED BY <1>1, <4>3 DEF Lost, n
      <3> QED BY <1>13, <2>2, <3>1, <3>2 DEF Struck
    <2>3. CASE Charges(q.token) \cap keys = {}
      <3>1. q.dirty = TRUE
        BY <1>1, <1>13, <2>3
      <3>2. Lost(r, q, q.tries)
        BY <1>13, <3>1 DEF Tallied
      <3> QED BY <1>12, <2>1, <3>2
    <2> QED BY <2>2, <2>3
  <1>14. \A p \in payments' : p.req = r => p \in payments
    BY DEF Elsewhere
  <1>15. q.pc \in Trying => new.tries <= new.drops + Made(r, new)' + 1
    <2> SUFFICES ASSUME q.pc \in Trying PROVE q.tries <= q.drops + n + 1
      BY <1>1 DEF n
    <2>1. q.tries <= q.drops + m + 1
      BY DEF Tallied, m
    <2> QED BY <1>7, <1>8, <2>1
  <1>16. q.pc \in {"verified", "contended"} /\ q.tries # 0 => Lost(r, new, new.tries)'
    BY <1>10, <1>12 DEF Tallied
  <1>17. /\ q.pc \in {"idle", "verified"} =>
               \A p \in payments' : p.req = r => p.try >= 1 /\ p.try <= q.tries
         /\ q.pc \in Trying =>
               \A p \in payments' : p.req = r => p.try >= 1 /\ p.try < q.tries
    BY <1>14 DEF Tallied
  <1>18. /\ q.pc = "idle" => q.tries = 0
         /\ q.pc \in {"idle", "verified"} => q.drops <= q.tries
         /\ q.pc \in Trying => q.drops + 1 <= q.tries
         /\ q.pc = "contended" => q.tries = MaxRetries
    BY DEF Tallied
  <1> QED BY <1>1, <1>13, <1>15, <1>16, <1>17, <1>18 DEF Tallied

-----------------------------------------------------------------------------
(* Steps of one request, which charge nothing.                             *)
LEMMA OneRequest ==
    ASSUME SInv, NEW r \in Request, NEW new \in RequestRecord,
           UNCHANGED <<store, now, entries, ledger, payments>>,
           req' = [req EXCEPT ![r] = new], Sound(new), Tallied(r, new)
    PROVE  SInv'
  <1>1. Types'
    BY DEF SInv, Types
  <1>2. \A q \in Request : req'[q] = IF q = r THEN new ELSE req[q]
    BY DEF SInv, Types
  <1>3. ASSUME NEW k PROVE SamePaid(k)
    BY DEF SamePaid, PaidBy
  <1>4. ASSUME NEW k \in Account PROVE SameAccount(k)
    BY <1>3 DEF SameAccount, Stored
  <1>5. ASSUME NEW k \in Account PROVE AccountInv(k)'
    <2>1. now \in Nat /\ now' = now /\ entries' = entries /\ AccountInv(k)
      BY DEF SInv, Types
    <2> QED BY <1>4, <2>1, SameAccountInv
  <1>6. Moves({})
    BY <1>4 DEF Moves, SInv, Types
  <1>7. ASSUME NEW q \in Request PROVE Sound(req[q])' /\ Tallied(q, req[q])'
    <2>1. PICK v : v = req'[q]
      OBVIOUS
    <2>2. v \in RequestRecord /\ Sound(v) /\ Tallied(q, v) /\ Types
      BY <1>2, <2>1 DEF SInv, Types
    <2>3. v = Marked(v, {})
      BY DEF Marked
    <2>4. Sound(v)'
      BY <1>6, <2>2, <2>3, MovesKeepsSound
    <2>5. Tallied(q, v)'
      BY <2>2 DEF Tallied, Lost, Made, Late, Rivals
    <2>6. Sound(req[q])'
      BY <2>1, <2>4 DEF Sound, Decided
    <2>7. Tallied(q, req[q])'
      BY <2>1, <2>5 DEF Tallied, Lost, Made, Late, Rivals
    <2> QED BY <2>6, <2>7
  <1> QED BY <1>1, <1>5, <1>7 DEF SInv

LEMMA IdleFacts ==
    /\ Idle \in RequestRecord /\ Idle.seen \in Readings /\ DOMAIN Idle.seen = {}
    /\ Idle.at = 0 /\ Idle.amount = 0 /\ Idle.pc = "idle" /\ Idle.tries = 0 /\ Idle.dirty = FALSE
    /\ Idle.drops = 0
    /\ 0 \in 0 .. MaxRetries /\ << >> \in Seq(Account)
  <1> DEFINE none == [k \in {} |-> NoEntry]
  <1>1. none \in [{} -> Entry] /\ DOMAIN none = {}
    OBVIOUS
  <1>2. none \in Readings
    BY <1>1 DEF Readings
  <1>3. Idle = [pc |-> "idle", token |-> None, amount |-> 0, at |-> 0, left |-> << >>,
                seen |-> none, tries |-> 0, drops |-> 0, before |-> 0, dirty |-> FALSE]
    BY DEF Idle
  <1> HIDE DEF none
  <1>4. << >> \in Seq(Account)
    OBVIOUS
  <1>5. 0 \in 0 .. MaxRetries
    BY BudgetAssumption
  <1>6. Idle \in RequestRecord /\ Idle.seen = none
    BY <1>2, <1>3, <1>4, <1>5 DEF RequestRecord
  <1>7. /\ Idle.at = 0 /\ Idle.amount = 0 /\ Idle.pc = "idle" /\ Idle.tries = 0
        /\ Idle.dirty = FALSE /\ Idle.drops = 0
    BY <1>3
  <1> QED BY <1>1, <1>2, <1>4, <1>5, <1>6, <1>7 DEF none

(* A request that is over.                                                 *)
Settled(q) ==
    /\ q.pc \in (Paid \cup Ended) \ {"contended"}
    /\ q.at = 0 /\ q.amount = 0 /\ q.tries = 0 /\ q.dirty = FALSE /\ DOMAIN q.seen = {}

LEMMA OutFacts ==
    ASSUME NEW pc \in (Paid \cup Ended) \ {"contended"}
    PROVE  Out(pc) \in RequestRecord /\ Out(pc).pc = pc /\ Settled(Out(pc))
  <1> DEFINE out == Out(pc)
  <1>1. /\ out \in RequestRecord /\ out.pc = pc /\ out.at = 0 /\ out.amount = 0 /\ out.tries = 0
        /\ out.dirty = FALSE /\ out.seen = Idle.seen
    BY IdleFacts DEF Out, RequestRecord
  <1> HIDE DEF out
  <1>2. Settled(out)
    BY <1>1, IdleFacts DEF Settled
  <1> QED BY <1>1, <1>2 DEF out

LEMMA SettledSound ==
    ASSUME now \in Nat, now' \in Nat, NEW r, NEW q, Settled(q)
    PROVE  Sound(q) /\ Tallied(r, q) /\ Sound(q)' /\ Tallied(r, q)'
  <1>1. /\ q.pc \notin Trying /\ q.pc \notin InTransaction
        /\ q.pc \notin {"idle", "verified", "contended", "committing"}
    BY DEF Settled, Trying, InTransaction, Paid, Ended
  <1>2. Sound(q)
    BY <1>1 DEF Settled, Sound
  <1>3. Sound(q)'
    BY <1>1 DEF Settled, Sound
  <1>4. Tallied(r, q)
    BY <1>1 DEF Tallied
  <1>5. Tallied(r, q)'
    BY <1>1 DEF Tallied
  <1> QED BY <1>2, <1>3, <1>4, <1>5

(* A request that ends without a charge.                                   *)
LEMMA OutInv ==
    ASSUME SInv, NEW r \in Request, NEW pc \in Ended \ {"contended"},
           UNCHANGED <<store, now, entries, ledger, payments>>,
           req' = [req EXCEPT ![r] = Out(pc)]
    PROVE  SInv'
  <1>1. PICK new : new = Out(pc)
    OBVIOUS
  <1>2. new \in RequestRecord /\ Settled(new)
    BY <1>1, OutFacts
  <1>3. now \in Nat /\ now' \in Nat
    BY DEF SInv, Types
  <1>4. Sound(new) /\ Tallied(r, new)
    BY <1>2, <1>3, SettledSound
  <1> QED BY <1>1, <1>2, <1>4, OneRequest

LEMMA VerifyInv ==
    ASSUME SInv, NEW r \in Request, NEW t \in Token, NEW amount \in Amount, Verify(r, t, amount)
    PROVE  SInv'
  <1>0. /\ req[r].pc = "idle" /\ UNCHANGED <<store, now, entries, ledger, payments>>
        /\ now \in Nat
    BY DEF Verify, SInv, Types
  <1>1. CASE VerifiedAt(t, now) /\ ValidAmount(t, amount)
    <2> DEFINE new == [Idle EXCEPT !.pc = "verified", !.token = t, !.amount = ResolvedAmount(amount)]
    <2>0. amount \in Int \cup {None}
      BY BudgetAssumption
    <2>1. ResolvedAmount(amount) \in (Amount \cap Nat) \cup {0}
      BY <1>1, <2>0 DEF ValidAmount, ResolvedAmount
    <2>2. req' = [req EXCEPT ![r] = new]
      BY <1>1 DEF Verify
    <2>3. /\ new \in RequestRecord /\ new.pc = "verified" /\ new.token = t
          /\ new.amount = ResolvedAmount(amount) /\ new.at = 0 /\ new.tries = 0 /\ new.drops = 0
          /\ new.dirty = FALSE /\ DOMAIN new.seen = {}
      BY <2>1, IdleFacts DEF RequestRecord
    <2> HIDE DEF new
    <2>4. Sound(new)
      BY <1>0, <2>1, <2>3 DEF Sound, Trying, InTransaction
    <2>5. Tallied(r, new)
      <3>1. \A p \in payments : p.req = r => p.try >= 1 /\ p.try <= 0
        BY <1>0 DEF SInv, Tallied
      <3>2. ASSUME NEW p \in payments, p.req = r PROVE FALSE
        BY <3>1, <3>2 DEF SInv, Types, Payment
      <3> QED BY <2>3, <3>2 DEF Tallied, Trying, InTransaction
    <2> QED BY <1>0, <2>2, <2>3, <2>4, <2>5, OneRequest
  <1>2. CASE ~ (VerifiedAt(t, now) /\ ValidAmount(t, amount))
    <2>1. req' = [req EXCEPT ![r] = Out("denied")] /\ "denied" \in Ended \ {"contended"}
      BY <1>2 DEF Verify, Out, Ended
    <2> QED BY <1>0, <2>1, OutInv
  <1> QED BY <1>1, <1>2

LEMMA RefuseLocalInv ==
    ASSUME SInv, NEW r \in Request, RefuseLocal(r)
    PROVE  SInv'
  <1>1. /\ UNCHANGED <<store, now, entries, ledger, payments>>
        /\ req' = [req EXCEPT ![r] = Out("refused")]
        /\ "refused" \in Ended \ {"contended"}
    BY DEF RefuseLocal, Ended
  <1> QED BY <1>1, OutInv

LEMMA FailsInv ==
    ASSUME SInv, NEW r \in Request, Fails(r)
    PROVE  SInv'
  <1>1. /\ UNCHANGED <<store, now, entries, ledger, payments>>
        /\ req' = [req EXCEPT ![r] = Out("failed")]
        /\ "failed" \in Ended \ {"contended"}
    BY DEF Fails, Ended
  <1> QED BY <1>1, OutInv

(* A request that gives up an attempt keeps what it is about and what its  *)
(* attempts came to.                                                       *)
LEMMA AgainFacts ==
    ASSUME Types, NEW r \in Request
    PROVE  /\ Again(r) \in RequestRecord /\ Again(r).pc = "verified"
           /\ Again(r).token = req[r].token /\ Again(r).amount = req[r].amount
           /\ Again(r).at = 0 /\ DOMAIN Again(r).seen = {} /\ Again(r).dirty = FALSE
           /\ Again(r).tries = req[r].tries /\ Again(r).drops = req[r].drops
           /\ Again(r).before = req[r].before
  <1> DEFINE new == Again(r)
  <1>1. req[r] \in RequestRecord
    BY DEF Types
  <1>2. /\ new \in RequestRecord /\ new.pc = "verified" /\ new.token = req[r].token
        /\ new.amount = req[r].amount /\ new.at = 0 /\ new.seen = Idle.seen /\ new.dirty = FALSE
        /\ new.tries = req[r].tries /\ new.drops = req[r].drops /\ new.before = req[r].before
    BY <1>1, IdleFacts DEF Again, RequestRecord
  <1> HIDE DEF new
  <1>3. DOMAIN new.seen = {}
    BY <1>2, IdleFacts
  <1> QED BY <1>2, <1>3 DEF new

LEMMA DroppedFacts ==
    ASSUME Types, NEW r \in Request, req[r].drops + 1 <= MaxRetries
    PROVE  /\ Dropped(r) \in RequestRecord /\ Dropped(r).pc = "verified"
           /\ Dropped(r).token = req[r].token /\ Dropped(r).amount = req[r].amount
           /\ Dropped(r).at = 0 /\ DOMAIN Dropped(r).seen = {} /\ Dropped(r).dirty = FALSE
           /\ Dropped(r).tries = req[r].tries /\ Dropped(r).drops = req[r].drops + 1
           /\ Dropped(r).before = req[r].before
  <1>1. PICK again \in RequestRecord : again = Again(r)
    BY AgainFacts
  <1>2. /\ again.pc = "verified" /\ again.token = req[r].token /\ again.amount = req[r].amount
        /\ again.at = 0 /\ DOMAIN again.seen = {} /\ again.dirty = FALSE
        /\ again.tries = req[r].tries /\ again.drops = req[r].drops
        /\ again.before = req[r].before
    BY <1>1, AgainFacts
  <1>3. again.drops \in Nat /\ again.drops + 1 \in 0 .. MaxRetries
    BY <1>2, BudgetAssumption DEF RequestRecord
  <1>4. Dropped(r) = [again EXCEPT !.drops = again.drops + 1]
    BY <1>1 DEF Dropped
  <1> QED BY <1>2, <1>3, <1>4 DEF RequestRecord

(* The next attempt: this one was lost to its connection, or accounted for *)
(* already.                                                                *)
LEMMA RetryInv ==
    ASSUME SInv, NEW r \in Request, req[r].pc \in InTransaction,
           UNCHANGED <<store, now, entries, ledger, payments>>,
           NEW new \in {Again(r), Dropped(r)}, req' = [req EXCEPT ![r] = new],
           new = Dropped(r) \/ Lost(r, req[r], req[r].tries)
    PROVE  SInv'
  <1>0. /\ Types /\ now \in Nat /\ Sound(req[r]) /\ Tallied(r, req[r])
        /\ req[r] \in RequestRecord /\ req[r].pc \in Trying
    BY DEF SInv, Types, Trying
  <1>1. PICK q \in RequestRecord : q = req[r]
    BY <1>0
  <1>2. /\ q.tries \in Nat /\ q.drops \in Nat /\ q.tries <= MaxRetries /\ Made(r, q) \in Int
        /\ MaxRetries \in Nat
    BY <1>0, Numbers
  <1>3. /\ q.drops + 1 <= q.tries /\ q.tries <= q.drops + Made(r, q) + 1
        /\ \A p \in payments : p.req = r => p.try >= 1 /\ p.try < q.tries
    BY <1>0, <1>1 DEF Tallied
  <1>4. /\ new \in RequestRecord /\ new.pc = "verified" /\ new.token = q.token
        /\ new.amount = q.amount /\ new.at = 0 /\ DOMAIN new.seen = {} /\ new.dirty = FALSE
        /\ new.tries = q.tries /\ new.before = q.before
        /\ new.drops = IF new = Dropped(r) THEN q.drops + 1 ELSE q.drops
    <2>1. q.drops + 1 <= MaxRetries
      BY <1>2, <1>3
    <2>2. CASE new = Dropped(r)
      BY <1>0, <1>1, <2>1, <2>2, DroppedFacts
    <2>3. CASE new # Dropped(r)
      <3>1. new = Again(r)
        BY <2>3
      <3> QED BY <1>0, <1>1, <2>3, <3>1, AgainFacts
    <2> QED BY <2>2, <2>3
  <1>5. Sound(new)
    <2>1. Known(q.token) /\ q.token \in Token /\ q.amount \in (Amount \cap Nat) \cup {0}
      BY <1>0, <1>1 DEF Sound, Known
    <2> QED BY <1>0, <1>4, <2>1 DEF Sound, InTransaction, Trying
  <1>6. Made(r, new) = Made(r, q) /\ (Late(new) <=> Late(q))
    BY <1>4 DEF Made, Late
  <1>7. Lost(r, new, new.tries)
    <2>1. CASE new = Dropped(r)
      <3>1. q.tries <= (q.drops + 1) + Made(r, q) + (IF Late(new) THEN 1 ELSE 0)
        BY <1>2, <1>3
      <3> QED BY <1>4, <1>6, <2>1, <3>1 DEF Lost
    <2>2. CASE new # Dropped(r)
      BY <1>1, <1>4, <1>6, <2>2 DEF Lost
    <2> QED BY <2>1, <2>2
  <1>8. new.drops <= new.tries
    BY <1>2, <1>3, <1>4
  <1>9. \A p \in payments : p.req = r => p.try >= 1 /\ p.try <= new.tries
    <2>1. \A p \in payments : p.try \in Nat
      BY <1>0 DEF Types, Payment
    <2> QED BY <1>2, <1>3, <1>4, <2>1
  <1>10. Tallied(r, new)
    BY <1>4, <1>7, <1>8, <1>9 DEF Tallied, Trying, InTransaction
  <1> QED BY <1>4, <1>5, <1>10, OneRequest

LEMMA ExecAbortsInv ==
    ASSUME SInv, NEW r \in Request, ExecAborts(r)
    PROVE  SInv'
  <1>1. /\ req[r].pc \in InTransaction /\ UNCHANGED <<store, now, entries, ledger, payments>>
        /\ req' = [req EXCEPT ![r] = Again(r)] /\ req[r].dirty = TRUE
    BY DEF ExecAborts, InTransaction, Undisturbed, SInv, Types, RequestRecord
  <1>2. Lost(r, req[r], req[r].tries)
    BY <1>1 DEF SInv, Tallied
  <1> QED BY <1>1, <1>2, RetryInv

LEMMA DropsInv ==
    ASSUME SInv, NEW r \in Request, Drops(r)
    PROVE  SInv'
  <1>1. /\ req[r].pc \in InTransaction /\ UNCHANGED <<store, now, entries, ledger, payments>>
        /\ req' = [req EXCEPT ![r] = Dropped(r)]
    BY DEF Drops, InTransaction
  <1> QED BY <1>1, RetryInv

(* What _records establishes: the accounts exist and are not over.         *)
LEMMA ChargeableFacts ==
    ASSUME NEW t \in Token, NEW at \in Nat, Chargeable(t, at)
    PROVE  Known(t) /\ \A k \in Charges(t) : k \in Account /\ at < Retained(k)
  <1>1. Known(t)
    BY DEF Chargeable, Known
  <1>2. ASSUME NEW k \in Charges(t) PROVE at < Retained(k)
    <2>1. CASE k \in Chain(t)
      <3>1. k \in Token
        BY <2>1, TokensAssumption DEF Chain, ClaimsType
      <3>2. k \notin Budget
        BY <3>1, BudgetAssumption
      <3> QED BY <2>1, <3>2 DEF Chargeable, Retained
    <2>2. CASE Names(t) /\ k = Pins[t].shared_budget
      BY <2>2 DEF Chargeable, Retained
    <2> QED BY <1>2, <2>1, <2>2 DEF Charges
  <1> QED BY <1>1, <1>2, ChargeFacts

LEMMA StartInv ==
    ASSUME SInv, NEW r \in Request, Start(r)
    PROVE  SInv'
  <1>0. /\ Types /\ Sound(req[r]) /\ Tallied(r, req[r]) /\ req[r].pc = "verified"
        /\ now \in Nat /\ UNCHANGED <<store, now, entries, ledger, payments>> /\ store # "memory"
    BY DEF Start, SInv, Types
  <1>1. PICK q \in RequestRecord : q = req[r]
    BY <1>0 DEF Types
  <1>2. /\ q.token \in Token /\ q.amount \in (Amount \cap Nat) \cup {0} /\ q.at <= now
        /\ DOMAIN q.seen = {} /\ q.dirty = FALSE /\ (q.tries # 0 => Known(q.token))
    BY <1>0, <1>1 DEF Sound, InTransaction
  <1>3. /\ q.drops <= q.tries /\ (q.tries # 0 => Lost(r, q, q.tries))
        /\ \A p \in payments : p.req = r => p.try >= 1 /\ p.try <= q.tries
    BY <1>0, <1>1 DEF Tallied
  <1>4. /\ q.tries \in Nat /\ q.drops \in Nat /\ q.before \in Nat /\ q.tries <= MaxRetries
        /\ Made(r, q) \in Int /\ MaxRetries \in Nat \ {0}
    BY <1>0, Numbers
  <1>5. CASE Tried(r)
    <2> DEFINE new == [q EXCEPT !.pc = "contended"]
    <2>1. req' = [req EXCEPT ![r] = new]
      BY <1>1, <1>5 DEF Start
    <2>2. /\ new \in RequestRecord /\ new.pc = "contended" /\ new.token = q.token
          /\ new.amount = q.amount /\ new.at = q.at /\ new.seen = q.seen /\ new.dirty = q.dirty
          /\ new.tries = q.tries /\ new.drops = q.drops /\ new.before = q.before
      BY DEF RequestRecord, Ended
    <2> HIDE DEF new
    <2>3. q.tries = MaxRetries /\ q.tries # 0
      BY <1>1, <1>4, <1>5 DEF Tried
    <2>4. Sound(new)
      BY <1>0, <1>2, <2>2, <2>3 DEF Sound, Trying, InTransaction
    <2>5. Lost(r, new, new.tries)
      BY <1>3, <2>2, <2>3 DEF Lost, Made, Late
    <2>6. Tallied(r, new)
      BY <2>2, <2>3, <2>5 DEF Tallied, Trying, InTransaction
    <2> QED BY <1>0, <2>1, <2>2, <2>4, <2>6, OneRequest
  <1>6. CASE ~ Tried(r) /\ ~ Chargeable(req[r].token, now)
    <2>1. req' = [req EXCEPT ![r] = Out("refused")] /\ "refused" \in Ended \ {"contended"}
      BY <1>6 DEF Start, Ended
    <2> QED BY <1>0, <2>1, OutInv
  <1>7. CASE ~ Tried(r) /\ Chargeable(req[r].token, now)
    <2>0. PICK before : before = IF q.tries = 0 THEN Cardinality(Rivals(r, q.token)) ELSE q.before
      OBVIOUS
    <2> DEFINE new == [q EXCEPT !.pc = "started", !.tries = q.tries + 1, !.before = before]
    <2>1. req' = [req EXCEPT ![r] = new]
      BY <1>1, <1>7, <2>0 DEF Start
    <2>2. q.tries + 1 \in 0 .. MaxRetries /\ before \in Nat
      BY <1>0, <1>1, <1>4, <1>7, <2>0, RivalsFinite DEF Tried
    <2>3. /\ new \in RequestRecord /\ new.pc = "started" /\ new.token = q.token
          /\ new.amount = q.amount /\ new.at = q.at /\ new.seen = q.seen /\ new.dirty = q.dirty
          /\ new.tries = q.tries + 1 /\ new.drops = q.drops /\ new.before = before
      BY <2>2 DEF RequestRecord
    <2> HIDE DEF new
    <2>4. Known(q.token) /\ \A k \in Charges(q.token) : k \in Account /\ now < Retained(k)
      BY <1>0, <1>1, <1>2, <1>7, ChargeableFacts
    <2>5. Sound(new)
      BY <1>0, <1>2, <2>3, <2>4 DEF Sound, Trying, InTransaction
    <2>6. ~ Late(q)
      BY <1>0, <2>4, AccountFacts DEF Late
    <2>7. new.tries <= new.drops + Made(r, new) + 1
      <3>1. CASE q.tries = 0
        <4>1. before = Cardinality(Rivals(r, q.token)) /\ before \in Nat
          BY <2>0, <2>2, <3>1
        <4>2. Made(r, new) = Cardinality(Rivals(r, q.token)) - before
          BY <2>3 DEF Made
        <4>3. Made(r, new) = 0
          BY <4>1, <4>2
        <4> QED BY <1>4, <2>3, <3>1, <4>3
      <3>2. CASE q.tries # 0
        <4>1. q.tries <= q.drops + Made(r, q) + 0
          BY <1>3, <2>6, <3>2 DEF Lost
        <4>2. Made(r, new) = Made(r, q)
          BY <2>0, <2>3, <3>2 DEF Made
        <4> QED BY <1>4, <2>3, <4>1, <4>2
      <3> QED BY <3>1, <3>2
    <2>8. \A p \in payments : p.req = r => p.try >= 1 /\ p.try < new.tries
      <3>1. \A p \in payments : p.try \in Nat
        BY <1>0 DEF Types, Payment
      <3> QED BY <1>3, <1>4, <2>3, <3>1
    <2>9. new.drops + 1 <= new.tries
      BY <1>3, <1>4, <2>3
    <2>10. Tallied(r, new)
      BY <2>3, <2>7, <2>8, <2>9 DEF Tallied, InTransaction
    <2> QED BY <1>0, <2>1, <2>3, <2>5, <2>10, OneRequest
  <1> QED BY <1>5, <1>6, <1>7

(* An attempt goes on.                                                     *)
LEMMA TallyGoesOn ==
    ASSUME NEW r, NEW q, NEW new, Tallied(r, q), q.pc \in Trying, new.pc \in Trying,
           new.token = q.token, new.tries = q.tries, new.drops = q.drops, new.before = q.before,
           new.dirty = q.dirty, q.pc \in InTransaction \/ q.dirty = FALSE
    PROVE  Tallied(r, new)
  <1>1. new.pc \notin {"idle", "verified", "contended"}
    BY DEF Trying, InTransaction
  <1>2. new.dirty = TRUE => Lost(r, q, q.tries)
    BY DEF Tallied
  <1>3. new.dirty = TRUE => Lost(r, new, new.tries)
    BY <1>2 DEF Lost, Made, Late
  <1>4. Made(r, new) = Made(r, q)
    BY DEF Made
  <1> QED BY <1>1, <1>3, <1>4 DEF Tallied

LEMMA WatchInv ==
    ASSUME SInv, NEW r \in Request, Watch(r)
    PROVE  SInv'
  <1> DEFINE new == [req[r] EXCEPT !.pc = "reading", !.left = ChargeOrder(req[r].token)]
  <1>0. /\ req[r] \in RequestRecord /\ Sound(req[r]) /\ req[r].pc = "started" /\ Types
        /\ UNCHANGED <<store, now, entries, ledger, payments>> /\ Tallied(r, req[r])
    BY DEF Watch, SInv, Types
  <1>1. req' = [req EXCEPT ![r] = new]
    BY <1>0 DEF Watch, Types
  <1>2. /\ Known(req[r].token) /\ store # "memory"
        /\ DOMAIN req[r].seen = {} /\ req[r].dirty = FALSE
    BY <1>0 DEF Sound, Trying, InTransaction
  <1>3. ChargeOrder(req[r].token) \in Seq(Account)
    BY <1>2, ChargeFacts
  <1>4. /\ new \in RequestRecord /\ new.pc = "reading" /\ new.token = req[r].token
        /\ new.amount = req[r].amount /\ new.at = req[r].at /\ new.left = ChargeOrder(req[r].token)
        /\ new.seen = req[r].seen /\ new.dirty = req[r].dirty /\ new.tries = req[r].tries
        /\ new.drops = req[r].drops /\ new.before = req[r].before
    BY <1>0, <1>3 DEF RequestRecord, InTransaction
  <1> HIDE DEF new
  <1>5. /\ \A i \in 1 .. Len(new.left) : new.left[i] \in Charges(new.token)
        /\ \A k \in Charges(new.token) : InOrder(k, new.left)
    BY <1>2, <1>4, ChargeFacts
  <1>6. Sound(new)
    BY <1>0, <1>2, <1>4, <1>5 DEF Sound, InTransaction
  <1>7. Tallied(r, new)
    <2>1. req[r].pc \in Trying /\ new.pc \in Trying
      BY <1>0, <1>4 DEF Trying, InTransaction
    <2> QED BY <1>0, <1>2, <1>4, <2>1, TallyGoesOn
  <1> QED BY <1>0, <1>1, <1>4, <1>6, <1>7, OneRequest

LEMMA TailInOrder ==
    ASSUME NEW left \in Seq(Account), left # << >>
    PROVE  /\ Tail(left) \in Seq(Account) /\ Head(left) \in Account
           /\ Head(left) = left[1] /\ 1 \in 1 .. Len(left)
           /\ \A i \in 1 .. Len(Tail(left)) : i + 1 \in 1 .. Len(left) /\ Tail(left)[i] = left[i + 1]
           /\ \A k : InOrder(k, left) => k = Head(left) \/ InOrder(k, Tail(left))
  <1>1. /\ Tail(left) \in Seq(Account) /\ Head(left) \in Account /\ Len(left) \in Nat
        /\ Head(left) = left[1] /\ 1 \in 1 .. Len(left) /\ Len(Tail(left)) = Len(left) - 1
        /\ \A i \in 1 .. Len(Tail(left)) : Tail(left)[i] = left[i + 1]
    OBVIOUS
  <1>2. \A i \in 1 .. Len(Tail(left)) : i + 1 \in 1 .. Len(left)
    BY <1>1
  <1>3. ASSUME NEW k, NEW i \in 1 .. Len(left), left[i] = k, i # 1
        PROVE  InOrder(k, Tail(left))
    <2>1. i - 1 \in 1 .. Len(Tail(left)) /\ Tail(left)[i - 1] = left[i]
      BY <1>1, <1>3
    <2> QED BY <1>3, <2>1 DEF InOrder
  <1> QED BY <1>1, <1>2, <1>3 DEF InOrder

(* Reading: what was seen of a key is what is there, until it is touched.  *)
LEMMA ReadInv ==
    ASSUME SInv, NEW r \in Request, UNCHANGED <<store, now, entries, ledger, payments>>,
           req[r].pc = "reading", NEW left \in Seq(Account), NEW seen \in Readings,
           req' = [req EXCEPT ![r] = [req[r] EXCEPT !.left = left, !.seen = seen]],
           \A i \in 1 .. Len(left) : left[i] \in Charges(req[r].token),
           \A k \in Charges(req[r].token) : k \in DOMAIN seen \/ InOrder(k, left),
           req[r].dirty = FALSE =>
              \A k \in Charges(req[r].token) : k \in DOMAIN seen => seen[k] = Stored(k)
    PROVE  SInv'
  <1> DEFINE new == [req[r] EXCEPT !.left = left, !.seen = seen]
  <1>0. req[r] \in RequestRecord /\ Sound(req[r]) /\ Tallied(r, req[r])
    BY DEF SInv, Types
  <1>1. /\ new \in RequestRecord /\ new.pc = "reading" /\ new.token = req[r].token
        /\ new.amount = req[r].amount /\ new.at = req[r].at /\ new.left = left
        /\ new.seen = seen /\ new.dirty = req[r].dirty /\ new.tries = req[r].tries
        /\ new.drops = req[r].drops /\ new.before = req[r].before
    BY <1>0 DEF RequestRecord
  <1>2. req' = [req EXCEPT ![r] = new]
    OBVIOUS
  <1> HIDE DEF new
  <1>3. /\ Known(new.token) /\ new.amount \in (Amount \cap Nat) \cup {0} /\ new.at <= now
        /\ store # "memory"
    BY <1>0, <1>1 DEF Sound, Trying, InTransaction
  <1>4. Sound(new)
    BY <1>1, <1>3 DEF Sound, InTransaction
  <1>5. Tallied(r, new)
    <2>1. req[r].pc \in Trying /\ new.pc \in Trying /\ req[r].pc \in InTransaction
      BY <1>1 DEF Trying, InTransaction
    <2> QED BY <1>0, <1>1, <2>1, TallyGoesOn
  <1> QED BY <1>1, <1>2, <1>4, <1>5, OneRequest

LEMMA ReadKeyInv ==
    ASSUME SInv, NEW r \in Request, ReadKey(r)
    PROVE  SInv'
  <1>0. /\ req[r] \in RequestRecord /\ Sound(req[r]) /\ req[r].pc = "reading" /\ Types
        /\ req[r].left # << >> /\ UNCHANGED <<store, now, entries, ledger, payments>>
    BY DEF ReadKey, SInv, Types
  <1>1. req[r].left \in Seq(Account) /\ req[r].seen \in Readings /\ Known(req[r].token)
    BY <1>0 DEF RequestRecord, Sound, Trying, InTransaction
  <1>2. PICK key \in Account : key = Head(req[r].left)
    BY <1>0, <1>1, TailInOrder
  <1> DEFINE old == req[r].seen
             seen == [j \in DOMAIN old \cup {key} |-> IF j = key THEN Stored(key) ELSE old[j]]
             left == Tail(req[r].left)
  <1>3. req' = [req EXCEPT ![r] = [req[r] EXCEPT !.left = left, !.seen = seen]]
    BY <1>0, <1>2 DEF ReadKey, Types
  <1>4. seen \in Readings /\ DOMAIN seen = DOMAIN old \cup {key}
    <2>1. DOMAIN old \subseteq Account /\ \A j \in DOMAIN old : old[j] \in Entry
      BY <1>1 DEF Readings
    <2>2. Stored(key) \in Entry
      BY <1>0, StoredType
    <2>3. seen \in [DOMAIN old \cup {key} -> Entry]
      BY <2>1, <2>2
    <2> QED BY <2>1, <2>3 DEF Readings
  <1>5. seen[key] = Stored(key) /\ \A j \in DOMAIN old : j # key => seen[j] = old[j]
    OBVIOUS
  <1> HIDE DEF seen
  <1>6. left \in Seq(Account) /\ \A i \in 1 .. Len(left) : left[i] \in Charges(req[r].token)
    BY <1>0, <1>1, TailInOrder DEF Sound, InTransaction
  <1>7. \A k \in Charges(req[r].token) : k \in DOMAIN seen \/ InOrder(k, left)
    BY <1>0, <1>1, <1>2, <1>4, TailInOrder DEF Sound, InTransaction
  <1>8. req[r].dirty = FALSE =>
           \A k \in Charges(req[r].token) : k \in DOMAIN seen => seen[k] = Stored(k)
    BY <1>0, <1>4, <1>5 DEF Sound, InTransaction
  <1> HIDE DEF left
  <1> QED BY <1>0, <1>3, <1>4, <1>6, <1>7, <1>8, ReadInv

LEMMA ReadAllInv ==
    ASSUME SInv, NEW r \in Request, ReadAll(r)
    PROVE  SInv'
  <1>0. /\ req[r] \in RequestRecord /\ Sound(req[r]) /\ req[r].pc = "reading" /\ Types
        /\ UNCHANGED <<store, now, entries, ledger, payments>>
    BY DEF ReadAll, SInv, Types
  <1>1. Known(req[r].token)
    BY <1>0 DEF Sound, Trying, InTransaction
  <1> DEFINE seen == [k \in Charges(req[r].token) |-> Stored(k)]
  <1>2. req' = [req EXCEPT ![r] = [req[r] EXCEPT !.left = << >>, !.seen = seen]]
    BY <1>0 DEF ReadAll, Types
  <1>3. Charges(req[r].token) \subseteq Account
    BY <1>1, ChargeFacts
  <1>4. seen \in [Charges(req[r].token) -> Entry]
    BY <1>0, <1>3, StoredType
  <1>5. seen \in Readings /\ DOMAIN seen = Charges(req[r].token)
    BY <1>3, <1>4 DEF Readings
  <1>6. \A k \in Charges(req[r].token) : seen[k] = Stored(k)
    OBVIOUS
  <1> HIDE DEF seen
  <1>7. PICK left : left = << >>
    OBVIOUS
  <1>8. left \in Seq(Account) /\ \A i \in 1 .. Len(left) : left[i] \in Charges(req[r].token)
    BY <1>7
  <1>9. req' = [req EXCEPT ![r] = [req[r] EXCEPT !.left = left, !.seen = seen]]
    BY <1>2, <1>7
  <1> QED BY <1>0, <1>5, <1>6, <1>8, <1>9, ReadInv

(* The decision: at this moment the chain and the budget are alive, what   *)
(* was seen is exact, and it fits.                                         *)
LEMMA DecideInv ==
    ASSUME SInv, NEW r \in Request, Decide(r)
    PROVE  SInv'
  <1>0. /\ req[r] \in RequestRecord /\ Sound(req[r]) /\ req[r].pc = "reading" /\ now \in Nat
        /\ req[r].left = << >> /\ UNCHANGED <<store, now, entries, ledger, payments>>
        /\ Tallied(r, req[r])
    BY DEF Decide, SInv, Types
  <1>1. PICK t : t = req[r].token
    OBVIOUS
  <1>2. PICK bill : bill = BillOf(t, req[r].amount)
    OBVIOUS
  <1>3. Known(t) /\ t \in Token /\ store # "memory"
    BY <1>0, <1>1 DEF Sound, Trying, InTransaction, Known
  <1>4. CASE Chargeable(t, now) /\ \A k \in Charges(t) : Fits(k, req[r].seen[k], bill[k], now)
    <2> DEFINE new == [req[r] EXCEPT !.pc = "committing", !.at = now]
    <2>1. req' = [req EXCEPT ![r] = new]
      BY <1>1, <1>2, <1>4 DEF Decide
    <2>2. /\ new \in RequestRecord /\ new.pc = "committing" /\ new.token = t
          /\ new.amount = req[r].amount /\ new.at = now /\ new.left = << >>
          /\ new.seen = req[r].seen /\ new.dirty = req[r].dirty /\ new.tries = req[r].tries
          /\ new.drops = req[r].drops /\ new.before = req[r].before
      BY <1>0, <1>1 DEF RequestRecord, InTransaction
    <2> HIDE DEF new
    <2>3. \A k : ~ InOrder(k, req[r].left)
      BY <1>0 DEF InOrder
    <2>4. \A k \in Charges(t) : k \in DOMAIN req[r].seen
      BY <1>0, <1>1, <2>3 DEF Sound, InTransaction
    <2>5. ASSUME req[r].dirty = FALSE, NEW k \in Charges(t)
          PROVE  req[r].seen[k] = Stored(k) /\ Decided(new, k)
      <3>1. req[r].seen[k] = Stored(k)
        BY <1>0, <1>1, <2>4, <2>5 DEF Sound, InTransaction
      <3>2. k \in Account /\ Live(k)
        BY <1>0, <1>3, <1>4, <2>5, ChargeableFacts DEF Live
      <3>3. Exact(k)
        BY <3>2 DEF SInv, AccountInv
      <3>4. \A p \in PaidBy(k) : p.at <= now
        BY DEF SInv, Types, PaidBy
      <3>5. Fits(k, Stored(k), bill[k], now)
        BY <1>4, <2>5, <3>1
      <3> QED BY <1>2, <2>2, <3>1, <3>3, <3>4, <3>5 DEF Decided
    <2>6. Tallied(r, new)
      <3>1. req[r].pc \in Trying /\ new.pc \in Trying /\ req[r].pc \in InTransaction
        BY <1>0, <2>2 DEF Trying, InTransaction
      <3> QED BY <1>0, <1>1, <2>2, <3>1, TallyGoesOn
    <2>7. new.amount \in (Amount \cap Nat) \cup {0}
      BY <1>0, <2>2 DEF Sound
    <2>8. new.pc \in InTransaction /\ \A i \in 1 .. Len(new.left) : new.left[i] \in Charges(t)
      BY <2>2 DEF InTransaction
    <2>9. Sound(new)
      <3>1. \A k \in Charges(new.token) : k \in DOMAIN new.seen \/ InOrder(k, new.left)
        BY <2>2, <2>4
      <3>2. new.dirty = FALSE =>
              \A k \in Charges(new.token) : new.seen[k] = Stored(k) /\ Decided(new, k)
        BY <2>2, <2>5
      <3>3. new.at <= now /\ new.pc # "verified" /\ new.pc # "contended"
        BY <1>0, <2>2
      <3> QED BY <1>3, <2>2, <2>7, <2>8, <3>1, <3>2, <3>3 DEF Sound
    <2> QED BY <1>0, <2>1, <2>2, <2>6, <2>9, OneRequest
  <1>5. CASE ~ (Chargeable(t, now) /\ \A k \in Charges(t) : Fits(k, req[r].seen[k], bill[k], now))
    <2>1. req' = [req EXCEPT ![r] = Out("refused")] /\ "refused" \in Ended \ {"contended"}
      BY <1>1, <1>2, <1>5 DEF Decide, Ended
    <2> QED BY <1>0, <2>1, OutInv
  <1> QED BY <1>4, <1>5

LEMMA ExecuteInv ==
    ASSUME SInv, NEW r \in Request, Execute(r)
    PROVE  SInv'
  <1> DEFINE new == [req[r] EXCEPT !.pc = "executed"]
  <1>0. /\ req[r] \in RequestRecord /\ Sound(req[r]) /\ req[r].pc = "reserved"
        /\ UNCHANGED <<store, now, entries, ledger, payments>> /\ req' = [req EXCEPT ![r] = new]
    BY DEF Execute, SInv, Types
  <1>1. /\ new \in RequestRecord /\ new.pc = "executed" /\ new.token = req[r].token
        /\ new.amount = req[r].amount /\ new.at = req[r].at /\ new.seen = req[r].seen
        /\ new.dirty = req[r].dirty /\ new.tries = req[r].tries
    BY <1>0 DEF RequestRecord, Paid
  <1> HIDE DEF new
  <1>2. Sound(new)
    BY <1>0, <1>1 DEF Sound, Trying, InTransaction
  <1>3. Tallied(r, new)
    BY <1>1 DEF Tallied, Trying, InTransaction
  <1> QED BY <1>0, <1>1, <1>2, <1>3, OneRequest

(* Time passes.  Redis drops only entries of accounts that are over then.  *)
LEMMA TickInv ==
    ASSUME SInv, Tick
    PROVE  SInv'
  <1>0. /\ now \in Nat /\ now' = now + 1 /\ UNCHANGED <<store, ledger, payments>> /\ Types
    BY DEF SInv, Types, Tick
  <1>1. PICK gone : /\ \A k \in gone : k \in DOMAIN entries /\ entries[k].until <= now + 1
                    /\ entries' = [k \in DOMAIN entries \ gone |-> entries[k]]
                    /\ req' = Touched(req, gone)
    BY DEF Tick
  <1>2. ASSUME NEW q \in Request PROVE Marked(req[q], gone) \in RequestRecord
    BY MarkedFacts DEF SInv, Types
  <1>3. Types'
    <2>1. req' = [q \in Request |-> Marked(req[q], gone)]
      BY <1>1, TouchedIsMarked
    <2>2. req' \in [Request -> RequestRecord]
      BY <1>2, <2>1
    <2>3. DOMAIN entries' \subseteq Account /\ \A k \in DOMAIN entries' : entries'[k] \in Entry
      BY <1>1 DEF SInv, Types
    <2>4. \A p \in payments : p.at <= now'
      BY <1>0 DEF Types, Payment
    <2> QED BY <1>0, <2>2, <2>3, <2>4 DEF Types
  <1>4. ASSUME NEW k PROVE SamePaid(k)
    BY <1>0 DEF SamePaid, PaidBy
  <1>5. ASSUME NEW k \in Account \ gone
        PROVE  /\ SameAccount(k)
               /\ k \in DOMAIN entries' => k \in DOMAIN entries /\ entries'[k] = entries[k]
    <2>1. /\ k \in DOMAIN entries' <=> k \in DOMAIN entries
          /\ k \in DOMAIN entries' => entries'[k] = entries[k]
      BY <1>1
    <2>2. Stored(k)' = Stored(k)
      BY <2>1 DEF Stored
    <2> QED BY <1>0, <1>4, <2>1, <2>2 DEF SameAccount
  <1>6. ASSUME NEW k \in gone PROVE k \in Account /\ now' >= Retained(k)
    <2>1. k \in DOMAIN entries /\ entries[k].until <= now + 1 /\ k \in Account
      BY <1>0, <1>1, <1>6 DEF Types
    <2>2. entries[k].until \in Nat /\ entries[k].until >= Retained(k)
      BY <1>0, <2>1 DEF SInv, AccountInv, Types, Entry
    <2> QED BY <1>0, <2>1, <2>2, AccountFacts
  <1>7. ASSUME NEW k \in Account PROVE AccountInv(k)'
    <2>0. AccountInv(k)
      BY DEF SInv
    <2>1. CASE k \in gone
      <3>1. ~ Live(k)'
        BY <1>0, <1>6, <2>1, AccountFacts DEF Live
      <3>2. k \notin DOMAIN entries'
        BY <1>1, <2>1
      <3>3. Stored(k)'.stamps = {}
        BY <3>2 DEF Stored, NoEntry
      <3>4. ledger'[k].calls = Cardinality(PaidBy(k)') /\ Within(k)' /\ RateCap(k)'
        BY <1>0, <1>4, <2>0, SamePaidKeeps DEF AccountInv
      <3> QED BY <3>1, <3>2, <3>3, <3>4 DEF AccountInv, Stamped
    <2>2. CASE k \notin gone
      <3>1. now' \in Nat /\ now' >= now
        BY <1>0
      <3> QED BY <1>0, <1>5, <2>0, <2>2, <3>1, SameAccountInv
    <2> QED BY <2>1, <2>2
  <1>8. Moves(gone)
    BY <1>0, <1>5 DEF Moves
  <1>9. ASSUME NEW q \in Request PROVE Sound(req[q])' /\ Tallied(q, req[q])'
    <2>1. PICK v \in RequestRecord : v = req[q]
      BY DEF SInv, Types
    <2>2. PICK new : new = Marked(v, gone)
      OBVIOUS
    <2>3. Sound(v) /\ Tallied(q, v)
      BY <2>1 DEF SInv
    <2>4. Sound(new)'
      BY <1>0, <1>8, <2>2, <2>3, MovesKeepsSound
    <2>5. Charges(v.token) \cap gone # {} => Late(v)'
      BY <1>6 DEF Late
    <2>6. now' >= now /\ payments \subseteq payments' /\ payments' \ payments = {}
      BY <1>0
    <2>7. Tallied(q, new)'
      <3>1. Elsewhere(q) /\ Struck(v, gone)
        BY <2>5, <2>6 DEF Elsewhere, Struck
      <3> QED BY <1>0, <1>3, <2>2, <2>3, <3>1, TallyKept
    <2>8. req'[q] = new
      BY <1>1, <2>1, <2>2, TouchedIsMarked
    <2>9. Sound(req[q])'
      BY <2>4, <2>8 DEF Sound, Decided
    <2>10. Tallied(q, req[q])'
      BY <2>7, <2>8 DEF Tallied, Lost, Made, Late, Rivals
    <2> QED BY <2>9, <2>10
  <1> QED BY <1>3, <1>7, <1>9 DEF SInv

-----------------------------------------------------------------------------
(* The stamps of an exact entry are the calls in the window.               *)
LEMMA RecentIsAll ==
    ASSUME SInv, NEW k \in Account, NEW at \in Nat, Exact(k), RateOf(k) # None,
           \A p \in PaidBy(k) : p.at <= at
    PROVE  /\ \A p \in PaidBy(k) : p.at >= at - Window => p \in Recent(Stored(k), at)
           /\ Cardinality(Recent(Stored(k), at)) \in Nat
           /\ Cardinality(InWindow(k, at)) <= Cardinality(Recent(Stored(k), at))
  <1> DEFINE S == InWindow(k, at)
             T == Recent(Stored(k), at)
  <1>0. Window \in Nat /\ Types /\ \A p \in PaidBy(k) : p.at \in Nat
    BY WindowType, PaidFinite DEF SInv
  <1>1. \A p \in PaidBy(k) : p.at >= at - Window => p \in T
    <2> SUFFICES ASSUME NEW p \in PaidBy(k), p.at >= at - Window PROVE p \in T
      OBVIOUS
    <2>1. \A o \in PaidBy(k) : p.at >= o.at - Window
      BY <1>0
    <2>2. p \in Stored(k).stamps
      BY <2>1 DEF Exact
    <2> QED BY <2>2 DEF Recent, Window
  <1>2. T \subseteq PaidBy(k)
    BY DEF SInv, AccountInv, Stamped, Recent
  <1>3. IsFiniteSet(T) /\ Cardinality(T) \in Nat
    BY <1>0, <1>2, PaidFinite
  <1>4. S \subseteq T
    BY <1>1 DEF InWindow
  <1> HIDE DEF S, T
  <1>5. Cardinality(S) <= Cardinality(T)
    BY <1>3, <1>4, FS_Subset
  <1> QED BY <1>1, <1>3, <1>5 DEF S, T

-----------------------------------------------------------------------------
(* A charge, by whichever tracker: the entries of the bill's accounts were *)
(* exact and had room, and each is overwritten by what it held plus this   *)
(* call.                                                                   *)
Pays(p, bill) ==
    /\ now' = now /\ store' = store
    /\ p \in Payment /\ p \notin payments /\ p.at <= now
    /\ payments' = payments \cup {p}
    /\ Known(p.token)
    /\ \E amount \in (Amount \cap Nat) \cup {0} : bill = BillOf(p.token, amount)
    /\ ledger' = Ledger!Charged(bill)
    /\ \A k \in Charges(p.token) :
          /\ Exact(k)
          /\ \A o \in PaidBy(k) : o.at <= p.at
          /\ Fits(k, Stored(k), bill[k], p.at)
          /\ k \in DOMAIN entries'
          /\ \E until \in Nat :
                /\ until >= Retained(k)
                /\ entries'[k] = Pending(k, Stored(k), bill[k], p, until)

LEMMA PaysFacts ==
    ASSUME SInv, NEW p, NEW bill, Pays(p, bill), NEW k \in Account
    PROVE  /\ k \notin Charges(p.token) => SamePaid(k) /\ ledger'[k] = ledger[k]
           /\ k \in Charges(p.token) =>
                 /\ PaidBy(k)' = PaidBy(k) \cup {p} /\ p \notin PaidBy(k)
                 /\ bill[k].usd \in Nat /\ bill[k].minor \in Nat
                 /\ ledger'[k].calls = ledger[k].calls + 1
                 /\ ledger'[k].usd = ledger[k].usd + bill[k].usd
                 /\ ledger'[k].minor = ledger[k].minor + bill[k].minor
           /\ ledger'[k] \in [calls : Nat, usd : Nat, minor : Nat]
  <1>0. PICK amount \in Nat : bill = BillOf(p.token, amount) /\ p.token \in Token
    BY DEF Pays, Known
  <1>1. /\ DOMAIN bill = Charges(p.token)
        /\ \A j \in Charges(p.token) : bill[j].usd \in Nat /\ bill[j].minor \in Nat
    BY <1>0, BillFacts
  <1>2. ledger' = Ledger!Charged(bill) /\ ledger[k] \in [calls : Nat, usd : Nat, minor : Nat]
    BY DEF Pays, SInv, Types
  <1>3. CASE k \notin Charges(p.token)
    <2>1. PaidBy(k)' = PaidBy(k)
      BY <1>3 DEF Pays, PaidBy
    <2>2. ledger'[k] = ledger[k]
      BY <1>1, <1>2, <1>3 DEF Ledger!Charged
    <2> QED BY <1>2, <1>3, <2>1, <2>2 DEF SamePaid
  <1>4. CASE k \in Charges(p.token)
    <2>1. PaidBy(k)' = PaidBy(k) \cup {p} /\ p \notin PaidBy(k)
      BY <1>4 DEF Pays, PaidBy
    <2>2. ledger'[k] = [calls |-> ledger[k].calls + 1,
                        usd   |-> ledger[k].usd + bill[k].usd,
                        minor |-> ledger[k].minor + bill[k].minor]
      BY <1>1, <1>2, <1>4 DEF Ledger!Charged
    <2> QED BY <1>1, <1>2, <1>4, <2>1, <2>2
  <1> QED BY <1>3, <1>4

(* The totals afterwards are within the limits ...                         *)
LEMMA PaysWithin ==
    ASSUME SInv, NEW p, NEW bill, Pays(p, bill), NEW k \in Charges(p.token)
    PROVE  Within(k)' /\ ledger'[k].calls = Cardinality(PaidBy(k)')
  <1>1. k \in Account
    BY ChargeFacts DEF Pays
  <1>2. /\ PaidBy(k)' = PaidBy(k) \cup {p} /\ p \notin PaidBy(k)
        /\ ledger'[k].calls = ledger[k].calls + 1
        /\ ledger'[k].usd = ledger[k].usd + bill[k].usd
        /\ ledger'[k].minor = ledger[k].minor + bill[k].minor
    BY <1>1, PaysFacts
  <1>3. HasRoom(k, Stored(k), bill[k]) /\ Exact(k)
    BY DEF Pays, Fits
  <1>4. Within(k)'
    BY <1>2, <1>3 DEF HasRoom, Exact, Within
  <1>5. ledger[k].calls = Cardinality(PaidBy(k)) /\ IsFiniteSet(PaidBy(k))
    BY <1>1, PaidFinite DEF SInv, AccountInv
  <1>6. Cardinality(PaidBy(k) \cup {p}) = Cardinality(PaidBy(k)) + 1
    BY <1>2, <1>5, FS_AddElement
  <1> QED BY <1>2, <1>4, <1>5, <1>6

(* ... the window that ends with this call had room for it, and no window  *)
(* that ended before contains it ...                                       *)
LEMMA PaysRate ==
    ASSUME SInv, NEW p, NEW bill, Pays(p, bill), NEW k \in Charges(p.token)
    PROVE  RateCap(k)'
  <1>1. k \in Account
    BY ChargeFacts DEF Pays
  <1>2. PaidBy(k)' = PaidBy(k) \cup {p} /\ p \notin PaidBy(k)
    BY <1>1, PaysFacts
  <1>3. PICK at \in Nat : at = p.at
    BY DEF Pays, Payment
  <1>4. /\ Exact(k) /\ \A o \in PaidBy(k) : o.at <= at
        /\ Fits(k, Stored(k), bill[k], at)
    BY <1>3 DEF Pays
  <1>5. \A o \in PaidBy(k) : o.at \in Nat
    BY PaidFinite DEF SInv
  <1> SUFFICES ASSUME RateOf(k) # None, NEW o \in PaidBy(k)'
               PROVE  Cardinality(InWindow(k, o.at)') <= RateOf(k)
    BY DEF RateCap
  <1>6. Window \in Nat /\ RateOf(k) \in Nat
    BY <1>1, WindowType, AccountFacts
  <1>7. CASE o.at = at
    <2> DEFINE S == InWindow(k, at)
    <2>1. InWindow(k, o.at)' = S \cup {p}
      BY <1>2, <1>3, <1>5, <1>6, <1>7 DEF InWindow
    <2>2. IsFiniteSet(S) /\ p \notin S /\ Cardinality(S) \in Nat
      BY <1>2, PaidFinite DEF InWindow, SInv
    <2>3. /\ Cardinality(S) <= Cardinality(Recent(Stored(k), at))
          /\ Cardinality(Recent(Stored(k), at)) \in Nat
      BY <1>1, <1>4, RecentIsAll
    <2>4. Cardinality(Recent(Stored(k), at)) + 1 <= RateOf(k)
      BY <1>4 DEF Fits
    <2> HIDE DEF S
    <2>5. Cardinality(S \cup {p}) = Cardinality(S) + 1
      BY <2>2, FS_AddElement
    <2> QED BY <1>6, <2>1, <2>2, <2>3, <2>4, <2>5
  <1>8. CASE o.at # at
    <2>1. o \in PaidBy(k) /\ o.at < at
      BY <1>2, <1>3, <1>4, <1>5, <1>8
    <2>2. InWindow(k, o.at)' = InWindow(k, o.at)
      BY <1>2, <1>3, <1>5, <2>1 DEF InWindow
    <2>3. RateCap(k)
      BY <1>1 DEF SInv, AccountInv
    <2> QED BY <2>1, <2>2, <2>3 DEF RateCap
  <1> QED BY <1>7, <1>8

(* ... and the entries written are exact.                                  *)
LEMMA PaysAccount ==
    ASSUME SInv, NEW p, NEW bill, Pays(p, bill), NEW k \in Charges(p.token)
    PROVE  AccountInv(k)' /\ entries'[k] \in Entry
  <1>1. k \in Account
    BY ChargeFacts DEF Pays
  <1>2. /\ PaidBy(k)' = PaidBy(k) \cup {p} /\ p \notin PaidBy(k)
        /\ bill[k].usd \in Nat /\ bill[k].minor \in Nat
        /\ ledger'[k].calls = ledger[k].calls + 1
        /\ ledger'[k].usd = ledger[k].usd + bill[k].usd
        /\ ledger'[k].minor = ledger[k].minor + bill[k].minor
    BY <1>1, PaysFacts
  <1>3. PICK at \in Nat : at = p.at
    BY DEF Pays, Payment
  <1>4. Exact(k) /\ (\A o \in PaidBy(k) : o.at <= at) /\ k \in DOMAIN entries' /\ p \in Payment
    BY <1>3 DEF Pays
  <1>5. PICK until \in Nat : /\ until >= Retained(k)
                             /\ entries'[k] = Pending(k, Stored(k), bill[k], p, until)
    BY DEF Pays
  <1> DEFINE stamps == IF RateOf(k) = None THEN {} ELSE Recent(Stored(k), at) \cup {p}
  <1>6. entries'[k] = [calls |-> Stored(k).calls + 1, usd |-> Stored(k).usd + bill[k].usd,
                       minor |-> Stored(k).minor + bill[k].minor, stamps |-> stamps, until |-> until]
    BY <1>3, <1>5 DEF Pending
  <1>7. /\ Stored(k).calls \in Nat /\ Stored(k).usd \in Nat /\ Stored(k).minor \in Nat
        /\ stamps \in SUBSET Payment
    BY <1>1, <1>4, StoredType DEF SInv, Recent
  <1>8. RateOf(k) = None => stamps = {}
    OBVIOUS
  <1>9. RateOf(k) # None => stamps = Recent(Stored(k), at) \cup {p}
    OBVIOUS
  <1> HIDE DEF stamps
  <1>10. entries'[k] \in Entry
    BY <1>2, <1>6, <1>7 DEF Entry
  <1>11. Stored(k)' = entries'[k]
    BY <1>4 DEF Stored
  <1>12. Stamped(k)'
    <2>1. Stored(k).stamps \subseteq PaidBy(k)
      BY <1>1 DEF SInv, AccountInv, Stamped
    <2>2. stamps \subseteq PaidBy(k) \cup {p}
      BY <1>8, <1>9, <2>1 DEF Recent
    <2> QED BY <1>2, <1>6, <1>11, <2>2 DEF Stamped
  <1>13. ASSUME RateOf(k) # None, NEW q \in PaidBy(k)', \A o \in PaidBy(k)' : q.at >= o.at - Window
         PROVE  q \in stamps
    <2>1. q.at >= at - Window
      BY <1>2, <1>3, <1>13
    <2>2. CASE q = p
      BY <1>9, <1>13, <2>2
    <2>3. CASE q # p
      <3>1. q \in PaidBy(k)
        BY <1>2, <1>13, <2>3
      <3>2. q \in Recent(Stored(k), at)
        BY <1>1, <1>4, <1>13, <2>1, <3>1, RecentIsAll
      <3> QED BY <1>9, <1>13, <3>2
    <2> QED BY <2>2, <2>3
  <1>14. /\ Stored(k)'.calls = ledger'[k].calls /\ Stored(k)'.usd = ledger'[k].usd
         /\ Stored(k)'.minor = ledger'[k].minor /\ Stored(k)'.stamps = stamps
    BY <1>2, <1>4, <1>6, <1>11 DEF Exact
  <1>15. Exact(k)'
    BY <1>13, <1>14 DEF Exact
  <1>16. entries'[k].until >= Retained(k)
    BY <1>5, <1>6
  <1> QED BY <1>10, <1>12, <1>15, <1>16, PaysWithin, PaysRate DEF AccountInv

LEMMA PaysInv ==
    ASSUME SInv, NEW p, NEW bill, Pays(p, bill),
           req' \in [Request -> RequestRecord],
           DOMAIN entries' \subseteq Account,
           \A k \in Account \ Charges(p.token) :
              AccountInv(k)' /\ (k \in DOMAIN entries' => entries'[k] \in Entry)
    PROVE  Types' /\ \A k \in Account : AccountInv(k)'
  <1>1. \A k \in Account : AccountInv(k)' /\ (k \in DOMAIN entries' => entries'[k] \in Entry)
    BY PaysAccount
  <1>2. ledger' \in [Account -> [calls : Nat, usd : Nat, minor : Nat]]
    <2>1. ledger' = Ledger!Charged(bill)
      BY DEF Pays
    <2>2. \A k \in Account : ledger'[k] \in [calls : Nat, usd : Nat, minor : Nat]
      BY PaysFacts
    <2> QED BY <2>1, <2>2 DEF Ledger!Charged
  <1>3. /\ payments' \subseteq Payment /\ IsFiniteSet(payments')
        /\ \A o \in payments' : o.at <= now'
    <2>1. /\ payments' = payments \cup {p} /\ p \in Payment /\ p.at <= now /\ now' = now
          /\ IsFiniteSet(payments) /\ payments \subseteq Payment /\ \A o \in payments : o.at <= now
      BY DEF Pays, SInv, Types
    <2> QED BY <2>1, FS_AddElement
  <1>4. Types'
    BY <1>1, <1>2, <1>3 DEF Types, SInv, Pays
  <1> QED BY <1>1, <1>4

(* BudgetUsageTracker, in one step under its lock.                         *)
LEMMA LocalPays ==
    ASSUME SInv, NEW r \in Request, ReserveLocal(r)
    PROVE  Pays(PaymentOf(r, now), BillOf(req[r].token, req[r].amount))
  <1>0. /\ req[r] \in RequestRecord /\ Sound(req[r]) /\ req[r].pc = "verified" /\ now \in Nat
        /\ store = "memory" /\ UNCHANGED <<store, now>> /\ Types /\ Tallied(r, req[r])
    BY DEF ReserveLocal, SInv, Types
  <1>1. PICK t \in Token : t = req[r].token
    BY <1>0 DEF Sound
  <1>2. PICK bill : bill = BillOf(t, req[r].amount)
    OBVIOUS
  <1>3. PICK p : p = PaymentOf(r, now)
    OBVIOUS
  <1>4. /\ Chargeable(t, now)
        /\ \A k \in Charges(t) : Fits(k, Stored(k), bill[k], now)
        /\ ledger' = Ledger!Charged(bill)
        /\ payments' = payments \cup {p}
    BY <1>1, <1>2, <1>3 DEF ReserveLocal
  <1>5. Known(t) /\ \A k \in Charges(t) : k \in Account /\ now < Retained(k)
    BY <1>0, <1>4, ChargeableFacts
  <1>6. req[r].tries = 0 /\ req[r].amount \in (Amount \cap Nat) \cup {0}
    BY <1>0 DEF Sound
  <1>7. p \in Payment /\ p.token = t /\ p.at = now /\ p.req = r /\ p.try = 0
    <2>1. p = [req |-> r, try |-> 0, token |-> t, at |-> now]
      BY <1>1, <1>3, <1>6 DEF PaymentOf
    <2> QED BY <1>0, <2>1, IdleFacts DEF Payment
  <1>8. p \notin payments
    <2>1. \A o \in payments : o.req = r => o.try >= 1
      BY <1>0 DEF Tallied
    <2> QED BY <1>7, <2>1
  <1>9. ASSUME NEW k \in Charges(t)
        PROVE  /\ Exact(k)
               /\ \A o \in PaidBy(k) : o.at <= now
               /\ k \in DOMAIN entries'
               /\ \E until \in Nat :
                     /\ until >= Retained(k)
                     /\ entries'[k] = Pending(k, Stored(k), bill[k], p, until)
    <2>1. Exact(k)
      BY <1>5 DEF SInv, AccountInv, Live
    <2>2. \A o \in PaidBy(k) : o.at <= now
      BY <1>0 DEF Types, PaidBy
    <2>3. Retained(k) \in Nat
      BY <1>0, <1>5, AccountFacts
    <2>4. /\ k \in DOMAIN entries'
          /\ entries'[k] = Pending(k, Stored(k), bill[k], p, Retained(k))
      BY <1>1, <1>2, <1>3 DEF ReserveLocal
    <2> QED BY <2>1, <2>2, <2>3, <2>4
  <1>10. \E amount \in (Amount \cap Nat) \cup {0} : bill = BillOf(p.token, amount)
    BY <1>2, <1>6, <1>7
  <1>11. p.at <= now
    BY <1>0, <1>7
  <1>12. Pays(p, bill)
    BY <1>0, <1>4, <1>5, <1>7, <1>8, <1>9, <1>10, <1>11 DEF Pays
  <1> QED BY <1>1, <1>2, <1>3, <1>12

LEMMA ReserveLocalInv ==
    ASSUME SInv, NEW r \in Request, ReserveLocal(r)
    PROVE  SInv'
  <1>0. /\ Types /\ now \in Nat /\ req \in [Request -> RequestRecord]
        /\ store = "memory" /\ UNCHANGED <<store, now>>
        /\ req' = [req EXCEPT ![r] = Out("reserved")]
    BY DEF ReserveLocal, SInv, Types
  <1>1. PICK bill : bill = BillOf(req[r].token, req[r].amount)
    OBVIOUS
  <1>2. PICK p : p = PaymentOf(r, now)
    OBVIOUS
  <1>3. Pays(p, bill) /\ p.token = req[r].token /\ p.req = r
    BY <1>1, <1>2, LocalPays DEF PaymentOf
  <1>4. PICK keys : keys = Charges(p.token)
    OBVIOUS
  <1>5. PICK live : /\ live = {k \in DOMAIN entries : entries[k].until > now}
                    /\ entries' = [k \in live \cup keys |->
                                     IF k \in keys
                                     THEN Pending(k, Stored(k), bill[k], p, Retained(k))
                                     ELSE entries[k]]
    BY <1>1, <1>2, <1>3, <1>4 DEF ReserveLocal
  <1>6. DOMAIN entries' \subseteq Account
    BY <1>0, <1>3, <1>4, <1>5, ChargeFacts DEF Types, Pays
  <1>7. ASSUME NEW k \in Account \ keys
        PROVE  AccountInv(k)' /\ (k \in DOMAIN entries' => entries'[k] \in Entry)
    <2>0. AccountInv(k) /\ SamePaid(k) /\ ledger'[k] = ledger[k]
      BY <1>3, <1>4, PaysFacts DEF SInv
    <2>1. k \in DOMAIN entries' => k \in DOMAIN entries /\ k \in live /\ entries'[k] = entries[k]
      BY <1>5
    <2>2. CASE k \in live \/ k \notin DOMAIN entries
      <3>1. Stored(k)' = Stored(k)
        BY <1>5, <2>2 DEF Stored
      <3>2. SameAccount(k)
        BY <2>0, <3>1 DEF SameAccount
      <3>3. AccountInv(k)'
        BY <1>0, <2>0, <2>1, <3>2, SameAccountInv
      <3> QED BY <1>0, <2>1, <3>3 DEF Types
    <2>3. CASE k \notin live /\ k \in DOMAIN entries
      <3>1. entries[k].until \in Nat /\ entries[k].until <= now /\ entries[k].until >= Retained(k)
        BY <1>0, <1>5, <2>0, <2>3 DEF Types, Entry, AccountInv
      <3>2. ~ Live(k)'
        BY <1>0, <3>1, AccountFacts DEF Live
      <3>3. k \notin DOMAIN entries'
        BY <2>1, <2>3
      <3>4. Stored(k)'.stamps = {}
        BY <3>3 DEF Stored, NoEntry
      <3>5. ledger'[k].calls = Cardinality(PaidBy(k)') /\ Within(k)' /\ RateCap(k)'
        BY <2>0, SamePaidKeeps DEF AccountInv
      <3> QED BY <3>2, <3>3, <3>4, <3>5 DEF AccountInv, Stamped
    <2> QED BY <2>2, <2>3
  <1>8. PICK out \in RequestRecord : out = Out("reserved") /\ Settled(out)
    BY OutFacts DEF Paid
  <1>9. req' \in [Request -> RequestRecord] /\ \A q \in Request : req'[q] = IF q = r THEN out ELSE req[q]
    BY <1>0, <1>8
  <1>10. Types' /\ \A k \in Account : AccountInv(k)'
    BY <1>3, <1>4, <1>6, <1>7, <1>9, PaysInv
  <1>11. Moves(Account)
    BY <1>0 DEF Moves
  <1>12. ASSUME NEW q \in Request PROVE Sound(req[q])' /\ Tallied(q, req[q])'
    <2>1. PICK v \in RequestRecord : v = req'[q]
      BY <1>9
    <2>2. Sound(v)' /\ Tallied(q, v)'
      <3>1. CASE q = r
        BY <1>0, <1>8, <1>9, <2>1, <3>1, SettledSound
      <3>2. CASE q # r
        <4>1. v = req[q]
          BY <1>9, <2>1, <3>2
        <4>2. Sound(v) /\ Tallied(q, v)
          BY <4>1 DEF SInv
        <4>3. v.pc \notin InTransaction
          BY <1>0, <4>2 DEF Sound, Trying
        <4>4. v = Marked(v, Account)
          BY <4>3 DEF Marked
        <4>5. Sound(v)'
          BY <1>0, <1>11, <4>2, <4>4, MovesKeepsSound
        <4>6. /\ payments \subseteq payments' /\ now' >= now
              /\ \A o \in payments' \ payments : o.req # q
          BY <1>0, <1>3, <3>2 DEF Pays
        <4>7. Tallied(q, v)'
          <5>1. Elsewhere(q) /\ Struck(v, Account)
            BY <4>3, <4>6 DEF Elsewhere, Struck
          <5> QED BY <1>0, <1>10, <4>2, <4>4, <5>1, TallyKept
        <4> QED BY <4>5, <4>7
      <3> QED BY <3>1, <3>2
    <2>3. Sound(req[q])'
      BY <2>1, <2>2 DEF Sound, Decided
    <2>4. Tallied(q, req[q])'
      BY <2>1, <2>2 DEF Tallied, Lost, Made, Late, Rivals
    <2> QED BY <2>3, <2>4
  <1> QED BY <1>10, <1>12 DEF SInv

(* EXEC: what the undisturbed transaction saw is what is there.            *)
LEMMA ExecPays ==
    ASSUME SInv, NEW r \in Request, NEW after, ExecCommits(r, after)
    PROVE  Pays(PaymentOf(r, req[r].at), BillOf(req[r].token, req[r].amount))
  <1>0. /\ req[r] \in RequestRecord /\ Sound(req[r]) /\ req[r].pc = "committing" /\ now \in Nat
        /\ Types /\ req[r].dirty = FALSE /\ UNCHANGED <<store, now>> /\ Tallied(r, req[r])
    BY DEF ExecCommits, Undisturbed, SInv, Types, RequestRecord
  <1>1. PICK t : t = req[r].token
    OBVIOUS
  <1>2. PICK bill : bill = BillOf(t, req[r].amount)
    OBVIOUS
  <1>3. PICK at \in Nat : at = req[r].at
    BY <1>0 DEF RequestRecord
  <1>4. PICK p : p = PaymentOf(r, at)
    OBVIOUS
  <1>5. PICK keys : keys = Charges(t)
    OBVIOUS
  <1>6. /\ Known(t) /\ t \in Token /\ keys \subseteq Account /\ at <= now
        /\ req[r].amount \in (Amount \cap Nat) \cup {0}
    BY <1>0, <1>1, <1>3, <1>5, ChargeFacts DEF Sound, Trying, InTransaction, Known
  <1>7. p \in Payment /\ p.token = t /\ p.at = at /\ p.req = r /\ p.try = req[r].tries
    <2>1. p = [req |-> r, try |-> req[r].tries, token |-> t, at |-> at]
      BY <1>1, <1>4 DEF PaymentOf
    <2> QED BY <1>0, <1>6, <2>1 DEF Payment, RequestRecord
  <1>8. p \notin payments
    <2>1. \A o \in payments : o.req = r => o.try < req[r].tries
      BY <1>0 DEF Tallied, Trying, InTransaction
    <2>2. req[r].tries \in Nat
      BY <1>0, Numbers
    <2> QED BY <1>7, <2>1, <2>2
  <1>9. \A k : ~ InOrder(k, req[r].left)
    BY <1>0 DEF Sound, InOrder
  <1>10. ASSUME NEW k \in keys
         PROVE  req[r].seen[k] = Stored(k) /\ Decided(req[r], k)
    BY <1>0, <1>1, <1>5, <1>9, <1>10 DEF Sound, InTransaction
  <1>11. ASSUME NEW k \in keys
         PROVE  /\ k \in DOMAIN entries'
                /\ \E until \in Nat :
                      /\ until >= Retained(k)
                      /\ entries'[k] = Pending(k, Stored(k), bill[k], p, until)
    <2>1. /\ k \in DOMAIN entries'
          /\ entries'[k] = Pending(k, req[r].seen[k], bill[k], p, now + TTL(k, at))
      BY <1>1, <1>2, <1>3, <1>4, <1>5, <1>11 DEF ExecCommits
    <2>2. Retained(k) \in Int
      BY <1>6, <1>11, AccountFacts
    <2>3. now + TTL(k, at) \in Nat /\ now + TTL(k, at) >= Retained(k)
      BY <1>0, <1>6, <2>2 DEF TTL
    <2> QED BY <1>10, <1>11, <2>1, <2>3
  <1>12. ASSUME NEW k \in keys
         PROVE  /\ Exact(k) /\ \A o \in PaidBy(k) : o.at <= at
                /\ Fits(k, Stored(k), bill[k], at)
    BY <1>1, <1>2, <1>3, <1>10, <1>12 DEF Decided
  <1>13. ledger' = Ledger!Charged(bill) /\ payments' = payments \cup {p}
    BY <1>1, <1>2, <1>3, <1>4 DEF ExecCommits
  <1>14. \E amount \in (Amount \cap Nat) \cup {0} : bill = BillOf(p.token, amount)
    BY <1>2, <1>6, <1>7
  <1>15. Pays(p, bill)
    BY <1>0, <1>5, <1>6, <1>7, <1>8, <1>11, <1>12, <1>13, <1>14 DEF Pays
  <1> QED BY <1>1, <1>2, <1>3, <1>4, <1>15

(* A request that tries again although its charge stands.                  *)
LEMMA DroppedPaid ==
    ASSUME SInv, NEW r \in Request, req[r].pc \in InTransaction, NEW p, p.req = r,
           p.try = req[r].tries, payments' = payments \cup {p}, UNCHANGED <<store, now>>,
           NEW new, new = Dropped(r)
    PROVE  new \in RequestRecord /\ new.pc = "verified" /\ Sound(new)' /\ Tallied(r, new)'
  <1>0. /\ Types /\ now \in Nat /\ Sound(req[r]) /\ Tallied(r, req[r])
        /\ req[r] \in RequestRecord /\ req[r].pc \in Trying
    BY DEF SInv, Types, Trying
  <1>1. PICK q \in RequestRecord : q = req[r]
    BY <1>0
  <1>2. /\ q.tries \in Nat /\ q.drops \in Nat /\ q.tries <= MaxRetries /\ Made(r, q) \in Int
        /\ MaxRetries \in Nat
    BY <1>0, Numbers
  <1>3. /\ q.drops + 1 <= q.tries /\ q.tries <= q.drops + Made(r, q) + 1
        /\ \A o \in payments : o.req = r => o.try >= 1 /\ o.try < q.tries
    BY <1>0, <1>1 DEF Tallied
  <1>4. /\ new \in RequestRecord /\ new.pc = "verified" /\ new.token = q.token
        /\ new.amount = q.amount /\ new.at = 0 /\ DOMAIN new.seen = {} /\ new.dirty = FALSE
        /\ new.tries = q.tries /\ new.before = q.before /\ new.drops = q.drops + 1
    <2>1. req[r].drops + 1 <= MaxRetries
      BY <1>1, <1>2, <1>3
    <2> QED BY <1>0, <1>1, <2>1, DroppedFacts
  <1>5. /\ Known(q.token) /\ q.token \in Token /\ q.amount \in (Amount \cap Nat) \cup {0}
        /\ store # "memory"
    BY <1>0, <1>1 DEF Sound, Known
  <1>6. Sound(new)'
    BY <1>0, <1>4, <1>5 DEF Sound, InTransaction, Trying
  <1>7. Made(r, new)' = Made(r, q)
    <2>1. Rivals(r, q.token)' = Rivals(r, q.token)
      BY DEF Rivals
    <2> QED BY <1>4, <2>1 DEF Made
  <1>8. Lost(r, new, new.tries)'
    <2>1. q.tries <= (q.drops + 1) + Made(r, q) + (IF Late(new)' THEN 1 ELSE 0)
      BY <1>2, <1>3
    <2> QED BY <1>4, <1>7, <2>1 DEF Lost
  <1>9. \A o \in payments' : o.req = r => o.try >= 1 /\ o.try <= new.tries
    <2>1. \A o \in payments : o.try \in Nat
      BY <1>0 DEF Types, Payment
    <2> QED BY <1>1, <1>2, <1>3, <1>4, <2>1
  <1>10. new.drops <= new.tries
    BY <1>3, <1>4
  <1>11. Tallied(r, new)'
    BY <1>4, <1>8, <1>9, <1>10 DEF Tallied, Trying, InTransaction
  <1> QED BY <1>4, <1>6, <1>11

LEMMA ExecCommitsInv ==
    ASSUME SInv, NEW r \in Request, NEW after \in {Out("reserved"), Out("lost"), Dropped(r)},
           ExecCommits(r, after)
    PROVE  SInv'
  <1>0. /\ Types /\ now \in Nat /\ UNCHANGED <<store, now>>
        /\ req \in [Request -> RequestRecord] /\ req[r].pc \in InTransaction
    BY DEF ExecCommits, SInv, Types, InTransaction
  <1>1. PICK bill : bill = BillOf(req[r].token, req[r].amount)
    OBVIOUS
  <1>2. PICK p : p = PaymentOf(r, req[r].at)
    OBVIOUS
  <1>3. Pays(p, bill) /\ p.token = req[r].token /\ p.req = r /\ p.try = req[r].tries
    BY <1>1, <1>2, ExecPays DEF PaymentOf
  <1>4. PICK keys : keys = Charges(p.token) /\ keys \subseteq Account
    BY <1>3, ChargeFacts DEF Pays
  <1>5. /\ DOMAIN entries' = DOMAIN entries \cup keys
        /\ \A k \in DOMAIN entries \ keys : entries'[k] = entries[k]
        /\ req' = Touched([req EXCEPT ![r] = after], keys)
    BY <1>3, <1>4 DEF ExecCommits
  <1>6. ASSUME NEW k \in Account \ keys PROVE SameAccount(k)
    <2>1. Stored(k)' = Stored(k)
      BY <1>5 DEF Stored
    <2>2. SamePaid(k) /\ ledger'[k] = ledger[k]
      BY <1>3, <1>4, PaysFacts
    <2> QED BY <2>1, <2>2 DEF SameAccount
  <1>7. ASSUME NEW k \in Account \ keys
        PROVE  AccountInv(k)' /\ (k \in DOMAIN entries' => entries'[k] \in Entry)
    <2>1. k \in DOMAIN entries' => k \in DOMAIN entries /\ entries'[k] = entries[k]
      BY <1>5
    <2>2. AccountInv(k) /\ now' \in Nat /\ now' >= now
      BY <1>0 DEF SInv
    <2>3. AccountInv(k)'
      BY <1>0, <1>6, <2>1, <2>2, SameAccountInv
    <2> QED BY <1>0, <2>1, <2>3 DEF Types
  <1>8. /\ after \in RequestRecord /\ after.pc \notin InTransaction
        /\ Sound(after)' /\ Tallied(r, after)'
    <2>1. CASE after = Dropped(r)
      <3>1. payments' = payments \cup {p}
        BY <1>3 DEF Pays
      <3>2. after \in RequestRecord /\ after.pc = "verified" /\ Sound(after)' /\ Tallied(r, after)'
        BY <1>0, <1>3, <2>1, <3>1, DroppedPaid
      <3> QED BY <3>2 DEF InTransaction
    <2>2. CASE after \in {Out("reserved"), Out("lost")}
      <3>1. after \in RequestRecord /\ Settled(after)
        BY <2>2, OutFacts DEF Paid
      <3>2. Sound(after)' /\ Tallied(r, after)'
        BY <1>0, <3>1, SettledSound
      <3> QED BY <3>1, <3>2 DEF Settled, Paid, Ended, InTransaction
    <2> QED BY <2>1, <2>2
  <1>9. /\ req' = [q \in Request |-> Marked(IF q = r THEN after ELSE req[q], keys)]
        /\ \A q \in Request : req'[q] = Marked(IF q = r THEN after ELSE req[q], keys)
    <2> DEFINE requests == [req EXCEPT ![r] = after]
    <2>1. \A q \in Request : requests[q] = IF q = r THEN after ELSE req[q]
      BY <1>0
    <2>2. req' = [q \in Request |-> Marked(requests[q], keys)]
      BY <1>5, TouchedIsMarked
    <2> QED BY <2>1, <2>2
  <1>10. req' \in [Request -> RequestRecord]
    <2>1. ASSUME NEW q \in Request
          PROVE  Marked(IF q = r THEN after ELSE req[q], keys) \in RequestRecord
      <3>1. PICK v \in RequestRecord : v = IF q = r THEN after ELSE req[q]
        BY <1>0, <1>8
      <3>2. Marked(v, keys) \in RequestRecord
        BY MarkedFacts
      <3> QED BY <3>1, <3>2
    <2> QED BY <1>9, <2>1
  <1>11. DOMAIN entries' \subseteq Account
    BY <1>0, <1>4, <1>5 DEF Types
  <1>12. Types' /\ \A k \in Account : AccountInv(k)'
    BY <1>3, <1>4, <1>7, <1>10, <1>11, PaysInv
  <1>13. Moves(keys)
    BY <1>0, <1>6 DEF Moves
  <1>14. ASSUME NEW q \in Request PROVE Sound(req[q])' /\ Tallied(q, req[q])'
    <2>1. PICK new : new = req'[q]
      OBVIOUS
    <2>2. CASE q = r
      <3>1. new = after
        BY <1>8, <1>9, <2>1, <2>2 DEF Marked
      <3>2. Sound(new)' /\ Tallied(q, new)'
        BY <1>8, <2>2, <3>1
      <3>3. Sound(req[q])'
        BY <2>1, <3>2 DEF Sound, Decided
      <3>4. Tallied(q, req[q])'
        BY <2>1, <3>2 DEF Tallied, Lost, Made, Late, Rivals
      <3> QED BY <3>3, <3>4
    <2>3. CASE q # r
      <3>1. PICK v \in RequestRecord : v = req[q]
        BY <1>0
      <3>2. Sound(v) /\ Tallied(q, v) /\ new = Marked(v, keys)
        BY <1>9, <2>1, <2>3, <3>1 DEF SInv
      <3>3. Sound(new)'
        BY <1>0, <1>13, <3>2, MovesKeepsSound
      <3>4. /\ payments \subseteq payments' /\ now' >= now
            /\ \A o \in payments' \ payments : o.req # q
            /\ p \in payments' \ payments
        BY <1>0, <1>3, <2>3 DEF Pays
      <3>5. Charges(v.token) \cap keys # {} =>
               \E o \in payments' \ payments : Charges(o.token) \cap Charges(v.token) # {}
        BY <1>4, <3>4
      <3>6. Tallied(q, new)'
        <4>1. Elsewhere(q) /\ Struck(v, keys)
          BY <3>4, <3>5 DEF Elsewhere, Struck
        <4> QED BY <1>0, <1>12, <3>2, <4>1, TallyKept
      <3>7. Sound(req[q])'
        BY <2>1, <3>3 DEF Sound, Decided
      <3>8. Tallied(q, req[q])'
        BY <2>1, <3>6 DEF Tallied, Lost, Made, Late, Rivals
      <3> QED BY <3>7, <3>8
    <2> QED BY <2>2, <2>3
  <1> QED BY <1>12, <1>14 DEF SInv

-----------------------------------------------------------------------------
LEMMA SInit == Init => SInv
  <1> SUFFICES ASSUME Init PROVE SInv
    OBVIOUS
  <1>1. /\ store \in Stores /\ now = 0 /\ entries = [k \in {} |-> NoEntry]
        /\ req = [r \in Request |-> Idle]
        /\ ledger = [k \in Account |-> [calls |-> 0, usd |-> 0, minor |-> 0]]
        /\ payments = {}
    BY DEF Init, Ledger!Empty
  <1>2. DOMAIN entries = {} /\ \A r \in Request : req[r] = Idle
    BY <1>1
  <1>3. Types
    BY <1>1, <1>2, IdleFacts, FS_EmptySet DEF Types
  <1>4. \A k : PaidBy(k) = {}
    BY <1>1 DEF PaidBy
  <1>5. ASSUME NEW k \in Account PROVE AccountInv(k)
    <2>1. /\ Stored(k).calls = 0 /\ Stored(k).usd = 0 /\ Stored(k).minor = 0
          /\ Stored(k).stamps = {}
      BY <1>2 DEF Stored, NoEntry
    <2>2. ledger[k].calls = 0 /\ ledger[k].usd = 0 /\ ledger[k].minor = 0
      BY <1>1
    <2>3. Cardinality(PaidBy(k)) = 0
      BY <1>4, FS_EmptySet
    <2>4. Within(k)
      BY <2>2, AccountFacts DEF Within
    <2> QED BY <1>2, <1>4, <2>1, <2>2, <2>3, <2>4 DEF AccountInv, RateCap, Stamped, Exact
  <1>6. Sound(Idle)
    BY <1>1, IdleFacts DEF Sound, Trying, InTransaction
  <1>7. ASSUME NEW r \in Request PROVE Sound(req[r]) /\ Tallied(r, req[r])
    <2>1. Tallied(r, Idle)
      BY <1>1, IdleFacts DEF Tallied, Trying, InTransaction
    <2> QED BY <1>2, <1>6, <2>1
  <1> QED BY <1>3, <1>5, <1>7 DEF SInv

LEMMA SStutter == SInv /\ UNCHANGED vars => SInv'
  <1> SUFFICES ASSUME SInv, UNCHANGED vars PROVE SInv'
    OBVIOUS
  <1>1. UNCHANGED <<store, now, entries, req, ledger, payments>> /\ now \in Nat
    BY DEF vars, SInv, Types
  <1>2. ASSUME NEW k PROVE SameAccount(k)
    BY <1>1 DEF SameAccount, SamePaid, Stored, PaidBy
  <1>3. Types /\ Types'
    BY <1>1 DEF SInv, Types
  <1>4. ASSUME NEW k \in Account PROVE AccountInv(k)'
    BY <1>1, <1>2, SameAccountInv DEF SInv
  <1>5. Moves({})
    BY <1>1, <1>2 DEF Moves, SameAccount, SamePaid
  <1>6. ASSUME NEW q \in Request PROVE Sound(req[q])' /\ Tallied(q, req[q])'
    <2>1. PICK v : v = req[q]
      OBVIOUS
    <2>2. v \in RequestRecord /\ Sound(v) /\ v = Marked(v, {}) /\ Tallied(q, v)
      BY <2>1 DEF SInv, Types, Marked
    <2>3. Sound(v)'
      BY <1>3, <1>5, <2>2, MovesKeepsSound
    <2>4. Tallied(q, v)'
      BY <1>1, <2>2 DEF Tallied, Lost, Made, Late, Rivals
    <2>5. Sound(req[q])'
      BY <1>1, <2>1, <2>3 DEF Sound, Decided
    <2>6. Tallied(q, req[q])'
      BY <1>1, <2>1, <2>4 DEF Tallied, Lost, Made, Late, Rivals
    <2> QED BY <2>5, <2>6
  <1> QED BY <1>3, <1>4, <1>6 DEF SInv

LEMMA SStep == SInv /\ [Next]_vars => SInv'
  <1> SUFFICES ASSUME SInv, [Next]_vars PROVE SInv'
    OBVIOUS
  <1>1. ASSUME NEW r \in Request, NEW t \in Token, NEW amount \in Amount, Verify(r, t, amount)
        PROVE  SInv'
    BY <1>1, VerifyInv
  <1>2. ASSUME NEW r \in Request, ReserveLocal(r) PROVE SInv'
    BY <1>2, ReserveLocalInv
  <1>3. ASSUME NEW r \in Request, RefuseLocal(r) PROVE SInv'
    BY <1>3, RefuseLocalInv
  <1>4. ASSUME NEW r \in Request, Start(r) PROVE SInv'
    BY <1>4, StartInv
  <1>5. ASSUME NEW r \in Request, Watch(r) PROVE SInv'
    BY <1>5, WatchInv
  <1>6. ASSUME NEW r \in Request, ReadKey(r) PROVE SInv'
    BY <1>6, ReadKeyInv
  <1>7. ASSUME NEW r \in Request, ReadAll(r) PROVE SInv'
    BY <1>7, ReadAllInv
  <1>8. ASSUME NEW r \in Request, Decide(r) PROVE SInv'
    BY <1>8, DecideInv
  <1>9. ASSUME NEW r \in Request, Exec(r) \/ Cancelled(r) \/ ReplyLost(r) PROVE SInv'
    BY <1>9, ExecCommitsInv DEF Exec, Cancelled, ReplyLost
  <1>10. ASSUME NEW r \in Request, ExecAborts(r) PROVE SInv'
    BY <1>10, ExecAbortsInv
  <1>11. ASSUME NEW r \in Request, Fails(r) \/ Drops(r) PROVE SInv'
    BY <1>11, FailsInv, DropsInv
  <1>12. ASSUME NEW r \in Request, Execute(r) PROVE SInv'
    BY <1>12, ExecuteInv
  <1>13. CASE Tick
    BY <1>13, TickInv
  <1>14. CASE UNCHANGED vars
    BY <1>14, SStutter
  <1>15. CASE Terminated
    BY <1>14, <1>15 DEF Terminated
  <1> QED BY <1>1, <1>2, <1>3, <1>4, <1>5, <1>6, <1>7, <1>8, <1>9, <1>10, <1>11, <1>12, <1>13,
             <1>14, <1>15
          DEF Next

(* Every reachable state satisfies the inductive invariant, whichever of   *)
(* the three trackers a verifier is deployed with.                         *)
THEOREM BudgetInvariant == Spec => []SInv
  BY SInit, SStep, PTL DEF Spec

(* No budget is overspent nor over-called, and the limits that a token     *)
(* signs hold, by however many tokens, renewed or delegated, from however  *)
(* many issuers, in whatever order calls, retries and purges happen, and   *)
(* with every charge counted that a retry adds after a lost reply.         *)
THEOREM CapsHoldCorrect == Spec => []CapsHold
  BY BudgetInvariant, Consequences, PTL

(* The store is well formed, and an account's entry is exact for as long   *)
(* as the account can be charged.                                          *)
THEOREM EntriesExactCorrect == Spec => []EntriesExact
  BY BudgetInvariant, Consequences, PTL

(* max_retries is exhausted only when each of the attempts was lost to its *)
(* connection, to a charge of its own that another call made to a shared   *)
(* account since the first attempt began, or, once, to an account that is  *)
(* over.                                                                   *)
THEOREM ContentionIsProgressCorrect == Spec => []ContentionIsProgress
  BY BudgetInvariant, Consequences, PTL

(* Every charge, local or by EXEC, is a payment that each of its accounts  *)
(* had room for, made to all of them at once; no other step changes what   *)
(* was charged.                                                            *)
THEOREM Implementation == Spec => ImplementsLedger
  <1>1. Init => Ledger!Init
    BY DEF Init, Ledger!Init
  <1>2. ASSUME SInv, [Next]_vars
        PROVE  [Ledger!Next]_ledger
    <2>1. ASSUME NEW p, NEW bill, Pays(p, bill) PROVE Ledger!Next
      <3>1. PICK amount \in (Amount \cap Nat) \cup {0} : bill = BillOf(p.token, amount)
        BY <2>1 DEF Pays
      <3>2. bill \in Bills /\ DOMAIN bill = Charges(p.token)
        BY <2>1, <3>1 DEF Bills, Pays, Known, BillOf
      <3>3. ASSUME NEW k \in Charges(p.token) PROVE HasRoom(k, ledger[k], bill[k])
        <4>1. HasRoom(k, Stored(k), bill[k]) /\ Exact(k)
          BY <2>1, <3>3 DEF Pays, Fits
        <4> QED BY <4>1 DEF HasRoom, Exact
      <3>4. Ledger!Pay(bill)
        BY <2>1, <3>2, <3>3 DEF Ledger!Pay, Pays
      <3> QED BY <3>2, <3>4 DEF Ledger!Next
    <2>2. ASSUME NEW r \in Request, ReserveLocal(r) PROVE Ledger!Next
      BY <1>2, <2>1, <2>2, LocalPays
    <2>3. ASSUME NEW r \in Request, NEW after, ExecCommits(r, after) PROVE Ledger!Next
      BY <1>2, <2>1, <2>3, ExecPays
    <2>4. ASSUME NEW r \in Request, Exec(r) \/ Cancelled(r) \/ ReplyLost(r) PROVE Ledger!Next
      BY <2>3, <2>4 DEF Exec, Cancelled, ReplyLost
    <2>5. CASE UNCHANGED ledger
      BY <2>5
    <2> QED BY <1>2, <2>2, <2>4, <2>5
            DEF Next, vars, Verify, RefuseLocal, Start, Watch, ReadKey, ReadAll, Decide,
                ExecAborts, Drops, Fails, Execute, Tick, Terminated
  <1> QED BY <1>1, <1>2, BudgetInvariant, PTL DEF Spec, ImplementsLedger, Ledger!Spec
=============================================================================
