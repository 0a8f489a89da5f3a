----------------------------- MODULE SharedBudget -----------------------------
(***************************************************************************)
(* Shared budgets (swarmauth/budgets.py).  A token may name a budget and   *)
(* pin an amount in minor units of its currency; every token that names    *)
(* the budget, renewed or delegated, spends from the same allowance.  A    *)
(* reservation charges the token, its parent and the budget together.      *)
(* Budgets outlive tokens and expire on their own.                         *)
(*                                                                         *)
(* The tracker is BudgetUsageTracker, one step under its lock, or it is    *)
(* RedisBudgetUsageTracker: read the clock, WATCH, GET the entries one     *)
(* after the other, read the clock again, and EXEC a transaction that      *)
(* overwrites every entry by what was read plus this call.  At most        *)
(* MaxRetries attempts are made.  The Node SDK's RedisUsageTracker         *)
(* (js/src/redis.js) makes the same round trips, but reads its keys by one *)
(* MGET.                                                                   *)
(*                                                                         *)
(* A connection lost while keys are watched surfaces as a WatchError, and  *)
(* uses up an attempt: in redis-py at once and for the reply to EXEC too,  *)
(* so that a call may be charged again; in node-redis when EXEC is sent on *)
(* the new connection, while a lost reply ends the call.                   *)
(***************************************************************************)
EXTENDS Tokens, FiniteSets, Sequences

CONSTANTS
    Budget,             \* ids of the configured budgets
    Rules,              \* their BudgetRules
    Pins,               \* per token: issuer, shared_budget, currency, amount
    RequireBudget,      \* require_budget
    Request, Amount, RateWindow,
    Stores,             \* the trackers a verifier may be deployed with
    MaxRetries,         \* max_retries
    MaxTime             \* bound on the clock, in ticks

(* What BudgetRule.__post_init__ checks.                                   *)
BudgetRule(rule) ==
    /\ rule.issuers # {}
    /\ rule.max_amount_minor \in Nat
    /\ rule.expires_at \in Nat \ {0}
    /\ rule.max_calls \in Limit \ {0}

ASSUME BudgetAssumption ==
    /\ IsFiniteSet(Request)
    /\ Budget \cap (Token \cup {None}) = {}
    /\ DOMAIN Rules = Budget
    /\ \A b \in Budget : BudgetRule(Rules[b])
    /\ DOMAIN Pins = Token
    /\ \A t \in Token : Pins[t].amount_minor \in Nat
    (* A child keeps what its parent pins (_assert_constraints_not_wider). *)
    /\ \A t \in Token : Claims[t].prf # None =>
          LET p == Pins[Claims[t].prf] IN p.shared_budget # None =>
             /\ Pins[t].shared_budget = p.shared_budget
             /\ Pins[t].currency = p.currency
             /\ Pins[t].amount_minor = p.amount_minor
    /\ RequireBudget \in BOOLEAN
    /\ Amount \subseteq Int \cup {None}
    /\ RateWindow \in Nat
    /\ Stores \subseteq {"memory", "redis", "node"}
    /\ MaxRetries \in Nat \ {0}
    /\ MaxTime \in Nat

Account == Token \cup Budget

VARIABLES
    store,              \* the tracker in use, chosen once
    now,                \* the wall clock, in ticks
    entries,            \* _entries, or the keys in Redis: account -> entry
    req,                \* the state of every request
    ledger,             \* history: what was charged to every account
    payments            \* history: the charges that were made

vars == <<store, now, entries, req, ledger, payments>>

(* The charge of an attempt of a request.                                  *)
Payment == [req : Request, try : 0 .. MaxRetries, token : Token, at : Nat]

Entry == [calls : Nat, usd : Nat, minor : Nat, stamps : SUBSET Payment, until : Nat]

NoEntry == [calls |-> 0, usd |-> 0, minor |-> 0, stamps |-> {}, until |-> 0]

(* tries counts the attempts and drops those that lost their connection;   *)
(* before is a history: the charges of rivals when the first one began.    *)
Idle == [pc |-> "idle", token |-> None, amount |-> 0, at |-> 0, left |-> << >>,
         seen |-> [k \in {} |-> NoEntry], tries |-> 0, drops |-> 0, before |-> 0,
         dirty |-> FALSE]

InTransaction == {"reading", "committing"}

(* reserved and executed calls were charged; lost ones too, but their      *)
(* caller never learnt it.                                                 *)
Paid == {"reserved", "executed", "lost"}

Ended == {"denied", "refused", "contended", "failed"}

TypeOK ==
    /\ store \in Stores
    /\ now \in Nat
    /\ DOMAIN entries \subseteq Account
    /\ \A k \in DOMAIN entries : entries[k] \in Entry
    /\ DOMAIN req = Request
    /\ \A r \in Request :
          /\ req[r].pc \in {"idle", "verified", "started"} \cup InTransaction \cup Paid \cup Ended
          /\ req[r].token \in Token \cup {None}
          /\ req[r].amount \in Nat
          /\ req[r].at \in Nat
          /\ req[r].left \in Seq(Account)
          /\ DOMAIN req[r].seen \subseteq Account
          /\ \A k \in DOMAIN req[r].seen : req[r].seen[k] \in Entry
          /\ req[r].tries \in 0 .. MaxRetries
          /\ req[r].drops \in 0 .. MaxRetries
          /\ req[r].before \in Nat
          /\ req[r].dirty \in BOOLEAN
    /\ ledger \in [Account -> [calls : Nat, usd : Nat, minor : Nat]]
    /\ payments \subseteq Payment

-----------------------------------------------------------------------------
Names(t) == Pins[t].shared_budget # None

(* The issuer that answers for a token: its parent's when it is delegated. *)
RootIssuer(t) == Pins[IF Claims[t].prf = None THEN t ELSE Claims[t].prf].iss

(* The accounts a call is charged to, in the order they are read: parent,  *)
(* child, budget.                                                          *)
ChargeOrder(t) ==
    (IF Claims[t].prf = None THEN <<t>> ELSE <<Claims[t].prf, t>>)
      \o (IF Names(t) THEN <<Pins[t].shared_budget>> ELSE << >>)

Charges(t) == Chain(t) \cup (IF Names(t) THEN {Pins[t].shared_budget} ELSE {})

(* The tick at which an account may be forgotten.                          *)
Retained(k) ==
    IF k \in Budget THEN Rules[k].expires_at * TicksPerSecond
    ELSE RetainedUntil(Claims[k].exp)

(* _records: everything that is checked before any counter is looked at.   *)
Chargeable(t, at) ==
    /\ \A c \in Chain(t) : at < RetainedUntil(Claims[c].exp)
    /\ \/ ~ Names(t) /\ ~ RequireBudget
       \/ /\ Pins[t].shared_budget \in Budget
          /\ LET rule == Rules[Pins[t].shared_budget]
             IN  /\ RootIssuer(t) \in rule.issuers
                 /\ at < rule.expires_at * TicksPerSecond
                 /\ Pins[t].currency = rule.currency

(* What a call costs each of its accounts.                                 *)
BillOf(t, amount) ==
    [k \in Charges(t) |->
        [usd |-> amount, minor |-> IF k \in Budget THEN Pins[t].amount_minor ELSE 0]]

(* The limits that do not depend on time.                                  *)
HasRoom(k, total, charge) ==
    IF k \in Budget
    THEN /\ Rules[k].max_calls # None => total.calls + 1 <= Rules[k].max_calls
         /\ total.minor + charge.minor <= Rules[k].max_amount_minor
    ELSE /\ Claims[k].max_calls # None => total.calls + 1 <= Claims[k].max_calls
         /\ Claims[k].max_amount_usd # None =>
               total.usd + charge.usd <= Claims[k].max_amount_usd

RateOf(k) == IF k \in Budget THEN None ELSE Claims[k].rate_limit_per_min

Recent(entry, at) == {p \in entry.stamps : p.at >= at - RateWindow * TicksPerSecond}

(* _pending, when it does not raise, and when it does.                     *)
Fits(k, entry, charge, at) ==
    /\ HasRoom(k, entry, charge)
    /\ RateOf(k) # None => Cardinality(Recent(entry, at)) + 1 <= RateOf(k)

Pending(k, entry, charge, payment, until) ==
    [calls  |-> entry.calls + 1,
     usd    |-> entry.usd + charge.usd,
     minor  |-> entry.minor + charge.minor,
     stamps |-> IF RateOf(k) = None THEN {} ELSE Recent(entry, payment.at) \cup {payment},
     until  |-> until]

Stored(k) == IF k \in DOMAIN entries THEN entries[k] ELSE NoEntry

Bills == {BillOf(t, a) : t \in Token, a \in (Amount \cap Nat) \cup {0}}

Ledger == INSTANCE BudgetLedger WITH Bill <- Bills

(* Mutant: the budget's key is not watched.                                *)
TouchedTokensOnly(requests, keys) ==
    [q \in Request |->
        IF requests[q].pc \in InTransaction /\ Chain(requests[q].token) \cap keys # {}
        THEN [requests[q] EXCEPT !.dirty = TRUE]
        ELSE requests[q]]

(* Redis marks the transactions that watch one of the touched keys.        *)
Touched(requests, keys) ==
    [q \in Request |->
        IF requests[q].pc \in InTransaction /\ Charges(requests[q].token) \cap keys # {}
        THEN [requests[q] EXCEPT !.dirty = TRUE]
        ELSE requests[q]]

PaymentOf(r, at) ==
    [req |-> r, try |-> req[r].tries, token |-> req[r].token, at |-> at]

(* The charges of other requests to the accounts of token t.               *)
Rivals(r, t) == {p \in payments : p.req # r /\ Charges(p.token) \cap Charges(t) # {}}

(* Mutant: the transaction that failed is not given up.                    *)
AgainStillWatching(r) ==
    [req[r] EXCEPT !.pc = "verified", !.at = 0, !.left = << >>, !.seen = Idle.seen]

(* except WatchError: what the attempt of request r learnt is forgotten.   *)
Again(r) ==
    [req[r] EXCEPT !.pc = "verified", !.at = 0, !.left = << >>, !.seen = Idle.seen,
                   !.dirty = FALSE]

Dropped(r) == [Again(r) EXCEPT !.drops = @ + 1]

Out(pc) == [Idle EXCEPT !.pc = pc]

-----------------------------------------------------------------------------
Init ==
    /\ store \in Stores
    /\ now = 0
    /\ entries = [k \in {} |-> NoEntry]
    /\ req = [r \in Request |-> Idle]
    /\ ledger = Ledger!Empty
    /\ payments = {}

Verify(r, t, amount) ==
    /\ req[r].pc = "idle"
    /\ req' = [req EXCEPT ![r] =
                 IF VerifiedAt(t, now) /\ ValidAmount(t, amount)
                 THEN [Idle EXCEPT !.pc = "verified", !.token = t,
                                   !.amount = ResolvedAmount(amount)]
                 ELSE [Idle EXCEPT !.pc = "denied"]]
    /\ UNCHANGED <<store, now, entries, ledger, payments>>

(* BudgetUsageTracker.check_and_record_chain.                              *)
ReserveLocal(r) ==
    LET t    == req[r].token
        bill == BillOf(t, req[r].amount)
        live == {k \in DOMAIN entries : entries[k].until > now}
    IN  /\ store = "memory"
        /\ req[r].pc = "verified"
        /\ Chargeable(t, now)
        /\ \A k \in Charges(t) : Fits(k, Stored(k), bill[k], now)
        /\ entries' = [k \in live \cup Charges(t) |->
                         IF k \in Charges(t)
                         THEN Pending(k, Stored(k), bill[k], PaymentOf(r, now), Retained(k))
                         ELSE entries[k]]
        /\ req' = [req EXCEPT ![r] = Out("reserved")]
        /\ ledger' = Ledger!Charged(bill)
        /\ payments' = payments \cup {PaymentOf(r, now)}
        /\ UNCHANGED <<store, now>>

RefuseLocal(r) ==
    LET t    == req[r].token
        bill == BillOf(t, req[r].amount)
    IN  /\ store = "memory"
        /\ req[r].pc = "verified"
        /\ ~ (Chargeable(t, now) /\ \A k \in Charges(t) : Fits(k, Stored(k), bill[k], now))
        /\ req' = [req EXCEPT ![r] = Out("refused")]
        /\ UNCHANGED <<store, now, entries, ledger, payments>>

Tried(r) == req[r].tries = MaxRetries

(* RedisBudgetUsageTracker.check_and_record_chain: the next attempt.       *)
Start(r) ==
    /\ store # "memory"
    /\ req[r].pc = "verified"
    /\ req' = [req EXCEPT ![r] =
                 IF Tried(r) THEN [req[r] EXCEPT !.pc = "contended"]
                 ELSE IF ~ Chargeable(req[r].token, now) THEN Out("refused")
                 ELSE [req[r] EXCEPT
                         !.pc = "started", !.tries = @ + 1,
                         !.before = IF req[r].tries = 0
                                    THEN Cardinality(Rivals(r, req[r].token)) ELSE @]]
    /\ UNCHANGED <<store, now, entries, ledger, payments>>

Watch(r) ==
    /\ req[r].pc = "started"
    /\ req' = [req EXCEPT ![r].pc = "reading", ![r].left = ChargeOrder(req[r].token)]
    /\ UNCHANGED <<store, now, entries, ledger, payments>>

ReadKey(r) ==
    LET k == Head(req[r].left) IN
    /\ store = "redis"
    /\ req[r].pc = "reading"
    /\ req[r].left # << >>
    /\ req' = [req EXCEPT
                 ![r].left = Tail(@),
                 ![r].seen = [j \in DOMAIN @ \cup {k} |-> IF j = k THEN Stored(k) ELSE @[j]]]
    /\ UNCHANGED <<store, now, entries, ledger, payments>>

(* The Node tracker reads all its keys by one MGET.                        *)
ReadAll(r) ==
    /\ store = "node"
    /\ req[r].pc = "reading"
    /\ req[r].left # << >>
    /\ req' = [req EXCEPT ![r].left = << >>,
                          ![r].seen = [k \in Charges(req[r].token) |-> Stored(k)]]
    /\ UNCHANGED <<store, now, entries, ledger, payments>>

(* "Recheck expiry after network reads and before committing."             *)
Decide(r) ==
    LET t    == req[r].token
        bill == BillOf(t, req[r].amount)
    IN  /\ req[r].pc = "reading"
        /\ req[r].left = << >>
        /\ req' = [req EXCEPT ![r] =
                     IF /\ Chargeable(t, now)
                        /\ \A k \in Charges(t) : Fits(k, req[r].seen[k], bill[k], now)
                     THEN [req[r] EXCEPT !.pc = "committing", !.at = now]
                     ELSE Out("refused")]
        /\ UNCHANGED <<store, now, entries, ledger, payments>>

(* Mutant: the time left is rounded down.                                  *)
TTLShort(k, at) == IF Retained(k) - at > 2 THEN Retained(k) - at - 1 ELSE 1

(* The px argument, counted from EXEC.                                     *)
TTL(k, at) == IF Retained(k) - at > 1 THEN Retained(k) - at ELSE 1

(* Mutant: the transaction is not conditional on the watched keys.         *)
UndisturbedUnwatched(r) == TRUE

Undisturbed(r) == ~ req[r].dirty

(* The transaction is carried out; the request is left in the state after. *)
ExecCommits(r, after) ==
    LET keys    == Charges(req[r].token)
        bill    == BillOf(req[r].token, req[r].amount)
        payment == PaymentOf(r, req[r].at)
    IN  /\ req[r].pc = "committing"
        /\ Undisturbed(r)
        /\ entries' = [k \in DOMAIN entries \cup keys |->
                         IF k \in keys
                         THEN Pending(k, req[r].seen[k], bill[k], payment,
                                      now + TTL(k, req[r].at))
                         ELSE entries[k]]
        /\ req' = Touched([req EXCEPT ![r] = after], keys)
        /\ ledger' = Ledger!Charged(bill)
        /\ payments' = payments \cup {payment}
        /\ UNCHANGED <<store, now>>

Exec(r) == ExecCommits(r, Out("reserved"))

(* The caller that awaits AsyncUsageTracker is cancelled while the thread  *)
(* it started commits, the worker dies, or the Node client does not get    *)
(* the reply: the charge stands.                                           *)
Cancelled(r) == ExecCommits(r, Out("lost"))

(* redis-py does not get the reply: the charge stands, and the call is     *)
(* tried again.                                                            *)
ReplyLost(r) == store = "redis" /\ ExecCommits(r, Dropped(r))

ExecAborts(r) ==
    /\ req[r].pc = "committing"
    /\ ~ Undisturbed(r)
    /\ req' = [req EXCEPT ![r] = Again(r)]
    /\ UNCHANGED <<store, now, entries, ledger, payments>>

(* The connection is lost while the keys are watched and before EXEC runs: *)
(* redis-py raises WatchError at once, node-redis when EXEC is sent.       *)
Drops(r) ==
    /\ req[r].pc = "committing" \/ (req[r].pc = "reading" /\ store = "redis")
    /\ req' = [req EXCEPT ![r] = Dropped(r)]
    /\ UNCHANGED <<store, now, entries, ledger, payments>>

(* The worker dies, there is no connection to send WATCH on, or the Node   *)
(* client does not get the reply to MGET: the call ends.                   *)
Fails(r) ==
    /\ req[r].pc \in {"started"} \cup InTransaction
    /\ req' = [req EXCEPT ![r] = Out("failed")]
    /\ UNCHANGED <<store, now, entries, ledger, payments>>

Execute(r) ==
    /\ req[r].pc = "reserved"
    /\ req' = [req EXCEPT ![r].pc = "executed"]
    /\ UNCHANGED <<store, now, entries, ledger, payments>>

(* Time passes; Redis drops the keys that are due.                         *)
Tick ==
    LET gone == IF store # "memory" THEN {k \in DOMAIN entries : entries[k].until <= now + 1} ELSE {}
    IN  /\ now < MaxTime
        /\ now' = now + 1
        /\ entries' = [k \in DOMAIN entries \ gone |-> entries[k]]
        /\ req' = Touched(req, gone)
        /\ UNCHANGED <<store, ledger, payments>>

Terminated ==
    /\ now = MaxTime
    /\ \A r \in Request : req[r].pc \in Ended \cup {"executed", "lost"}
    /\ UNCHANGED vars

Next ==
    \/ \E r \in Request, t \in Token, amount \in Amount : Verify(r, t, amount)
    \/ \E r \in Request :
          \/ ReserveLocal(r) \/ RefuseLocal(r)
          \/ Start(r) \/ Watch(r) \/ ReadKey(r) \/ ReadAll(r) \/ Decide(r)
          \/ Exec(r) \/ Cancelled(r) \/ ReplyLost(r) \/ ExecAborts(r)
          \/ Drops(r) \/ Fails(r) \/ Execute(r)
    \/ Tick
    \/ Terminated

Spec == Init /\ [][Next]_vars

-----------------------------------------------------------------------------
(* The charges to an account.                                              *)
PaidBy(k) == {p \in payments : k \in Charges(p.token)}

(* A budget is never overspent nor over-called, by however many tokens,    *)
(* renewed or delegated, from however many issuers, in whatever order      *)
(* their calls and the tracker's purges happen, each charge counted that a *)
(* retry makes after a lost reply; and the limits that a token signs hold  *)
(* under the same transactions.                                            *)
CapsHold ==
    /\ \A b \in Budget :
          /\ ledger[b].minor <= Rules[b].max_amount_minor
          /\ Rules[b].max_calls # None => Cardinality(PaidBy(b)) <= Rules[b].max_calls
    /\ \A t \in Token :
          /\ Claims[t].max_calls # None => Cardinality(PaidBy(t)) <= Claims[t].max_calls
          /\ Claims[t].max_amount_usd # None => ledger[t].usd <= Claims[t].max_amount_usd
          /\ Claims[t].rate_limit_per_min # None =>
                \A p \in PaidBy(t) :
                    Cardinality({q \in PaidBy(t) :
                       q.at \in p.at - RateWindow * TicksPerSecond .. p.at})
                      <= Claims[t].rate_limit_per_min

(* The store is well formed, and as long as an account can be charged its  *)
(* entry is exact: transactions that overwrite entries lose no update, and *)
(* nothing is dropped early.                                               *)
EntriesExact ==
    /\ TypeOK
    /\ \A k \in Account : now < Retained(k) =>
          /\ Stored(k).calls = ledger[k].calls
          /\ Stored(k).usd = ledger[k].usd
          /\ Stored(k).minor = ledger[k].minor

(* The retry limit is reached only when every attempt was lost to its      *)
(* connection, to a charge of its own that another request made to a       *)
(* shared account since the first attempt began, or, once, to an account   *)
(* that is over.                                                           *)
ContentionIsProgress ==
    \A r \in Request : req[r].pc = "contended" =>
        LET made == Cardinality(Rivals(r, req[r].token)) - req[r].before
            over == \E k \in Charges(req[r].token) : now >= Retained(k)
        IN  MaxRetries <= req[r].drops + made + (IF over THEN 1 ELSE 0)

(* The trackers implement the ledger that forgets nothing.                 *)
ImplementsLedger == Ledger!Spec
=============================================================================
