----------------------------- MODULE UsageTracker -----------------------------
(***************************************************************************)
(* The in-memory usage tracker (swarmauth/middleware.py, UsageTracker) and *)
(* the guarded calls that use it.  Requests run concurrently, one per      *)
(* thread: each verifies a token at one reading of the clock, reserves its *)
(* allowance at a later one, under the tracker's lock, and executes the    *)
(* tool later still.  Between any two of these steps the clock advances,   *)
(* other requests reserve, and records that have outlived their token are  *)
(* purged.                                                                 *)
(*                                                                         *)
(* A request is one call of a guarded tool; the number of requests bounds  *)
(* the number of calls.  The variable ledger is a history variable: it     *)
(* never influences a step and says what has really been granted, which    *)
(* the tracker itself forgets when it purges.                              *)
(***************************************************************************)
EXTENDS Tokens, FiniteSets

CONSTANTS
    Request,            \* the calls that are ever made
    Amount,             \* amounts a caller may pass; None for no amount
    RateWindow,         \* the 60 seconds of rate_limit_per_min
    MaxTime             \* bound on the clock, in ticks

ASSUME TrackerAssumption ==
    /\ IsFiniteSet(Request)
    /\ Amount \subseteq Int \cup {None}
    /\ RateWindow \in Nat
    /\ MaxTime \in Nat

VARIABLES
    now,                \* the wall clock, in ticks
    usage,              \* UsageTracker._usage: jti -> _TokenUsage
    req,                \* the state of every request
    ledger              \* history: what was granted against every jti

vars == <<now, usage, req, ledger>>

Idle == [pc |-> "idle", token |-> None, amount |-> 0, at |-> 0]

Denied == [Idle EXCEPT !.pc = "denied"]

RequestType ==
    [pc : {"idle", "verified", "reserved", "executed", "aborted", "denied"},
     token : Token \cup {None}, amount : (Amount \cap Nat) \cup {0}, at : Nat]

(* A record of the tracker.  The list of call times is a set of pairs      *)
(* <<r, t>>: request r reserved at tick t (two entries of the list may     *)
(* show the same time; two members of a set must differ).                  *)
TokenUsage == [call_count : Nat, spent_amount : Nat,
               call_timestamps : SUBSET (Request \X Nat), expires_at : Int]

NoUsage == [call_count |-> 0, spent_amount |-> 0,
            call_timestamps |-> {}, expires_at |-> 0]

TypeOK ==
    /\ now \in Nat
    /\ DOMAIN usage \subseteq Token
    /\ \A t \in DOMAIN usage : usage[t] \in TokenUsage
    /\ req \in [Request -> RequestType]
    /\ \A r \in Request : req[r].pc \notin {"idle", "denied"} => req[r].token \in Token
    /\ ledger \in [Token -> [calls : Nat, spent : Nat]]

-----------------------------------------------------------------------------
Ledger == INSTANCE UsageLedger WITH Amount <- Amount \cup {0}

(* self._usage.get(jti, _TokenUsage())                                     *)
UsageOf(records, t) == IF t \in DOMAIN records THEN records[t] ELSE NoUsage

(* Mutant: nothing is ever deleted.                                        *)
PurgedNothing(records) == records

(* The records left once those that expired by now are deleted.            *)
Purged(records) ==
    [t \in {t \in DOMAIN records : records[t].expires_at > now} |-> records[t]]

(* Mutant: the window leaves out its first instant.                        *)
RecentOpen(u) ==
    {s \in u.call_timestamps : s[2] > now - RateWindow * TicksPerSecond}

Recent(u) ==
    {s \in u.call_timestamps : s[2] >= now - RateWindow * TicksPerSecond}

(* Mutant: the amount of the call at hand is not added before comparing.   *)
AllowsBeforeSpending(records, t, amount) ==
    LET u == UsageOf(records, t)
        c == Claims[t]
    IN  /\ c.max_calls # None => u.call_count + 1 <= c.max_calls
        /\ c.max_amount_usd # None => u.spent_amount <= c.max_amount_usd
        /\ c.rate_limit_per_min # None =>
              Cardinality(Recent(u)) + 1 <= c.rate_limit_per_min

(* The three limits, checked against the record the tracker holds.         *)
Allows(records, t, amount) ==
    LET u == UsageOf(records, t)
        c == Claims[t]
    IN  /\ c.max_calls # None => u.call_count + 1 <= c.max_calls
        /\ c.max_amount_usd # None => u.spent_amount + amount <= c.max_amount_usd
        /\ c.rate_limit_per_min # None =>
              Cardinality(Recent(u)) + 1 <= c.rate_limit_per_min

(* Mutant: a record is kept only until the token's signed expiry.          *)
CountedUntilExpiry(u, t, amount, r) ==
    [call_count      |-> u.call_count + 1,
     spent_amount    |-> u.spent_amount + amount,
     call_timestamps |-> Recent(u) \cup {<<r, now>>},
     expires_at      |-> Claims[t].exp * TicksPerSecond]

(* The record once the call is counted.                                    *)
Counted(u, t, amount, r) ==
    [call_count      |-> u.call_count + 1,
     spent_amount    |-> u.spent_amount + amount,
     call_timestamps |-> Recent(u) \cup {<<r, now>>},
     expires_at      |-> IF u.expires_at > RetainedUntil(Claims[t].exp)
                         THEN u.expires_at ELSE RetainedUntil(Claims[t].exp)]

(* Mutant: a delegated call is recorded for the child alone.               *)
RecordedChildOnly(records, chain, amount, r) ==
    LET child == {t \in chain : chain = {t} \/ Claims[t].prf # None}
    IN  [t \in DOMAIN records \cup child |->
            IF t \in child THEN Counted(UsageOf(records, t), t, amount, r)
                           ELSE records[t]]

(* All the records of a chain, updated together.                           *)
Recorded(records, chain, amount, r) ==
    [t \in DOMAIN records \cup chain |->
        IF t \in chain THEN Counted(UsageOf(records, t), t, amount, r)
                       ELSE records[t]]

(* Mutant: the expiry is not checked again under the lock.                 *)
LateForNever(chain) == FALSE

(* Reservation refuses a token that expired after it was verified.         *)
LateFor(chain) == \E t \in chain : now >= RetainedUntil(Claims[t].exp)

-----------------------------------------------------------------------------
Init ==
    /\ now = 0
    /\ usage = [t \in {} |-> NoUsage]
    /\ req = [r \in Request |-> Idle]
    /\ ledger = Ledger!Empty

Verify(r, t, amount) ==
    /\ req[r].pc = "idle"
    /\ VerifiedAt(t, now)
    /\ ValidAmount(t, amount)
    /\ req' = [req EXCEPT ![r] = [pc |-> "verified", token |-> t,
                                  amount |-> ResolvedAmount(amount), at |-> 0]]
    /\ UNCHANGED <<now, usage, ledger>>

VerifyDenied(r, t, amount) ==
    /\ req[r].pc = "idle"
    /\ ~ (VerifiedAt(t, now) /\ ValidAmount(t, amount))
    /\ req' = [req EXCEPT ![r] = Denied]
    /\ UNCHANGED <<now, usage, ledger>>

(* check_and_record_chain, as one step: the lock is held from the reading  *)
(* of the clock to the last assignment.                                    *)
ReserveLate(r) ==
    /\ req[r].pc = "verified"
    /\ LateFor(RecordedChain(req[r].token))
    /\ req' = [req EXCEPT ![r] = Denied]
    /\ UNCHANGED <<now, usage, ledger>>

ReserveRefused(r) ==
    LET chain == RecordedChain(req[r].token) IN
    /\ req[r].pc = "verified"
    /\ ~ LateFor(chain)
    /\ \E t \in chain : ~ Allows(Purged(usage), t, req[r].amount)
    /\ usage' = Purged(usage)
    /\ req' = [req EXCEPT ![r] = Denied]
    /\ UNCHANGED <<now, ledger>>

ReserveGranted(r) ==
    LET chain == RecordedChain(req[r].token) IN
    /\ req[r].pc = "verified"
    /\ ~ LateFor(chain)
    /\ \A t \in chain : Allows(Purged(usage), t, req[r].amount)
    /\ usage' = Recorded(Purged(usage), chain, req[r].amount, r)
    /\ req' = [req EXCEPT ![r].pc = "reserved", ![r].at = now]
    /\ ledger' = Ledger!Charge(chain, req[r].amount)
    /\ UNCHANGED now

(* The "allowed" event is delivered before the tool runs; a callback that  *)
(* raises stops the call, and the allowance stays consumed.                *)
DecisionFails(r) ==
    /\ req[r].pc = "reserved"
    /\ req' = [req EXCEPT ![r].pc = "aborted"]
    /\ UNCHANGED <<now, usage, ledger>>

Execute(r) ==
    /\ req[r].pc = "reserved"
    /\ req' = [req EXCEPT ![r].pc = "executed"]
    /\ UNCHANGED <<now, usage, ledger>>

Tick ==
    /\ now < MaxTime
    /\ now' = now + 1
    /\ UNCHANGED <<usage, req, ledger>>

Terminated ==
    /\ now = MaxTime
    /\ \A r \in Request : req[r].pc \in {"executed", "aborted", "denied"}
    /\ UNCHANGED vars

Next ==
    \/ \E r \in Request, t \in Token, amount \in Amount :
          Verify(r, t, amount) \/ VerifyDenied(r, t, amount)
    \/ \E r \in Request :
          \/ ReserveLate(r) \/ ReserveRefused(r) \/ ReserveGranted(r)
          \/ DecisionFails(r) \/ Execute(r)
    \/ Tick
    \/ Terminated

Spec == Init /\ [][Next]_vars

-----------------------------------------------------------------------------
(* The requests that were granted an allowance counted against jti t.      *)
Granted(t) ==
    {r \in Request : /\ req[r].pc \in {"reserved", "executed", "aborted"}
                     /\ t \in RecordedChain(req[r].token)}

(* The requests among them that reserved in the window ending at tick w.   *)
GrantedInWindow(t, w) ==
    {q \in Granted(t) : /\ req[q].at <= w
                        /\ req[q].at >= w - RateWindow * TicksPerSecond}

(* max_calls: a jti is never granted more calls than its token allows, over *)
(* the whole life of the system, although the tracker forgets its record   *)
(* after the token dies; for a delegated parent the calls are those of all *)
(* the children together (UsageTracker.check_and_record_chain).            *)
CallCap ==
    \A t \in Token : Claims[t].max_calls # None =>
        Cardinality(Granted(t)) <= Claims[t].max_calls

(* max_amount_usd: the amounts granted against a jti never exceed what the *)
(* token allows, over the whole life of the system and over all children.  *)
AmountCap ==
    \A t \in Token : Claims[t].max_amount_usd # None =>
        ledger[t].spent <= Claims[t].max_amount_usd

(* rate_limit_per_min: no window of RateWindow seconds that ends at a      *)
(* granted call contains more calls than the token allows, purges and      *)
(* dropped timestamps notwithstanding.                                     *)
RateCap ==
    \A t \in Token : Claims[t].rate_limit_per_min # None =>
        \A r \in Granted(t) :
            Cardinality(GrantedInWindow(t, req[r].at)) <= Claims[t].rate_limit_per_min

-----------------------------------------------------------------------------
(* The inductive invariant behind the caps.                                *)

(* A record the tracker still holds is exact, timestamps included.         *)
RecordsExact ==
    \A t \in DOMAIN usage :
        /\ usage[t].call_count = ledger[t].calls
        /\ usage[t].spent_amount = ledger[t].spent
        /\ usage[t].expires_at = RetainedUntil(Claims[t].exp)
        /\ \A s \in usage[t].call_timestamps :
              s[1] \in Granted(t) /\ s[2] = req[s[1]].at
        /\ \A r \in Granted(t) :
              req[r].at >= now - RateWindow * TicksPerSecond =>
                  <<r, req[r].at>> \in usage[t].call_timestamps

(* A record the tracker does not hold is one that was never needed, or one *)
(* no reservation can ask for again.                                       *)
OnlyTheDeadForgotten ==
    \A t \in Token \ DOMAIN usage :
        \/ Granted(t) = {} /\ ledger[t] = [calls |-> 0, spent |-> 0]
        \/ now >= RetainedUntil(Claims[t].exp)

(* The history agrees with the requests.                                   *)
LedgerExact ==
    /\ \A t \in Token : ledger[t].calls = Cardinality(Granted(t))
    /\ \A r \in Request : req[r].at <= now

(* Whatever the tracker has purged, its records and the history determine  *)
(* each other for every token that can still be charged: this is why       *)
(* checking the records alone is enough (UsageTracker._usage).             *)
TrackerInv ==
    /\ RecordsExact
    /\ OnlyTheDeadForgotten
    /\ LedgerExact

-----------------------------------------------------------------------------
(* A refused reservation is free: a step that denies a request leaves what *)
(* every other live token has consumed untouched (check_and_record_chain   *)
(* reserves "every allowance together, or change none of them").           *)
DenialIsFree ==
    [][(\E r \in Request : req[r].pc # "denied" /\ req'[r].pc = "denied") =>
          \A t \in Token : now < RetainedUntil(Claims[t].exp) =>
              UsageOf(usage', t) = UsageOf(usage, t)]_vars

(* The tracker's memory is bounded by the tokens alive: right after a      *)
(* reservation no record is kept whose token can no longer be accepted.    *)
MemoryBounded ==
    [][usage' # usage =>
          \A t \in DOMAIN usage' : now < RetainedUntil(Claims[t].exp)]_vars

(* The tracker with its purges implements the ledger that forgets nothing. *)
ImplementsLedger == Ledger!Spec
=============================================================================
