-------------------------- MODULE UsageTrackerProofs --------------------------
(***************************************************************************)
(* Proofs about the in-memory usage tracker, for every set of tokens and   *)
(* claims, every finite set of requests, every rate window and every clock *)
(* resolution.                                                             *)
(***************************************************************************)
EXTENDS UsageTracker, FiniteSetTheorems, TLAPS

-----------------------------------------------------------------------------
(* Facts about claims and time.                                            *)

LEMMA ClaimsFacts ==
    ASSUME NEW t \in Token
    PROVE  /\ Claims[t].exp \in Int
           /\ Claims[t].max_calls \in Limit
           /\ Claims[t].max_amount_usd \in Limit
           /\ Claims[t].rate_limit_per_min \in Limit
           /\ Claims[t].prf \in Token \cup {None}
    BY TokensAssumption DEF ClaimsType

LEMMA ChainType ==
    ASSUME NEW t \in Token
    PROVE  RecordedChain(t) \in SUBSET Token
    BY ClaimsFacts DEF RecordedChain, Chain

LEMMA RetainedType ==
    ASSUME NEW exp \in Int
    PROVE  RetainedUntil(exp) \in Int
    BY LifetimeAssumption DEF RetainedUntil, RetentionAfterExp

LEMMA WindowType == RateWindow * TicksPerSecond \in Nat
    BY LifetimeAssumption, TrackerAssumption

-----------------------------------------------------------------------------
(* Type correctness.                                                       *)

LEMMA PurgedType ==
    ASSUME TypeOK
    PROVE  /\ DOMAIN Purged(usage) \in SUBSET Token
           /\ \A t \in DOMAIN Purged(usage) : Purged(usage)[t] \in TokenUsage
    BY DEF TypeOK, Purged

LEMMA UsageOfType ==
    ASSUME NEW records, NEW t,
           \A u \in DOMAIN records : records[u] \in TokenUsage
    PROVE  UsageOf(records, t) \in TokenUsage
    BY DEF UsageOf, NoUsage, TokenUsage

LEMMA CountedType ==
    ASSUME NEW u \in TokenUsage, NEW t \in Token, NEW amount \in Nat,
           NEW r \in Request, now \in Nat
    PROVE  Counted(u, t, amount, r) \in TokenUsage
<1>1. RetainedUntil(Claims[t].exp) \in Int
    BY ClaimsFacts, RetainedType
<1>2. Recent(u) \cup {<<r, now>>} \in SUBSET (Request \X Nat)
    BY DEF Recent, TokenUsage
<1>3. /\ u.call_count \in Nat /\ u.spent_amount \in Nat /\ u.expires_at \in Int
    BY DEF TokenUsage
<1> QED
    BY <1>1, <1>2, <1>3 DEF Counted, TokenUsage

LEMMA RecordedType ==
    ASSUME TypeOK, NEW chain \in SUBSET Token, NEW amount \in Nat, NEW r \in Request
    PROVE  LET new == Recorded(Purged(usage), chain, amount, r)
           IN  /\ DOMAIN new \in SUBSET Token
               /\ \A t \in DOMAIN new : new[t] \in TokenUsage
<1> DEFINE old == Purged(usage)
<1>1. /\ DOMAIN old \in SUBSET Token
      /\ \A t \in DOMAIN old : old[t] \in TokenUsage
    BY PurgedType
<1>2. \A t \in chain : Counted(UsageOf(old, t), t, amount, r) \in TokenUsage
    BY <1>1, UsageOfType, CountedType DEF TypeOK
<1> HIDE DEF old
<1>3. /\ DOMAIN Recorded(old, chain, amount, r) \in SUBSET Token
      /\ \A t \in DOMAIN Recorded(old, chain, amount, r) :
             Recorded(old, chain, amount, r)[t] \in TokenUsage
    BY <1>1, <1>2 DEF Recorded
<1> QED
    BY <1>3 DEF old

(* The tracker and its requests keep the shape of their data.              *)
THEOREM TypeCorrect == Spec => []TypeOK
<1>1. Init => TypeOK
    BY DEF Init, TypeOK, Idle, RequestType, Ledger!Empty
<1>2. TypeOK /\ [Next]_vars => TypeOK'
  <2> SUFFICES ASSUME TypeOK, [Next]_vars PROVE TypeOK'
      OBVIOUS
  <2>1. ASSUME NEW r \in Request, NEW t \in Token, NEW amount \in Amount,
               Verify(r, t, amount)
        PROVE  TypeOK'
    <3>1. ResolvedAmount(amount) \in (Amount \cap Nat) \cup {0}
        BY <2>1, TrackerAssumption DEF Verify, ValidAmount, ResolvedAmount
    <3> QED
        BY <2>1, <3>1 DEF Verify, TypeOK, RequestType
  <2>2. ASSUME NEW r \in Request, NEW t \in Token, NEW amount \in Amount,
               VerifyDenied(r, t, amount)
        PROVE  TypeOK'
      BY <2>2 DEF VerifyDenied, TypeOK, RequestType, Denied, Idle
  <2>3. ASSUME NEW r \in Request, ReserveLate(r) PROVE TypeOK'
      BY <2>3 DEF ReserveLate, TypeOK, RequestType, Denied, Idle
  <2>4. ASSUME NEW r \in Request, ReserveRefused(r) PROVE TypeOK'
      BY <2>4, PurgedType DEF ReserveRefused, TypeOK, RequestType, Denied, Idle
  <2>5. ASSUME NEW r \in Request, ReserveGranted(r) PROVE TypeOK'
    <3> DEFINE chain == RecordedChain(req[r].token)
    <3>1. req[r].token \in Token /\ req[r].amount \in Nat
        BY <2>5 DEF ReserveGranted, TypeOK, RequestType
    <3>2. chain \in SUBSET Token
        BY <3>1, ChainType
    <3>3. /\ DOMAIN usage' \subseteq Token
          /\ \A t \in DOMAIN usage' : usage'[t] \in TokenUsage
        BY <2>5, <3>1, <3>2, RecordedType DEF ReserveGranted
    <3>4. ledger' \in [Token -> [calls : Nat, spent : Nat]]
        BY <2>5, <3>1 DEF ReserveGranted, TypeOK, Ledger!Charge
    <3>5. /\ req' \in [Request -> RequestType] /\ now' \in Nat
          /\ \A q \in Request : req'[q].pc \notin {"idle", "denied"} => req'[q].token \in Token
        BY <2>5, <3>1 DEF ReserveGranted, TypeOK, RequestType
    <3> QED
        BY <3>3, <3>4, <3>5 DEF TypeOK
  <2>6. ASSUME NEW r \in Request, DecisionFails(r) PROVE TypeOK'
      BY <2>6 DEF DecisionFails, TypeOK, RequestType
  <2>7. ASSUME NEW r \in Request, Execute(r) PROVE TypeOK'
      BY <2>7 DEF Execute, TypeOK, RequestType
  <2>8. ASSUME Tick PROVE TypeOK'
      BY <2>8 DEF Tick, TypeOK
  <2>9. ASSUME Terminated \/ UNCHANGED vars PROVE TypeOK'
      BY <2>9 DEF Terminated, TypeOK, vars
  <2> QED
      BY <2>1, <2>2, <2>3, <2>4, <2>5, <2>6, <2>7, <2>8, <2>9 DEF Next
<1> QED
    BY <1>1, <1>2, PTL DEF Spec

-----------------------------------------------------------------------------
(* The caps.  They follow from what the tracker's records say about the    *)
(* history, TrackerInv, which is inductive together with them.             *)

Caps == CallCap /\ AmountCap /\ RateCap

IInv == TypeOK /\ TrackerInv /\ Caps

LEMMA GrantedFinite ==
    ASSUME NEW t, NEW w
    PROVE  /\ IsFiniteSet(Granted(t))
           /\ IsFiniteSet(GrantedInWindow(t, w))
           /\ Cardinality(Granted(t)) \in Nat
           /\ Cardinality(GrantedInWindow(t, w)) \in Nat
<1>1. Granted(t) \in SUBSET Request
    BY DEF Granted
<1>2. GrantedInWindow(t, w) \in SUBSET Request
    BY <1>1 DEF GrantedInWindow
<1>3. IsFiniteSet(Granted(t)) /\ IsFiniteSet(GrantedInWindow(t, w))
    BY <1>1, <1>2, FS_Subset, TrackerAssumption
<1> QED
    BY <1>3, FS_CardinalityType

(* What a reservation reads about a token that is not late is exact, even  *)
(* if its record was never made: calls, amount, and the size of the window. *)
LEMMA LiveRecordExact ==
    ASSUME IInv, NEW t \in Token, now < RetainedUntil(Claims[t].exp)
    PROVE  LET u == UsageOf(Purged(usage), t)
           IN  /\ u.call_count = ledger[t].calls
               /\ u.spent_amount = ledger[t].spent
               /\ Recent(u) = {<<q, req[q].at>> : q \in GrantedInWindow(t, now)}
               /\ u.expires_at \in {0, RetainedUntil(Claims[t].exp)}
<1> DEFINE u == UsageOf(Purged(usage), t)
<1>1. RetainedUntil(Claims[t].exp) \in Int /\ now \in Nat
    BY ClaimsFacts, RetainedType DEF IInv, TypeOK
<1>2. CASE t \in DOMAIN usage
  <2>1. usage[t].expires_at = RetainedUntil(Claims[t].exp)
      BY <1>2 DEF IInv, TrackerInv, RecordsExact
  <2>2. u = usage[t]
      BY <1>1, <1>2, <2>1 DEF UsageOf, Purged
  <2>3. usage[t].call_timestamps \in SUBSET (Request \X Nat)
      BY <1>2 DEF IInv, TypeOK, TokenUsage
  <2>4. \A s \in usage[t].call_timestamps :
            s[1] \in Granted(t) /\ s[2] = req[s[1]].at
      BY <1>2 DEF IInv, TrackerInv, RecordsExact
  <2>5. \A r \in Granted(t) : req[r].at >= now - RateWindow * TicksPerSecond =>
            <<r, req[r].at>> \in usage[t].call_timestamps
      BY <1>2 DEF IInv, TrackerInv, RecordsExact
  <2>6. \A r \in Granted(t) : r \in Request /\ req[r].at <= now
      BY DEF IInv, TrackerInv, LedgerExact, Granted
  <2>7. Recent(usage[t]) = {<<q, req[q].at>> : q \in GrantedInWindow(t, now)}
      BY <2>3, <2>4, <2>5, <2>6 DEF Recent, GrantedInWindow
  <2> QED
      BY <1>2, <2>1, <2>2, <2>7 DEF IInv, TrackerInv, RecordsExact
<1>3. CASE t \notin DOMAIN usage
  <2>1. Granted(t) = {} /\ ledger[t] = [calls |-> 0, spent |-> 0]
      BY <1>1, <1>3 DEF IInv, TrackerInv, OnlyTheDeadForgotten
  <2>2. u = NoUsage
      BY <1>3 DEF UsageOf, Purged
  <2>3. GrantedInWindow(t, now) = {}
      BY <2>1 DEF GrantedInWindow
  <2> QED
      BY <2>1, <2>2, <2>3 DEF NoUsage, Recent
<1> QED
    BY <1>2, <1>3

(* Requests that share a tick have distinct timestamps, so the window the  *)
(* tracker counts has as many members as the window of the history.        *)
LEMMA WindowCount ==
    ASSUME IInv, NEW t \in Token, now < RetainedUntil(Claims[t].exp)
    PROVE  Cardinality(Recent(UsageOf(Purged(usage), t)))
             = Cardinality(GrantedInWindow(t, now))
<1> DEFINE S == GrantedInWindow(t, now)
           T == Recent(UsageOf(Purged(usage), t))
           f == [q \in S |-> <<q, req[q].at>>]
<1>1. T = {<<q, req[q].at>> : q \in S}
    BY LiveRecordExact
<1>2. IsFiniteSet(S)
    BY GrantedFinite
<1> HIDE DEF S, T
<1>3. f \in Surjection(S, T)
    BY <1>1 DEF Surjection
<1>4. f \in Injection(S, T)
    BY <1>1 DEF Injection, IsInjective
<1> QED
    BY <1>2, <1>3, <1>4, FS_Surjection DEF S, T

(* Steps that grant nothing: the records stay, or lose only the dead.      *)
LEMMA Quiet ==
    ASSUME IInv, TypeOK',
           \/ usage' = usage /\ now' >= now
           \/ usage' = Purged(usage) /\ now' = now,
           ledger' = ledger,
           \A t \in Token : Granted(t)' = Granted(t),
           \A r \in Request : req'[r].at <= now',
           \A t \in Token : \A r \in Granted(t) : req'[r].at = req[r].at
    PROVE  IInv'
<1>1. /\ now \in Nat /\ now' \in Nat /\ RateWindow * TicksPerSecond \in Nat
      /\ \A r \in Request : req[r].at \in Nat
      /\ \A t \in Token : Granted(t) \subseteq Request
      /\ \A t \in Token : RetainedUntil(Claims[t].exp) \in Int
      /\ now' >= now
    BY WindowType, ClaimsFacts, RetainedType DEF IInv, TypeOK, RequestType, Granted
<1>2. \A t \in DOMAIN usage' : t \in DOMAIN usage /\ t \in Token /\ usage'[t] = usage[t]
    BY DEF Purged, IInv, TypeOK
<1>3. RecordsExact'
  <2> SUFFICES ASSUME NEW t \in DOMAIN usage'
               PROVE  /\ usage'[t].call_count = ledger'[t].calls
                      /\ usage'[t].spent_amount = ledger'[t].spent
                      /\ usage'[t].expires_at = RetainedUntil(Claims[t].exp)
                      /\ \A s \in usage'[t].call_timestamps :
                            s[1] \in Granted(t)' /\ s[2] = req'[s[1]].at
                      /\ \A r \in Granted(t)' :
                            req'[r].at >= now' - RateWindow * TicksPerSecond =>
                                <<r, req'[r].at>> \in usage'[t].call_timestamps
      BY DEF RecordsExact
  <2>1. t \in DOMAIN usage /\ t \in Token /\ usage'[t] = usage[t]
      BY <1>2
  <2>2. \A r \in Granted(t) : req'[r].at >= now' - RateWindow * TicksPerSecond
                                => req[r].at >= now - RateWindow * TicksPerSecond
      BY <1>1, <2>1
  <2>3. /\ usage[t].call_count = ledger[t].calls
        /\ usage[t].spent_amount = ledger[t].spent
        /\ usage[t].expires_at = RetainedUntil(Claims[t].exp)
        /\ \A s \in usage[t].call_timestamps :
              s[1] \in Granted(t) /\ s[2] = req[s[1]].at
        /\ \A r \in Granted(t) :
              req[r].at >= now - RateWindow * TicksPerSecond =>
                  <<r, req[r].at>> \in usage[t].call_timestamps
      BY <2>1 DEF IInv, TrackerInv, RecordsExact
  <2> QED
      BY <2>1, <2>2, <2>3
<1>4. OnlyTheDeadForgotten'
  <2> SUFFICES ASSUME NEW t \in Token, t \notin DOMAIN usage',
                      ~ (Granted(t)' = {} /\ ledger'[t] = [calls |-> 0, spent |-> 0])
               PROVE  now' >= RetainedUntil(Claims[t].exp)
      BY DEF OnlyTheDeadForgotten
  <2>1. CASE t \notin DOMAIN usage
      BY <1>1, <2>1 DEF IInv, TrackerInv, OnlyTheDeadForgotten
  <2>2. CASE t \in DOMAIN usage
      BY <1>1, <2>2 DEF IInv, TrackerInv, RecordsExact, Purged
  <2> QED
      BY <2>1, <2>2
<1>5. LedgerExact'
    BY DEF IInv, TrackerInv, LedgerExact
<1>6. CallCap' /\ AmountCap'
    BY DEF IInv, Caps, CallCap, AmountCap
<1>7. \A t \in Token, r \in Request : r \in Granted(t) =>
          GrantedInWindow(t, req[r].at)' = GrantedInWindow(t, req[r].at)
    BY DEF GrantedInWindow
<1>8. RateCap'
    BY <1>1, <1>7 DEF IInv, Caps, RateCap
<1> QED
    BY <1>3, <1>4, <1>5, <1>6, <1>8 DEF IInv, TrackerInv, Caps

(* A granted reservation charges the chain and nothing else.               *)
LEMMA GrantFacts ==
    ASSUME IInv, NEW r \in Request, ReserveGranted(r)
    PROVE  /\ req[r].token \in Token /\ req[r].amount \in Nat
           /\ RecordedChain(req[r].token) \in SUBSET Token
           /\ \A q \in Request : q # r => req'[q] = req[q]
           /\ req'[r].at = now /\ req'[r].token = req[r].token
           /\ \A t \in RecordedChain(req[r].token) :
                 /\ Granted(t)' = Granted(t) \cup {r}
                 /\ r \notin Granted(t)
           /\ \A t \in Token \ RecordedChain(req[r].token) : Granted(t)' = Granted(t)
<1>1. req[r].token \in Token /\ req[r].amount \in Nat
    BY DEF ReserveGranted, IInv, TypeOK, RequestType
<1>2. RecordedChain(req[r].token) \in SUBSET Token
    BY <1>1, ChainType
<1>3. /\ \A q \in Request : q # r => req'[q] = req[q]
      /\ req'[r].at = now /\ req'[r].token = req[r].token /\ req'[r].pc = "reserved"
      /\ req[r].pc = "verified"
    BY DEF ReserveGranted, IInv, TypeOK, RequestType
<1>4. \A t \in RecordedChain(req[r].token) :
          Granted(t)' = Granted(t) \cup {r} /\ r \notin Granted(t)
    BY <1>3 DEF Granted
<1>5. \A t \in Token \ RecordedChain(req[r].token) : Granted(t)' = Granted(t)
    BY <1>3 DEF Granted
<1> QED
    BY <1>1, <1>2, <1>3, <1>4, <1>5

LEMMA GrantNotLate ==
    ASSUME IInv, NEW r \in Request, ReserveGranted(r)
    PROVE  \A t \in RecordedChain(req[r].token) :
               t \in Token /\ now < RetainedUntil(Claims[t].exp)
<1> SUFFICES ASSUME NEW t \in RecordedChain(req[r].token)
             PROVE  t \in Token /\ now < RetainedUntil(Claims[t].exp)
    OBVIOUS
<1>1. t \in Token
    BY GrantFacts
<1>2. now \in Nat /\ RetainedUntil(Claims[t].exp) \in Int
    BY <1>1, ClaimsFacts, RetainedType DEF IInv, TypeOK
<1>3. ~ LateFor(RecordedChain(req[r].token))
    BY DEF ReserveGranted
<1> QED
    BY <1>1, <1>2, <1>3 DEF LateFor

LEMMA GrantKeepsTrackerInv ==
    ASSUME IInv, TypeOK', NEW r \in Request, ReserveGranted(r)
    PROVE  TrackerInv'
<1> DEFINE chain == RecordedChain(req[r].token)
           amount == req[r].amount
           old == Purged(usage)
<1>1. /\ now' = now /\ now \in Nat /\ RateWindow * TicksPerSecond \in Nat
      /\ \A q \in Request : req[q].at \in Nat
      /\ \A t \in Token : Granted(t) \subseteq Request
      /\ \A t \in Token : RetainedUntil(Claims[t].exp) \in Int
    BY WindowType, ClaimsFacts, RetainedType
    DEF ReserveGranted, IInv, TypeOK, RequestType, Granted
<1>2. \A t \in chain : /\ t \in Token
                       /\ now < RetainedUntil(Claims[t].exp)
    BY GrantNotLate
<1>3. /\ usage' = Recorded(old, chain, amount, r)
      /\ DOMAIN usage' = DOMAIN old \cup chain
      /\ \A t \in chain : usage'[t] = Counted(UsageOf(old, t), t, amount, r)
      /\ \A t \in DOMAIN old \ chain : usage'[t] = usage[t]
    BY DEF ReserveGranted, Recorded, Purged
<1>4. /\ \A t \in chain : /\ ledger'[t].calls = ledger[t].calls + 1
                          /\ ledger'[t].spent = ledger[t].spent + amount
      /\ \A t \in Token \ chain : ledger'[t] = ledger[t]
    BY GrantFacts DEF ReserveGranted, Ledger!Charge
<1>5. ASSUME NEW t \in chain
      PROVE  /\ usage'[t].call_count = ledger'[t].calls
             /\ usage'[t].spent_amount = ledger'[t].spent
             /\ usage'[t].expires_at = RetainedUntil(Claims[t].exp)
             /\ usage'[t].call_timestamps =
                   {<<q, req[q].at>> : q \in GrantedInWindow(t, now)} \cup {<<r, now>>}
  <2> DEFINE u == UsageOf(old, t)
  <2>1. /\ u.call_count = ledger[t].calls
        /\ u.spent_amount = ledger[t].spent
        /\ Recent(u) = {<<q, req[q].at>> : q \in GrantedInWindow(t, now)}
        /\ u.expires_at \in {0, RetainedUntil(Claims[t].exp)}
      BY <1>2, <1>5, LiveRecordExact
  <2>2. usage'[t] = Counted(u, t, amount, r)
      BY <1>3, <1>5
  <2> HIDE DEF u
  <2>3. /\ usage'[t].call_count = u.call_count + 1
        /\ usage'[t].spent_amount = u.spent_amount + amount
        /\ usage'[t].call_timestamps = Recent(u) \cup {<<r, now>>}
        /\ usage'[t].expires_at = IF u.expires_at > RetainedUntil(Claims[t].exp)
                                  THEN u.expires_at ELSE RetainedUntil(Claims[t].exp)
      BY <2>2 DEF Counted
  <2> QED
      BY <2>1, <2>3, <1>1, <1>2, <1>4, <1>5
<1>6. RecordsExact'
  <2> SUFFICES ASSUME NEW t \in DOMAIN usage'
               PROVE  /\ usage'[t].call_count = ledger'[t].calls
                      /\ usage'[t].spent_amount = ledger'[t].spent
                      /\ usage'[t].expires_at = RetainedUntil(Claims[t].exp)
                      /\ \A s \in usage'[t].call_timestamps :
                            s[1] \in Granted(t)' /\ s[2] = req'[s[1]].at
                      /\ \A q \in Granted(t)' :
                            req'[q].at >= now' - RateWindow * TicksPerSecond =>
                                <<q, req'[q].at>> \in usage'[t].call_timestamps
      BY DEF RecordsExact
  <2>1. CASE t \in chain
    <3>1. Granted(t)' = Granted(t) \cup {r} /\ r \notin Granted(t)
        BY <2>1, GrantFacts
    <3>2. /\ \A q \in Granted(t) : q \in Request /\ q # r /\ req'[q] = req[q] /\ req[q].at <= now
          /\ req'[r].at = now
        BY <1>1, <1>2, <2>1, <3>1, GrantFacts DEF IInv, TrackerInv, LedgerExact
    <3>3. usage'[t].call_timestamps =
              {<<q, req[q].at>> : q \in GrantedInWindow(t, now)} \cup {<<r, now>>}
        BY <1>5, <2>1
    <3>4. \A s \in usage'[t].call_timestamps :
              s[1] \in Granted(t)' /\ s[2] = req'[s[1]].at
        BY <3>1, <3>2, <3>3 DEF GrantedInWindow
    <3>5. \A q \in Granted(t)' :
              req'[q].at >= now' - RateWindow * TicksPerSecond =>
                  <<q, req'[q].at>> \in usage'[t].call_timestamps
        BY <1>1, <3>1, <3>2, <3>3 DEF GrantedInWindow
    <3> QED
        BY <1>5, <2>1, <3>4, <3>5
  <2>2. CASE t \notin chain
    <3>1. /\ t \in DOMAIN usage /\ t \in Token /\ usage'[t] = usage[t]
          /\ Granted(t)' = Granted(t) /\ ledger'[t] = ledger[t]
        BY <1>3, <1>4, <2>2, GrantFacts DEF Purged, IInv, TypeOK
    <3>2. r \notin Granted(t)
        BY DEF ReserveGranted, Granted
    <3>3. \A q \in Granted(t) : req'[q] = req[q]
        BY <1>1, <3>1, <3>2, GrantFacts
    <3> QED
        BY <1>1, <3>1, <3>3 DEF IInv, TrackerInv, RecordsExact
  <2> QED
      BY <2>1, <2>2
<1>7. OnlyTheDeadForgotten'
  <2> SUFFICES ASSUME NEW t \in Token, t \notin DOMAIN usage',
                      ~ (Granted(t)' = {} /\ ledger'[t] = [calls |-> 0, spent |-> 0])
               PROVE  now' >= RetainedUntil(Claims[t].exp)
      BY DEF OnlyTheDeadForgotten
  <2>1. t \notin chain /\ Granted(t)' = Granted(t) /\ ledger'[t] = ledger[t]
      BY <1>3, <1>4, GrantFacts
  <2>2. CASE t \notin DOMAIN usage
      BY <1>1, <2>1, <2>2 DEF IInv, TrackerInv, OnlyTheDeadForgotten
  <2>3. CASE t \in DOMAIN usage
      BY <1>1, <1>3, <2>1, <2>3 DEF IInv, TrackerInv, RecordsExact, Purged
  <2> QED
      BY <2>2, <2>3
<1>8. LedgerExact'
  <2>1. \A t \in Token : ledger'[t].calls = Cardinality(Granted(t)')
    <3> SUFFICES ASSUME NEW t \in Token
                 PROVE  ledger'[t].calls = Cardinality(Granted(t)')
        OBVIOUS
    <3>1. ledger[t].calls = Cardinality(Granted(t)) /\ IsFiniteSet(Granted(t))
        BY GrantedFinite DEF IInv, TrackerInv, LedgerExact
    <3>2. CASE t \in chain
        BY <1>4, <3>1, <3>2, GrantFacts, FS_AddElement
    <3>3. CASE t \notin chain
        BY <1>4, <3>1, <3>3, GrantFacts
    <3> QED
        BY <3>2, <3>3
  <2>2. \A q \in Request : req'[q].at <= now'
      BY <1>1, GrantFacts DEF IInv, TrackerInv, LedgerExact
  <2> QED
      BY <2>1, <2>2 DEF LedgerExact
<1> QED
    BY <1>6, <1>7, <1>8 DEF TrackerInv

LEMMA GrantKeepsCaps ==
    ASSUME IInv, TypeOK', NEW r \in Request, ReserveGranted(r)
    PROVE  Caps'
<1> DEFINE chain == RecordedChain(req[r].token)
           amount == req[r].amount
           old == Purged(usage)
<1>1. /\ now \in Nat /\ RateWindow * TicksPerSecond \in Nat /\ amount \in Nat
      /\ \A q \in Request : req[q].at \in Nat /\ req[q].at <= now
      /\ \A t \in Token : Granted(t) \subseteq Request
      /\ \A t \in Token : RetainedUntil(Claims[t].exp) \in Int
    BY WindowType, ClaimsFacts, RetainedType, GrantFacts
    DEF IInv, TypeOK, RequestType, Granted, TrackerInv, LedgerExact
<1>2. \A t \in chain : /\ t \in Token
                       /\ now < RetainedUntil(Claims[t].exp)
    BY GrantNotLate
<1>3. ASSUME NEW t \in chain
      PROVE  /\ Claims[t].max_calls # None => ledger[t].calls + 1 <= Claims[t].max_calls
             /\ Claims[t].max_amount_usd # None =>
                   ledger[t].spent + amount <= Claims[t].max_amount_usd
             /\ Claims[t].rate_limit_per_min # None =>
                   Cardinality(GrantedInWindow(t, now)) + 1 <= Claims[t].rate_limit_per_min
  <2>1. Allows(old, t, amount)
      BY <1>3 DEF ReserveGranted
  <2>2. /\ UsageOf(old, t).call_count = ledger[t].calls
        /\ UsageOf(old, t).spent_amount = ledger[t].spent
      BY <1>2, <1>3, LiveRecordExact
  <2>3. Cardinality(Recent(UsageOf(old, t))) = Cardinality(GrantedInWindow(t, now))
      BY <1>2, <1>3, WindowCount
  <2> QED
      BY <2>1, <2>2, <2>3 DEF Allows
<1>4. CallCap'
  <2> SUFFICES ASSUME NEW t \in Token, Claims[t].max_calls # None
               PROVE  Cardinality(Granted(t)') <= Claims[t].max_calls
      BY DEF CallCap
  <2>1. CASE t \in chain
    <3>0. Granted(t)' = Granted(t) \cup {r} /\ r \notin Granted(t)
        BY <2>1, GrantFacts
    <3>1. Cardinality(Granted(t)') = Cardinality(Granted(t)) + 1
        BY <3>0, GrantedFinite, FS_AddElement
    <3> QED
        BY <1>3, <2>1, <3>1 DEF IInv, TrackerInv, LedgerExact
  <2>2. CASE t \notin chain
      BY <2>2, GrantFacts DEF IInv, Caps, CallCap
  <2> QED
      BY <2>1, <2>2
<1>5. AmountCap'
  <2> SUFFICES ASSUME NEW t \in Token, Claims[t].max_amount_usd # None
               PROVE  ledger'[t].spent <= Claims[t].max_amount_usd
      BY DEF AmountCap
  <2>1. ledger'[t] = IF t \in chain
                     THEN [calls |-> ledger[t].calls + 1, spent |-> ledger[t].spent + amount]
                     ELSE ledger[t]
      BY DEF ReserveGranted, Ledger!Charge
  <2> QED
      BY <1>3, <2>1 DEF IInv, Caps, AmountCap
<1>6. RateCap'
  <2> SUFFICES ASSUME NEW t \in Token, Claims[t].rate_limit_per_min # None,
                      NEW q \in Granted(t)'
               PROVE  Cardinality(GrantedInWindow(t, req[q].at)')
                        <= Claims[t].rate_limit_per_min
      BY DEF RateCap
  <2>0. r \notin Granted(t)
      BY DEF ReserveGranted, Granted
  <2>1. \A p \in Granted(t) : p \in Request /\ p # r /\ req'[p] = req[p]
      BY <1>1, <2>0, GrantFacts
  <2>2. CASE t \notin chain
    <3>1. q \in Granted(t) /\ Granted(t)' = Granted(t)
        BY <2>2, GrantFacts
    <3>2. GrantedInWindow(t, req[q].at)' = GrantedInWindow(t, req[q].at)
        BY <2>1, <3>1 DEF GrantedInWindow
    <3> QED
        BY <3>1, <3>2 DEF IInv, Caps, RateCap
  <2>3. CASE t \in chain
    <3>1. Granted(t)' = Granted(t) \cup {r} /\ req'[r].at = now
        BY <2>3, GrantFacts
    <3>2. CASE req'[q].at = now
      <4>1. GrantedInWindow(t, req[q].at)' = GrantedInWindow(t, now) \cup {r}
          BY <1>1, <2>1, <3>1, <3>2 DEF GrantedInWindow
      <4>2. r \notin GrantedInWindow(t, now)
          BY <2>0 DEF GrantedInWindow
      <4>3. Cardinality(GrantedInWindow(t, now) \cup {r}) = Cardinality(GrantedInWindow(t, now)) + 1
          BY <4>2, GrantedFinite, FS_AddElement
      <4> QED
          BY <1>3, <2>3, <4>1, <4>3
    <3>3. CASE req'[q].at # now
      <4>1. q \in Granted(t) /\ req'[q] = req[q] /\ req[q].at < now
          BY <1>1, <2>1, <3>1, <3>3
      <4>2. GrantedInWindow(t, req[q].at)' = GrantedInWindow(t, req[q].at)
          BY <1>1, <2>1, <3>1, <4>1 DEF GrantedInWindow
      <4> QED
          BY <4>1, <4>2 DEF IInv, Caps, RateCap
    <3> QED
        BY <3>2, <3>3
  <2> QED
      BY <2>2, <2>3
<1> QED
    BY <1>4, <1>5, <1>6 DEF Caps

LEMMA Inductive == IInv /\ TypeOK' /\ [Next]_vars => IInv'
<1> SUFFICES ASSUME IInv, TypeOK', [Next]_vars PROVE IInv'
    OBVIOUS
<1>0. /\ now \in Nat
      /\ \A r \in Request : req[r] \in RequestType /\ req[r].at <= now
    BY DEF IInv, TypeOK, TrackerInv, LedgerExact
<1>1. ASSUME NEW r \in Request, NEW t \in Token, NEW amount \in Amount,
             Verify(r, t, amount) \/ VerifyDenied(r, t, amount)
      PROVE  IInv'
  <2>1. /\ \A q \in Request : q # r => req'[q] = req[q]
        /\ req[r].pc = "idle" /\ req'[r].pc \in {"verified", "denied"} /\ req'[r].at = 0
        /\ usage' = usage /\ now' = now /\ ledger' = ledger
      BY <1>1 DEF Verify, VerifyDenied, IInv, TypeOK, RequestType, Denied, Idle
  <2>2. \A u \in Token : Granted(u)' = Granted(u) /\ \A q \in Granted(u) : req'[q].at = req[q].at
      BY <2>1 DEF Granted
  <2>3. \A q \in Request : req'[q].at <= now'
      BY <1>0, <2>1
  <2> QED
      BY <1>0, <2>1, <2>2, <2>3, Quiet
<1>2. ASSUME NEW r \in Request, ReserveLate(r) \/ ReserveRefused(r)
      PROVE  IInv'
  <2>1. /\ \A q \in Request : q # r => req'[q] = req[q]
        /\ req[r].pc = "verified" /\ req'[r].pc = "denied" /\ req'[r].at = 0
        /\ usage' = usage \/ usage' = Purged(usage)
        /\ now' = now /\ ledger' = ledger
      BY <1>2 DEF ReserveLate, ReserveRefused, IInv, TypeOK, RequestType, Denied, Idle
  <2>2. \A u \in Token : Granted(u)' = Granted(u) /\ \A q \in Granted(u) : req'[q].at = req[q].at
      BY <2>1 DEF Granted
  <2>3. \A q \in Request : req'[q].at <= now'
      BY <1>0, <2>1
  <2> QED
      BY <1>0, <2>1, <2>2, <2>3, Quiet
<1>3. ASSUME NEW r \in Request, ReserveGranted(r) PROVE IInv'
    BY <1>3, GrantKeepsTrackerInv, GrantKeepsCaps DEF IInv
<1>4. ASSUME NEW r \in Request, DecisionFails(r) \/ Execute(r) PROVE IInv'
  <2>1. /\ \A q \in Request : /\ req'[q].at = req[q].at
                              /\ req'[q].token = req[q].token
                              /\ q # r => req'[q] = req[q]
        /\ req[r].pc = "reserved" /\ req'[r].pc \in {"aborted", "executed"}
        /\ usage' = usage /\ now' = now /\ ledger' = ledger
      BY <1>4 DEF DecisionFails, Execute, IInv, TypeOK, RequestType
  <2>2. \A u \in Token : Granted(u)' = Granted(u) /\ \A q \in Granted(u) : req'[q].at = req[q].at
      BY <2>1 DEF Granted
  <2> QED
      BY <1>0, <2>1, <2>2, Quiet
<1>5. ASSUME Tick PROVE IInv'
  <2>1. usage' = usage /\ now' = now + 1 /\ ledger' = ledger /\ req' = req
      BY <1>5 DEF Tick
  <2>2. \A u \in Token : Granted(u)' = Granted(u)
      BY <2>1 DEF Granted
  <2>3. /\ \A q \in Request : req'[q].at <= now'
        /\ \A u \in Token : \A q \in Granted(u) : req'[q].at = req[q].at
        /\ now' >= now
      BY <1>0, <2>1 DEF RequestType
  <2> QED
      BY <2>1, <2>2, <2>3, Quiet
<1>6. ASSUME Terminated \/ UNCHANGED vars PROVE IInv'
  <2>1. usage' = usage /\ now' = now /\ ledger' = ledger /\ req' = req
      BY <1>6 DEF Terminated, vars
  <2>2. \A u \in Token : Granted(u)' = Granted(u)
      BY <2>1 DEF Granted
  <2> QED
      BY <1>0, <2>1, <2>2, Quiet
<1> QED
    BY <1>1, <1>2, <1>3, <1>4, <1>5, <1>6 DEF Next

LEMMA Initially == Init => IInv
<1> SUFFICES ASSUME Init PROVE IInv
    OBVIOUS
<1>1. TypeOK
    BY DEF Init, TypeOK, Idle, RequestType, Ledger!Empty
<1>2. \A t \in Token : Granted(t) = {}
    BY DEF Init, Granted, Idle
<1>3. /\ DOMAIN usage = {} /\ now = 0
      /\ \A t \in Token : ledger[t] = [calls |-> 0, spent |-> 0]
      /\ \A r \in Request : req[r].at = 0
    BY DEF Init, Ledger!Empty, Idle
<1>4. TrackerInv
  <2>1. \A t \in Token : Cardinality(Granted(t)) = 0
      BY <1>2, FS_EmptySet
  <2>2. RecordsExact
      BY <1>3 DEF RecordsExact
  <2>3. OnlyTheDeadForgotten
      BY <1>2, <1>3 DEF OnlyTheDeadForgotten
  <2>4. LedgerExact
      BY <1>3, <2>1 DEF LedgerExact
  <2> QED
      BY <2>2, <2>3, <2>4 DEF TrackerInv
<1>5. Caps
  <2>1. \A t \in Token : /\ Claims[t].max_calls # None => 0 <= Claims[t].max_calls
                         /\ Claims[t].max_amount_usd # None => 0 <= Claims[t].max_amount_usd
      BY ClaimsFacts DEF Limit
  <2>2. \A t \in Token : Cardinality(Granted(t)) = 0
      BY <1>2, FS_EmptySet
  <2>3. CallCap
      BY <2>1, <2>2 DEF CallCap
  <2>4. AmountCap
      BY <1>3, <2>1 DEF AmountCap
  <2>5. RateCap
      BY <1>2 DEF RateCap
  <2> QED
      BY <2>3, <2>4, <2>5 DEF Caps
<1> QED
    BY <1>1, <1>4, <1>5 DEF IInv

LEMMA Invariance == Spec => []IInv
<1>1. Init => IInv
    BY Initially
<1>2. IInv /\ TypeOK' /\ [Next]_vars => IInv'
    BY Inductive
<1> QED
    BY <1>1, <1>2, TypeCorrect, PTL DEF Spec

(* Records and history agree: what the tracker reads is what was granted.  *)
THEOREM TrackerInvCorrect == Spec => []TrackerInv
<1>1. IInv => TrackerInv
    BY DEF IInv
<1> QED
    BY <1>1, Invariance, PTL

(* max_calls holds over the whole life of the system, for any purge.       *)
THEOREM CallCapCorrect == Spec => []CallCap
<1>1. IInv => CallCap
    BY DEF IInv, Caps
<1> QED
    BY <1>1, Invariance, PTL

(* max_amount_usd holds over the whole life of the system.                 *)
THEOREM AmountCapCorrect == Spec => []AmountCap
<1>1. IInv => AmountCap
    BY DEF IInv, Caps
<1> QED
    BY <1>1, Invariance, PTL

(* rate_limit_per_min holds in every window, whatever its length.          *)
THEOREM RateCapCorrect == Spec => []RateCap
<1>1. IInv => RateCap
    BY DEF IInv, Caps
<1> QED
    BY <1>1, Invariance, PTL

(* The tracker implements the ledger that forgets nothing.                 *)
THEOREM Implementation == Spec => ImplementsLedger
<1>1. Init => Ledger!Init
    BY DEF Init, Ledger!Init
<1>2. IInv /\ [Next]_vars => [Ledger!Next]_ledger
  <2> SUFFICES ASSUME IInv, Next PROVE Ledger!Next \/ UNCHANGED ledger
      BY DEF vars
  <2>1. ASSUME NEW r \in Request, ReserveGranted(r) PROVE Ledger!Next
    <3> DEFINE t == req[r].token
               amount == req[r].amount
    <3>1. t \in Token /\ amount \in Nat
        BY <2>1, GrantFacts
    <3>2. amount \in (Amount \cup {0}) \cap Nat
        BY <2>1 DEF ReserveGranted, IInv, TypeOK, RequestType
    <3>3. \A c \in RecordedChain(t) : Ledger!HasRoom(c, amount)
        BY <2>1, GrantNotLate, LiveRecordExact DEF ReserveGranted, Allows, Ledger!HasRoom
    <3>4. ledger' = Ledger!Charge(RecordedChain(t), amount)
        BY <2>1 DEF ReserveGranted
    <3>5. Ledger!RecordedChain(t) = RecordedChain(t)
        BY DEF Ledger!RecordedChain, Ledger!Chain, Ledger!Stateful,
               RecordedChain, Chain, Stateful
    <3>6. Ledger!Grant(t, amount)
        BY <3>3, <3>4, <3>5 DEF Ledger!Grant
    <3> HIDE DEF t, amount
    <3> QED
        BY <3>1, <3>2, <3>6 DEF Ledger!Next
  <2> QED
      BY <2>1 DEF Next, Verify, VerifyDenied, ReserveLate, ReserveRefused,
                  DecisionFails, Execute, Tick, Terminated, vars
<1> QED
    BY <1>1, <1>2, Invariance, PTL DEF Spec, ImplementsLedger, Ledger!Spec

-----------------------------------------------------------------------------
(* What a step may never do.                                               *)

(* A refused or late reservation leaves every live token's usage alone.    *)
THEOREM DenialIsFreeCorrect == Spec => DenialIsFree
<1> DEFINE Denies == \E r \in Request : req[r].pc # "denied" /\ req'[r].pc = "denied"
           Untouched == \A t \in Token : now < RetainedUntil(Claims[t].exp) =>
                            UsageOf(usage', t) = UsageOf(usage, t)
<1>1. IInv /\ [Next]_vars => [Denies => Untouched]_vars
  <2> SUFFICES ASSUME IInv, Next, Denies PROVE Untouched
      BY DEF vars
  <2>1. ASSUME usage' = Purged(usage) PROVE Untouched
    <3> SUFFICES ASSUME NEW t \in Token, now < RetainedUntil(Claims[t].exp)
                 PROVE  UsageOf(usage', t) = UsageOf(usage, t)
        OBVIOUS
    <3>1. now \in Nat /\ RetainedUntil(Claims[t].exp) \in Int
        BY ClaimsFacts, RetainedType DEF IInv, TypeOK
    <3>2. t \in DOMAIN usage => usage[t].expires_at > now
        BY <3>1 DEF IInv, TrackerInv, RecordsExact
    <3> QED
        BY <2>1, <3>2 DEF Purged, UsageOf
  <2>2. ASSUME usage' = usage PROVE Untouched
      BY <2>2
  <2>3. ASSUME NEW r \in Request, ReserveGranted(r) PROVE FALSE
    <3>1. \A q \in Request : req'[q].pc = "denied" => req[q].pc = "denied"
        BY <2>3 DEF ReserveGranted, IInv, TypeOK, RequestType
    <3> QED
        BY <3>1
  <2> HIDE DEF Untouched
  <2> QED
      BY <2>1, <2>2, <2>3 DEF Next, Verify, VerifyDenied, ReserveLate, ReserveRefused,
                              DecisionFails, Execute, Tick, Terminated, vars
<1> QED
    BY <1>1, Invariance, PTL DEF Spec, DenialIsFree

(* A reservation leaves no record of a token that can never come back.     *)
THEOREM MemoryBoundedCorrect == Spec => MemoryBounded
<1> DEFINE Bounded == \A t \in DOMAIN usage' : now < RetainedUntil(Claims[t].exp)
<1>1. IInv /\ [Next]_vars => [usage' # usage => Bounded]_vars
  <2> SUFFICES ASSUME IInv, Next, usage' # usage PROVE Bounded
      BY DEF vars
  <2>0. \A t \in DOMAIN Purged(usage) : now < RetainedUntil(Claims[t].exp)
    <3> SUFFICES ASSUME NEW t \in DOMAIN Purged(usage)
                 PROVE  now < RetainedUntil(Claims[t].exp)
        OBVIOUS
    <3>1. t \in Token /\ t \in DOMAIN usage /\ usage[t].expires_at > now
        BY DEF Purged, IInv, TypeOK
    <3>2. now \in Nat /\ RetainedUntil(Claims[t].exp) \in Int
        BY <3>1, ClaimsFacts, RetainedType DEF IInv, TypeOK
    <3> QED
        BY <3>1, <3>2 DEF IInv, TrackerInv, RecordsExact
  <2>1. ASSUME usage' = Purged(usage) PROVE Bounded
      BY <2>0, <2>1
  <2>2. ASSUME NEW r \in Request, ReserveGranted(r) PROVE Bounded
    <3>1. DOMAIN usage' = DOMAIN Purged(usage) \cup RecordedChain(req[r].token)
        BY <2>2 DEF ReserveGranted, Recorded
    <3> QED
        BY <2>0, <2>2, <3>1, GrantNotLate
  <2> HIDE DEF Bounded
  <2> QED
      BY <2>1, <2>2 DEF Next, Verify, VerifyDenied, ReserveLate, ReserveRefused,
                        DecisionFails, Execute, Tick, Terminated, vars
<1> QED
    BY <1>1, Invariance, PTL DEF Spec, MemoryBounded
=============================================================================
