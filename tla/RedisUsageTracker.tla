-------------------------- MODULE RedisUsageTracker --------------------------
(***************************************************************************)
(* The Redis-backed usage tracker                                          *)
(* (swarmauth/backends/redis_backend.py, RedisUsageTracker), shared by     *)
(* verifier processes that have no lock in common.  A reservation is an    *)
(* optimistic transaction: WATCH the keys of the chain, read the clock,    *)
(* read the counters one key after the other, and EXEC, which Redis        *)
(* refuses when a watched key was written or has expired since WATCH; the  *)
(* reservation then starts again, without a limit on the attempts.  Other  *)
(* processes run between the steps, and any step can fail.  The worker     *)
(* dies, before or after the commit.  Or the connection is lost: once WATCH *)
(* was answered the client reports that as a WatchError, which the code    *)
(* takes for contention and retries, even when it was the reply to EXEC    *)
(* that was lost after the transaction committed.  The same request is     *)
(* then charged again, or refused because of its own charge.               *)
(*                                                                         *)
(* Redis and its client are external: keys with an expiry,                 *)
(* WATCH/MULTI/EXEC, WatchError, and a clock that agrees with the          *)
(* verifiers'.  A jti's hash and its sorted set are written and expire     *)
(* together and are one entry of db here, and the three round trips that   *)
(* read them are one step: if they saw different states, the transaction   *)
(* is marked and EXEC refuses it.                                          *)
(***************************************************************************)
EXTENDS Tokens, FiniteSets, Sequences

CONSTANTS
    Request,            \* the calls that are ever made, by any process
    Amount,             \* amounts a caller may pass; None for no amount
    RateWindow,         \* the 60 seconds of rate_limit_per_min
    KeyTTL,             \* key_ttl_seconds, at least 1
    MaxDrops,           \* bound on the connections that are lost
    MaxTime             \* bound on the clock, in ticks

ASSUME RedisAssumption ==
    /\ IsFiniteSet(Request)
    /\ Amount \subseteq Int \cup {None}
    /\ RateWindow \in Nat
    /\ KeyTTL \in Nat \ {0}
    /\ MaxDrops \in Nat
    /\ MaxTime \in Nat

VARIABLES
    now,                \* the wall clock, in ticks
    db,                 \* the keys in Redis: jti -> counters and expiry
    req,                \* the state of every request
    ledger,             \* history: what was committed against every jti
    grants,             \* history: the commits, one record for each
    drops               \* how many connections were lost while watching

vars == <<now, db, req, ledger, grants, drops>>

Idle == [pc |-> "idle", token |-> None, amount |-> 0, at |-> 0,
         left |-> << >>, totals |-> [t \in {} |-> 0], dirty |-> FALSE]

(* Outcomes of a request that ended without the tool being run: its token  *)
(* was not accepted, it died before the reservation, an allowance was      *)
(* exhausted, or the worker or its connection failed.                      *)
Ended == {"denied", "late", "refused", "failed"}

(* Outcomes that follow a commit: lost is a worker that died after EXEC.   *)
Charged == {"reserved", "executed", "lost"}

InTransaction == {"watched", "reading"}

(* A commit: whose it was, for which token and with which clock reading,   *)
(* and how many connections had been lost, which tells the commits of one  *)
(* request apart.  It stands for the member and the score that ZADD adds;  *)
(* the member is generated for every attempt.                              *)
Grant == [req : Request, drops : Nat, token : Token, at : Nat]

Entry == [calls : Nat, amount : Nat, stamps : SUBSET Grant, expires : Nat]

TypeOK ==
    /\ now \in Nat
    /\ DOMAIN db \subseteq Token
    /\ \A t \in DOMAIN db : db[t] \in Entry
    /\ DOMAIN req = Request
    /\ \A r \in Request :
          /\ req[r].pc \in {"idle", "verified"} \cup InTransaction \cup Charged \cup Ended
          /\ req[r].token \in Token \cup {None}
          /\ req[r].amount \in Nat
          /\ req[r].at \in Nat
          /\ req[r].left \in Seq(Token)
          /\ DOMAIN req[r].totals \subseteq Token
          /\ \A t \in DOMAIN req[r].totals : req[r].totals[t] \in Nat
          /\ req[r].dirty \in BOOLEAN
    /\ ledger \in [Token -> [calls : Nat, spent : Nat]]
    /\ grants \subseteq Grant
    /\ drops \in 0 .. MaxDrops

-----------------------------------------------------------------------------
Ledger == INSTANCE UsageLedger WITH Amount <- Amount \cup {0}

(* The chain in the order its keys are read: parent, then child.           *)
ChainOrder(t) ==
    IF RecordedChain(t) = {t} THEN <<t>> ELSE <<Claims[t].prf, t>>

(* What HGET and ZCOUNT answer for a key, present or not.                  *)
Stored(t) ==
    IF t \in DOMAIN db THEN db[t]
    ELSE [calls |-> 0, amount |-> 0, stamps |-> {}, expires |-> 0]

(* Mutant: the window leaves out its first instant.                        *)
RecentOpen(t, read) ==
    {s \in Stored(t).stamps : s.at > read - RateWindow * TicksPerSecond}

Recent(t, read) ==
    {s \in Stored(t).stamps : s.at >= read - RateWindow * TicksPerSecond}

(* Mutant: the last call is refused.                                       *)
AllowsOneLess(t, amount, read) ==
    LET c == Claims[t]
    IN  /\ c.max_calls # None => Stored(t).calls + 1 < c.max_calls
        /\ c.max_amount_usd # None => Stored(t).amount + amount <= c.max_amount_usd
        /\ c.rate_limit_per_min # None =>
              Cardinality(Recent(t, read)) + 1 <= c.rate_limit_per_min

(* The limits, against the counters just read.                             *)
Allows(t, amount, read) ==
    LET c == Claims[t]
    IN  /\ c.max_calls # None => Stored(t).calls + 1 <= c.max_calls
        /\ c.max_amount_usd # None => Stored(t).amount + amount <= c.max_amount_usd
        /\ c.rate_limit_per_min # None =>
              Cardinality(Recent(t, read)) + 1 <= c.rate_limit_per_min

(* Mutant: the configured TTL, however much of its life the token has left. *)
TTLConfigured(t, read) == KeyTTL

(* max(key_ttl_seconds, ceil(exp + retention - now)), in seconds.          *)
TTL(t, read) ==
    LET left == (RetainedUntil(Claims[t].exp) - read + TicksPerSecond - 1) \div TicksPerSecond
    IN  IF KeyTTL > left THEN KeyTTL ELSE left

(* The commit that EXEC would make for a request.                          *)
Commit(r) ==
    [req |-> r, drops |-> drops, token |-> req[r].token, at |-> req[r].at]

(* The transaction: HINCRBY, HSET, ZADD, ZREMRANGEBYSCORE and EXPIRE for   *)
(* every key of the chain.  EXPIRE counts from the moment of EXEC.         *)
Written(r) ==
    LET chain == RecordedChain(req[r].token)
    IN  [t \in DOMAIN db \cup chain |->
            IF t \notin chain THEN db[t]
            ELSE [calls   |-> Stored(t).calls + 1,
                  amount  |-> req[r].totals[t],
                  stamps  |-> Recent(t, req[r].at) \cup {Commit(r)},
                  expires |-> now + TTL(t, req[r].at) * TicksPerSecond]]

(* Mutant: only the key of the presented token is watched.                 *)
TouchedChildOnly(requests, keys) ==
    [q \in Request |->
        IF requests[q].pc \in InTransaction /\ requests[q].token \in keys
        THEN [requests[q] EXCEPT !.dirty = TRUE]
        ELSE requests[q]]

(* Redis marks every transaction that watches one of the touched keys.     *)
Touched(requests, keys) ==
    [q \in Request |->
        IF /\ requests[q].pc \in InTransaction
           /\ RecordedChain(requests[q].token) \cap keys # {}
        THEN [requests[q] EXCEPT !.dirty = TRUE]
        ELSE requests[q]]

(* A request back at the top of its loop, or out of it.                    *)
AtLoop(r, pc) ==
    [req[r] EXCEPT !.pc = pc, !.at = 0, !.left = << >>,
                   !.totals = Idle.totals, !.dirty = FALSE]

Out(pc) == [Idle EXCEPT !.pc = pc]

-----------------------------------------------------------------------------
Init ==
    /\ now = 0
    /\ db = [t \in {} |-> 0]
    /\ req = [r \in Request |-> Idle]
    /\ ledger = Ledger!Empty
    /\ grants = {}
    /\ drops = 0

Verify(r, t, amount) ==
    /\ req[r].pc = "idle"
    /\ req' = [req EXCEPT ![r] =
                 IF VerifiedAt(t, now) /\ ValidAmount(t, amount)
                 THEN [Idle EXCEPT !.pc = "verified", !.token = t,
                                   !.amount = ResolvedAmount(amount)]
                 ELSE Out("denied")]
    /\ UNCHANGED <<now, db, ledger, grants, drops>>

(* pipe.watch(...): from here on a write to the chain's keys is noticed.   *)
Watch(r) ==
    /\ req[r].pc = "verified"
    /\ req' = [req EXCEPT ![r].pc = "watched"]
    /\ UNCHANGED <<now, db, ledger, grants, drops>>

ReadClock(r) ==
    /\ req[r].pc = "watched"
    /\ req' = [req EXCEPT ![r] =
                 IF \E t \in RecordedChain(req[r].token) :
                       now >= RetainedUntil(Claims[t].exp)
                 THEN Out("late")
                 ELSE [req[r] EXCEPT !.pc = "reading", !.at = now,
                                     !.left = ChainOrder(req[r].token)]]
    /\ UNCHANGED <<now, db, ledger, grants, drops>>

(* The counters of the next key, and its limits.                           *)
ReadKey(r) ==
    LET t == Head(req[r].left) IN
    /\ req[r].pc = "reading"
    /\ req[r].left # << >>
    /\ Allows(t, req[r].amount, req[r].at)
    /\ req' = [req EXCEPT
                 ![r].left = Tail(@),
                 ![r].totals = [u \in DOMAIN @ \cup {t} |->
                                  IF u = t THEN Stored(t).amount + req[r].amount ELSE @[u]]]
    /\ UNCHANGED <<now, db, ledger, grants, drops>>

ReadKeyRefused(r) ==
    /\ req[r].pc = "reading"
    /\ req[r].left # << >>
    /\ ~ Allows(Head(req[r].left), req[r].amount, req[r].at)
    /\ req' = [req EXCEPT ![r] = Out("refused")]
    /\ UNCHANGED <<now, db, ledger, grants, drops>>

Undisturbed(r) == ~ req[r].dirty

(* Redis commits; what follows for the request is up to the reply.         *)
ExecCommits(r, pc) ==
    /\ req[r].pc = "reading"
    /\ req[r].left = << >>
    /\ Undisturbed(r)
    /\ db' = Written(r)
    /\ req' = Touched([req EXCEPT ![r] = AtLoop(r, pc)], RecordedChain(req[r].token))
    /\ ledger' = Ledger!Charge(RecordedChain(req[r].token), req[r].amount)
    /\ grants' = grants \cup {Commit(r)}
    /\ UNCHANGED now

(* EXEC is answered; or the worker dies before it is.                      *)
Exec(r) == ExecCommits(r, "reserved") /\ UNCHANGED drops

ExecDies(r) == ExecCommits(r, "lost") /\ UNCHANGED drops

(* A connection is lost: a WatchError, taken for contention.               *)
Lose == drops < MaxDrops /\ drops' = drops + 1

(* It is lost with the reply to EXEC, and the request is reserved again.   *)
ExecReplyLost(r) == ExecCommits(r, "verified") /\ Lose

(* It is lost before EXEC reaches Redis.                                   *)
Drops(r) ==
    /\ req[r].pc \in InTransaction
    /\ req' = [req EXCEPT ![r] = AtLoop(r, "verified")]
    /\ Lose
    /\ UNCHANGED <<now, db, ledger, grants>>

(* Mutant: EXEC is retried without watching and reading again.             *)
ExecAbortsInPlace(r) ==
    /\ req[r].pc = "reading"
    /\ req[r].left = << >>
    /\ ~ Undisturbed(r)
    /\ UNCHANGED vars

ExecAborts(r) ==
    /\ req[r].pc = "reading"
    /\ req[r].left = << >>
    /\ ~ Undisturbed(r)
    /\ req' = [req EXCEPT ![r] = AtLoop(r, "verified")]
    /\ UNCHANGED <<now, db, ledger, grants, drops>>

(* The worker dies before EXEC reaches Redis, or WATCH is not answered: a  *)
(* connection that is lost then is an error that nobody catches.           *)
Fails(r) ==
    /\ req[r].pc \in {"verified"} \cup InTransaction
    /\ req' = [req EXCEPT ![r] = Out("failed")]
    /\ UNCHANGED <<now, db, ledger, grants, drops>>

Execute(r) ==
    /\ req[r].pc = "reserved"
    /\ req' = [req EXCEPT ![r].pc = "executed"]
    /\ UNCHANGED <<now, db, ledger, grants, drops>>

(* Time passes, and Redis expires keys: to a transaction that watches one  *)
(* it is as if the key had been written.                                   *)
Tick ==
    LET gone == {t \in DOMAIN db : db[t].expires <= now + 1} IN
    /\ now < MaxTime
    /\ now' = now + 1
    /\ db' = [t \in DOMAIN db \ gone |-> db[t]]
    /\ req' = Touched(req, gone)
    /\ UNCHANGED <<ledger, grants, drops>>

Terminated ==
    /\ now = MaxTime
    /\ \A r \in Request : req[r].pc \in Ended \cup {"executed", "lost"}
    /\ UNCHANGED vars

Loop(r) ==
    \/ Watch(r) \/ ReadClock(r) \/ ReadKey(r) \/ ReadKeyRefused(r)
    \/ Exec(r) \/ ExecAborts(r)

Next ==
    \/ \E r \in Request, t \in Token, amount \in Amount : Verify(r, t, amount)
    \/ \E r \in Request :
          \/ Loop(r) \/ Execute(r)
          \/ ExecReplyLost(r) \/ ExecDies(r) \/ Drops(r) \/ Fails(r)
    \/ Tick
    \/ Terminated

Spec == Init /\ [][Next]_vars

(* A process that is running makes its next round trip, and time passes.   *)
Fairness == WF_vars(Tick) /\ \A r \in Request : WF_vars(Loop(r))

FairSpec == Spec /\ Fairness

-----------------------------------------------------------------------------
(* The commits that were counted against jti t.                            *)
Granted(t) == {g \in grants : t \in RecordedChain(g.token)}

(* rate_limit_per_min across processes, by the clock readings recorded;    *)
(* the charges of a request that was retried after a lost reply count as   *)
(* often as they were made.                                                *)
RateCap ==
    \A t \in Token : Claims[t].rate_limit_per_min # None =>
        \A g \in Granted(t) :
            Cardinality({h \in Granted(t) :
                /\ h.at <= g.at
                /\ h.at >= g.at - RateWindow * TicksPerSecond})
              <= Claims[t].rate_limit_per_min

(* The keys in Redis are well formed, and hold the exact totals of every   *)
(* token that a reservation can still be made for: no key expires too      *)
(* early, no update of a racing transaction is lost.                       *)
KeysExact ==
    /\ TypeOK
    /\ \A t \in Token : now < RetainedUntil(Claims[t].exp) =>
          /\ Stored(t).calls = ledger[t].calls
          /\ Stored(t).amount = ledger[t].spent

(* A refusal is justified: when a reservation gives up for want of an      *)
(* allowance, some allowance of its chain is really exhausted, however     *)
(* stale the counters were by then.  It may be its own earlier charge that *)
(* exhausted it, when the reply to that EXEC was lost.                     *)
RefusalJustified ==
    [][\A r \in Request : (req[r].pc # "refused" /\ req'[r].pc = "refused") =>
          \E t \in RecordedChain(req[r].token) :
              \/ ~ Ledger!HasRoom(t, req[r].amount)
              \/ /\ Claims[t].rate_limit_per_min # None
                 /\ Cardinality({g \in Granted(t) :
                       g.at >= req[r].at - RateWindow * TicksPerSecond})
                      >= Claims[t].rate_limit_per_min]_vars

(* Redis transactions implement the ledger that forgets nothing.           *)
ImplementsLedger == Ledger!Spec

(* The retry loop has no limit, yet every reservation comes to an end: it  *)
(* starts again only after commits, expiries and lost connections, which   *)
(* run out.                                                                *)
Settles ==
    \A r \in Request :
        req[r].pc = "verified" ~> req[r].pc \in Charged \cup Ended
=============================================================================
