# SwarmAuth in TLA+

SwarmAuth lets an agent call another agent's tool with a *capability token*: a
signed claim set that lives at most 30 seconds and says which tool may be called,
how often, for how much, and for how long.  Everything the library promises is
decided at one place, the *execution boundary*, a moment before the tool runs.
The cryptography is a library call; what is hard is state and time.  Limits are
counted in stores that forget, revocations are kept in stores that forget, every
check reads the clock for itself, several threads, coroutines or processes stand
at the boundary at once, and one call spends the allowances of a parent and a
child together.  This directory models those parts, model-checks them with TLC
on small instances, and proves the central results with TLAPS for every instance.

## Inventory

| component | source | state it keeps | operations |
|---|---|---|---|
| tokens and verification | `swarmauth/token.py`, `limits.py` | none (claims are signed data) | `issue`, `attenuate`, `verify`, `check_capability`, `check_params` |
| execution boundary | `swarmauth/middleware.py` | the token of the current context | `verify_and_check`, `guard`, `use_token` |
| asynchronous boundary | `swarmauth/asyncio.py` | none across awaits but locals | `async_verify_and_check`, `async_guard` |
| in-memory usage tracker | `middleware.py: UsageTracker` | jti -> calls, spend, call times, expiry | `check_and_record(_chain)`, purge |
| Redis usage tracker | `backends/redis_backend.py` | a hash and a sorted set per jti, with a TTL | the same, as WATCH/MULTI/EXEC |
| in-memory revocation store | `revocation.py` | jti -> retained until | `revoke`, `is_revoked`, purge |
| Redis revocation store | `backends/redis_backend.py` | one key per jti, with a TTL | the same |
| key registry | `registry.py` | issuer -> root keys, holder keys | `register`, rotate, `revoke`, `keys_for` |
| issuer policy | `policy.py` | a list of grants | `allow`, `check` |
| approvals | `approvals.py` | approval records; the active one per resource | `approve`, `issue`, `authorize`, `invalidate`, `consume` |
| shared budgets | `budgets.py` | token and budget counters | `check_and_record(_chain)`, in memory and in Redis |
| decision events | `events.py`, `middleware.py` | the stream, its buffer and a lock | the decision callback, `JsonlDecisionSink` |
| HTTP and MCP transport | `transport.py` | the context of each task | `TokenContextMiddleware`, `secure_mcp_http_tool` |
| framework adapters | `middleware.py` | the attributes of the secured tool | `secure_langchain_tool`, `secure_tool_call` and its kin |
| command line | `cli.py` | none | offline diagnostics |
| Node, Go, TypeScript SDKs | `js/`, `go/`, `ts/` | the same stores again | the same operations again |

How they interact.  `guard` calls `verify_and_check`, which verifies the token
(and the parent it carries), asks the key registry for keys once per token and the
revocation store once per token, checks capability and parameters, reserves the
allowances of the whole chain in the tracker, delivers the decision event, and
only then lets the tool run.  `async_verify_and_check` makes the same checks but
awaits the stores after all the synchronous ones.  `ApprovalService.authorize`
wraps `verify_and_check` between a check and a compare-and-delete of an approval.
The budget trackers replace the usage tracker and charge one account more.  All
stores are shared by threads (under a lock) or by processes (in Redis, by
optimistic transactions); every one of them reads the clock for itself.  In front
of all this, a transport or a `use_token` block puts the credential of the work at
hand into the context of a task, an adapter decides which attributes of a tool are
guarded, and `guard` finds the credential in the keyword or in the context.

What is hard here:

* **time read twice** - verification truncates the clock to seconds, the stores
  compare it as a float, and each reads it at a different moment;
* **stores that forget** - purges and key TTLs delete what must still be known by
  a call that was verified in time but reserves late;
* **chains** - parent and child are charged all or nothing, and siblings share
  the parent's allowance;
* **optimistic transactions** - reads key by key between WATCH and EXEC, retries
  with and without a limit, connections and replies lost and taken for contention,
  so that a call is made again that was already charged, workers that die;
* **authority through hops** - grant, root token, attenuated child, call: each hop
  compares with the one before and the comparisons have to compose, while keys
  are rotated and revoked between the two lookups of one verification;
* **callbacks and late answers** - the tracker and the decision callback belong to
  the application: they fail before or after their effect, return awaitables to a
  guard that cannot await them, and go on after a task was cancelled;
* **one log, many calls** - a stream that failed to flush may write a line later,
  with another call's;
* **credentials in contexts** - tasks copy a context, threads start without one,
  a server task keeps its own from one request to the next, and the task of an MCP
  session keeps the one of the request that opened it.

The list of hazards, each at its line and with the properties that would catch it
going wrong, is in `PROJECT.json`.

## Modules

| module | models | state | actions |
|---|---|---|---|
| `Lifetime` | clock arithmetic of `limits.py` and `_verify_core` | - | - |
| `Limits`, `Tokens` | limits, the claims enforcement reads, chains, amounts | - | - |
| `Capabilities` | `capability_covered`, `json_value_equal`, `check_params` | - | - |
| `UsageLedger` | **abstract**: what any usage tracker promises | `ledger` | `Grant` |
| `UsageTracker` | `UsageTracker` and the calls through `guard` | `now`, `usage` (`_usage`), `req`, `ledger` (history) | `Verify`, `VerifyDenied`, `ReserveLate/Refused/Granted`, `DecisionFails`, `Execute`, `Tick` |
| `RedisUsageTracker` | the Redis tracker | `now`, `db`, `req`, `drops` (connections lost), histories `ledger`, `grants` | `Verify`, `Watch`, `ReadClock`, `ReadKey`, `ReadKeyRefused`, `Exec`, `ExecReplyLost`, `ExecDies`, `ExecAborts`, `Drops`, `Fails`, `Execute`, `Tick` |
| `Revocation` | both boundaries over `InMemoryRevocationStore` | `now`, `revoked` (`_revoked`), `op` (the operator's `revoke`), `req`, `marked` (history) | `RevokeCalled/Returns`, `Begin`, `CheckLifetime`, `ReadStoreClock`, `CheckRevoked`, `Decide`, `Execute`, `Tick` |
| `RedisRevocation` | `RedisRevocationStore.revoke` | `now`, `keys`, `op` | `Revoke`, `Watch`, `Compare`, `Exec`, `ExecReplyLost`, `ExecAborts`, `Drops`, `Tick` |
| `ApprovalGrant` | **abstract**: what an approval promises | granted, current, consumed | `Grant`, `Withdraw`, `Consume` |
| `Approvals` | `ApprovalService` over either store | `records`, `active`, `approving`, `token`, `req`, histories `current`, `consumed` | `Approve`, `PutLocal`, `PutSent/Stored`, `Invalidate`, `Issue`, `Sign`, `Authorize`, `Spend`, `ConsumeLocal`, `ConsumeWatch/Get/Exec/Aborts`, `Drops`, `Fails`, `Tick` |
| `BudgetLedger` | **abstract**: accounts that are charged together and never forget | `ledger` | `Pay` |
| `SharedBudget` | `BudgetUsageTracker`, `RedisBudgetUsageTracker`, the thread of `AsyncUsageTracker`, and Node's `RedisUsageTracker` | `store`, `entries`, `req`, histories `ledger`, `payments` | `Verify`, `ReserveLocal`, `RefuseLocal`, `Start`, `Watch`, `ReadKey`, `ReadAll`, `Decide`, `Exec`, `Cancelled`, `ReplyLost`, `ExecAborts`, `Drops`, `Fails`, `Execute`, `Tick` |
| `Delegation` | `IssuerPolicy`, `TokenIssuer`, `KeyRegistry`, `verify`, the checks of a call | `policy`, `keys`, `holders`, `token`, `req`, `distrusted` (history) | `Allow`, `Issue`, `Attenuate`, `SignElsewhere`, every `KeyRegistry` operation, `Present`, `VerifyLeaf`, `VerifyParent`, `CheckCall`, `Tick` |
| `AuthorizedCall` | **abstract**: what the boundary promises of a call: charged, then told, then run | `terms`, `charged`, `told`, `stage` | `Charge`, `Tell`, `Run`, `Close` |
| `GuardedCall` | `guard`, `verify_and_check` and their asynchronous forms over any store, tracker and callback; `JsonlDecisionSink` | `guard` (how the tool is guarded), `call`, `lock`, `buffer`, `file`, `charged` (history) | `Begin`, `Check`, `Lookup`, `Reserve`, `TrackerAnswers`, `Reserving`, `Notify`, `CallbackAnswers`, `Notified`, `Write`, `Flush`, `FlushFails`, `Execute`, `Cancel` |
| `ToolEntry` | `use_token`, the transports, the adapters: whose credential a tool runs on, and through how many guards | `tool`, `state`, `work`, `context` (`_current_token`), `frames`, `begun`, `ran` (history) | `Request`, `OtherScope`, `Enter`, `Leave`, `End`, `Spawn`, `OpenSession`, `Call`, `Message` |
| `MC...` | small instances | - | - |
| `...Proofs` | theorems | - | - |

How the code became actions.  A critical section under a lock is one action,
together with the clock reading it makes inside; a clock reading made *before* the
lock is taken (`revocation.py`) is an action of its own, and so is each round trip
to Redis, except that `RedisUsageTracker.ReadKey` stands for the three reads of one
token's keys (two HGET and a ZCOUNT): the keys are watched, so whatever is written
between them aborts the transaction, and a refusal has been justified by the one read
that it rests on.  Requests are concurrent calls; the number of requests bounds the calls.
The code's early returns and exceptions are separate outcomes (`denied`, `late`,
`refused`, `contended`, `failed`, `lost`).  History variables, and the fields of a
request that count its lost connections (`drops`) and the charges made before its first
attempt (`before`), never occur in a guard.  In `Approvals` and `SharedBudget` the variable `store` says which backend
the deployment has and never changes; one specification, and one refinement,
covers them all; `guard` in `GuardedCall` and `tool` in `ToolEntry` are of the same
kind.

The modules divide the boundary between them.  `UsageTracker`, `RedisUsageTracker`
and `SharedBudget` know what a tracker counts, `Revocation` when the store is asked,
`Delegation` which calls a token covers.  `GuardedCall` takes all of these as
answers that may be yes, no or an error, and models what the boundary does with
them; `ToolEntry` takes the verdict on a credential for granted and models where it
came from.  A decision told to a callback has reached it when the callback says so
or fails after recording it; a line of the `JsonlDecisionSink` when it is flushed.

Definitions named after a mistake and commented *Mutant* belong to no
specification.  Each is a plausible bug in the definition that follows it, and
`PROJECT.json` names the property that TLC finds violated when it is put in.

Lost connections.  All the Python transactions catch `WatchError` and try again, and
redis-py raises it not only when EXEC was aborted: a connection lost at any moment after
WATCH was answered gives the same error, EXEC whose reply is missing included.  So the
models have four outcomes besides the commit and the abort: the connection is lost
before EXEC ran and the attempt is repeated (`Drops`); EXEC committed, the reply is lost
and the call is made *again* (`ExecReplyLost`, `ReplyLost`, `ConsumeExec` with
`Dropped`), to be charged a second time or refused for its own charge; EXEC committed
and the worker or its caller is gone (`ExecDies`, `Cancelled`); nothing was committed and
the call ends (`Fails`), for a dead worker or a WATCH that was not answered, whose
`ConnectionError` nobody catches.  node-redis differs: it raises `WatchError` when EXEC
is sent on a connection that was replaced since WATCH (`Drops` at `committing`), while a
missing reply to MGET or EXEC ends the call.  An EXEC that Redis carries out after the
client has given up on it needs no action of its own: to everybody else it is the commit
of another request whose worker died.
`RedisRevocationStore.revoke` repeats dropped attempts in the same way.

## Runs

Deadlock is checked wherever there is a clock: a behaviour stops only when every call
has ended and the clock has reached its bound (`Terminated`).  `guarded_call` and
`tool_entry` have no clock and stop when their calls and their work are over;
`Settles` says that a call of the first does not stop earlier.

| run | instance | checks |
|---|---|---|
| `tracker` | 3 calls; a parent (2 calls, 2 usd, 1 per window) with two children, one dying a second earlier, and a plain token; amounts none, -1, 1; 8 ticks | the three caps, `TrackerInv`, `MemoryBounded`, `ImplementsLedger` |
| `revocation` | 2 requests, synchronous or awaited, with or without a tracker; parent and child; 2 revocations, possibly with a too short expiry; 9 ticks | `RevokedNeverRuns` (with a tracker), `NeverDuringAcceptance` (with any), `MarkersRetained`, `NeverShortened` |
| `revocation_boundary` | the same | *violated*: `RevokedNeverRunsAnyGuard` |
| `redis_usage` | 3 calls from processes sharing Redis; two children (2 calls each, interchangeable) of one parent (2 calls, one per window), key TTL of 1 second, 4 ticks, one lost connection | `RateCap`, `KeysExact`, `RefusalJustified`, `ImplementsLedger` |
| `redis_live` | 2 calls, the same tokens, 5 ticks, one lost connection | `Settles` under weak fairness |
| `redis_revocation` | 3 calls of `revoke` for one token with two different expiries; 4 ticks per second | `SharedMarkersRetained`, `SharedNeverShortened` |
| `approvals` | two approvals of one order, expiring one second apart, two tokens, two authorizations, both stores, at most 2 attempts, 5 ticks | `AtMostOnce`, `StoreExact`, `RefusalJustified`, `ContentionCostsOneTry`, `ImplementsPromise` |
| `budget` | 2 calls over six tokens (plain, renewed, delegated, of another budget that is soon over, of none), two budgets, three stores, at most 2 attempts, 4 ticks | `CapsHold`, `EntriesExact`, `ContentionIsProgress`, `ImplementsLedger` |
| `delegation_grant` | a boss under a policy, a worker whose key no policy guards; nine proposals of which six overreach, four calls, verification by registry or by one key | `NoAmplification`, `MintedChildStands` |
| `delegation_keys` | two root keys and a holder key, rotated, replaced and revoked at any moment of a verification | `RevokedKeyIsOut`, `RotationIsSeamless` |
| `guarded_call` | 2 calls; ten ways to guard the tool (synchronous or awaited; plain, coroutine or future for each of store, tracker and callback), nine requests from no token to a delegated limited one | `LimitsCharged`, `RecordTruthful`, `Settles` under weak fairness, `ImplementsPromise` |
| `tool_entry` | a server task, 2 tasks or threads started by handlers, 2 pieces of work, 2 nested blocks, all 47 shapes of tool | `OwnCredential`, `ContextRestored`, `GuardedOnce` |

`RedisUsageTracker`, `RedisRevocation`, `Approvals` and `SharedBudget` state their
types as the first conjunct of the invariant about their store; `revocation`,
`delegation_grant` and `guarded_call` also check `TypeOK`.

Why the bounds are enough.  The clock has two ticks per second (four where Redis
rounds to the nearest second), so that every comparison of a truncated with an
untruncated reading has both outcomes; `MaxTime` reaches the tick at which the
first token of the instance is forgotten, so purges, late reservations and expiring
keys happen.  `MaxTTL` and `MaxLeeway` are the code's 30 and 2 scaled down.  `RateWindow`
is not: the code's window of 60 s is longer than the 35 s at most in which a token can be
charged, so that in the program a window never slides past a call and the rate limit
acts as a limit on calls.  In the runs the window is shorter than a token's life on
purpose, so that both of its ends are exercised; the theorems hold for every value, the
code's included.  A third
call matters where an allowance of two is shared (a lost update needs two calls
and one that profits from it); budgets and approvals are over after the second.
Of the 64 attempts of the code the runs have two: enough for an
attempt that fails and one that follows it, on a lost connection, an abort, or one of each,
and for attempts to run out; the theorems hold for every number.  `MaxDrops` bounds the
connections lost in `RedisUsageTracker`, whose loop has no limit: one is enough for a
call to be charged twice, or to be refused for its own charge.  In `guarded_call` calls meet only in the sink, where one that fails
leaves a line and the next one flushes it: two calls.  The ten guards cover each
kind of store, tracker and callback under each kind of guard that treats it
differently; the kinds do not interact beyond the branch each of them decides.  In
`tool_entry` a credential strays from one piece of work to the next, and a task
started by a started task is the longest chain of inheritance that differs from a
shorter one.  For every run but `redis_revocation` and the liveness runs the theorems
below then hold for every value of the bounds.

Symmetry is used over requests, tokens that no constant tells apart, operators,
started tasks and work; never where liveness is checked.

Fairness.  Two runs assume any.  In `redis_live` each process takes its next round trip
(`WF(Loop(r))`: the threads run, and Redis answers or the call fails) and time
passes.  Strong fairness is not needed: an attempt is repeated only after a commit,
an expiry or a lost connection, and of each there are finitely many (`MaxDrops`: were
connections lost for ever, the loop would go on for ever), so the unlimited retry loop ends.
In `guarded_call` a thread or task that can go on does (`WF(Proceed(c))`), and
trackers and callbacks answer or fail (`WF(Answers(c))`); nothing makes anybody
begin a call or cancel one.  Weak fairness is enough for the sink's lock because
each of finitely many calls takes it once.  No fairness is assumed of callers, operators or administrators.

## Proofs

Eight modules hold theorems, all without assumptions beyond the named ones on the
constants (positive tick rate, well-formed claims with attenuated children, finite
`Request` where calls are counted).  Each inductive invariant was checked by TLC on
the component's run before it was proved.

**`UsageTrackerProofs`.**  The caps speak of everything ever granted, while the
tracker checks only records it has not purged, so they are not inductive.  The
inductive invariant is `TypeOK /\ TrackerInv /\ CallCap /\ AmountCap /\ RateCap`,
where `TrackerInv` says that a record that is held is exact, timestamps of the
window included (`RecordsExact`), that a record that is missing was never needed
or belongs to a token past its retention (`OnlyTheDeadForgotten`), and that the
history counts the grants (`LedgerExact`).  A reservation that gets past the expiry
check under the lock therefore finds exact records.  From the same invariant:
`DenialIsFreeCorrect`, `MemoryBoundedCorrect` and `Implementation`, the refinement
of `UsageLedger`.

**`RevocationProofs`.**  `RetentionIsAcceptance` is the arithmetic heart: for every
tick rate and leeway, a store may forget a token at exactly the tick at which
verification with the largest leeway stops accepting it.  The invariant adds to
`TypeOK` that readings are in the past, that a marked token is in the store for
long enough or dead (`StoreInv`), and that a request warned of a revocation still
has that check ahead of it unless the token is dead (`RequestInv`).  Hence
`RevokedNeverRunsCorrect`, `NeverDuringAcceptanceCorrect`, `MarkersRetainedCorrect`;
and `NeverShortenedCorrect`, since a purge keeps markers as they are and a marker is
only ever replaced by the later of the two ends.

The same module proves what `RedisRevocation` promises (`SharedMarkersRetainedCorrect`,
`SharedNeverShortenedCorrect`), through `Redis`, an instance with `ExpiryArgs` the
naturals, which covers every set of expiries.  The reply to TTL is
rounded to the nearest second, so a call that leaves a marker alone does not know from
it that the marker lasts.  `RedisInv` says instead that a marker reaches the end of
what some call asked for (`MarkersReach`), so that it lasts when no earlier expiry was
named; that the whole seconds a call computed still reach the end of its retention
however late EXEC is (`CallsReach`); and that a marker nobody touched since the
comparison is not longer than the one about to be set (`SetsLengthen`), where the
rounding errs on the safe side.  With `RetentionIsAcceptance` this gives
`SharedRevocationsHold`: under the same proviso there is no tick at which Redis has
forgotten a revocation and a verifier still accepts the token.

**`DelegationProofs`.**  Lemmas on the operators: coverage of capabilities is
transitive, limits compose, `json_value_equal` is equality although Python's `==`
is not.  The invariant: a root token under a policy key was issued within a grant,
and a minted child is attenuated (`TokenInv`); the registry trusts exactly what
administrators want trusted (`KeyInv`); what a verification has established at each
point (`RequestInv`).  Hence `NoAmplificationCorrect`, `RevokedKeyIsOutCorrect`,
`RotationIsSeamlessCorrect`, `MintedChildStandsCorrect`.

**`ToolEntryProofs`.**  That a tool runs on its own work's credential is not inductive:
the guard takes what the context holds.  The invariant adds that a task that serves
holds nothing or a credential of its own work, and so do the frames its open blocks
restore (`HoldsOwn`); that the outermost block of a server task restores the empty
context (`Restores`); and that only server tasks are idle and a task starts without
open blocks (`Fresh`).  A session's task is exempt, since it does hold another's credential:
its messages never look at it.  Hence `CredentialsAreOwn` and `ServersAreClean`.
`GuardedOnceCorrect` needs no invariant beyond the types: it follows the branches of an
invocation, for every shape of tool, and counts the guards on the path to the function.

**`GuardedCallProofs`.**  What a tool that runs, or a line of the log, says of the charge
was decided several steps earlier, and by then the caller may be gone.  The
invariant therefore carries, for every call, what the tracker's answer says of the
charge and what a decision says of that answer (`Charging`); that nothing is
reserved before the checks of the plan are made, nothing told before there is a
decision, and only the holder of the lock is between write and flush (`Deciding`);
and that the one line of a call is unwritten, in the buffer or in the file, as its
program counter and its delivery say (`Recording`).  The heart is
`OwedIsReserved` and `NothingOwed`: what a reservation charges covers what the chain
owes, and a request that may go without a tracker owes nothing.  `FlushedKeeps` is
the one step that moves the lines of other calls.  Hence `LimitsChargedCorrect`,
`RecordTruthfulCorrect` and `Implementation`, the refinement of `AuthorizedCall`.

The three components with optimistic transactions share one argument.  A transaction
is *undisturbed* (`~ dirty`) while none of its watched keys was written or dropped.
The invariant says of an undisturbed transaction that what it has read is what is
there (`Sound`), and of the store that it is exact while it matters; every action is
shown to leave alone the keys that it does not report to `Touched` (`Moves`), so that
the transactions it does not mark keep what they know (`MovesKeepsSound`).

**`RedisUsageTrackerProofs`.**  Redis drops keys by a TTL that was computed from a clock
reading older than EXEC, and refuses nothing by itself.  The invariant `UInv` says that
a key never holds more than was committed (`Bounded`), that it outlasts its token
(`TTLOutlasts`: the rounding of the TTL and the delay of EXEC both err on the safe
side), and that it is exact, down to the stamps in the window of the latest commit,
until then (`Exact`).  An undisturbed transaction has read exact counters, had room,
and no commit on its keys has a later clock reading (`Reads`): without that last part the
rate limit would not be inductive, for a commit could enter a window that is already
full.  Hence `KeysExactCorrect`, `RateCapCorrect` and `Implementation`; and from
`Bounded` alone, which also holds for stale readings, `RefusalJustifiedCorrect`.
`LimitsHoldCorrect` takes the limits from the refinement, since every step of the ledger
keeps within them, and ties the ledger to the commits (`grants`): all of them are counted,
also those whose reply was lost and those of the retry that follows.  It is not true that
a request is charged once; `Accounted` says what is: a call that runs was charged for the
token it presented, and a request commits again only after it lost a connection, since
one that may still commit has lost one since its last commit (`GrantInv`).

**`ApprovalsProofs`.**  The invariant `AInv` says that what is in force was granted for
its resource, that both its keys outlast it, and that a consumed approval is never in
force again (`StoreInv`); that a request about to delete the key, if undisturbed, has
its own approval in force, while one that was disturbed, or lost an attempt to anything
but its connection, is about an approval that is over (`Sound`); and that two consumers have different approvals
(`Unique`).  Hence `AtMostOnceCorrect`, `StoreExactCorrect`, `RefusalJustifiedCorrect`,
`ContentionCostsOneTryCorrect` (an approval that is over stays over, so the attempt after
an abort decides; only lost connections can use up more) and `Implementation`, the refinement of `ApprovalGrant`.

**`SharedBudgetProofs`.**  The caps speak of every call ever charged, the trackers check an
entry that may have been purged.  The invariant `SInv` says of every account that its
totals count the charged calls and respect the limits (`Within`, `RateCap`), and that
its entry is exact until the account is over (`Exact`); of a transaction that is about
to commit and undisturbed, that what it saw is there and fits (`Decided`); and of every
request that the attempts it has used up are accounted for (`Tallied`): by connections it
lost, by charges of other requests to its accounts since its first attempt began (`Made`),
and by one attempt for an account that is over (`Late`).  An attempt that is disturbed owes
it to a charge made since it began, and the attempt after it starts afresh, so no charge
counts for two attempts.  `Pays` is what the local tracker's one step and EXEC have in common,
and the accounts are treated once for both.  Hence `CapsHoldCorrect`,
`EntriesExactCorrect`, `ContentionIsProgressCorrect` (for every retry limit) and
`Implementation`, the refinement of `BudgetLedger`.

Only model-checked: liveness (`Settles` of `RedisUsageTracker` and of `GuardedCall`;
reasoning under fairness is outside the prover's reach).

## Findings

* `revocation_boundary`: without a usage tracker, a verification that passes the
  lifetime check in the last accepted second and reaches the store after it accepts
  a revoked token (`token.py:279-285`, `revocation.py:54`), although `verify` is
  documented to let an incident-response system "immediately invalidate a specific
  token" (`token.py:404-406`).

It needs a call at the very end of a token's acceptance window;
`NeverDuringAcceptance` says what holds instead.

Four smaller things a reader of the properties will meet, which no run claims as
disagreements:

* revoking again with a later expiry may leave the old marker up to half a second
  too short, since Redis rounds the TTL it is compared with (`redis_backend.py:151`):
  hence the proviso of `SharedMarkersRetained`;
* a token may be issued that outlives its approval by up to a second
  (`approvals.py:171`, `token.py:346`); `authorize` and `consume` still refuse it;
* a call whose EXEC committed and whose reply was lost is reserved again by the Redis
  trackers (`redis_backend.py:125`, `budgets.py:192`): it may be charged twice, or be
  refused for its own charge.  No limit is exceeded by it, and every charge is counted;
* a tool whose own `_run` forwards to its function, or whose own `_arun` forwards to its
  coroutine or to `_run`, is guarded at both, and its call charged twice or refused at the
  second guard.  The adapter knows only the forwarders of `StructuredTool` and `BaseTool`
  (`middleware.py:504-519`): LangChain's stock `Tool` and CrewAI's `Tool`, which define
  their own, are in this case.  `GuardedOnce` excludes them (`forwards`) from "exactly
  once", and only says that they are guarded.

## Assumptions

The clock is monotone, and Redis and all verifiers share it.  Generated ids (`jti`,
approval ids) are unique.  Signatures cannot be forged, so a token's `kid` is the
key it was signed with; root keys belong to issuers that consult the policy.  Redis
(external) aborts EXEC when a watched key was written or expired since WATCH (as it
does from 6.0.9 on) and reports TTL to the nearest second; one key is read
atomically.  The clients (external) report a connection lost while keys are watched as
described under *Lost connections*.  A tracker of `GuardedCall` that refuses a call has
not charged it, unless it is one that retries after a lost reply (`guard.retries`, the
Redis trackers), which may refuse it for its own charge: a log may then say "denied" of a
call that was charged.  Amounts are small integers: the decimal arithmetic on them is exact in
the code.  Each call presents its claims intact: parsing and canonical encoding are
abstracted to the claims they carry.

A stream (external) buffers the lines it is given as units and may lose or keep
those a failed flush did not write.  A coroutine that is closed before it is awaited
has no effect; a future goes on by itself.  A new thread starts with an empty
context and a new task with a copy of its parent's (Python's `contextvars`).  How
LangChain, CrewAI and MCP dispatch a call to a tool's attributes, and that an MCP
session has a task of its own, is external: it is taken from what the adapters
test for and say in their comments.

## Not modelled, and why

* A restart of a process with in-memory stores: they are process-local by their
  documentation, and nothing is recovered.
* Cryptography, base64url and JSON encoding: library calls without state.
* The characters of a header (`ToolEntry` keeps: one well-formed credential, none,
  several, malformed), the text of events and exceptions, the CLI.
* What a tool does once it has been entered.
* `IssuerPolicy.from_dict`: configuration parsing.
* The Node SDK's token format.  Its boundary (`js/src/async.js`, `index.js`) makes the
  same checks in the same order as Python's, a promise nobody awaits being a future
  and `AsyncLocalStorage.run` a `use_token` block, so that its behaviours are among
  those of `GuardedCall` and `ToolEntry`; but those are translated from the Python
  sources.  Its shared ledger is a store of `SharedBudget`.
* The Go SDK: its tracker purges and refuses by whole seconds, purges before it
  looks at the chain's expiry, and is always given the whole chain, so that none of
  the modules here is a model of it.  The TypeScript reference has no state.

## Plan

Done: every module of the table above, with its runs; proofs of every safety property
and refinement.  Next: the Go enforcement (`go/enforcement.go`), against `UsageLedger`.
