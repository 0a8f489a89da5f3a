----------------------------- MODULE GuardedCall -----------------------------
(***************************************************************************)
(* One tool behind guard or async_guard (swarmauth/middleware.py and       *)
(* swarmauth/asyncio.py), its decision callback (swarmauth/events.py), and *)
(* the concurrent calls of the tool, from the token to the tool's first    *)
(* instruction.  The store, the tracker and the callback may each answer   *)
(* at once or return an awaitable, fail, or answer after the caller is     *)
(* gone; a task of async_guard may be cancelled wherever it suspends.      *)
(*                                                                         *)
(* What the tracker counts is left to UsageTracker, RedisUsageTracker and  *)
(* SharedBudget, and when a token is revoked to Revocation: here their     *)
(* answers are nondeterministic, and every call has a token of its own.    *)
(* A verdict of the signature, lifetime, audience, capability and          *)
(* parameter checks (Delegation) is one Boolean of the request.            *)
(***************************************************************************)
EXTENDS Naturals, Sequences, FiniteSets

CONSTANTS
    Call,               \* the calls of the guarded tool
    Guards,             \* the ways the tool may be guarded
    Asks,               \* what may be presented
    None                \* no one holds the lock of the sink

Jti == {"self", "parent"}

(* What is passed to guard.  "coroutine" and "future" are awaitables; a    *)
(* future goes on when nobody awaits it.  chain, requires_chain and        *)
(* budgets are the attributes verify_and_check looks up on a tracker.  One *)
(* that retries (the Redis trackers) charges a call again when the reply   *)
(* to its charge is lost.                                                  *)
GuardType ==
    [awaits : BOOLEAN, store : {"none", "plain", "coroutine"},
     tracker : {"none", "plain", "coroutine", "future"},
     chain : BOOLEAN, requires_chain : BOOLEAN, budgets : BOOLEAN, retries : BOOLEAN,
     sink : {"none", "jsonl", "plain", "coroutine", "future"}]

AskType ==
    [token : BOOLEAN, binds : BOOLEAN, accepted : BOOLEAN, delegated : BOOLEAN,
     limited : BOOLEAN, parent_limited : BOOLEAN, shared_budget : BOOLEAN,
     priced : BOOLEAN, amount : {"missing", "bad", "ok"}]

(* A child that is accepted keeps every limit of its parent                *)
(* (Delegation!Attenuated), and a price is a limit.                        *)
ASSUME GuardedCallAssumption ==
    /\ None \notin Call
    /\ Guards \subseteq GuardType
    /\ \A g \in Guards : g.tracker = "none" =>
          ~g.chain /\ ~g.requires_chain /\ ~g.budgets /\ ~g.retries
    /\ Asks \subseteq AskType
    /\ \A a \in Asks : /\ a.parent_limited => a.delegated /\ a.limited
                       /\ a.priced => a.limited

VARIABLES
    guard,              \* how the tool is guarded
    call,               \* the state of every call
    lock,               \* JsonlDecisionSink._lock: the call that holds it
    buffer,             \* the lines written and not flushed, by call
    file,               \* the decisions that reached the sink, by call
    charged             \* history: the token IDs charged for every call

vars == <<guard, call, lock, buffer, file, charged>>

Ended == {"executed", "denied", "raised", "cancelled"}

TypeOK ==
    /\ guard \in Guards
    /\ call \in [Call -> [pc : {"idle", "verifying", "awaiting", "delivering", "flushing",
                                "notifying", "returning"} \cup Ended,
                          ask : Asks, plan : Seq(Jti \cup {"checks"}),
                          decision : {"none", "allowed", "denied"},
                          reservation : {"none", "sent", "done", "refused", "failed"},
                          delivery : {"none", "sent", "done", "failed"}]]
    /\ lock \in Call \cup {None}
    /\ buffer \in [Call -> Seq({"allowed", "denied"})]
    /\ file \in [Call -> Seq({"allowed", "denied"})]
    /\ charged \in [Call -> SUBSET Jti]

-----------------------------------------------------------------------------
(* The checks of the request that read no shared state.                    *)
Refused(a) ==
    \/ ~a.accepted
    \/ a.shared_budget /\ ~guard.budgets
    \/ a.limited /\ guard.tracker = "none"
    \/ a.priced /\ a.amount = "missing"
    \/ a.amount = "bad"

(* The order of the checks: CapabilityToken.verify asks the store about    *)
(* the token and then its parent; async_verify_and_check verifies without  *)
(* a store and then asks about the parent and the token.                   *)
Plan(a) ==
    LET parent == IF a.delegated THEN <<"parent">> ELSE <<>> IN
    CASE guard.store = "none" -> <<"checks">>
      [] guard.store # "none" /\ guard.awaits -> <<"checks">> \o parent \o <<"self">>
      [] OTHER -> <<"self">> \o parent \o <<"checks">>

NeedsChain(a) == a.delegated /\ (a.parent_limited \/ guard.requires_chain)

(* Mutant: a delegated call is charged to the child alone.                 *)
ReservedChildOnly(a) == {"self"}

(* The allowances that one reservation charges together.                   *)
Reserved(a) == IF NeedsChain(a) THEN Jti ELSE {"self"}

Awaitable(part) == part \in {"coroutine", "future"}

(* Mutant: the name of the decision is taken for the outcome.              *)
AfterByName(decision) == decision

After(decision) == IF decision = "allowed" THEN "returning" ELSE "denied"

Decided(c, decision) ==
    [call EXCEPT ![c].decision = decision,
                 ![c].pc = IF guard.sink = "none" THEN After(decision) ELSE "delivering"]

At(c, pc) == [call EXCEPT ![c].pc = pc]

Init ==
    /\ guard \in Guards
    /\ call \in [Call -> {[pc |-> "idle", ask |-> a, plan |-> <<>>, decision |-> "none",
                           reservation |-> "none", delivery |-> "none"] : a \in Asks}]
    /\ lock = None
    /\ buffer = [c \in Call |-> <<>>]
    /\ file = [c \in Call |-> <<>>]
    /\ charged = [c \in Call |-> {}]

(* The wrapper: a call without a token is denied; arguments that do not    *)
(* bind to the signature raise TypeError before anything is decided.       *)
Begin(c) ==
    LET a == call[c].ask IN
    /\ call[c].pc = "idle"
    /\ call' = CASE ~a.token -> Decided(c, "denied")
                 [] a.token /\ ~a.binds -> At(c, "raised")
                 [] OTHER -> [call EXCEPT ![c].pc = "verifying", ![c].plan = Plan(a)]
    /\ UNCHANGED <<guard, lock, buffer, file, charged>>

Verifying(c, steps) ==
    call[c].pc = "verifying" /\ call[c].plan # <<>> /\ Head(call[c].plan) \in steps

(* The signature, the audience or the parent may be refused between the    *)
(* two questions to the store.                                             *)
Check(c) ==
    /\ \/ /\ Verifying(c, {"checks"} \cup Jti) /\ Refused(call[c].ask)
          /\ Head(call[c].plan) = "checks" \/ ~call[c].ask.accepted
          /\ call' = Decided(c, "denied")
       \/ /\ Verifying(c, {"checks"}) /\ ~Refused(call[c].ask)
          /\ call' = [call EXCEPT ![c].plan = Tail(@)]
    /\ UNCHANGED <<guard, lock, buffer, file, charged>>

(* is_revoked: no, yes, or an error of the store, which is no              *)
(* SwarmAuthError and leaves no decision.  Unawaited, the coroutine of an  *)
(* asynchronous store is true: the token counts as revoked.                *)
Lookup(c) ==
    LET unawaited == Awaitable(guard.store) /\ ~guard.awaits IN
    /\ Verifying(c, Jti)
    /\ \/ ~unawaited /\ call' = [call EXCEPT ![c].plan = Tail(@)]
       \/ call' = Decided(c, "denied")
       \/ ~unawaited /\ call' = At(c, "raised")
    /\ UNCHANGED <<guard, lock, buffer, file, charged>>

(* The reservation is asked for.  _require_sync closes a coroutine before  *)
(* it has run and raises TypeError; a future is left running.              *)
Reserve(c) ==
    /\ call[c].pc = "verifying" /\ call[c].plan = <<>>
    /\ call' =
          CASE guard.tracker = "none" -> Decided(c, "allowed")
            [] guard.tracker # "none" /\ NeedsChain(call[c].ask) /\ ~guard.chain -> Decided(c, "denied")
            [] OTHER ->
                  LET unawaited == Awaitable(guard.tracker) /\ ~guard.awaits
                      runs == ~(unawaited /\ guard.tracker = "coroutine")
                  IN  [call EXCEPT ![c].pc = IF unawaited THEN "raised" ELSE "awaiting",
                                   ![c].reservation = IF runs THEN "sent" ELSE @]
    /\ UNCHANGED <<guard, lock, buffer, file, charged>>

(* The tracker charges the allowances and answers, or refuses, or fails    *)
(* before or after it has charged them; one that retries may refuse a call *)
(* for what its own first charge has used up.  It does so whether or not   *)
(* the caller is still there.                                              *)
TrackerAnswers(c) ==
    /\ call[c].reservation = "sent"
    /\ \E answer \in {"done", "refused", "failed"}, charges \in BOOLEAN :
          /\ answer = "done" => charges
          /\ answer = "refused" => ~charges \/ guard.retries
          /\ call' = [call EXCEPT ![c].reservation = answer]
          /\ charged' = [charged EXCEPT ![c] = IF charges THEN Reserved(call[c].ask) ELSE @]
    /\ UNCHANGED <<guard, lock, buffer, file>>

(* Only a SwarmAuthError is told as a denial.                              *)
Reserving(c) ==
    /\ call[c].pc = "awaiting"
    /\ \/ call[c].reservation = "done" /\ call' = Decided(c, "allowed")
       \/ call[c].reservation = "refused" /\ call' = Decided(c, "denied")
       \/ call[c].reservation = "failed" /\ call' = At(c, "raised")
    /\ UNCHANGED <<guard, lock, buffer, file, charged>>

-----------------------------------------------------------------------------
(* on_decision is called: a JsonlDecisionSink, or a callback of the        *)
(* application's own, which _require_sync or the await gives an end.       *)
Notify(c) ==
    LET unawaited == Awaitable(guard.sink) /\ ~guard.awaits
        runs == ~(unawaited /\ guard.sink = "coroutine")
    IN
    /\ call[c].pc = "delivering" /\ guard.sink # "jsonl"
    /\ call' = [call EXCEPT ![c].pc = IF unawaited THEN "raised" ELSE "notifying",
                            ![c].delivery = IF runs THEN "sent" ELSE @]
    /\ UNCHANGED <<guard, lock, buffer, file, charged>>

(* The callback records the event, or fails before or after it has.        *)
CallbackAnswers(c) ==
    /\ call[c].delivery = "sent"
    /\ \E answer \in {"done", "failed"}, records \in BOOLEAN :
          /\ answer = "done" => records
          /\ call' = [call EXCEPT ![c].delivery = answer]
          /\ file' = [file EXCEPT ![c] = IF records THEN Append(@, call[c].decision) ELSE @]
    /\ UNCHANGED <<guard, lock, buffer, charged>>

(* Mutant: the allowed event is told inside the try, and a callback that   *)
(* raises a SwarmAuthError is answered with a second event.                *)
NotifiedInsideTry(c) ==
    /\ call[c].pc = "notifying"
    /\ \/ call[c].delivery = "done" /\ call' = At(c, After(call[c].decision))
       \/ /\ call[c].delivery = "failed" /\ call[c].decision = "allowed"
          /\ call' = [call EXCEPT ![c].pc = "delivering", ![c].decision = "denied"]
       \/ call[c].delivery = "failed" /\ call[c].decision = "denied" /\ call' = At(c, "raised")
    /\ UNCHANGED <<guard, lock, buffer, file, charged>>

(* The exception of a callback replaces the decision: the tool does not    *)
(* run, and no second event is told.                                       *)
Notified(c) ==
    /\ call[c].pc = "notifying"
    /\ \/ call[c].delivery = "done" /\ call' = At(c, After(call[c].decision))
       \/ call[c].delivery = "failed" /\ call' = At(c, "raised")
    /\ UNCHANGED <<guard, lock, buffer, file, charged>>

(* JsonlDecisionSink.__call__ up to the flush, under the lock.  A write    *)
(* that fails may have left the line in the stream's buffer.               *)
Write(c) ==
    /\ call[c].pc = "delivering" /\ guard.sink = "jsonl" /\ lock = None
    /\ \/ /\ lock' = c /\ call' = At(c, "flushing")
          /\ buffer' = [buffer EXCEPT ![c] = Append(@, call[c].decision)]
       \/ /\ call' = At(c, "raised") /\ UNCHANGED lock
          /\ \/ UNCHANGED buffer
             \/ buffer' = [buffer EXCEPT ![c] = Append(@, call[c].decision)]
    /\ UNCHANGED <<guard, file, charged>>

Flush(c) ==
    /\ call[c].pc = "flushing"
    /\ file' = [d \in Call |-> file[d] \o buffer[d]]
    /\ buffer' = [d \in Call |-> <<>>]
    /\ lock' = None
    /\ call' = At(c, After(call[c].decision))
    /\ UNCHANGED <<guard, charged>>

(* Mutant: the lock is released after the flush instead of by `with`.      *)
FlushFailsLocked(c) ==
    /\ call[c].pc = "flushing"
    /\ call' = At(c, "raised")
    /\ UNCHANGED <<guard, lock, buffer, file, charged>>

(* A flush that fails may have written some of the lines, and the stream   *)
(* may keep the others for a later flush or drop them.  The lock is freed. *)
FlushFails(c) ==
    /\ call[c].pc = "flushing"
    /\ \E out \in SUBSET {d \in Call : buffer[d] # <<>>}, keeps \in BOOLEAN :
          /\ file' = [d \in Call |-> IF d \in out THEN file[d] \o buffer[d] ELSE file[d]]
          /\ buffer' = [d \in Call |-> IF d \in out \/ ~keeps THEN <<>> ELSE buffer[d]]
    /\ lock' = None
    /\ call' = At(c, "raised")
    /\ UNCHANGED <<guard, charged>>

(* The decorated function is entered.                                      *)
Execute(c) ==
    /\ call[c].pc = "returning"
    /\ call' = At(c, "executed")
    /\ UNCHANGED <<guard, lock, buffer, file, charged>>

Suspended(c) ==
    /\ guard.awaits
    /\ \/ Verifying(c, Jti) /\ Awaitable(guard.store)
       \/ call[c].pc = "awaiting" /\ Awaitable(guard.tracker)
       \/ call[c].pc = "notifying" /\ Awaitable(guard.sink)

(* Mutant: CancelledError is caught with the SwarmAuthErrors.              *)
CancelledIsDenied(c) ==
    /\ Suspended(c) /\ call[c].decision = "none"
    /\ call' = Decided(c, "denied")
    /\ UNCHANGED <<guard, lock, buffer, file, charged>>

(* The task is cancelled where it suspends.  CancelledError is no          *)
(* SwarmAuthError: nothing is told, and what was sent is not taken back.   *)
Cancel(c) ==
    /\ Suspended(c)
    /\ call' = At(c, "cancelled")
    /\ UNCHANGED <<guard, lock, buffer, file, charged>>

Proceed(c) ==
    \/ Check(c) \/ Lookup(c) \/ Reserve(c) \/ Reserving(c)
    \/ Notify(c) \/ Notified(c) \/ Write(c) \/ Flush(c) \/ FlushFails(c) \/ Execute(c)

Answers(c) == TrackerAnswers(c) \/ CallbackAnswers(c)

Next == \E c \in Call : Begin(c) \/ Proceed(c) \/ Answers(c) \/ Cancel(c)

Spec == Init /\ [][Next]_vars

(* A thread or task that can go on does, and trackers and callbacks answer *)
(* or fail.  No one has to begin a call or to cancel one.                  *)
FairSpec == Spec /\ \A c \in Call : WF_vars(Proceed(c)) /\ WF_vars(Answers(c))

-----------------------------------------------------------------------------
(* The limits a call has to be charged for: the token's own, and those the *)
(* parent carries, which all of its children share.                        *)
Owed(a) ==
    {j \in Jti : \/ j = "self" /\ a.limited
                 \/ j = "parent" /\ (a.parent_limited \/ (a.delegated /\ guard.requires_chain))}

(* A tool that runs has been charged for every limit in its token's chain, *)
(* and for the whole chain when the tracker asks for it, whichever tracker *)
(* is configured and however it answers.                                   *)
LimitsCharged ==
    \A c \in Call : call[c].pc \in {"returning", "executed"} => Owed(call[c].ask) \subseteq charged[c]

(* The decision log is true, also for calls that were cancelled, raised or *)
(* answered late: one line at most per call; "allowed" only once the       *)
(* limits are charged; "denied" only if the tool never runs and nothing is *)
(* ever charged, except by a tracker that retries and refused the call for *)
(* its own charge; and a tool that runs has its line.  A line that a       *)
(* failed flush left in the buffer counts, since a later flush writes it.  *)
RecordTruthful ==
    \A c \in Call :
        LET lines == file[c] \o buffer[c] IN
        /\ Len(lines) <= 1
        /\ lines = <<"allowed">> => Owed(call[c].ask) \subseteq charged[c]
        /\ lines = <<"denied">> =>
              /\ charged[c] # {} => guard.retries /\ call[c].reservation = "refused"
              /\ call[c].pc \notin {"returning", "executed"}
        /\ call[c].pc \in {"returning", "executed"} /\ guard.sink # "none" => file[c] = <<"allowed">>

(* Every call that was begun ends, whatever fails on its way: no failure   *)
(* of the sink leaves its lock held for the calls that come after it.      *)
Settles == \A c \in Call : call[c].pc # "idle" ~> call[c].pc \in Ended

Promise ==
    INSTANCE AuthorizedCall WITH
        terms <- [c \in Call |-> [owed |-> Owed(call[c].ask), audited |-> guard.sink # "none",
                                  retried |-> guard.retries]],
        told <- file,
        stage <- [c \in Call |-> CASE call[c].pc = "executed" -> "ran"
                                   [] call[c].pc \in {"denied", "raised", "cancelled"} -> "closed"
                                   [] OTHER -> "open"]

(* The guarded call does nothing but what AuthorizedCall promises, in that *)
(* order: charged, told, run.                                              *)
ImplementsPromise == Promise!Spec
=============================================================================
