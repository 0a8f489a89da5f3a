---------------------------- MODULE MCGuardedCall ----------------------------
(* Two concurrent calls of one tool, behind every kind of guard: guard and *)
(* async_guard, with each kind of tracker and of decision callback, and    *)
(* with each kind of request, the ones that fail before a token is looked  *)
(* at included.                                                            *)
EXTENDS GuardedCall, TLC

CONSTANTS c1, c2

Guard(awaits, store, tracker, attributes, sink) ==
    [awaits |-> awaits, store |-> store, tracker |-> tracker, sink |-> sink,
     chain |-> "chain" \in attributes, requires_chain |-> "requires_chain" \in attributes,
     budgets |-> "budgets" \in attributes, retries |-> "retries" \in attributes]

GuardKinds ==
    {Guard(FALSE, "plain", "plain", {"chain"}, "jsonl"),
     Guard(FALSE, "none", "plain", {}, "plain"),
     Guard(FALSE, "plain", "plain", {"chain", "requires_chain", "budgets", "retries"}, "none"),
     Guard(FALSE, "none", "none", {}, "future"),
     Guard(FALSE, "coroutine", "future", {"chain"}, "plain"),
     Guard(FALSE, "none", "future", {"chain"}, "coroutine"),
     Guard(FALSE, "none", "coroutine", {"chain"}, "none"),
     Guard(TRUE, "coroutine", "coroutine", {"chain", "retries"}, "future"),
     Guard(TRUE, "plain", "future", {"chain", "requires_chain", "budgets"}, "jsonl"),
     Guard(TRUE, "none", "plain", {}, "coroutine")}

Ask(amount, claims) ==
    [token |-> "no token" \notin claims, binds |-> "unbound" \notin claims,
     accepted |-> "refused" \notin claims, delegated |-> "delegated" \in claims,
     limited |-> "limited" \in claims, parent_limited |-> "parent limited" \in claims,
     shared_budget |-> "shared" \in claims, priced |-> "priced" \in claims, amount |-> amount]

AskKinds ==
    {Ask("missing", {"no token"}),
     Ask("missing", {"unbound"}),
     Ask("missing", {"refused", "delegated"}),
     Ask("missing", {}),
     Ask("missing", {"delegated"}),
     Ask("missing", {"limited", "priced"}),
     Ask("bad", {"limited", "priced"}),
     Ask("ok", {"delegated", "limited", "priced", "parent limited"}),
     Ask("ok", {"limited", "shared"})}
=============================================================================
