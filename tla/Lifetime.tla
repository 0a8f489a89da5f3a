------------------------------- MODULE Lifetime -------------------------------
(***************************************************************************)
(* Time as the library reads it.  The wall clock advances in ticks,        *)
(* TicksPerSecond to a second: the stores compare the clock itself         *)
(* (time.time(), a float), while verification truncates it to whole        *)
(* seconds (int(time.time())).  The two readings disagree inside a second, *)
(* and the bounds of swarmauth/limits.py exist because of it.              *)
(***************************************************************************)
EXTENDS Integers

CONSTANTS
    TicksPerSecond,     \* resolution of the clock
    MaxTTL,             \* MAX_TTL_SECONDS
    MaxLeeway           \* MAX_LEEWAY_SECONDS

ASSUME LifetimeAssumption ==
    /\ TicksPerSecond \in Nat \ {0}
    /\ MaxTTL \in Nat \ {0}
    /\ MaxLeeway \in Nat

(* Mutant: what the stores know is kept for the leeway only.               *)
RetentionWithoutGrace == MaxLeeway

(* Verification accepts the whole second exp + leeway, so what the stores  *)
(* keep about a token is kept one second longer than the leeway.           *)
RetentionAfterExp == MaxLeeway + 1

(* int(time.time()): the whole second that contains tick t.                *)
Seconds(t) == t \div TicksPerSecond

(* The first tick at which a store may forget a token that expires at exp. *)
RetainedUntil(exp) == (exp + RetentionAfterExp) * TicksPerSecond

(* The lifetime checks of verification, at tick t with the given leeway.   *)
NotYetValid(t, iat, leeway) == Seconds(t) < iat - leeway
Expired(t, exp, leeway)     == Seconds(t) > exp + leeway

LifetimeOK(t, iat, exp, leeway) ==
    /\ exp - iat <= MaxTTL
    /\ ~ NotYetValid(t, iat, leeway)
    /\ ~ Expired(t, exp, leeway)
=============================================================================
