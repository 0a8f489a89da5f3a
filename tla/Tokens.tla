-------------------------------- MODULE Tokens --------------------------------
(***************************************************************************)
(* The signed claims that enforcement reads.  A token stands for its jti;  *)
(* capabilities, audience, pinned parameters and the signature are left    *)
(* out here: the tokens of this module are the ones whose signature,       *)
(* capability, audience and attenuation checks succeed.  An optional claim *)
(* is None when the token does not carry it.                               *)
(***************************************************************************)
EXTENDS Lifetime, Limits

CONSTANTS Token, Claims

ClaimsType == [iat : Int, exp : Int, prf : Token \cup {None}, dlg : BOOLEAN,
               max_calls : Limit, max_amount_usd : Limit,
               rate_limit_per_min : Limit]

(* What _assert_attenuated guarantees of a child and its parent.           *)
Attenuated(parent, child) ==
    /\ parent.prf = None
    /\ parent.dlg
    /\ ~ child.dlg
    /\ parent.iat <= child.iat
    /\ child.exp <= parent.exp
    /\ ~ limit_is_wider(child.max_calls, parent.max_calls)
    /\ ~ limit_is_wider(child.max_amount_usd, parent.max_amount_usd)
    /\ ~ limit_is_wider(child.rate_limit_per_min, parent.rate_limit_per_min)

ASSUME TokensAssumption ==
    /\ None \notin Int
    /\ None \notin Token
    /\ Claims \in [Token -> ClaimsType]
    /\ \A t \in Token : Claims[t].iat < Claims[t].exp
    /\ \A t \in Token : Claims[t].prf # None =>
          /\ Claims[t].prf # t
          /\ Attenuated(Claims[Claims[t].prf], Claims[t])

(* Does the token carry a limit that only a usage tracker can enforce?     *)
Stateful(t) ==
    \/ Claims[t].max_calls # None
    \/ Claims[t].max_amount_usd # None
    \/ Claims[t].rate_limit_per_min # None

(* The token and, when it is delegated, the parent it carries as proof.    *)
Chain(t) == IF Claims[t].prf = None THEN {t} ELSE {Claims[t].prf, t}

(* The jtis a call presenting t is counted against: the parent's as well   *)
(* as soon as the parent is stateful, which siblings then share.           *)
RecordedChain(t) ==
    IF Claims[t].prf # None /\ Stateful(Claims[t].prf) THEN Chain(t) ELSE {t}

(* Verification of a presented token and of its parent.  One tick stands   *)
(* for the two clock readings: the child's life lies within the parent's.  *)
VerifiedAt(t, at) ==
    /\ ~ Claims[t].dlg
    /\ \A c \in Chain(t) : LifetimeOK(at, Claims[c].iat, Claims[c].exp, MaxLeeway)

(* A token that caps the amount needs an explicit amount, and every amount *)
(* that is given is a finite, non-negative number.                         *)
ValidAmount(t, amount) ==
    /\ Claims[t].max_amount_usd # None => amount # None
    /\ amount # None => amount >= 0

ResolvedAmount(amount) == IF amount = None THEN 0 ELSE amount
=============================================================================
