----------------------------- MODULE Capabilities -----------------------------
(***************************************************************************)
(* Capabilities and pinned parameters, the two comparisons every grant,    *)
(* delegation and call goes through (swarmauth/token.py).                  *)
(*                                                                         *)
(* A capability is the sequence of the segments a colon separates:         *)
(* "tool:read" is <<"tool", "read">>.  A pinned value is a pair of a JSON  *)
(* type and a value; a boolean has the values 0 and 1, which Python's ==   *)
(* would take for the numbers.                                             *)
(***************************************************************************)
EXTENDS Limits, Sequences

Star == "*"

Wildcard(item) == Len(item) >= 2 /\ item[Len(item)] = Star

(* "tool:*" covers what starts with "tool:"; "*" alone is no wildcard.     *)
Covers(item, capability) ==
    \/ capability = item
    \/ /\ Wildcard(item)
       /\ Len(capability) >= Len(item)
       /\ \A i \in 1 .. Len(item) - 1 : capability[i] = item[i]

capability_covered(capability, granted) ==
    \E item \in granted : Covers(item, capability)

(* Python's ==, for which True is 1.                                       *)
PythonEqual(left, right) ==
    /\ left.value = right.value
    /\ left.type = right.type \/ {left.type, right.type} = {"bool", "number"}

(* Structural equality that keeps true apart from 1.                       *)
json_value_equal(left, right) ==
    /\ left.type = "bool" \/ right.type = "bool" => left.type = right.type
    /\ PythonEqual(left, right)

(* Every parameter that is pinned is given, with the pinned value.  Pins   *)
(* and parameters are functions of the parameters' names, None if absent.  *)
Honours(params, pins) ==
    \A name \in DOMAIN pins : pins[name] # None =>
        params[name] # None /\ json_value_equal(params[name], pins[name])
=============================================================================
