----------------------------- MODULE LiveIntent -----------------------------
(***************************************************************************)
(* What the reservation of a live order promises for each idempotency key: *)
(* it is taken once, the venue is called at most once and only after the   *)
(* reservation is marked submitted, and the outcome comes after the call.  *)
(***************************************************************************)
EXTENDS Naturals

CONSTANT Keys

VARIABLES
  intent,  \* the status of the key's row in liveOrderIntents
  calls    \* how often the venue was asked to place the key's order

vars == <<intent, calls>>

Init ==
  /\ intent = [k \in Keys |-> "none"]
  /\ calls = [k \in Keys |-> 0]

Mark(k, from, to) ==
  /\ intent[k] = from
  /\ intent' = [intent EXCEPT ![k] = to]
  /\ UNCHANGED calls

Call(k) ==
  /\ intent[k] = "submitted" /\ calls[k] = 0
  /\ calls' = [calls EXCEPT ![k] = 1]
  /\ UNCHANGED intent

Settle(k) ==
  /\ calls[k] = 1
  /\ Mark(k, "submitted", "filled") \/ Mark(k, "submitted", "rejected")

Next ==
  \E k \in Keys :
    \/ Mark(k, "none", "reserved")
    \/ Mark(k, "reserved", "submitted")
    \/ Call(k)
    \/ Settle(k)

Spec == Init /\ [][Next]_vars

=============================================================================
