---------------------------- MODULE MCLiveOrders ----------------------------
(***************************************************************************)
(* Instances of LiveOrders for TLC: calls that share a key, and one of     *)
(* another key that competes with them for the day's budget.               *)
(***************************************************************************)
EXTENDS LiveOrders

CONSTANTS k1, k2, r2, r3

MCKeyOf == [r \in Requests |-> IF r = r3 THEN k2 ELSE k1]

\* The second call of the key asks for more than the first.
MCNotional == [r \in Requests |-> IF r = r3 THEN 1 ELSE IF r = r2 THEN 3 ELSE 2]

\* The call of the other key computes the smaller cap.
MCCap == [r \in Requests |-> IF r = r3 THEN 2 ELSE 3]

\* Wide enough for every call.
MCWideCap == [r \in Requests |-> 9]

=============================================================================
