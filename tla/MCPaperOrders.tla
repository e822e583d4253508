---------------------------- MODULE MCPaperOrders ----------------------------
(***************************************************************************)
(* Instances of PaperOrders for TLC: submissions that share one key, and   *)
(* two reconciliations that disagree on its order.                         *)
(***************************************************************************)
EXTENDS PaperOrders

CONSTANTS key, c1

MCKeyOf == [r \in Requests |-> key]

MCTarget == [c \in Reconcilers |-> key]

MCOutcome == [c \in Reconcilers |-> IF c = c1 THEN "matched" ELSE "mismatched"]

MCMeets == [r \in Requests |-> Facts]

=============================================================================
