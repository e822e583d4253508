------------------------------ MODULE PaperBook ------------------------------
(***************************************************************************)
(* What the paper book promises for each idempotency key: one order, which *)
(* is proposed, filled at most once, and reconciled at most once.          *)
(***************************************************************************)

CONSTANT Keys

VARIABLE book   \* book[k]: how far the order of key k has come

BookStatus == {"none", "proposed", "filled", "reconciled"}

Init == book = [k \in Keys |-> "none"]

\* The order of k moves from one status to the next.
Advance(k, from, to) ==
  /\ book[k] = from
  /\ book' = [book EXCEPT ![k] = to]

Next ==
  \E k \in Keys :
    \/ Advance(k, "none", "proposed")
    \/ Advance(k, "proposed", "filled")
    \/ Advance(k, "filled", "reconciled")

Spec == Init /\ [][Next]_book

=============================================================================
