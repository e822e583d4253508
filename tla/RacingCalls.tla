---------------------------- MODULE RacingCalls -----------------------------
(***************************************************************************)
(* Procedure calls of one owner that race over a row.  A handler runs from *)
(* one await to the next without interruption, so a step of a call is what *)
(* it does between two awaits; pc[c] says which await call c is at and what *)
(* it has read so far.                                                     *)
(***************************************************************************)
EXTENDS Naturals

CONSTANT Calls  \* each made at most once

VARIABLE pc

Idle == [at |-> "idle"]
Done == [at |-> "done"]

Waiting == [c \in Calls |-> Idle]

At(c, place) == pc[c].at = place

Becomes(c, step) == pc' = [pc EXCEPT ![c] = step]

\* Calls that have been made and have not ended.
Busy == {c \in Calls : pc[c] \notin {Idle, Done}}

\* A rejected await ends its call; what the call has stored stays.
Fail(c) ==
  /\ c \in Busy
  /\ Becomes(c, Done)

=============================================================================
