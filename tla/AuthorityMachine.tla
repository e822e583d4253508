-------------------------- MODULE AuthorityMachine ---------------------------
(***************************************************************************)
(* What the authority state machine promises: one owner's state moves only *)
(* along the allowed edges, one edge at a time.  AuthorityControl is the   *)
(* server's implementation of it; the other modules use Move as the        *)
(* owner's action.                                                         *)
(***************************************************************************)
EXTENDS AuthorityStates

VARIABLE state

\* No row in authorityControls reads as "disabled".
Init == state = "disabled"

Move(to) ==
  /\ TransitionAllowed(state, to)
  /\ state' = to

Next == \E to \in AuthorityState : Move(to)

Spec == Init /\ [][Next]_state

=============================================================================
