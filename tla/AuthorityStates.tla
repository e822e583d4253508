--------------------------- MODULE AuthorityStates ---------------------------
(***************************************************************************)
(* The pure part of the authority state machine: shared/authorityState.ts. *)
(* One value of AuthorityState is stored per owner and gates every         *)
(* sensitive path of the server.                                           *)
(***************************************************************************)

AuthorityState ==
  {"disabled", "sandbox-only", "read-only-live", "approval-required-live",
   "limited-live", "paused", "revoked"}

ORDER_PLACING_STATES == {"approval-required-live", "limited-live"}

READ_ONLY_LIVE_STATES == {"read-only-live"} \cup ORDER_PLACING_STATES

ALLOWED_TRANSITIONS ==
  [s \in AuthorityState |->
     CASE s = "disabled"               -> {"sandbox-only"}
       [] s = "sandbox-only"           -> {"disabled", "read-only-live"}
       [] s = "read-only-live"         -> {"sandbox-only", "approval-required-live",
                                           "paused", "revoked"}
       [] s = "approval-required-live" -> {"read-only-live", "limited-live",
                                           "paused", "revoked"}
       [] s = "limited-live"           -> {"approval-required-live", "paused",
                                           "revoked"}
       [] s = "paused"                 -> {"sandbox-only", "revoked"}
       [] s = "revoked"                -> {}]

\* evaluateAuthorityTransition(...).allowed
TransitionAllowed(from, to) == to \in ALLOWED_TRANSITIONS[from]

CanPlaceOrders(s) == s \in ORDER_PLACING_STATES

CanReadLive(s) == s \in READ_ONLY_LIVE_STATES

IsBlockedByDominantState(s) == s \in {"paused", "revoked", "disabled"}

\* assertAuthorityAllows(s, action) does not throw.
AuthorityAllows(s, action) ==
  /\ ~IsBlockedByDominantState(s)
  /\ action \in {"place-order", "cancel-order"} => CanPlaceOrders(s)
  /\ action = "read-live" => CanReadLive(s)

=============================================================================
