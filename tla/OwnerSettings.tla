--------------------------- MODULE OwnerSettings ----------------------------
(***************************************************************************)
(* What the owner sets of one wallet mandate and of the investment policy: *)
(* createSimulationMandate and setMandateMode of server/routers.ts and     *)
(* saveInvestmentPolicy of server/db.ts.  A mandate in real mode needs a   *)
(* policy and an authority state that permits orders; both are read before *)
(* the mode is stored.  A policy's values are named by the call that saved *)
(* them.                                                                   *)
(***************************************************************************)
EXTENDS RacingCalls, AuthorityStates

VARIABLES
  mandate,   \* mode of the walletMandates row
  policy,    \* the investmentPolicies row
  authority  \* the owner's authority state

Owner == INSTANCE AuthorityMachine WITH state <- authority

Modes == {"simulation", "armed", "real", "paused"}

NothingSaved == [version |-> 0, values |-> "none"]

Step == {Idle, Done}
   \cup [at : {"policy"}]
   \cup [at : {"mode"}, mode : Modes]
   \cup [at : {"save"}, read : Nat]

TypeOK ==
  /\ mandate \in Modes \cup {"none"}
  /\ policy \in [version : Nat, values : Calls] \cup {NothingSaved}
  /\ authority \in AuthorityState
  /\ pc \in [Calls -> Step]

\* The owner has come any way down the ladder before.
Init ==
  /\ mandate = "none" /\ policy = NothingSaved
  /\ authority \in {"disabled", "approval-required-live"}

-----------------------------------------------------------------------------

CreateMandate(c) ==
  /\ pc[c] = Idle /\ mandate = "none"
  /\ mandate' = "simulation"
  /\ Becomes(c, Done)
  /\ UNCHANGED <<policy, authority>>

\* Only real mode is checked: first the authority state.
SetMode(c) ==
  /\ pc[c] = Idle /\ mandate # "none"
  /\ \/ CanPlaceOrders(authority) /\ Becomes(c, [at |-> "policy"])
     \/ \E mode \in Modes \ {"real"} : Becomes(c, [at |-> "mode", mode |-> mode])
  /\ UNCHANGED <<mandate, policy, authority>>

\* Then the policy.
CheckPolicy(c) ==
  /\ At(c, "policy")
  /\ Becomes(c, IF policy = NothingSaved THEN Done ELSE [at |-> "mode", mode |-> "real"])
  /\ UNCHANGED <<mandate, policy, authority>>

StoreMode(c) ==
  /\ At(c, "mode")
  /\ mandate' = pc[c].mode
  /\ Becomes(c, Done)
  /\ UNCHANGED <<policy, authority>>

SavePolicy(c) ==
  /\ pc[c] = Idle
  /\ Becomes(c, [at |-> "save", read |-> policy.version])
  /\ UNCHANGED <<mandate, policy, authority>>

\* An insert that becomes an update of the owner's one row.
StorePolicy(c) ==
  /\ At(c, "save")
  /\ policy' = [version |-> pc[c].read + 1, values |-> c]
  /\ Becomes(c, Done)
  /\ UNCHANGED <<mandate, authority>>

\* changeAuthorityState, whose own races are in AuthorityControl.
MoveAuthority(c) ==
  /\ pc[c] = Idle
  /\ Owner!Next
  /\ Becomes(c, Done)
  /\ UNCHANGED <<mandate, policy>>

Next ==
  \E c \in Calls :
    \/ CreateMandate(c)
    \/ SetMode(c)
    \/ CheckPolicy(c)
    \/ StoreMode(c)
    \/ SavePolicy(c)
    \/ StorePolicy(c)
    \/ MoveAuthority(c)
    \/ Fail(c) /\ UNCHANGED <<mandate, policy, authority>>

=============================================================================
