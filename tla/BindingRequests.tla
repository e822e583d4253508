-------------------------- MODULE BindingRequests ---------------------------
(***************************************************************************)
(* One binding change request of the owner's: requestBindingChange and     *)
(* reviewBindingChangeRequest of server/routers.ts.  The review is the one *)
(* store of the server that names the status it expects.                   *)
(***************************************************************************)
EXTENDS RacingCalls

VARIABLES
  request,   \* status of the bindingChangeRequests row
  announced  \* decisions the operator log gives for it

Decisions == {"approved", "rejected"}
RequestStatus == {"none", "pending"} \cup Decisions

Step == {Idle, Done} \cup [at : {"store", "announce"}, decision : Decisions]

TypeOK ==
  /\ request \in RequestStatus
  /\ announced \subseteq Decisions
  /\ pc \in [Calls -> Step]

Init == request = "none" /\ announced = {}

-----------------------------------------------------------------------------

RequestChange(c) ==
  /\ pc[c] = Idle /\ request = "none"
  /\ request' = "pending"
  /\ Becomes(c, Done)
  /\ UNCHANGED announced

Review(c) ==
  /\ pc[c] = Idle /\ request = "pending"
  /\ \E decision \in Decisions : Becomes(c, [at |-> "store", decision |-> decision])
  /\ UNCHANGED <<request, announced>>

\* Mutant: the update names the request only.
StoreUnconditionally(c) ==
  /\ At(c, "store")
  /\ request' = pc[c].decision
  /\ Becomes(c, [pc[c] EXCEPT !.at = "announce"])
  /\ UNCHANGED announced

Store(c) ==
  /\ At(c, "store")
  /\ request' = IF request = "pending" THEN pc[c].decision ELSE request
  /\ Becomes(c, [pc[c] EXCEPT !.at = "announce"])
  /\ UNCHANGED announced

\* The decision asked for is logged whether or not it was stored.
Announce(c) ==
  /\ At(c, "announce")
  /\ announced' = announced \cup {pc[c].decision}
  /\ Becomes(c, Done)
  /\ UNCHANGED request

Next ==
  \E c \in Calls :
    \/ RequestChange(c)
    \/ Review(c)
    \/ Store(c)
    \/ Announce(c)
    \/ Fail(c) /\ UNCHANGED <<request, announced>>

=============================================================================
