-------------------------- MODULE ProposalLifecycle --------------------------
(***************************************************************************)
(* What the proposal queue promises whatever calls interleave: a blocked   *)
(* proposal stays blocked, no proposal returns to review, and one is       *)
(* settled only after it has been granted.                                 *)
(***************************************************************************)

CONSTANT Proposals

VARIABLES
  status,   \* agentProposals.status, "none" before the row exists
  granted   \* the proposals an approval was stored for

Init == status = [p \in Proposals |-> "none"] /\ granted = {}

Queue(p, to) ==
  /\ status[p] = "none"
  /\ to \in {"review", "blocked"}
  /\ status' = [status EXCEPT ![p] = to]
  /\ UNCHANGED granted

Open(p) == status[p] \notin {"none", "blocked"}

Grant(p) ==
  /\ Open(p)
  /\ status' = [status EXCEPT ![p] = "approved"]
  /\ granted' = granted \cup {p}

Refuse(p) ==
  /\ Open(p)
  /\ status' = [status EXCEPT ![p] = "rejected"]
  /\ UNCHANGED granted

Settle(p) ==
  /\ p \in granted
  /\ \E to \in {"simulated", "rejected"} : status' = [status EXCEPT ![p] = to]
  /\ UNCHANGED granted

Next ==
  \E p \in Proposals :
    \/ \E to \in {"review", "blocked"} : Queue(p, to)
    \/ Grant(p) \/ Refuse(p) \/ Settle(p)

Spec == Init /\ [][Next]_<<status, granted>>

=============================================================================
