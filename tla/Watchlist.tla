----------------------------- MODULE Watchlist ------------------------------
(***************************************************************************)
(* The owner's watchlist and what the policy makes of it: addItem,         *)
(* removeItem and evaluatePolicy of server/routers.ts.  An evaluation      *)
(* reads the items and the policy side by side and then stores the items'  *)
(* statuses one after the other.                                           *)
(***************************************************************************)
EXTENDS RacingCalls

CONSTANTS
  Items,
  NoPolicy  \* where a policy's approved assets are expected

VARIABLES
  watched,   \* status of each watchlistItems row
  universe   \* the policy's approved assets, or none: no policy

Verdicts == {"candidate", "review", "blocked"}

Universes == (SUBSET Items) \cup {NoPolicy}

Step == {Idle, Done}
   \cup [at : {"items"}, policy : Universes]
   \cup [at : {"policy"}, items : SUBSET Items]
   \cup [at : {"store"}, items : SUBSET Items, policy : Universes]

TypeOK ==
  /\ watched \in [Items -> {"absent", "watching", "removed"} \cup Verdicts]
  /\ universe \in Universes
  /\ pc \in [Calls -> Step]

Init == watched = [i \in Items |-> "absent"] /\ universe = NoPolicy

Listed == {i \in Items : watched[i] \notin {"absent", "removed"}}

-----------------------------------------------------------------------------

AddItem(c, i) ==
  /\ pc[c] = Idle /\ watched[i] = "absent"
  /\ watched' = [watched EXCEPT ![i] = "watching"]
  /\ Becomes(c, Done)
  /\ UNCHANGED universe

RemoveItem(c, i) ==
  /\ pc[c] = Idle /\ i \in Listed
  /\ watched' = [watched EXCEPT ![i] = "removed"]
  /\ Becomes(c, Done)
  /\ UNCHANGED universe

\* saveInvestmentPolicy, whose own races are in OwnerSettings.
SavePolicy(c) ==
  /\ pc[c] = Idle
  /\ universe' \in SUBSET Items
  /\ Becomes(c, Done)
  /\ UNCHANGED watched

\* evaluatePolicy asks for the items and the policy at once.
Evaluate(c) ==
  /\ pc[c] = Idle
  /\ \/ Becomes(c, [at |-> "policy", items |-> Listed])
     \/ Becomes(c, [at |-> "items", policy |-> universe])
  /\ UNCHANGED <<watched, universe>>

ReadOther(c) ==
  /\ \/ At(c, "policy")
        /\ Becomes(c, [at |-> "store", items |-> pc[c].items, policy |-> universe])
     \/ At(c, "items")
        /\ Becomes(c, [at |-> "store", items |-> Listed, policy |-> pc[c].policy])
  /\ UNCHANGED <<watched, universe>>

\* Every item has an address here: one without is always under review.
Verdict(i, policy) ==
  IF policy = NoPolicy THEN "review" ELSE IF i \in policy THEN "candidate" ELSE "blocked"

\* updateWatchlistItemStatus: an item that is gone is passed over.
StoreStatus(c, i) ==
  /\ At(c, "store") /\ i \in pc[c].items
  /\ watched' = IF i \in Listed THEN [watched EXCEPT ![i] = Verdict(i, pc[c].policy)]
                ELSE watched
  /\ Becomes(c, [pc[c] EXCEPT !.items = @ \ {i}])
  /\ UNCHANGED universe

Finish(c) ==
  /\ At(c, "store") /\ pc[c].items = {}
  /\ Becomes(c, Done)
  /\ UNCHANGED <<watched, universe>>

Next ==
  \E c \in Calls :
    \/ \E i \in Items : AddItem(c, i) \/ RemoveItem(c, i) \/ StoreStatus(c, i)
    \/ SavePolicy(c)
    \/ Evaluate(c)
    \/ ReadOther(c)
    \/ Finish(c)
    \/ Fail(c) /\ UNCHANGED <<watched, universe>>

=============================================================================
