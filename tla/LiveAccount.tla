---------------------------- MODULE LiveAccount -----------------------------
(***************************************************************************)
(* What else the server asks of the exchange for the owner: cancelLiveOrder, *)
(* getLiveBalances and getLiveOpenOrders of server/liveAdapter.ts.  Like   *)
(* executeLiveOrder, in LiveOrders, they read the authority state, the     *)
(* mandate and the key an await each before the venue is called.  The      *)
(* owner's other calls change all three meanwhile.                         *)
(***************************************************************************)
EXTENDS RacingCalls, AuthorityStates

VARIABLES
  sealed,     \* assertLiveVenueMutationAllowed throws, as in this release
  authority,  \* the owner's authority state
  mandate,    \* mode of the Binance mandate; a "paused" one is not active
  usable,     \* the key is there and active
  order,      \* the owner's resting order at the venue
  answers     \* what the calls have been told: reads, or the authority they saw

Owner == INSTANCE AuthorityMachine WITH state <- authority

LiveModes == {"real", "armed"}
Modes == LiveModes \cup {"simulation", "paused"}

Step == {Idle, Done}
   \cup [at : {"mandate", "key-cancel", "key-read", "cancel", "read"},
         saw : AuthorityState]

TypeOK ==
  /\ sealed \in BOOLEAN
  /\ authority \in AuthorityState
  /\ mandate \in Modes
  /\ usable \in BOOLEAN
  /\ order \in {"open", "filled", "cancelled"}
  /\ answers \subseteq [call : Calls, of : {"cancel", "read"}]
  /\ pc \in [Calls -> Step]

Init ==
  /\ sealed \in BOOLEAN
  /\ authority \in {"limited-live", "approval-required-live", "read-only-live"}
  /\ mandate \in {"real", "simulation"}
  /\ usable = TRUE
  /\ order = "open"
  /\ answers = {}

rest == <<sealed, authority, mandate, usable, order, answers>>

-----------------------------------------------------------------------------

\* Both read the authority state; a read is asserted against it at once.
CancelLiveOrder(c) ==
  /\ pc[c] = Idle
  /\ Becomes(c, [at |-> "mandate", saw |-> authority])
  /\ UNCHANGED rest

GetLive(c) ==
  /\ pc[c] = Idle
  /\ AuthorityAllows(authority, "read-live")
  /\ Becomes(c, [at |-> "key-read", saw |-> authority])
  /\ UNCHANGED rest

\* assertAuthorityAllows and reconcileLiveExecution, of the state that was read.
MayCancel(state, mode) ==
  /\ AuthorityAllows(state, "cancel-order")
  /\ mode \in LiveModes

\* Mutant: the mandate alone decides.
CheckMandateOnly(c) ==
  /\ At(c, "mandate")
  /\ Becomes(c, IF mandate \in LiveModes /\ ~sealed
                THEN [pc[c] EXCEPT !.at = "key-cancel"] ELSE Done)
  /\ UNCHANGED rest

\* The mandate is read, the authority state asserted, the seal consulted.
CheckMandate(c) ==
  /\ At(c, "mandate")
  /\ Becomes(c, IF MayCancel(pc[c].saw, mandate) /\ ~sealed
                THEN [pc[c] EXCEPT !.at = "key-cancel"] ELSE Done)
  /\ UNCHANGED rest

\* The key is read and decrypted.
ReadKey(c) ==
  /\ pc[c].at \in {"key-cancel", "key-read"}
  /\ Becomes(c, IF ~usable THEN Done
                ELSE [pc[c] EXCEPT !.at = IF pc[c].at = "key-read" THEN "read" ELSE "cancel"])
  /\ UNCHANGED rest

\* An order that is no longer open cannot be cancelled: the venue refuses.
VenueCancels(c) ==
  /\ At(c, "cancel")
  /\ IF order = "open"
     THEN /\ order' = "cancelled"
          /\ answers' = answers \cup {[call |-> c, of |-> "cancel"]}
     ELSE UNCHANGED <<order, answers>>
  /\ Becomes(c, Done)
  /\ UNCHANGED <<sealed, authority, mandate, usable>>

VenueReads(c) ==
  /\ At(c, "read")
  /\ answers' = answers \cup {[call |-> c, of |-> "read"]}
  /\ Becomes(c, Done)
  /\ UNCHANGED <<sealed, authority, mandate, usable, order>>

\* The venue may do as it is asked, and the answer be lost.
LoseAnswer(c) ==
  /\ c \in Busy
  /\ \/ At(c, "cancel") /\ order = "open" /\ order' = "cancelled"
     \/ UNCHANGED order
  /\ Becomes(c, Done)
  /\ UNCHANGED <<sealed, authority, mandate, usable, answers>>

\* The owner's other procedures, each as the one store it ends in; the owner
\* has a policy.
OwnerChanges(c) ==
  /\ pc[c] = Idle
  /\ \/ Owner!Next /\ UNCHANGED <<mandate, usable>>
     \/ /\ mandate' \in Modes \ {mandate}
        /\ mandate' = "real" => CanPlaceOrders(authority)
        /\ UNCHANGED <<authority, usable>>
     \/ usable' = ~usable /\ UNCHANGED <<authority, mandate>>
  /\ Becomes(c, Done)
  /\ UNCHANGED <<sealed, order, answers>>

\* The venue fills the resting order in its own time.
VenueFills ==
  /\ order = "open"
  /\ order' = "filled"
  /\ UNCHANGED <<pc, sealed, authority, mandate, usable, answers>>

Next ==
  \/ \E c \in Calls :
       \/ CancelLiveOrder(c)
       \/ GetLive(c)
       \/ CheckMandate(c)
       \/ ReadKey(c)
       \/ VenueCancels(c)
       \/ VenueReads(c)
       \/ LoseAnswer(c)
       \/ OwnerChanges(c)
  \/ VenueFills

=============================================================================
