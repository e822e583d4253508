--------------------------- MODULE SailorMandates ---------------------------
(***************************************************************************)
(* One simulated non-custodial mandate: server/sailorService.ts.  The store *)
(* is a map of the process; each procedure changes it before its first     *)
(* await, so it is one step, and then logs.  A restart forgets it.         *)
(***************************************************************************)
EXTENDS RacingCalls

VARIABLES
  sealed,        \* assertLiveVenueMutationAllowed throws, as in this release
  sailor,        \* status of the mandate
  due,           \* its expiry has passed; walletRouter never sets one
  transactions   \* transactions requested under it, each "pending" for ever

SailorStatus == {"none", "pending", "active", "revoked", "expired"}

Step == {Idle, Done, [at |-> "log"]}

TypeOK ==
  /\ sealed \in BOOLEAN
  /\ sailor \in SailorStatus
  /\ due \in BOOLEAN
  /\ transactions \subseteq Calls
  /\ pc \in [Calls -> Step]

Init ==
  /\ sealed \in BOOLEAN
  /\ sailor = "none" /\ due = FALSE /\ transactions = {}

Logs(c) == Becomes(c, [at |-> "log"])

-----------------------------------------------------------------------------

\* validateMandateParams has found scopes and caps in order.
CreateMandate(c) ==
  /\ pc[c] = Idle /\ sailor = "none"
  /\ sailor' = "pending"
  /\ Logs(c)
  /\ UNCHANGED <<sealed, due, transactions>>

ActivateMandate(c) ==
  /\ pc[c] = Idle /\ sailor = "pending"
  /\ sailor' = "active"
  /\ Logs(c)
  /\ UNCHANGED <<sealed, due, transactions>>

\* Transactions that are pending stay so.
RevokeMandate(c) ==
  /\ pc[c] = Idle /\ sailor \notin {"none", "revoked"}
  /\ sailor' = "revoked"
  /\ Logs(c)
  /\ UNCHANGED <<sealed, due, transactions>>

\* Mutant: only a revoked mandate refuses a transaction.
MayExecuteUnrevoked == sailor \in {"pending", "active", "expired"}

\* The chain and the value cap are the caller's to get right.
MayExecute == sailor = "active"

\* executeMandateTransaction: expiry is found out by the first use after it.
ExecuteMandateTransaction(c) ==
  /\ pc[c] = Idle /\ ~sealed /\ MayExecute
  /\ IF due
     THEN sailor' = "expired" /\ Becomes(c, Done) /\ UNCHANGED transactions
     ELSE transactions' = transactions \cup {c} /\ Logs(c) /\ UNCHANGED sailor
  /\ UNCHANGED <<sealed, due>>

\* The log is written, or is not.
Log(c) ==
  /\ At(c, "log")
  /\ Becomes(c, Done)
  /\ UNCHANGED <<sealed, sailor, due, transactions>>

FallDue ==
  /\ ~due
  /\ due' = TRUE
  /\ UNCHANGED <<pc, sealed, sailor, transactions>>

\* The maps live and die with the process.
Restart ==
  /\ sailor # "none"
  /\ sailor' = "none" /\ transactions' = {}
  /\ pc' = [c \in Calls |-> IF c \in Busy THEN Done ELSE pc[c]]
  /\ UNCHANGED <<sealed, due>>

Next ==
  \/ \E c \in Calls :
       \/ CreateMandate(c)
       \/ ActivateMandate(c)
       \/ RevokeMandate(c)
       \/ ExecuteMandateTransaction(c)
       \/ Log(c)
  \/ FallDue
  \/ Restart

=============================================================================
