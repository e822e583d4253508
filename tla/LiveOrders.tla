----------------------------- MODULE LiveOrders -----------------------------
(***************************************************************************)
(* The live order pipeline: executeLiveOrder of server/liveAdapter.ts over *)
(* the owner's approvals, the daily risk bucket, the order reservations    *)
(* and the ledger of server/db.ts, and the venue.  Each awaited call is a  *)
(* step; handlers interleave between them, and one whose call throws, or   *)
(* whose server stops, goes no further.                                    *)
(*                                                                         *)
(* The released build is sealed (server/liveExecutionBoundary.ts): its     *)
(* calls do not get beyond the first gate.  The others are calls of the    *)
(* program its tests and a later release run, over the same tables.        *)
(***************************************************************************)
EXTENDS AuthorityStates, Naturals, FiniteSets, Sequences, Functions

CONSTANTS
  Requests,      \* calls of executeLiveOrder
  Keys,          \* idempotency keys
  KeyOf,         \* the key each call carries
  Notional,      \* the verified value of each call's order
  Cap,           \* the daily notional each call computes from mandate and key
  TradeLimit,    \* dailyTradeLimit of the platform key
  Days,          \* the UTC days 1..Days pass
  MaxApprovals,  \* bound: approvals recorded per order
  Sealed         \* the calls a build with LIVE_VENUE_MUTATIONS_SEALED serves

ASSUME LiveAssumption ==
  /\ KeyOf \in [Requests -> Keys]
  /\ Notional \in [Requests -> Nat \ {0}]
  /\ Cap \in [Requests -> Nat \ {0}]
  /\ TradeLimit \in Nat \ {0}
  /\ Days \in Nat \ {0}
  /\ MaxApprovals \in Nat
  /\ Sealed \subseteq Requests
  /\ Requests \cap {"fresh", "stale"} = {}

IntentStatus == {"none", "reserved", "submitted", "filled", "rejected"}

\* What became of the order at the venue.
VenueStatus == {"none", "resting", "filled", "rejected"}

Bucket == [notional : Nat, count : Nat]

LiveEventType == {"submitted", "filled", "rejected"}
Event == [key : Keys, type : LiveEventType, by : Requests]

\* Places after the reservation is claimed, by what is left to do.
BeforeCall == {"append-submitted", "mark-submitted", "venue"}
AfterCall == {"append-filled", "append-rejected", "mark-filled", "mark-rejected"}
Answers == {"blocked", "duplicate", "done", "failed"}
Places == {"idle", "lookup", "approval", "consume", "reserve", "claim"}
            \cup BeforeCall \cup AfterCall \cup Answers

VARIABLES
  authority,   \* the owner's authority state
  day,         \* the current UTC day
  approvals,   \* liveOrderApprovals of each order, oldest first: "fresh",
               \* "stale", or the call that consumed it
  buckets,     \* liveDailyRiskBuckets
  intents,     \* liveOrderIntents
  ledger,      \* executionLedger, its live events
  venue,       \* the order of each key at the venue
  pc,          \* where each call is
  seen,        \* the authority state each call read
  picked,      \* the approval row each call has read
  reservedOn,  \* the day each call reserved budget on, 0 if it has not
  sent         \* the calls that have called the venue

local == <<pc, seen, picked, reservedOn, sent>>
vars == <<authority, day, approvals, buckets, intents, ledger, venue, local>>

Owner == INSTANCE AuthorityMachine WITH state <- authority

TypeOK ==
  /\ authority \in AuthorityState
  /\ day \in 1..Days
  /\ approvals \in [Keys -> Seq({"fresh", "stale"} \cup Requests)]
  /\ buckets \in [1..Days -> Bucket]
  /\ intents \in [Keys -> IntentStatus]
  /\ ledger \subseteq Event
  /\ venue \in [Keys -> VenueStatus]
  /\ pc \in [Requests -> Places]
  /\ seen \in [Requests -> AuthorityState]
  /\ picked \in [Requests -> Nat]
  /\ reservedOn \in [Requests -> 0..Days]
  /\ sent \subseteq Requests

\* Earlier calls may have left the authority in any state.
Init ==
  /\ authority \in AuthorityState
  /\ day = 1
  /\ approvals = [k \in Keys |-> <<>>]
  /\ buckets = [d \in 1..Days |-> [notional |-> 0, count |-> 0]]
  /\ intents = [k \in Keys |-> "none"]
  /\ ledger = {}
  /\ venue = [k \in Keys |-> "none"]
  /\ pc = [r \in Requests |-> "idle"]
  /\ seen = [r \in Requests |-> "disabled"]
  /\ picked = [r \in Requests |-> 0]
  /\ reservedOn = [r \in Requests |-> 0]
  /\ sent = {}

Goto(r, place) == pc' = [pc EXCEPT ![r] = place]

-----------------------------------------------------------------------------

(* The gates *)

\* reconcileLiveExecution and checkMandateAllowance: the mandate handed in must
\* be active and of live intent, and a market order needs a fresh ticker.
Facts == [mandate : {"none", "inactive", "simulation", "live"},
          market : BOOLEAN, ticker : BOOLEAN, within : BOOLEAN]

MandateAgrees(s, f) == s \in ORDER_PLACING_STATES /\ f.mandate = "live"

Cleared(s, f) ==
  /\ MandateAgrees(s, f)
  /\ f.market => f.ticker
  /\ f.within

\* The authority state is read; it, a missing key and the seal may refuse.
Call(r) ==
  /\ pc[r] = "idle"
  /\ \E keyed \in BOOLEAN :
       IF AuthorityAllows(authority, "place-order") /\ keyed /\ r \notin Sealed
       THEN Goto(r, "lookup") /\ seen' = [seen EXCEPT ![r] = authority]
       ELSE Goto(r, "blocked") /\ UNCHANGED seen
  /\ UNCHANGED <<authority, day, approvals, buckets, intents, ledger, venue,
                 picked, reservedOn, sent>>

\* getLiveOrderByIdempotencyKey: any live event of the key makes a duplicate.
LookUp(r) ==
  /\ pc[r] = "lookup"
  /\ IF \E e \in ledger : e.key = KeyOf[r]
     THEN Goto(r, "duplicate")
     ELSE \E f \in Facts :
            Goto(r, IF ~Cleared(seen[r], f) THEN "blocked"
                    ELSE IF seen[r] = "approval-required-live" THEN "approval"
                    ELSE "reserve")
  /\ UNCHANGED <<authority, day, approvals, buckets, intents, ledger, venue,
                 seen, picked, reservedOn, sent>>

\* consumeLiveOrderApproval reads the latest row of the exact order: two calls
\* of one key stand for the same order here.
ReadApproval(r) ==
  LET rows == approvals[KeyOf[r]] IN
  /\ pc[r] = "approval"
  /\ IF rows # <<>> /\ rows[Len(rows)] = "fresh"
     THEN Goto(r, "consume") /\ picked' = [picked EXCEPT ![r] = Len(rows)]
     ELSE Goto(r, "blocked") /\ UNCHANGED picked
  /\ UNCHANGED <<authority, day, approvals, buckets, intents, ledger, venue,
                 seen, reservedOn, sent>>

\* Mutant: the update does not ask again whether the row was consumed.
ConsumeRead(r) ==
  /\ pc[r] = "consume"
  /\ approvals' = [approvals EXCEPT ![KeyOf[r]][picked[r]] = r]
  /\ Goto(r, "reserve")
  /\ UNCHANGED <<authority, day, buckets, intents, ledger, venue, seen, picked,
                 reservedOn, sent>>

\* It then marks the row, if no other call has by now; age is not asked again.
Consume(r) ==
  /\ pc[r] = "consume"
  /\ IF approvals[KeyOf[r]][picked[r]] \in {"fresh", "stale"}
     THEN approvals' = [approvals EXCEPT ![KeyOf[r]][picked[r]] = r] /\ Goto(r, "reserve")
     ELSE UNCHANGED approvals /\ Goto(r, "blocked")
  /\ UNCHANGED <<authority, day, buckets, intents, ledger, venue, seen, picked,
                 reservedOn, sent>>

\* Mutant: the count alone is limited.
FitsCount(r, b) == b.count + 1 <= TradeLimit
Fits(r, b) == b.notional + Notional[r] <= Cap[r] /\ b.count + 1 <= TradeLimit

\* The platform key is read, then reserveLiveDailyRisk takes the order's value
\* out of the day's budget in one conditional update.
Reserve(r) ==
  LET b == buckets[day] IN
  /\ pc[r] = "reserve"
  /\ \E keyUsable \in BOOLEAN :
       IF keyUsable /\ Fits(r, b)
       THEN /\ buckets' = [buckets EXCEPT ![day] =
                             [notional |-> b.notional + Notional[r], count |-> b.count + 1]]
            /\ reservedOn' = [reservedOn EXCEPT ![r] = day]
            /\ Goto(r, "claim")
       ELSE Goto(r, "blocked") /\ UNCHANGED <<buckets, reservedOn>>
  /\ UNCHANGED <<authority, day, approvals, intents, ledger, venue, seen, picked, sent>>

-----------------------------------------------------------------------------

(* The reservation, the venue and the outcome *)

\* Mutant: a reservation that did not get as far as the venue is taken over.
ClaimReserved(r) ==
  /\ pc[r] = "claim"
  /\ IF intents[KeyOf[r]] \in {"none", "reserved"}
     THEN intents' = [intents EXCEPT ![KeyOf[r]] = "reserved"] /\ Goto(r, "append-submitted")
     ELSE UNCHANGED intents /\ Goto(r, "duplicate")
  /\ UNCHANGED <<authority, day, approvals, buckets, ledger, venue, seen, picked,
                 reservedOn, sent>>

\* Mutant: the insert waits until the reservation is free.
ClaimWaiting(r) ==
  /\ pc[r] = "claim"
  /\ intents[KeyOf[r]] = "none"
  /\ intents' = [intents EXCEPT ![KeyOf[r]] = "reserved"] /\ Goto(r, "append-submitted")
  /\ UNCHANGED <<authority, day, approvals, buckets, ledger, venue, seen, picked,
                 reservedOn, sent>>

\* claimLiveOrderIntent: the unique index lets one insert through.
Claim(r) ==
  /\ pc[r] = "claim"
  /\ IF intents[KeyOf[r]] = "none"
     THEN intents' = [intents EXCEPT ![KeyOf[r]] = "reserved"] /\ Goto(r, "append-submitted")
     ELSE UNCHANGED intents /\ Goto(r, "duplicate")
  /\ UNCHANGED <<authority, day, approvals, buckets, ledger, venue, seen, picked,
                 reservedOn, sent>>

\* The outcome the ledger records: a venue call that throws counts as rejected.
Appended == [p \in {"append-submitted", "append-filled", "append-rejected"} |->
               CASE p = "append-submitted" -> "submitted"
                 [] p = "append-filled"    -> "filled"
                 [] p = "append-rejected"  -> "rejected"]

\* Mutant: the venue is called before the submission is marked.
AfterAppendUnmarked(p) ==
  CASE p = "append-submitted" -> "venue"
    [] p = "append-filled"    -> "mark-filled"
    [] p = "append-rejected"  -> "mark-rejected"

AfterAppend(p) ==
  CASE p = "append-submitted" -> "mark-submitted"
    [] p = "append-filled"    -> "mark-filled"
    [] p = "append-rejected"  -> "mark-rejected"

\* appendLedgerEvent
AppendEvent(r) ==
  /\ pc[r] \in DOMAIN Appended
  /\ ledger' = ledger \cup {[key |-> KeyOf[r], type |-> Appended[pc[r]], by |-> r]}
  /\ Goto(r, AfterAppend(pc[r]))
  /\ UNCHANGED <<authority, day, approvals, buckets, intents, venue, seen, picked,
                 reservedOn, sent>>

\* Mutant: the answer a duplicate gets is stored as a status of the row.
MarkedUnknown == [p \in {"mark-submitted", "mark-filled", "mark-rejected"} |->
                    CASE p = "mark-submitted" -> "submitted"
                      [] p = "mark-filled"    -> "filled"
                      [] p = "mark-rejected"  -> "submitted-unknown-outcome"]

Marked == [p \in {"mark-submitted", "mark-filled", "mark-rejected"} |->
             CASE p = "mark-submitted" -> "submitted"
               [] p = "mark-filled"    -> "filled"
               [] p = "mark-rejected"  -> "rejected"]

\* updateLiveOrderIntentStatus
Mark(r) ==
  /\ pc[r] \in DOMAIN Marked
  /\ intents' = [intents EXCEPT ![KeyOf[r]] = Marked[pc[r]]]
  /\ Goto(r, IF pc[r] = "mark-submitted" THEN "venue" ELSE "done")
  /\ UNCHANGED <<authority, day, approvals, buckets, ledger, venue, seen, picked,
                 reservedOn, sent>>

\* Mutant: an answer that never came is taken for a fill.
RecordedAsFilled(status, answered) ==
  IF status # "rejected" THEN "append-filled" ELSE "append-rejected"

\* Every answer but REJECTED, NEW included, is recorded as a fill; an error or
\* a timeout as a rejection.
RecordedAs(status, answered) ==
  IF answered /\ status # "rejected" THEN "append-filled" ELSE "append-rejected"

\* binancePlaceOrder: the venue decides, and its answer may be lost; the
\* request may not even arrive.
Send(r) ==
  /\ pc[r] = "venue"
  /\ sent' = sent \cup {r}
  /\ \E status \in VenueStatus, answered \in BOOLEAN :
       /\ answered => status # "none"
       /\ venue' = [venue EXCEPT ![KeyOf[r]] = status]
       /\ Goto(r, RecordedAs(status, answered))
  /\ UNCHANGED <<authority, day, approvals, buckets, intents, ledger, seen, picked,
                 reservedOn>>

\* A database call throws, or the server stops: nothing is undone.
Fail(r) ==
  /\ pc[r] \notin {"idle"} \cup Answers
  /\ Goto(r, "failed")
  /\ UNCHANGED <<authority, day, approvals, buckets, intents, ledger, venue, seen,
                 picked, reservedOn, sent>>

-----------------------------------------------------------------------------

(* The owner and the clock *)

MoveAuthority(to) ==
  /\ Owner!Move(to)
  /\ UNCHANGED <<day, approvals, buckets, intents, ledger, venue, local>>

\* recordLiveOrderApproval
Approve(k) ==
  /\ Len(approvals[k]) < MaxApprovals
  /\ approvals' = [approvals EXCEPT ![k] = Append(@, "fresh")]
  /\ UNCHANGED <<authority, day, buckets, intents, ledger, venue, local>>

\* An approval is good for ten minutes.
Expire(k) ==
  /\ \E i \in DOMAIN approvals[k] :
       /\ approvals[k][i] = "fresh"
       /\ approvals' = [approvals EXCEPT ![k][i] = "stale"]
  /\ UNCHANGED <<authority, day, buckets, intents, ledger, venue, local>>

NextDay ==
  /\ day < Days
  /\ day' = day + 1
  /\ UNCHANGED <<authority, approvals, buckets, intents, ledger, venue, local>>

Step(r) ==
  \/ LookUp(r) \/ ReadApproval(r) \/ Consume(r) \/ Reserve(r)
  \/ Claim(r) \/ AppendEvent(r) \/ Mark(r) \/ Send(r)

Next ==
  \/ \E r \in Requests : Call(r) \/ Step(r) \/ Fail(r)
  \/ \E to \in AuthorityState : MoveAuthority(to)
  \/ \E k \in Keys : Approve(k) \/ Expire(k)
  \/ NextDay

Spec == Init /\ [][Next]_vars

\* The event loop resumes every handler whose awaited call has returned, and
\* the venue's client gives up after a timeout; nothing makes the owner act.
FairSpec == Spec /\ \A r \in Requests \ Sealed : WF_vars(Step(r))

-----------------------------------------------------------------------------

\* The venue is asked to place the order of a key at most once, whatever calls
\* of that key race, fail and are retried: the unique reservation closes "the
\* concurrent read-then-submit race" (drizzle/schema.ts:479).
AtMostOneVenueCall ==
  \A r, q \in sent : KeyOf[r] = KeyOf[q] => r = q

\* A crash after the venue call leaves a trace that stops a second one: who
\* called the venue has recorded the submission in the ledger and has marked
\* the reservation.
SubmissionRecordedFirst ==
  \A r \in sent :
    /\ [key |-> KeyOf[r], type |-> "submitted", by |-> r] \in ledger
    /\ intents[KeyOf[r]] \notin {"none", "reserved"}

\* The ledger tells one story of each key: all its live events come from one
\* call, and it is not both filled and rejected.
OneStoryPerKey ==
  \A e, f \in ledger :
    e.key = f.key => /\ e.by = f.by
                     /\ {e.type, f.type} # {"filled", "rejected"}

\* Every order placed under approval-required-live has an approval of its own,
\* one that no other call has used.
EveryOrderApproved ==
  \A r \in sent :
    seen[r] = "approval-required-live" =>
      \E i \in DOMAIN approvals[KeyOf[r]] : approvals[KeyOf[r]][i] = r

SentOn(d) == {r \in sent : reservedOn[r] = d}

\* The orders placed against the budget of a day stay within the cap that some
\* call of that day computed, and within the trade limit.
DayWithinBudget ==
  \A d \in 1..Days :
    SentOn(d) # {} =>
      /\ \E r \in Requests :
           reservedOn[r] = d /\ SumFunctionOnSet(Notional, SentOn(d)) <= Cap[r]
      /\ Cardinality(SentOn(d)) <= TradeLimit

\* An order the ledger calls filled was accepted by the venue.
FillsWereAccepted ==
  \A e \in ledger : e.type = "filled" => venue[e.key] \in {"resting", "filled"}

\* "Reconciliation: record the authoritative venue outcome"
\* (server/liveAdapter.ts:513): the ledger's outcome is the venue's.
OutcomeIsTheVenues ==
  \A e \in ledger :
    /\ e.type = "filled" => venue[e.key] = "filled"
    /\ e.type = "rejected" => venue[e.key] \in {"none", "rejected"}

\* The sealed boundary "rejects venue mutations before any live adapter action"
\* (docs/maintainers/pre-postgres-cleanliness-audit.md:11): a sealed call takes
\* no approval and no budget, records nothing and sends nothing.
SealHolds ==
  \A r \in Sealed :
    /\ r \notin sent /\ reservedOn[r] = 0
    /\ \A e \in ledger : e.by # r
    /\ \A k \in Keys : \A i \in DOMAIN approvals[k] : approvals[k][i] # r

\* Every call is answered unless it fails; a sealed one is, in its first step.
CallsEnd ==
  \A r \in Requests \ Sealed : pc[r] # "idle" ~> pc[r] \in Answers

Once == INSTANCE LiveIntent WITH
          intent <- intents,
          calls <- [k \in Keys |-> Cardinality({r \in sent : KeyOf[r] = k})]

\* The reservations and the venue calls implement the abstract intent.
ImplementsIntent == Once!Spec

=============================================================================
