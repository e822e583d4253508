----------------------------- MODULE PaperOrders -----------------------------
(***************************************************************************)
(* The paper executor: submitPaperOrder and reconcilePaperOrder of         *)
(* server/paperExecutor.ts over the two tables they write, the append-only *)
(* executionLedger and the mutable paperOrders projection.  Every database *)
(* call is an await of its own: handlers interleave between them, and a    *)
(* handler whose call throws, or whose server stops, goes no further.      *)
(***************************************************************************)
EXTENDS AuthorityStates, Naturals, FiniteSets

CONSTANTS
  Requests,     \* calls of submitPaperOrder, each made at most once
  Reconcilers,  \* calls of reconcilePaperOrder, each made at most once
  Keys,         \* idempotency keys
  KeyOf,        \* the key each submission carries
  Target,       \* the order id each reconciliation names
  Outcome,      \* the outcome each reconciliation asks to record
  Meets,        \* what each submission may find besides the authority state
  Serialised    \* TRUE: a call starts only when no other is in flight

Handlers == Requests \cup Reconcilers

\* deriveOrderId makes the id of an executed order from its key alone, so the
\* key stands for it; a rejected order gets a fresh id, for which its request
\* stands.
OrderIds == Keys \cup Requests

ASSUME PaperAssumption ==
  /\ Serialised \in BOOLEAN
  /\ KeyOf \in [Requests -> Keys]
  /\ Target \in [Reconcilers -> OrderIds]
  /\ Outcome \in [Reconcilers -> {"matched", "mismatched"}]
  /\ Requests \cap Reconcilers = {}
  /\ Keys \cap Requests = {}

OrderKey(o) == IF o \in Keys THEN o ELSE KeyOf[o]

\* The event and status types this module writes ("cancelled" has no writer).
LedgerEventType == {"proposed", "validated", "submitted", "filled", "rejected",
                    "reconciled"}

Row == [status : {"none", "proposed", "filled", "rejected", "reconciled"},
        recon : {"pending", "matched", "mismatched"}]

NoRow == [status |-> "none", recon |-> "pending"]

\* The ledger event a handler is about to append, or the projection row it is
\* about to save, or how its call ended.
Saves == {"save-proposed", "save-filled", "save-rejected", "save-reconciled"}
Answers == {"answer-duplicate", "answer-rejected", "answer-filled",
            "answer-reconciled", "failed"}
Places == {"idle", "lookup"} \cup LedgerEventType \cup Saves \cup Answers

VARIABLES
  authority,  \* the owner's authority state
  ledger,     \* executionLedger: the events appended so far
  orders,     \* paperOrders: the row of each order id
  pc,         \* where each handler is
  seen,       \* the authority state each submission read, until it has decided
  refused     \* the submissions whose decision was to reject

vars == <<authority, ledger, orders, pc, seen, refused>>

Owner == INSTANCE AuthorityMachine WITH state <- authority

\* eventId is unique: "by" tells the events of different calls apart.
Event == [order : OrderIds, type : LedgerEventType, by : Handlers]

TypeOK ==
  /\ authority \in AuthorityState
  /\ ledger \subseteq Event
  /\ orders \in [OrderIds -> Row]
  /\ pc \in [Handlers -> Places]
  /\ seen \in [Requests -> AuthorityState]
  /\ refused \subseteq Requests

InFlight == {h \in Handlers : pc[h] \notin {"idle"} \cup Answers}

\* Earlier calls may have left the authority in any state; the book is empty.
Init ==
  /\ authority \in AuthorityState
  /\ ledger = {}
  /\ orders = [o \in OrderIds |-> NoRow]
  /\ pc = [h \in Handlers |-> "idle"]
  /\ seen = [r \in Requests |-> "disabled"]
  /\ refused = {}

-----------------------------------------------------------------------------

(* What a submission decides from: decidePaperOrder. *)

\* The mandate handed in, whether it covers venue and asset, the age of the
\* caller's price, whether the venue's ticker answers, and whether the order
\* crosses, fits the per-order cap and has a quantity.
Facts == [mandate : {"none", "paused", "active"}, covered : BOOLEAN,
          price : {"missing", "stale", "future", "fresh"}, ticker : BOOLEAN,
          fits : BOOLEAN]

ASSUME MeetsAssumption == Meets \in [Requests -> SUBSET Facts]

\* A verified venue price replaces the caller's whenever live reads are allowed.
ReferencePrice(s, f) == IF CanReadLive(s) /\ f.ticker THEN "fresh" ELSE f.price

\* Mutant: a known key is decided again.
DecideAgain(s, f, duplicate) ==
  IF ~IsBlockedByDominantState(s) /\ f.mandate = "active" THEN "execute" ELSE "reject"

Decide(s, f, duplicate) ==
  IF duplicate THEN "duplicate"
  ELSE IF /\ ~IsBlockedByDominantState(s)
          /\ f.mandate = "active" /\ f.covered
          /\ ReferencePrice(s, f) = "fresh"
          /\ f.fits
       THEN "execute" ELSE "reject"

HasRow(k) == \E o \in OrderIds : OrderKey(o) = k /\ orders[o].status # "none"

-----------------------------------------------------------------------------

(* The handlers *)

Start(h) ==
  /\ pc[h] = "idle"
  /\ Serialised => InFlight = {}

\* submitPaperOrder reads the authority state.
Submit(r) ==
  /\ Start(r)
  /\ pc' = [pc EXCEPT ![r] = "lookup"]
  /\ seen' = [seen EXCEPT ![r] = authority]
  /\ UNCHANGED <<authority, ledger, orders, refused>>

\* The ticker and the rows of the key are read, and the decision is taken.
LookUp(r) ==
  /\ pc[r] = "lookup"
  /\ \E decision \in {Decide(seen[r], f, HasRow(KeyOf[r])) : f \in Meets[r]} :
       /\ pc' = [pc EXCEPT ![r] = IF decision = "duplicate"
                                  THEN "answer-duplicate" ELSE "proposed"]
       /\ refused' = IF decision = "reject" THEN refused \cup {r} ELSE refused
  /\ seen' = [seen EXCEPT ![r] = "disabled"]
  /\ UNCHANGED <<authority, ledger, orders>>

\* Mutant: a row of any status is reconciled.
ReconcileAny(c) ==
  /\ Start(c)
  /\ orders[Target[c]].status # "none"
  /\ pc' = [pc EXCEPT ![c] = "reconciled"]
  /\ UNCHANGED <<authority, ledger, orders, seen, refused>>

\* reconcilePaperOrder reads the row; any other status returns { ok: false }.
Reconcile(c) ==
  /\ Start(c)
  /\ orders[Target[c]].status = "filled"
  /\ pc' = [pc EXCEPT ![c] = "reconciled"]
  /\ UNCHANGED <<authority, ledger, orders, seen, refused>>

\* Mutant: a rejected order takes the id derived from its key.
OrderOfDerived(h) == IF h \in Reconcilers THEN Target[h] ELSE KeyOf[h]

\* The order id a handler writes under.
OrderOf(h) ==
  IF h \in Reconcilers THEN Target[h] ELSE IF h \in refused THEN h ELSE KeyOf[h]

\* Mutants: the loop skips a stage; it ends without saving the row; it forgets
\* to advance after a rejection.
AfterAppendSkipping(type) ==
  CASE type = "proposed"   -> "save-proposed"
    [] type = "validated"  -> "filled"
    [] type = "submitted"  -> "filled"
    [] type = "filled"     -> "save-filled"
    [] type = "rejected"   -> "save-rejected"
    [] type = "reconciled" -> "save-reconciled"
AfterAppendUnsaved(type) ==
  CASE type = "proposed"   -> "save-proposed"
    [] type = "validated"  -> "submitted"
    [] type = "submitted"  -> "filled"
    [] type = "filled"     -> "answer-filled"
    [] type = "rejected"   -> "save-rejected"
    [] type = "reconciled" -> "save-reconciled"
AfterAppendForgotten(type) ==
  CASE type = "proposed"   -> "save-proposed"
    [] type = "validated"  -> "submitted"
    [] type = "submitted"  -> "filled"
    [] type = "filled"     -> "save-filled"
    [] type = "rejected"   -> "rejected"
    [] type = "reconciled" -> "save-reconciled"

\* The loop over "validated", "submitted", "filled" saves nothing in between.
AfterAppend(type) ==
  CASE type = "proposed"   -> "save-proposed"
    [] type = "validated"  -> "submitted"
    [] type = "submitted"  -> "filled"
    [] type = "filled"     -> "save-filled"
    [] type = "rejected"   -> "save-rejected"
    [] type = "reconciled" -> "save-reconciled"

\* appendLedgerEvent: an insert, never an update.
AppendEvent(h) ==
  /\ pc[h] \in LedgerEventType
  /\ ledger' = ledger \cup {[order |-> OrderOf(h), type |-> pc[h], by |-> h]}
  /\ pc' = [pc EXCEPT ![h] = AfterAppend(pc[h])]
  /\ UNCHANGED <<authority, orders, seen, refused>>

\* Mutant: the projection is saved one event behind the ledger.
SavedBehind ==
  [s \in Saves |->
     CASE s = "save-proposed"   -> "proposed"
       [] s = "save-filled"     -> "submitted"
       [] s = "save-rejected"   -> "rejected"
       [] s = "save-reconciled" -> "reconciled"]

Saved ==
  [s \in Saves |->
     CASE s = "save-proposed"   -> "proposed"
       [] s = "save-filled"     -> "filled"
       [] s = "save-rejected"   -> "rejected"
       [] s = "save-reconciled" -> "reconciled"]

\* Mutant: the fill is saved in the projection without its ledger events.
AfterSaveEager(h) ==
  CASE pc[h] = "save-proposed"   -> IF h \in refused THEN "rejected" ELSE "save-filled"
    [] pc[h] = "save-filled"     -> "answer-filled"
    [] pc[h] = "save-rejected"   -> "answer-rejected"
    [] pc[h] = "save-reconciled" -> "answer-reconciled"

AfterSave(h) ==
  CASE pc[h] = "save-proposed"   -> IF h \in refused THEN "rejected" ELSE "validated"
    [] pc[h] = "save-filled"     -> "answer-filled"
    [] pc[h] = "save-rejected"   -> "answer-rejected"
    [] pc[h] = "save-reconciled" -> "answer-reconciled"

\* upsertPaperOrderProjection: insert, or overwrite whatever the row holds.
SaveProjection(h) ==
  /\ pc[h] \in Saves
  /\ orders' = [orders EXCEPT ![OrderOf(h)] =
                  [status |-> Saved[pc[h]],
                   recon  |-> IF h \in Reconcilers THEN Outcome[h] ELSE "pending"]]
  /\ pc' = [pc EXCEPT ![h] = AfterSave(h)]
  /\ UNCHANGED <<authority, ledger, seen, refused>>

\* A database call throws, or the server stops: nothing catches it here.
Fail(h) ==
  /\ h \in InFlight
  /\ pc' = [pc EXCEPT ![h] = "failed"]
  /\ UNCHANGED <<authority, ledger, orders, seen, refused>>

\* The owner moves the authority state at any time.
MoveAuthority(to) ==
  /\ Owner!Move(to)
  /\ UNCHANGED <<ledger, orders, pc, seen, refused>>

Step(h) == AppendEvent(h) \/ SaveProjection(h)

Next ==
  \/ \E r \in Requests : Submit(r) \/ LookUp(r)
  \/ \E c \in Reconcilers : Reconcile(c)
  \/ \E h \in Handlers : Step(h) \/ Fail(h)
  \/ \E to \in AuthorityState : MoveAuthority(to)

Spec == Init /\ [][Next]_vars

\* The event loop resumes every handler whose database call has returned;
\* nothing makes an owner call, or a call fail.
Fairness ==
  /\ \A r \in Requests : WF_vars(LookUp(r))
  /\ \A h \in Handlers : WF_vars(Step(h))

FairSpec == Spec /\ Fairness

-----------------------------------------------------------------------------

\* isValidLedgerTransition
ValidLedgerTransition(from, to) ==
  to \in CASE from = "proposed"  -> {"validated", "rejected"}
           [] from = "validated" -> {"submitted", "rejected"}
           [] from = "submitted" -> {"filled", "rejected"}
           [] from = "filled"    -> {"reconciled"}
           [] OTHER              -> {}

\* The ledger skips no stage of any order: whatever interleaves or fails,
\* each event but the first is one the lifecycle allows after an event the
\* same order already has ("no rewrites, no skips", shared/paperExecution.ts:182).
NoStageSkipped ==
  \A e \in ledger :
    e.type # "proposed" =>
      \E f \in ledger : f.order = e.order /\ ValidLedgerTransition(f.type, e.type)

\* The projection never runs ahead of the ledger, "the source of truth"
\* (drizzle/schema.ts:508): the status of every row is an event of its order.
ProjectionBackedByLedger ==
  \A o \in OrderIds :
    orders[o].status # "none" =>
      \E e \in ledger : e.order = o /\ e.type = orders[o].status

\* An id given to a rejected order never carries a fill.
RejectedNeverFills ==
  \A e, f \in ledger : e.order = f.order /\ e.type = "rejected" => f.type # "filled"

Fills(k) == {e \in ledger : e.order = k /\ e.type = "filled"}

\* "same key => same outcome, never a second fill" (shared/paperExecution.ts:104).
OneFillPerKey == \A k \in Keys : Cardinality(Fills(k)) <= 1

\* A reconciled order is final: its row keeps its status and its outcome.
ReconciledIsFinal ==
  [][\A o \in OrderIds : orders[o].status = "reconciled" => orders'[o] = orders[o]]_vars

\* ledgerSeq
LedgerSeq ==
  [t \in LedgerEventType |->
     CASE t = "proposed"               -> 0
       [] t = "validated"              -> 1
       [] t = "submitted"              -> 2
       [] t \in {"filled", "rejected"} -> 3
       [] t = "reconciled"             -> 5]

\* With no handler in flight, no event of an order lies ahead of its row,
\* unless a call about this order has failed.
SettledProjection ==
  InFlight = {} =>
    \A e \in ledger :
      \/ \E h \in Handlers : pc[h] = "failed" /\ OrderOf(h) = e.order
      \/ LET row == orders[e.order] IN
           row.status # "none" /\ LedgerSeq[e.type] <= LedgerSeq[row.status]

\* Every call is answered unless it fails.
CallsEnd == \A h \in Handlers : h \in InFlight ~> h \notin InFlight

Book == INSTANCE PaperBook WITH book <- [k \in Keys |-> orders[k].status]

\* With one call at a time the projection of the executed orders implements
\* the book: each is proposed, filled once and reconciled once, in this order.
ImplementsBook == Book!Spec

=============================================================================
