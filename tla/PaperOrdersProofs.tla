-------------------------- MODULE PaperOrdersProofs --------------------------
(***************************************************************************)
(* Proofs about PaperOrders for any number of calls and keys: under every  *)
(* interleaving and failure the ledger skips no stage, the projection is   *)
(* backed by the ledger and a rejected order never fills.  While one call  *)
(* runs at a time a key is filled once, its verdict is final, the executor *)
(* implements PaperBook, and the projection follows the ledger.            *)
(***************************************************************************)
EXTENDS PaperOrders, FiniteSetTheorems, TLAPS

EventAt(o, t) == \E e \in ledger : e.order = o /\ e.type = t

\* The event that must precede each later one.
Prior ==
  [t \in LedgerEventType |->
     CASE t \in {"validated", "rejected"} -> "proposed"
       [] t = "submitted"                 -> "validated"
       [] t = "filled"                    -> "submitted"
       [] t = "reconciled"                -> "filled"
       [] OTHER                           -> "proposed"]

\* A handler about to append an event has seen its predecessor appended, and
\* one about to save a row has appended the event the row will name.
HandlersFollowLedger ==
  \A h \in Handlers :
    /\ pc[h] \in LedgerEventType \ {"proposed"} => EventAt(OrderOf(h), Prior[pc[h]])
    /\ pc[h] \in Saves => EventAt(OrderOf(h), Saved[pc[h]])

\* Each place in the code belongs to one kind of call, or to one decision.
PlacesFit ==
  /\ \A c \in Reconcilers :
       pc[c] \in {"idle", "reconciled", "save-reconciled", "answer-reconciled", "failed"}
  /\ \A r \in Requests :
       /\ pc[r] \notin {"reconciled", "save-reconciled", "answer-reconciled"}
       /\ pc[r] \in {"idle", "lookup", "validated", "submitted", "filled",
                     "save-filled", "answer-filled"} => r \notin refused
       /\ pc[r] \in {"rejected", "save-rejected"} => r \in refused

\* Fills go under the id of a key, rejections under a fresh id.
IdsApart ==
  \A e \in ledger :
    /\ e.type = "rejected" => e.order \in Requests
    /\ e.type = "filled" => e.order \in Keys

IInv ==
  /\ TypeOK
  /\ PlacesFit
  /\ HandlersFollowLedger
  /\ IdsApart
  /\ NoStageSkipped
  /\ ProjectionBackedByLedger

\* The event before each one is a valid predecessor (isValidLedgerTransition).
LEMMA PriorIsValid ==
  \A t \in LedgerEventType \ {"proposed"} : ValidLedgerTransition(Prior[t], t)
  BY DEF LedgerEventType, Prior, ValidLedgerTransition

\* What a handler is about is an order id.
LEMMA OrderOfType ==
  ASSUME TypeOK, NEW h \in Handlers
  PROVE  OrderOf(h) \in OrderIds
  BY PaperAssumption DEF TypeOK, Handlers, OrderOf, OrderIds

\* The ledger and the projection start empty.
LEMMA InitEstablishes == Init => IInv
  BY DEF Init, IInv, TypeOK, PlacesFit, HandlersFollowLedger, IdsApart,
         NoStageSkipped, ProjectionBackedByLedger, Handlers, Places, NoRow, Row,
         LedgerEventType, Saves, AuthorityState

\* A step that appends nothing, saves nothing and leaves every handler under
\* its order id keeps what is said of the ledger and the rows.
LEMMA LedgerUntouched ==
  ASSUME IInv, ledger' = ledger, orders' = orders
  PROVE  IdsApart' /\ NoStageSkipped' /\ ProjectionBackedByLedger'
  BY DEF IInv, IdsApart, NoStageSkipped, ProjectionBackedByLedger

\* An appended event follows its predecessor, which is in the ledger.
LEMMA AppendPreserves ==
  ASSUME IInv, NEW h \in Handlers, AppendEvent(h)
  PROVE  IInv'
  <1> DEFINE e == [order |-> OrderOf(h), type |-> pc[h], by |-> h]
  <1> USE DEF IInv, AppendEvent
  <1>1. /\ ledger' = ledger \cup {e}
        /\ pc' = [pc EXCEPT ![h] = AfterAppend(pc[h])]
        /\ UNCHANGED <<authority, orders, seen, refused>>
        /\ pc[h] \in LedgerEventType
    OBVIOUS
  <1>2. e \in Event
    BY <1>1, OrderOfType DEF Event
  <1>3. AfterAppend(pc[h]) \in Places
    BY <1>1 DEF AfterAppend, LedgerEventType, Places, Saves
  <1>4. TypeOK'
    BY <1>1, <1>2, <1>3 DEF TypeOK
  <1>5. PlacesFit'
    BY <1>1 DEF PlacesFit, AfterAppend, LedgerEventType, TypeOK, Handlers
  <1>6. \A g \in Handlers : OrderOf(g)' = OrderOf(g)
    BY <1>1 DEF OrderOf
  <1>7. ASSUME NEW g \in Handlers, NEW t, EventAt(OrderOf(g), t)
        PROVE  \E f \in ledger' : f.order = OrderOf(g)' /\ f.type = t
    BY <1>1, <1>6, <1>7 DEF EventAt
  <1>8. \E f \in ledger' : f.order = OrderOf(h)' /\ f.type = pc[h]
    <2>1. e \in ledger' /\ e.order = OrderOf(h) /\ e.type = pc[h]
      BY <1>1
    <2>2. OrderOf(h)' = OrderOf(h)
      BY <1>6
    <2> HIDE DEF e
    <2>3. QED
      BY <2>1, <2>2
  <1>9. HandlersFollowLedger'
    <2>1. pc'[h] = AfterAppend(pc[h])
      BY <1>1 DEF TypeOK
    <2>2. pc'[h] \in LedgerEventType \ {"proposed"} => Prior[pc'[h]] = pc[h]
      BY <1>1, <2>1 DEF AfterAppend, LedgerEventType, Prior
    <2>3. pc'[h] \in Saves => Saved[pc'[h]] = pc[h]
      BY <1>1, <2>1 DEF AfterAppend, LedgerEventType, Saves, Saved
    <2>4. ASSUME NEW g \in Handlers
          PROVE  /\ pc'[g] \in LedgerEventType \ {"proposed"} =>
                      \E f \in ledger' : f.order = OrderOf(g)' /\ f.type = Prior[pc'[g]]
                 /\ pc'[g] \in Saves =>
                      \E f \in ledger' : f.order = OrderOf(g)' /\ f.type = Saved[pc'[g]]
      <3>1. CASE g = h
        BY <3>1, <1>8, <2>2, <2>3
      <3>2. CASE g # h
        <4>1. pc'[g] = pc[g]
          BY <1>1, <3>2 DEF TypeOK
        <4>2. QED
          BY <4>1, <1>7 DEF HandlersFollowLedger
      <3>3. QED
        BY <3>1, <3>2
    <2>5. QED
      BY <2>4 DEF HandlersFollowLedger, EventAt
  <1>10. IdsApart'
    <2>1. pc[h] = "rejected" => OrderOf(h) \in Requests
      BY PaperAssumption DEF PlacesFit, OrderOf, Handlers
    <2>2. pc[h] = "filled" => OrderOf(h) \in Keys
      BY PaperAssumption DEF PlacesFit, OrderOf, Handlers
    <2>3. QED
      BY <1>1, <2>1, <2>2 DEF IdsApart
  <1>11. NoStageSkipped'
    <2>1. ASSUME pc[h] # "proposed"
          PROVE  \E f \in ledger : f.order = OrderOf(h) /\ ValidLedgerTransition(f.type, pc[h])
      BY <1>1, <2>1, PriorIsValid DEF HandlersFollowLedger, EventAt
    <2>2. QED
      BY <1>1, <2>1 DEF NoStageSkipped
  <1>12. ProjectionBackedByLedger'
    BY <1>1 DEF ProjectionBackedByLedger
  <1>13. QED
    BY <1>4, <1>5, <1>9, <1>10, <1>11, <1>12

\* A saved row names an event that is in the ledger.
LEMMA SavePreserves ==
  ASSUME IInv, NEW h \in Handlers, SaveProjection(h)
  PROVE  IInv'
  <1> USE DEF IInv
  <1>1. /\ pc[h] \in Saves
        /\ pc' = [pc EXCEPT ![h] = AfterSave(h)]
        /\ UNCHANGED <<authority, ledger, seen, refused>>
    BY DEF SaveProjection
  <1>2. OrderOf(h) \in OrderIds
    BY OrderOfType
  <1>3. AfterSave(h) \in Places
    BY <1>1 DEF AfterSave, Saves, Places, LedgerEventType, Answers
  <1>4. Saved[pc[h]] \in {"proposed", "filled", "rejected", "reconciled"}
    BY <1>1 DEF Saved, Saves
  <1>5. TypeOK'
    <2>1. orders' \in [OrderIds -> Row]
      BY <1>2, <1>4, PaperAssumption DEF SaveProjection, TypeOK, Row
    <2>2. QED
      BY <1>1, <1>3, <2>1 DEF TypeOK
  <1>6. PlacesFit'
    BY <1>1 DEF PlacesFit, AfterSave, Saves, TypeOK, Handlers
  <1>7. \A g \in Handlers : OrderOf(g)' = OrderOf(g)
    BY <1>1 DEF OrderOf
  <1>8. \A o, t : EventAt(o, t)' = EventAt(o, t)
    BY <1>1 DEF EventAt
  <1>9. HandlersFollowLedger'
    <2>1. pc'[h] \in LedgerEventType \ {"proposed"} => EventAt(OrderOf(h), Prior[pc'[h]])
      <3>1. pc'[h] = AfterSave(h)
        BY <1>1 DEF TypeOK
      <3>2. pc'[h] \in LedgerEventType \ {"proposed"} =>
              Saved[pc[h]] = "proposed" /\ Prior[pc'[h]] = "proposed"
        BY <1>1, <3>1 DEF AfterSave, Saves, Saved, LedgerEventType, Prior
      <3>3. EventAt(OrderOf(h), Saved[pc[h]])
        BY <1>1 DEF HandlersFollowLedger
      <3>4. QED
        BY <3>2, <3>3
    <2>2. pc'[h] \notin Saves
      BY <1>1 DEF AfterSave, Saves, TypeOK
    <2>3. QED
      BY <1>1, <1>7, <1>8, <2>1, <2>2 DEF HandlersFollowLedger, TypeOK
  <1>10. IdsApart' /\ NoStageSkipped'
    BY <1>1 DEF IdsApart, NoStageSkipped
  <1>11. ProjectionBackedByLedger'
    <2>1. EventAt(OrderOf(h), Saved[pc[h]])
      BY <1>1 DEF HandlersFollowLedger
    <2>2. orders'[OrderOf(h)].status = Saved[pc[h]]
      BY <1>2 DEF SaveProjection, TypeOK
    <2>3. \A o \in OrderIds : o # OrderOf(h) => orders'[o] = orders[o]
      BY DEF SaveProjection, TypeOK
    <2>4. QED
      BY <1>1, <2>1, <2>2, <2>3 DEF ProjectionBackedByLedger, EventAt
  <1>12. QED
    BY <1>5, <1>6, <1>9, <1>10, <1>11

\* Every other step leaves the ledger and the projection alone.
LEMMA StepPreserves == IInv /\ [Next]_vars => IInv'
  <1> SUFFICES ASSUME IInv, [Next]_vars
               PROVE  IInv'
    OBVIOUS
  <1> USE DEF IInv
  <1>1. ASSUME NEW r \in Requests, Submit(r)
        PROVE  IInv'
    <2>1. TypeOK' /\ PlacesFit'
      BY <1>1, PaperAssumption DEF Submit, Start, TypeOK, PlacesFit, Places, Handlers
    <2>2. HandlersFollowLedger'
      BY <1>1 DEF Submit, Start, HandlersFollowLedger, EventAt, OrderOf, TypeOK,
                  LedgerEventType, Saves
    <2>3. QED
      BY <1>1, <2>1, <2>2, LedgerUntouched DEF Submit
  <1>2. ASSUME NEW r \in Requests, LookUp(r)
        PROVE  IInv'
    <2>1. PICK decision \in {Decide(seen[r], f, HasRow(KeyOf[r])) : f \in Meets[r]} :
            /\ pc' = [pc EXCEPT ![r] = IF decision = "duplicate"
                                       THEN "answer-duplicate" ELSE "proposed"]
            /\ refused' = IF decision = "reject" THEN refused \cup {r} ELSE refused
      BY <1>2 DEF LookUp
    <2>2. decision # "reject" => refused' = refused
      BY <2>1
    <2>3. decision = "reject" => pc'[r] = "proposed"
      BY <2>1 DEF TypeOK, Handlers
    <2>4. pc'[r] \in {"answer-duplicate", "proposed"}
      BY <2>1 DEF TypeOK, Handlers
    <2>5. TypeOK' /\ PlacesFit'
      BY <1>2, <2>1, <2>4 DEF LookUp, TypeOK, PlacesFit, Places, Handlers,
         LedgerEventType, Answers, AuthorityState
    <2>6. \A g \in Handlers : g # r => OrderOf(g)' = OrderOf(g) /\ pc'[g] = pc[g]
      BY <2>1 DEF OrderOf, TypeOK
    <2>7. HandlersFollowLedger'
      BY <1>2, <2>4, <2>6 DEF LookUp, HandlersFollowLedger, EventAt, Saves, LedgerEventType
    <2>8. QED
      BY <1>2, <2>5, <2>7, LedgerUntouched DEF LookUp
  <1>3. ASSUME NEW c \in Reconcilers, Reconcile(c)
        PROVE  IInv'
    <2>1. TypeOK' /\ PlacesFit'
      BY <1>3, PaperAssumption
         DEF Reconcile, Start, TypeOK, PlacesFit, Places, Handlers, LedgerEventType
    <2>2. EventAt(OrderOf(c), "filled")
      BY <1>3, PaperAssumption DEF Reconcile, ProjectionBackedByLedger, EventAt, OrderOf
    <2>3. HandlersFollowLedger'
      BY <1>3, <2>2 DEF Reconcile, HandlersFollowLedger, EventAt, OrderOf, TypeOK,
                        LedgerEventType, Saves, Prior, Handlers
    <2>4. QED
      BY <1>3, <2>1, <2>3, LedgerUntouched DEF Reconcile
  <1>4. ASSUME NEW h \in Handlers, Step(h)
        PROVE  IInv'
    BY <1>4, AppendPreserves, SavePreserves DEF Step
  <1>5. ASSUME NEW h \in Handlers, Fail(h)
        PROVE  IInv'
    <2>1. TypeOK' /\ PlacesFit'
      BY <1>5 DEF Fail, TypeOK, PlacesFit, Places, Answers, Handlers
    <2>2. HandlersFollowLedger'
      BY <1>5 DEF Fail, HandlersFollowLedger, EventAt, OrderOf, TypeOK,
                  LedgerEventType, Saves
    <2>3. QED
      BY <1>5, <2>1, <2>2, LedgerUntouched DEF Fail
  <1>6. ASSUME NEW to \in AuthorityState, MoveAuthority(to)
        PROVE  IInv'
    <2>1. TypeOK' /\ PlacesFit'
      BY <1>6 DEF MoveAuthority, Owner!Move, TypeOK, PlacesFit
    <2>2. HandlersFollowLedger'
      BY <1>6 DEF MoveAuthority, HandlersFollowLedger, EventAt, OrderOf
    <2>3. QED
      BY <1>6, <2>1, <2>2, LedgerUntouched DEF MoveAuthority
  <1>7. CASE UNCHANGED vars
    <2>1. TypeOK' /\ PlacesFit' /\ HandlersFollowLedger'
      BY <1>7 DEF vars, TypeOK, PlacesFit, HandlersFollowLedger, EventAt, OrderOf
    <2>2. QED
      BY <1>7, <2>1, LedgerUntouched DEF vars
  <1>8. QED
    BY <1>1, <1>2, <1>3, <1>4, <1>5, <1>6, <1>7 DEF Next

\* So the invariant holds throughout.
LEMMA InvariantHolds == Spec => []IInv
  BY InitEstablishes, StepPreserves, PTL DEF Spec

\* Every variable of the paper executor keeps its type.
THEOREM TypeCorrect == Spec => []TypeOK
  BY InvariantHolds, PTL DEF IInv

\* For any number of interleaved or failing calls, no order's ledger skips a
\* stage of isValidLedgerTransition.
THEOREM StagesNeverSkipped == Spec => []NoStageSkipped
  BY InvariantHolds, PTL DEF IInv

\* The status of a paperOrders row is always an event of its order.
THEOREM ProjectionAlwaysBacked == Spec => []ProjectionBackedByLedger
  BY InvariantHolds, PTL DEF IInv

\* No order id carries both a rejection and a fill.
THEOREM RejectedStaysUnfilled == Spec => []RejectedNeverFills
  <1>1. IInv => RejectedNeverFills
    BY PaperAssumption DEF IInv, IdsApart, RejectedNeverFills
  <1>2. QED
    BY <1>1, InvariantHolds, PTL

-----------------------------------------------------------------------------

(* One call at a time *)

\* At most one call is in flight.
OneAtATime == \A g, h \in InFlight : g = h

\* What the place of the call in flight says of the row it is about: there is
\* none before it is proposed, it stays proposed up to the fill, and it is
\* filled while it is reconciled.
RowsFitPlaces ==
  /\ \A r \in Requests \ refused :
       /\ pc[r] \in {"proposed", "save-proposed"} => orders[KeyOf[r]].status = "none"
       /\ pc[r] \in {"validated", "submitted", "filled", "save-filled"} =>
            orders[KeyOf[r]].status = "proposed"
  /\ \A c \in Reconcilers :
       pc[c] \in {"reconciled", "save-reconciled"} => orders[Target[c]].status = "filled"

\* What the ledger says of the rows: a filled order has one, and a reconciled
\* order's has got as far as the fill.
RowsFollowEvents ==
  \A e \in ledger :
    /\ e.type = "filled" => orders[e.order].status # "none"
    /\ e.type = "reconciled" => orders[e.order].status \in {"filled", "reconciled"}

\* A key is filled once, and not before the call in flight has filled it.
FilledOnce ==
  /\ \A e, f \in ledger :
       e.type = "filled" /\ f.type = "filled" /\ e.order = f.order => e = f
  /\ \A r \in Requests \ refused :
       pc[r] \in {"proposed", "save-proposed", "validated", "submitted", "filled"} =>
         ~EventAt(KeyOf[r], "filled")

SerialInv == OneAtATime /\ RowsFitPlaces /\ RowsFollowEvents /\ FilledOnce

Resting == {"idle"} \cup Answers

\* Who is not the call in flight has not begun or has ended.
LEMMA OthersRest ==
  ASSUME OneAtATime, NEW h \in InFlight, NEW g \in Handlers, g # h
  PROVE  pc[g] \in Resting
  BY DEF OneAtATime, InFlight, Resting

\* No call is in flight at the start.
LEMMA InitSerial == Init => SerialInv
  BY DEF Init, SerialInv, OneAtATime, RowsFitPlaces, RowsFollowEvents, FilledOnce,
         InFlight, Handlers

\* A call that starts finds all the others at rest.
LEMMA StartSerial ==
  ASSUME Serialised, IInv, SerialInv, NEW h \in Handlers, Start(h),
         NEW p \in {"lookup", "reconciled"}, pc' = [pc EXCEPT ![h] = p],
         UNCHANGED <<ledger, orders, refused>>,
         p = "reconciled" => h \in Reconcilers /\ orders[Target[h]].status = "filled"
  PROVE  SerialInv'
  <1> USE DEF IInv, TypeOK
  <1>1. \A g \in Handlers : pc[g] \in Resting
    BY DEF Start, InFlight, Resting
  <1>2. \A g \in Handlers : pc'[g] = IF g = h THEN p ELSE pc[g]
    OBVIOUS
  <1>3. OneAtATime'
    BY <1>1, <1>2 DEF OneAtATime, InFlight, Resting
  <1>4. RowsFitPlaces'
    BY <1>1, <1>2 DEF RowsFitPlaces, Resting, Answers, Handlers
  <1>5. RowsFollowEvents'
    BY DEF SerialInv, RowsFollowEvents
  <1>6. FilledOnce'
    BY <1>1, <1>2 DEF SerialInv, FilledOnce, Resting, Answers, Handlers, EventAt
  <1>7. QED
    BY <1>3, <1>4, <1>5, <1>6 DEF SerialInv

\* A submission that is not a duplicate has found no row of its key, so no fill.
LEMMA LookUpSerial ==
  ASSUME IInv, SerialInv, NEW r \in Requests, LookUp(r)
  PROVE  SerialInv'
  <1> USE DEF IInv, TypeOK
  <1>1. PICK decision \in {Decide(seen[r], f, HasRow(KeyOf[r])) : f \in Meets[r]} :
          /\ pc' = [pc EXCEPT ![r] = IF decision = "duplicate"
                                     THEN "answer-duplicate" ELSE "proposed"]
          /\ refused' = IF decision = "reject" THEN refused \cup {r} ELSE refused
          /\ UNCHANGED <<ledger, orders>>
    BY DEF LookUp
  <1>2. r \in Handlers /\ r \in InFlight
    BY DEF LookUp, InFlight, Answers, Handlers
  <1>3. \A g \in Handlers : g # r => pc[g] \in Resting /\ pc'[g] = pc[g]
    BY <1>1, <1>2, OthersRest DEF SerialInv
  <1>4. pc'[r] = IF decision = "duplicate" THEN "answer-duplicate" ELSE "proposed"
    BY <1>1, <1>2
  <1>5. r \notin refused' /\ pc'[r] = "proposed" => ~HasRow(KeyOf[r])
    BY <1>1, <1>4 DEF Decide
  <1>6. ~HasRow(KeyOf[r]) => /\ orders[KeyOf[r]].status = "none"
                             /\ ~EventAt(KeyOf[r], "filled")
    BY PaperAssumption DEF HasRow, OrderIds, OrderKey, SerialInv, RowsFollowEvents, EventAt
  <1>7. OneAtATime'
    BY <1>3 DEF OneAtATime, InFlight, Resting
  <1>8. RowsFitPlaces'
    BY <1>1, <1>3, <1>4, <1>5, <1>6, PaperAssumption
       DEF RowsFitPlaces, Resting, Answers, Handlers
  <1>9. RowsFollowEvents'
    BY <1>1 DEF SerialInv, RowsFollowEvents
  <1>10. FilledOnce'
    BY <1>1, <1>3, <1>4, <1>5, <1>6 DEF SerialInv, FilledOnce, Resting, Answers, Handlers, EventAt
  <1>11. QED
    BY <1>7, <1>8, <1>9, <1>10 DEF SerialInv

\* The call in flight appends what its row has got to.
LEMMA AppendSerial ==
  ASSUME IInv, SerialInv, NEW h \in Handlers, AppendEvent(h)
  PROVE  SerialInv'
  <1> DEFINE e == [order |-> OrderOf(h), type |-> pc[h], by |-> h]
  <1> USE DEF IInv, TypeOK
  <1>1. /\ pc[h] \in LedgerEventType
        /\ ledger' = ledger \cup {e}
        /\ pc' = [pc EXCEPT ![h] = AfterAppend(pc[h])]
        /\ UNCHANGED <<orders, refused>>
    BY DEF AppendEvent
  <1>2. h \in InFlight
    BY <1>1 DEF InFlight, LedgerEventType, Answers
  <1>3. \A g \in Handlers : g # h => pc[g] \in Resting /\ pc'[g] = pc[g]
    BY <1>1, <1>2, OthersRest DEF SerialInv
  <1>4. pc'[h] = AfterAppend(pc[h])
    BY <1>1
  <1>5. OneAtATime'
    BY <1>3 DEF OneAtATime, InFlight, Resting
  <1>6. RowsFitPlaces'
    BY <1>1, <1>3, <1>4, PaperAssumption
       DEF SerialInv, RowsFitPlaces, PlacesFit, AfterAppend, LedgerEventType, Resting,
           Answers, Handlers
  <1>7. pc[h] = "filled" => h \in Requests \ refused /\ e.order = KeyOf[h]
    BY PaperAssumption DEF PlacesFit, OrderOf, Handlers
  <1>8. pc[h] = "reconciled" => h \in Reconcilers /\ e.order = Target[h]
    BY PaperAssumption DEF PlacesFit, OrderOf, Handlers
  <1>9. e.type = pc[h]
    OBVIOUS
  <1> HIDE DEF e
  <1>10. RowsFollowEvents'
    BY <1>1, <1>7, <1>8, <1>9 DEF SerialInv, RowsFollowEvents, RowsFitPlaces
  <1>11. FilledOnce'
    <2>1. \A f \in ledger : f.type = "filled" /\ e.type = "filled" => f.order # e.order
      BY <1>7, <1>9 DEF SerialInv, FilledOnce, EventAt
    <2>2. ASSUME NEW r \in Requests \ refused,
                 pc'[r] \in {"proposed", "save-proposed", "validated", "submitted", "filled"}
          PROVE  r = h /\ e.type # "filled" /\ ~EventAt(KeyOf[r], "filled")
      BY <1>1, <1>3, <1>4, <1>9, <2>2
         DEF SerialInv, FilledOnce, PlacesFit, AfterAppend, LedgerEventType, Resting,
             Answers, Handlers
    <2>3. QED
      BY <1>1, <2>1, <2>2 DEF SerialInv, FilledOnce, EventAt
  <1>12. QED
    BY <1>5, <1>6, <1>10, <1>11 DEF SerialInv

\* The id of a rejected order carries no fill and no reconciliation.
LEMMA FreshIdsUnfilled ==
  ASSUME IInv, NEW o \in Requests
  PROVE  /\ ~EventAt(o, "filled") /\ ~EventAt(o, "reconciled")
         /\ orders[o].status \notin {"filled", "reconciled"}
  <1>1. ~EventAt(o, "filled")
    BY PaperAssumption DEF IInv, IdsApart, EventAt
  <1>2. ~EventAt(o, "reconciled")
    BY <1>1 DEF IInv, NoStageSkipped, ValidLedgerTransition, EventAt
  <1>3. QED
    BY <1>1, <1>2 DEF IInv, ProjectionBackedByLedger, EventAt, OrderIds

\* Where a save finds the row it is about to write.
LEMMA SavedRow ==
  ASSUME IInv, SerialInv, NEW h \in Handlers, pc[h] \in Saves
  PROVE  \/ /\ pc[h] = "save-proposed" /\ h \in Requests \ refused
            /\ OrderOf(h) = KeyOf[h] /\ orders[OrderOf(h)].status = "none"
         \/ /\ pc[h] = "save-filled" /\ h \in Requests \ refused
            /\ OrderOf(h) = KeyOf[h] /\ orders[OrderOf(h)].status = "proposed"
         \/ /\ pc[h] = "save-reconciled" /\ h \in Reconcilers
            /\ OrderOf(h) = Target[h] /\ orders[OrderOf(h)].status = "filled"
         \/ /\ pc[h] \in {"save-proposed", "save-rejected"} /\ h \in Requests
            /\ h \in refused /\ OrderOf(h) = h
  BY PaperAssumption DEF IInv, SerialInv, RowsFitPlaces, PlacesFit, OrderOf, Handlers, Saves

\* The call in flight moves its row on.
LEMMA SaveSerial ==
  ASSUME IInv, SerialInv, NEW h \in Handlers, SaveProjection(h)
  PROVE  SerialInv'
  <1> DEFINE o == OrderOf(h)
  <1> USE DEF IInv, TypeOK
  <1>1. /\ pc[h] \in Saves
        /\ pc' = [pc EXCEPT ![h] = AfterSave(h)]
        /\ UNCHANGED <<ledger, refused>>
    BY DEF SaveProjection
  <1>2. h \in InFlight
    BY <1>1 DEF InFlight, Saves, Answers
  <1>3. \A g \in Handlers : g # h => pc[g] \in Resting /\ pc'[g] = pc[g]
    BY <1>1, <1>2, OthersRest DEF SerialInv
  <1>4. pc'[h] = AfterSave(h)
    BY <1>1
  <1>5. o \in OrderIds
    BY OrderOfType
  <1>6. /\ orders'[o].status = Saved[pc[h]]
        /\ \A p \in OrderIds : p # o => orders'[p] = orders[p]
    BY <1>5 DEF SaveProjection
  <1> HIDE DEF o
  <1>7. OneAtATime'
    BY <1>3 DEF OneAtATime, InFlight, Resting
  <1>8. RowsFitPlaces'
    <2>1. ASSUME NEW r \in Requests \ refused, pc'[r] \notin Resting
          PROVE  pc'[r] = "validated" /\ orders'[KeyOf[r]].status = "proposed"
      <3>1. r = h
        BY <1>3, <2>1 DEF Handlers
      <3>2. pc[h] = "save-proposed" /\ o = KeyOf[h]
        BY <1>1, <1>4, <2>1, <3>1, SavedRow DEF AfterSave, Resting, Answers, Saves, o
      <3>3. QED
        BY <1>4, <1>6, <2>1, <3>1, <3>2 DEF AfterSave, Saved, Saves
    <2>2. ASSUME NEW c \in Reconcilers
          PROVE  pc'[c] \notin {"reconciled", "save-reconciled"}
      <3>1. CASE c = h
        BY <1>1, <1>4, <3>1, SavedRow, PaperAssumption DEF AfterSave
      <3>2. CASE c # h
        BY <1>3, <3>2 DEF Resting, Answers, Handlers
      <3>3. QED
        BY <3>1, <3>2
    <2>3. QED
      BY <1>1, <2>1, <2>2 DEF RowsFitPlaces, Resting, Answers
  <1>9. RowsFollowEvents'
    <2> SUFFICES ASSUME NEW e \in ledger
                 PROVE  /\ e.type = "filled" => orders'[e.order].status # "none"
                        /\ e.type = "reconciled" =>
                             orders'[e.order].status \in {"filled", "reconciled"}
      BY <1>1 DEF RowsFollowEvents
    <2>1. e.order \in OrderIds
      BY DEF Event
    <2>2. CASE e.order # o
      BY <1>6, <2>1, <2>2 DEF SerialInv, RowsFollowEvents
    <2>3. CASE e.order = o
      <3>1. orders'[e.order].status # "none"
        BY <1>1, <1>6, <2>3 DEF Saved, Saves
      <3>2. ASSUME e.type = "reconciled"
            PROVE  pc[h] = "save-reconciled"
        <4>1. orders[o].status \in {"filled", "reconciled"}
          BY <2>3, <3>2 DEF SerialInv, RowsFollowEvents
        <4>2. QED
          BY <1>1, <4>1, SavedRow, FreshIdsUnfilled DEF o
      <3>3. QED
        BY <1>6, <2>3, <3>1, <3>2 DEF Saved, Saves
    <2>4. QED
      BY <2>2, <2>3
  <1>10. FilledOnce'
    <2>1. ASSUME NEW r \in Requests \ refused, pc'[r] \notin Resting
          PROVE  ~EventAt(KeyOf[r], "filled")
      <3>1. r = h
        BY <1>3, <2>1 DEF Handlers
      <3>2. pc[h] = "save-proposed"
        BY <1>1, <1>4, <2>1, <3>1, SavedRow DEF AfterSave, Resting, Answers, Saves
      <3>3. QED
        BY <2>1, <3>1, <3>2 DEF SerialInv, FilledOnce
    <2>2. QED
      BY <1>1, <2>1 DEF SerialInv, FilledOnce, EventAt, Resting, Answers
  <1>11. QED
    BY <1>7, <1>8, <1>9, <1>10 DEF SerialInv

\* A call that fails leaves the rows and the ledger as they were.
LEMMA FailSerial ==
  ASSUME IInv, SerialInv, NEW h \in Handlers, Fail(h)
  PROVE  SerialInv'
  <1> USE DEF IInv, TypeOK
  <1>1. \A g \in Handlers : pc'[g] = IF g = h THEN "failed" ELSE pc[g]
    BY DEF Fail
  <1>2. OneAtATime'
    BY <1>1 DEF SerialInv, OneAtATime, InFlight, Answers
  <1>3. RowsFitPlaces' /\ RowsFollowEvents'
    BY <1>1 DEF Fail, SerialInv, RowsFitPlaces, RowsFollowEvents, Handlers
  <1>4. FilledOnce'
    BY <1>1 DEF Fail, SerialInv, FilledOnce, EventAt, Handlers
  <1>5. QED
    BY <1>2, <1>3, <1>4 DEF SerialInv

\* Steps that touch neither table nor call.
LEMMA SerialUntouched ==
  ASSUME SerialInv, UNCHANGED <<ledger, orders, pc, refused>>
  PROVE  SerialInv'
  BY DEF SerialInv, OneAtATime, RowsFitPlaces, RowsFollowEvents, FilledOnce, InFlight, EventAt

\* So the serial invariant holds throughout.
LEMMA SerialHolds ==
  ASSUME Serialised
  PROVE  Spec => []SerialInv
  <1>1. IInv /\ SerialInv /\ [Next]_vars => SerialInv'
    <2> SUFFICES ASSUME IInv, SerialInv, [Next]_vars
                 PROVE  SerialInv'
      OBVIOUS
    <2>1. ASSUME NEW r \in Requests, Submit(r)
          PROVE  SerialInv'
      BY <2>1, StartSerial DEF Submit, Handlers
    <2>2. ASSUME NEW r \in Requests, LookUp(r)
          PROVE  SerialInv'
      BY <2>2, LookUpSerial
    <2>3. ASSUME NEW c \in Reconcilers, Reconcile(c)
          PROVE  SerialInv'
      BY <2>3, StartSerial DEF Reconcile, Handlers
    <2>4. ASSUME NEW h \in Handlers, Step(h) \/ Fail(h)
          PROVE  SerialInv'
      BY <2>4, AppendSerial, SaveSerial, FailSerial DEF Step
    <2>5. CASE \E to \in AuthorityState : MoveAuthority(to)
      BY <2>5, SerialUntouched DEF MoveAuthority
    <2>6. CASE UNCHANGED vars
      BY <2>6, SerialUntouched DEF vars
    <2>7. QED
      BY <2>1, <2>2, <2>3, <2>4, <2>5, <2>6 DEF Next
  <1>2. QED
    BY <1>1, InitSerial, InvariantHolds, PTL DEF Spec

\* With one call at a time no key is ever filled twice, however often its
\* submission fails and is retried.
THEOREM SerialOneFillPerKey ==
  ASSUME Serialised
  PROVE  Spec => []OneFillPerKey
  <1>1. SerialInv => OneFillPerKey
    <2> SUFFICES ASSUME SerialInv, NEW k \in Keys
                 PROVE  Cardinality(Fills(k)) <= 1
      BY DEF OneFillPerKey
    <2>1. \A e, f \in Fills(k) : e = f
      BY DEF SerialInv, FilledOnce, Fills
    <2>2. CASE Fills(k) = {}
      BY <2>2, FS_EmptySet
    <2>3. CASE Fills(k) # {}
      <3>1. PICK e : Fills(k) = {e}
        BY <2>1, <2>3
      <3>2. Cardinality({e}) = 1
        BY FS_Singleton
      <3>3. QED
        BY <3>1, <3>2
    <2>4. QED
      BY <2>2, <2>3
  <1>2. QED
    BY <1>1, SerialHolds, PTL

\* Rows change only when a handler saves one.
LEMMA RowsMove ==
  ASSUME [Next]_vars, orders' # orders
  PROVE  \E h \in Handlers : SaveProjection(h)
  BY DEF Next, Step, Submit, LookUp, Reconcile, AppendEvent, Fail, MoveAuthority, vars

\* With one call at a time nothing is written over a reconciled row.
THEOREM SerialReconciledIsFinal ==
  ASSUME Serialised
  PROVE  Spec => ReconciledIsFinal
  <1>1. IInv /\ SerialInv /\ [Next]_vars =>
          \A o \in OrderIds : orders[o].status = "reconciled" => orders'[o] = orders[o]
    <2> SUFFICES ASSUME IInv, SerialInv, [Next]_vars, NEW o \in OrderIds,
                        orders[o].status = "reconciled", orders'[o] # orders[o]
                 PROVE  FALSE
      OBVIOUS
    <2>1. PICK h \in Handlers : SaveProjection(h)
      BY RowsMove
    <2>2. o = OrderOf(h) /\ pc[h] \in Saves
      BY <2>1, OrderOfType DEF SaveProjection, IInv, TypeOK
    <2>3. QED
      BY <2>2, SavedRow, FreshIdsUnfilled
  <1>2. QED
    BY <1>1, SerialHolds, InvariantHolds, PTL DEF Spec, ReconciledIsFinal

\* With one call at a time the rows of the keys implement the book: proposed,
\* filled once and reconciled once.
THEOREM SerialImplementsBook ==
  ASSUME Serialised
  PROVE  Spec => ImplementsBook
  <1> DEFINE book == [k \in Keys |-> orders[k].status]
  <1>1. Init => Book!Init
    BY DEF Init, Book!Init, NoRow, OrderIds
  <1>2. IInv /\ SerialInv /\ [Next]_vars => [Book!Next]_book
    <2> SUFFICES ASSUME IInv, SerialInv, [Next]_vars, book' # book
                 PROVE  Book!Next
      OBVIOUS
    <2>1. orders' # orders
      OBVIOUS
    <2>2. PICK h \in Handlers : SaveProjection(h)
      BY <2>1, RowsMove
    <2>3. /\ pc[h] \in Saves /\ OrderOf(h) \in OrderIds
          /\ orders'[OrderOf(h)].status = Saved[pc[h]]
          /\ \A o \in OrderIds : o # OrderOf(h) => orders'[o] = orders[o]
      BY <2>2, OrderOfType DEF SaveProjection, IInv, TypeOK
    <2>4. OrderOf(h) \in Keys
      BY <2>3 DEF OrderIds
    <2>5. book' = [book EXCEPT ![OrderOf(h)] = Saved[pc[h]]]
      BY <2>3, <2>4 DEF OrderIds
    <2>6. \/ pc[h] = "save-proposed" /\ book[OrderOf(h)] = "none"
          \/ pc[h] = "save-filled" /\ book[OrderOf(h)] = "proposed"
          \/ pc[h] = "save-reconciled" /\ book[OrderOf(h)] = "filled"
      BY <2>3, <2>4, SavedRow, PaperAssumption
    <2>7. \/ Book!Advance(OrderOf(h), "none", "proposed")
          \/ Book!Advance(OrderOf(h), "proposed", "filled")
          \/ Book!Advance(OrderOf(h), "filled", "reconciled")
      BY <2>5, <2>6 DEF Book!Advance, Saved, Saves
    <2>8. QED
      BY <2>4, <2>7 DEF Book!Next
  <1>3. QED
    BY <1>1, <1>2, SerialHolds, InvariantHolds, PTL DEF Spec, ImplementsBook, Book!Spec


\* Who accounts for an event ahead of its row: a call that failed, or one that
\* still has to write.
Responsible(h) == pc[h] \in LedgerEventType \cup Saves \cup {"failed"}

Settled(e) ==
  /\ orders[e.order].status # "none"
  /\ LedgerSeq[e.type] <= LedgerSeq[orders[e.order].status]

AccountedFor(e) == Settled(e) \/ \E h \in Handlers : Responsible(h) /\ OrderOf(h) = e.order

AllAccountedFor == \A e \in ledger : AccountedFor(e)

\* A step that leaves ledger and rows alone, and after which whoever was
\* responsible for an order still is.
LEMMA AccountKept ==
  ASSUME AllAccountedFor, UNCHANGED <<ledger, orders>>,
         \A h \in Handlers : Responsible(h) => Responsible(h)' /\ OrderOf(h)' = OrderOf(h)
  PROVE  AllAccountedFor'
  BY DEF AllAccountedFor, AccountedFor, Settled

\* Once its row is saved, an order is accounted for without the call.
LEMMA SaveAccounts ==
  ASSUME IInv, SerialInv, AllAccountedFor, NEW h \in Handlers, SaveProjection(h)
  PROVE  AllAccountedFor'
  <1> USE DEF IInv, TypeOK
  <1>1. /\ pc[h] \in Saves /\ OrderOf(h) \in OrderIds
        /\ pc' = [pc EXCEPT ![h] = AfterSave(h)]
        /\ UNCHANGED <<ledger, refused>>
    BY OrderOfType DEF SaveProjection
  <1>2. /\ orders'[OrderOf(h)].status = Saved[pc[h]]
        /\ \A o \in OrderIds : o # OrderOf(h) => orders'[o] = orders[o]
    BY <1>1 DEF SaveProjection
  <1>3. \A g \in Handlers : OrderOf(g)' = OrderOf(g) /\ (g # h => pc'[g] = pc[g])
    BY <1>1 DEF OrderOf
  <1> SUFFICES ASSUME NEW e \in ledger
               PROVE  AccountedFor(e)'
    BY <1>1 DEF AllAccountedFor
  <1>4. e \in Event
    OBVIOUS
  <1>5. CASE e.order # OrderOf(h)
    <2>1. Settled(e) => Settled(e)'
      BY <1>2, <1>4, <1>5 DEF Settled, Event
    <2>2. \A g \in Handlers : Responsible(g) /\ OrderOf(g) = e.order => Responsible(g)'
      BY <1>3, <1>5 DEF Responsible
    <2>3. QED
      BY <1>3, <2>1, <2>2 DEF AllAccountedFor, AccountedFor
  <1>6. CASE e.order = OrderOf(h) /\ pc[h] = "save-proposed"
    <2>1. pc'[h] \in LedgerEventType
      BY <1>1, <1>6 DEF AfterSave, LedgerEventType
    <2>2. QED
      BY <1>3, <1>6, <2>1 DEF AccountedFor, Responsible
  <1>7. CASE e.order = OrderOf(h) /\ pc[h] # "save-proposed"
    <2>1. Saved[pc[h]] \in {"filled", "rejected", "reconciled"}
      BY <1>1, <1>7 DEF Saved, Saves
    <2>2. e.type = "reconciled" => Saved[pc[h]] = "reconciled"
      <3>1. e.type = "reconciled" => EventAt(OrderOf(h), "reconciled")
                                     /\ orders[OrderOf(h)].status \in {"filled", "reconciled"}
        BY <1>7 DEF SerialInv, RowsFollowEvents, EventAt
      <3>2. QED
        BY <1>1, <1>7, <3>1, SavedRow, FreshIdsUnfilled DEF Saved, Saves
    <2>3. LedgerSeq[e.type] <= LedgerSeq[Saved[pc[h]]]
      BY <1>4, <2>1, <2>2 DEF LedgerSeq, Event, LedgerEventType
    <2>4. QED
      BY <1>2, <1>7, <2>1, <2>3 DEF AccountedFor, Settled
  <1>8. QED
    BY <1>5, <1>6, <1>7

\* With one call at a time, and none in flight, no event lies ahead of its row
\* unless a call about its order has failed.
THEOREM SerialSettledProjection ==
  ASSUME Serialised
  PROVE  Spec => []SettledProjection
  <1>1. Init => AllAccountedFor
    BY DEF Init, AllAccountedFor
  <1>2. IInv /\ SerialInv /\ AllAccountedFor /\ [Next]_vars => AllAccountedFor'
    <2> SUFFICES ASSUME IInv, SerialInv, AllAccountedFor, [Next]_vars
                 PROVE  AllAccountedFor'
      OBVIOUS
    <2> USE DEF IInv, TypeOK
    <2>1. ASSUME NEW r \in Requests, Submit(r)
          PROVE  AllAccountedFor'
      BY <2>1, AccountKept
         DEF Submit, Start, Responsible, OrderOf, LedgerEventType, Saves
    <2>2. ASSUME NEW r \in Requests, LookUp(r)
          PROVE  AllAccountedFor'
      <3>1. UNCHANGED <<ledger, orders>> /\ refused' \in {refused, refused \cup {r}}
        BY <2>2 DEF LookUp
      <3>2. \A h \in Handlers : h # r => pc'[h] = pc[h] /\ OrderOf(h)' = OrderOf(h)
        BY <2>2, <3>1 DEF LookUp, OrderOf
      <3>3. ~Responsible(r)
        BY <2>2 DEF LookUp, Responsible, LedgerEventType, Saves
      <3>4. QED
        BY <3>1, <3>2, <3>3, AccountKept DEF Responsible
    <2>3. ASSUME NEW c \in Reconcilers, Reconcile(c)
          PROVE  AllAccountedFor'
      BY <2>3, AccountKept
         DEF Reconcile, Start, Responsible, OrderOf, LedgerEventType, Saves
    <2>4. ASSUME NEW h \in Handlers, AppendEvent(h)
          PROVE  AllAccountedFor'
      <3>1. /\ ledger' = ledger \cup {[order |-> OrderOf(h), type |-> pc[h], by |-> h]}
            /\ UNCHANGED <<orders, refused>> /\ pc[h] \in LedgerEventType
            /\ \A g \in Handlers : g # h => pc'[g] = pc[g]
        BY <2>4 DEF AppendEvent
      <3>2. pc'[h] \in LedgerEventType \cup Saves
        BY <2>4 DEF AppendEvent, AfterAppend, LedgerEventType, Saves
      <3>3. \A g \in Handlers : OrderOf(g)' = OrderOf(g)
        BY <3>1 DEF OrderOf
      <3>4. ASSUME NEW e \in ledger'
            PROVE  AccountedFor(e)'
        <4>1. CASE e \in ledger
          BY <3>1, <3>2, <3>3, <4>1 DEF AllAccountedFor, AccountedFor, Settled, Responsible
        <4>2. CASE e.order = OrderOf(h)
          BY <3>2, <3>3, <4>2 DEF AccountedFor, Responsible
        <4>3. QED
          BY <3>1, <4>1, <4>2
      <3>5. QED
        BY <3>4 DEF AllAccountedFor
    <2>5. ASSUME NEW h \in Handlers, SaveProjection(h)
          PROVE  AllAccountedFor'
      BY <2>5, SaveAccounts
    <2>6. ASSUME NEW h \in Handlers, Fail(h)
          PROVE  AllAccountedFor'
      BY <2>6, AccountKept DEF Fail, Responsible, OrderOf
    <2>7. CASE \E to \in AuthorityState : MoveAuthority(to)
      BY <2>7, AccountKept DEF MoveAuthority, Responsible, OrderOf
    <2>8. CASE UNCHANGED vars
      BY <2>8, AccountKept DEF vars, Responsible, OrderOf
    <2>9. QED
      BY <2>1, <2>2, <2>3, <2>4, <2>5, <2>6, <2>7, <2>8 DEF Next, Step
  <1>3. AllAccountedFor => SettledProjection
    BY DEF AllAccountedFor, AccountedFor, Settled, Responsible, SettledProjection,
           InFlight, LedgerEventType, Saves, Answers
  <1>4. QED
    BY <1>1, <1>2, <1>3, SerialHolds, InvariantHolds, PTL DEF Spec


=============================================================================
