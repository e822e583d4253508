-------------------------- MODULE LiveOrdersProofs --------------------------
(***************************************************************************)
(* Proofs about LiveOrders for any number of calls, keys, days and         *)
(* approvals: the venue is called once per key, after the submission is on *)
(* record; the ledger tells one story per key; the reservations implement  *)
(* LiveIntent; a fill was accepted by the venue; what is sent on a day is  *)
(* within its budget; and a call that a sealed build serves does nothing.  *)
(***************************************************************************)
EXTENDS LiveOrders, FiniteSums, SequenceTheorems

\* The calls that hold the reservation of their key, and what its row says.
Holding == BeforeCall \cup AfterCall
StageAt(p) == IF p \in {"append-submitted", "mark-submitted"} THEN "reserved" ELSE "submitted"

HoldersReserve ==
  \A r \in Requests : pc[r] \in Holding => intents[KeyOf[r]] = StageAt(pc[r])

OneHolder ==
  \A r, q \in Requests :
    pc[r] \in Holding /\ pc[q] \in Holding /\ KeyOf[r] = KeyOf[q] => r = q

\* Who has called the venue is past the call, and no other call of its key
\* holds the reservation or can take it.
SentSettled ==
  \A r \in sent :
    /\ intents[KeyOf[r]] \in {"submitted", "filled", "rejected"}
    /\ pc[r] \in AfterCall \cup {"done", "failed"}
    /\ \A q \in Requests : pc[q] \in Holding /\ KeyOf[q] = KeyOf[r] => q = r

AfterCallSent == \A r \in Requests : pc[r] \in AfterCall => r \in sent

SubmittedBy(r) == [key |-> KeyOf[r], type |-> "submitted", by |-> r]

Recorded ==
  \A r \in Requests :
    pc[r] \in {"mark-submitted", "venue"} \cup AfterCall => SubmittedBy(r) \in ledger

\* Where the author of an event can be.
PlacesAfter ==
  [t \in LiveEventType |->
     CASE t = "submitted" -> {"mark-submitted", "venue", "done", "failed"} \cup AfterCall
       [] t = "filled"    -> {"mark-filled", "done", "failed"}
       [] t = "rejected"  -> {"mark-rejected", "done", "failed"}]

\* An event is of its author's key, whose reservation nobody else holds.
EventsHaveAuthors ==
  \A e \in ledger :
    /\ e.key = KeyOf[e.by]
    /\ intents[e.key] # "none"
    /\ pc[e.by] \in PlacesAfter[e.type]
    /\ \A q \in Requests : pc[q] \in Holding /\ KeyOf[q] = e.key => q = e.by

Core ==
  /\ HoldersReserve
  /\ OneHolder
  /\ SentSettled
  /\ AfterCallSent
  /\ Recorded
  /\ EventsHaveAuthors
  /\ AtMostOneVenueCall
  /\ SubmissionRecordedFirst
  /\ OneStoryPerKey

-----------------------------------------------------------------------------

(* Types *)

\* The pipeline starts with its types.
LEMMA TypeInit == Init => TypeOK
  <1> SUFFICES ASSUME Init PROVE TypeOK
    OBVIOUS
  <1>1. \A k \in Keys : approvals[k] \in Seq({"fresh", "stale"} \cup Requests)
    BY DEF Init
  <1>2. approvals \in [Keys -> Seq({"fresh", "stale"} \cup Requests)]
    BY <1>1 DEF Init
  <1>3. QED
    BY <1>2, LiveAssumption
       DEF Init, TypeOK, Bucket, IntentStatus, VenueStatus, Places, AuthorityState

\* Each step of a call, of the owner and of the clock keeps the types.
LEMMA TypeStep == TypeOK /\ [Next]_vars => TypeOK'
  <1> SUFFICES ASSUME TypeOK, [Next]_vars
               PROVE  TypeOK'
    OBVIOUS
  <1> DEFINE Rows == Seq({"fresh", "stale"} \cup Requests)
  <1>1. ASSUME NEW r \in Requests, Call(r)
        PROVE  TypeOK'
    BY <1>1 DEF Call, Goto, TypeOK, Places, Answers
  <1>2. ASSUME NEW r \in Requests, LookUp(r)
        PROVE  TypeOK'
    BY <1>2 DEF LookUp, Goto, TypeOK, Places, Answers
  <1>3. ASSUME NEW r \in Requests, ReadApproval(r)
        PROVE  TypeOK'
    <2>1. Len(approvals[KeyOf[r]]) \in Nat
      BY LiveAssumption DEF TypeOK
    <2>2. QED
      BY <1>3, <2>1 DEF ReadApproval, Goto, TypeOK, Places, Answers
  <1>4. ASSUME NEW r \in Requests, Consume(r)
        PROVE  TypeOK'
    <2>1. approvals' \in [Keys -> Rows]
      <3>1. approvals[KeyOf[r]] \in Rows
        BY LiveAssumption DEF TypeOK
      <3> DEFINE rows == approvals[KeyOf[r]]
      <3>2. [rows EXCEPT ![picked[r]] = r] \in Rows
        <4>1. CASE picked[r] \in 1..Len(rows)
          BY <3>1, <4>1, ExceptSeq
        <4>2. CASE picked[r] \notin 1..Len(rows)
          <5>1. rows \in [1..Len(rows) -> {"fresh", "stale"} \cup Requests]
            BY <3>1, LenProperties
          <5>2. [rows EXCEPT ![picked[r]] = r] = rows
            BY <4>2, <5>1
          <5>3. QED
            BY <3>1, <5>2
        <4>3. QED
          BY <4>1, <4>2
      <3>3. QED
        BY <1>4, <3>2, LiveAssumption DEF Consume, TypeOK
    <2>2. QED
      BY <1>4, <2>1 DEF Consume, Goto, TypeOK, Places, Answers
  <1>5. ASSUME NEW r \in Requests, Reserve(r)
        PROVE  TypeOK'
    <2>1. buckets[day] \in Bucket /\ Notional[r] \in Nat
      BY LiveAssumption DEF TypeOK
    <2>2. [notional |-> buckets[day].notional + Notional[r],
           count |-> buckets[day].count + 1] \in Bucket
      BY <2>1 DEF Bucket
    <2>3. buckets' \in [1..Days -> Bucket]
      BY <1>5, <2>2 DEF Reserve, TypeOK
    <2>4. reservedOn' \in [Requests -> 0..Days]
      <3>1. reservedOn \in [Requests -> 0..Days] /\ day \in 0..Days
        BY LiveAssumption DEF TypeOK
      <3>2. reservedOn' = [reservedOn EXCEPT ![r] = day] \/ reservedOn' = reservedOn
        BY <1>5 DEF Reserve
      <3>3. QED
        BY <3>1, <3>2
    <2>5. QED
      BY <1>5, <2>3, <2>4 DEF Reserve, Goto, TypeOK, Places, Answers
  <1>6. ASSUME NEW r \in Requests, Claim(r)
        PROVE  TypeOK'
    BY <1>6 DEF Claim, Goto, TypeOK, Places, BeforeCall, Answers, IntentStatus
  <1>7. ASSUME NEW r \in Requests, AppendEvent(r)
        PROVE  TypeOK'
    <2>1. AfterAppend(pc[r]) \in Places
      BY <1>7 DEF AppendEvent, Appended, AfterAppend, Places, BeforeCall, AfterCall
    <2>2. [key |-> KeyOf[r], type |-> Appended[pc[r]], by |-> r] \in Event
      BY <1>7, LiveAssumption DEF AppendEvent, Appended, Event, LiveEventType
    <2>3. QED
      BY <1>7, <2>1, <2>2 DEF AppendEvent, Goto, TypeOK
  <1>8. ASSUME NEW r \in Requests, Mark(r)
        PROVE  TypeOK'
    <2>1. Marked[pc[r]] \in IntentStatus
      BY <1>8 DEF Mark, Marked, IntentStatus
    <2>2. QED
      BY <1>8, <2>1 DEF Mark, Goto, TypeOK, Places, BeforeCall, Answers
  <1>9. ASSUME NEW r \in Requests, Send(r)
        PROVE  TypeOK'
    BY <1>9 DEF Send, Goto, RecordedAs, TypeOK, Places, AfterCall
  <1>10. ASSUME NEW r \in Requests, Fail(r)
         PROVE  TypeOK'
    BY <1>10 DEF Fail, Goto, TypeOK, Places, Answers
  <1>11. ASSUME NEW to \in AuthorityState, MoveAuthority(to)
         PROVE  TypeOK'
    BY <1>11 DEF MoveAuthority, Owner!Move, TypeOK, local
  <1>12. ASSUME NEW k \in Keys, Approve(k)
         PROVE  TypeOK'
    <2>1. Append(approvals[k], "fresh") \in Rows
      BY DEF TypeOK
    <2>2. approvals' \in [Keys -> Rows]
      BY <1>12, <2>1 DEF Approve, TypeOK
    <2>3. QED
      BY <1>12, <2>2 DEF Approve, TypeOK, local
  <1>13. ASSUME NEW k \in Keys, Expire(k)
         PROVE  TypeOK'
    <2>1. PICK i \in DOMAIN approvals[k] : approvals' = [approvals EXCEPT ![k][i] = "stale"]
      BY <1>13 DEF Expire
    <2>2. [approvals[k] EXCEPT ![i] = "stale"] \in Rows
      BY SMTT(30) DEF TypeOK
    <2>3. approvals' \in [Keys -> Rows]
      BY <2>1, <2>2 DEF TypeOK
    <2>4. QED
      BY <1>13, <2>3 DEF Expire, TypeOK, local
  <1>14. ASSUME NextDay
         PROVE  TypeOK'
    BY <1>14, LiveAssumption DEF NextDay, TypeOK, local
  <1>15. CASE UNCHANGED vars
    BY <1>15 DEF vars, local, TypeOK
  <1>16. QED
    BY <1>1, <1>2, <1>3, <1>4, <1>5, <1>6, <1>7, <1>8, <1>9, <1>10, <1>11, <1>12,
       <1>13, <1>14, <1>15 DEF Next, Step

\* So they hold throughout.
LEMMA TypeHolds == Spec => []TypeOK
  BY TypeInit, TypeStep, PTL DEF Spec

\* Every variable of the live pipeline keeps its type.
THEOREM TypeCorrect == Spec => []TypeOK
  BY TypeHolds

-----------------------------------------------------------------------------

(* The reservation and the venue *)

\* Nobody holds a reservation at the start.
LEMMA CoreInit == Init => Core
  BY LiveAssumption
     DEF Init, Core, HoldersReserve, OneHolder, SentSettled, AfterCallSent, Recorded,
         EventsHaveAuthors, AtMostOneVenueCall, SubmissionRecordedFirst, OneStoryPerKey,
         Holding, BeforeCall, AfterCall

\* A step of a call that is not, and does not come to be, a holder: it writes
\* nothing the invariant speaks of.
LEMMA QuietMove ==
  ASSUME TypeOK, Core, NEW r \in Requests, NEW p, pc' = [pc EXCEPT ![r] = p],
         p \notin Holding,
         p = "failed" \/ pc[r] \in {"idle", "lookup", "approval", "consume", "reserve", "claim"},
         UNCHANGED <<intents, sent, ledger>>
  PROVE  Core'
  <1> USE DEF Core, Holding
  <1>1. pc'[r] = p /\ \A q \in Requests : q # r => pc'[q] = pc[q]
    BY DEF TypeOK
  <1>2. \A q \in Requests : pc'[q] \in Holding => pc[q] \in Holding /\ pc'[q] = pc[q]
    BY <1>1
  <1>3. HoldersReserve' /\ OneHolder' /\ AfterCallSent'
    BY <1>2 DEF HoldersReserve, OneHolder, AfterCallSent, StageAt
  <1>4. SentSettled'
    BY <1>1, <1>2 DEF SentSettled, TypeOK, AfterCall
  <1>5. Recorded'
    BY <1>2 DEF Recorded, SubmittedBy, BeforeCall, AfterCall
  <1>6. EventsHaveAuthors'
    <2>1. \A e \in ledger : e.type \in LiveEventType /\ e.by \in Requests
      BY DEF TypeOK, Event
    <2>2. \A t \in LiveEventType :
            /\ "failed" \in PlacesAfter[t]
            /\ PlacesAfter[t] \cap {"idle", "lookup", "approval", "consume", "reserve", "claim"} = {}
      BY DEF PlacesAfter, LiveEventType, AfterCall
    <2>3. \A e \in ledger : pc'[e.by] \in PlacesAfter[e.type]
      BY <1>1, <2>1, <2>2 DEF EventsHaveAuthors
    <2>4. QED
      BY <1>2, <2>3 DEF EventsHaveAuthors
  <1>7. AtMostOneVenueCall' /\ SubmissionRecordedFirst' /\ OneStoryPerKey'
    BY DEF AtMostOneVenueCall, SubmissionRecordedFirst, OneStoryPerKey
  <1>8. QED
    BY <1>3, <1>4, <1>5, <1>6, <1>7

\* A claim takes a free reservation, or finds the key taken and ends.
LEMMA ClaimPreserves ==
  ASSUME TypeOK, Core, NEW r \in Requests, Claim(r)
  PROVE  Core'
  <1> USE DEF Core, Holding
  <1>1. CASE intents[KeyOf[r]] # "none"
    BY <1>1, QuietMove DEF Claim, Goto, BeforeCall, AfterCall
  <1>2. CASE intents[KeyOf[r]] = "none"
    <2>1. /\ pc[r] = "claim"
          /\ intents' = [intents EXCEPT ![KeyOf[r]] = "reserved"]
          /\ pc' = [pc EXCEPT ![r] = "append-submitted"]
          /\ UNCHANGED <<ledger, sent>>
      BY <1>2 DEF Claim, Goto
    <2>2. /\ pc'[r] = "append-submitted"
          /\ \A q \in Requests : q # r => pc'[q] = pc[q]
          /\ \A k \in Keys : k # KeyOf[r] => intents'[k] = intents[k]
          /\ intents'[KeyOf[r]] = "reserved"
      BY <2>1, LiveAssumption DEF TypeOK
    \* Nobody holds the reservation of this key and nobody has used it.
    <2>3. \A q \in Requests : pc[q] \in Holding => KeyOf[q] # KeyOf[r]
      BY <1>2 DEF HoldersReserve, StageAt
    <2>4. \A q \in sent : KeyOf[q] # KeyOf[r] /\ q # r
      BY <1>2, <2>1 DEF SentSettled, AfterCall
    <2>5. \A e \in ledger : e.key # KeyOf[r] /\ e.key \in Keys /\ e.by # r /\ e.by \in Requests
      BY <1>2, LiveAssumption DEF EventsHaveAuthors, TypeOK, Event
    <2>6. HoldersReserve'
      BY <2>2, <2>3, LiveAssumption DEF HoldersReserve, StageAt
    <2>7. OneHolder'
      BY <2>2, <2>3 DEF OneHolder
    <2>8. SentSettled' /\ AfterCallSent'
      BY <2>1, <2>2, <2>4, LiveAssumption DEF SentSettled, AfterCallSent, TypeOK, AfterCall
    <2>9. Recorded'
      BY <2>1, <2>2 DEF Recorded, SubmittedBy, AfterCall
    <2>10. EventsHaveAuthors'
      BY <2>1, <2>2, <2>5 DEF EventsHaveAuthors
    <2>11. AtMostOneVenueCall' /\ OneStoryPerKey'
      BY <2>1 DEF AtMostOneVenueCall, OneStoryPerKey
    <2>12. SubmissionRecordedFirst'
      BY <2>1, <2>2, <2>4, LiveAssumption DEF SubmissionRecordedFirst, TypeOK
    <2>13. QED
      BY <2>6, <2>7, <2>8, <2>9, <2>10, <2>11, <2>12
  <1>3. QED
    BY <1>1, <1>2

\* An event of a call follows its last one, whatever others have appended.
LEMMA AppendPreserves ==
  ASSUME TypeOK, Core, NEW r \in Requests, AppendEvent(r)
  PROVE  Core'
  <1> USE DEF Core, Holding
  <1> DEFINE e == [key |-> KeyOf[r], type |-> Appended[pc[r]], by |-> r]
  <1>1. /\ pc[r] \in {"append-submitted", "append-filled", "append-rejected"}
        /\ ledger' = ledger \cup {e}
        /\ pc' = [pc EXCEPT ![r] = AfterAppend(pc[r])]
        /\ UNCHANGED <<intents, sent>>
    BY DEF AppendEvent, Goto, Appended
  <1>2. /\ pc'[r] = AfterAppend(pc[r])
        /\ \A q \in Requests : q # r => pc'[q] = pc[q]
    BY <1>1 DEF TypeOK
  <1>3. /\ pc[r] \in Holding /\ pc'[r] \in Holding
        /\ StageAt(pc'[r]) = StageAt(pc[r])
        /\ pc'[r] \in AfterCall <=> pc[r] \in AfterCall
    BY <1>1, <1>2 DEF AfterAppend, BeforeCall, AfterCall, StageAt
  <1>4. HoldersReserve' /\ OneHolder' /\ SentSettled' /\ AfterCallSent'
    BY <1>1, <1>2, <1>3 DEF HoldersReserve, OneHolder, SentSettled, AfterCallSent, TypeOK, AfterCall
  <1>5. Recorded'
    <2>1. pc[r] = "append-submitted" => SubmittedBy(r) \in ledger'
      BY <1>1 DEF Appended, SubmittedBy
    <2>2. pc[r] # "append-submitted" => SubmittedBy(r) \in ledger'
      BY <1>1 DEF Recorded, AfterCall
    <2>3. \A q \in Requests : SubmittedBy(q)' = SubmittedBy(q)
      BY DEF SubmittedBy
    <2>4. \A q \in Requests :
            pc'[q] \in {"mark-submitted", "venue"} \cup AfterCall => SubmittedBy(q) \in ledger'
      BY <1>1, <1>2, <2>1, <2>2 DEF Recorded
    <2>5. QED
      BY <2>3, <2>4 DEF Recorded
  <1>6. /\ e.key = KeyOf[r] /\ e.by = r
        /\ e.type \in LiveEventType /\ pc'[r] \in PlacesAfter[e.type]
    BY <1>1, <1>2 DEF Appended, AfterAppend, PlacesAfter, LiveEventType, AfterCall
  <1>7. intents[KeyOf[r]] # "none"
    BY <1>3 DEF HoldersReserve, StageAt
  <1>8. \A f \in ledger : f.type \in LiveEventType /\ f.by \in Requests
    BY DEF TypeOK, Event
  <1>9. \A f \in ledger : f.key = KeyOf[r] => f.by = r
    BY <1>3 DEF EventsHaveAuthors
  <1>10. \A f \in ledger : f.by = r => f.type = "submitted" /\ e.type # "submitted"
    <2>1. \A f \in ledger : f.by = r => pc[r] \in PlacesAfter[f.type]
      BY DEF EventsHaveAuthors
    <2>2. QED
      BY <1>1, <1>8, <2>1 DEF PlacesAfter, LiveEventType, Appended, AfterCall
  <1>11. EventsHaveAuthors'
    <2>1. \A f \in ledger : pc'[f.by] \in PlacesAfter[f.type]
      <3>1. \A f \in ledger : f.by = r => pc'[r] \in PlacesAfter[f.type]
        <4>1. pc'[r] \in {"mark-submitted", "mark-filled", "mark-rejected"}
          BY <1>1, <1>2 DEF AfterAppend
        <4>2. {"mark-submitted", "mark-filled", "mark-rejected"} \subseteq PlacesAfter["submitted"]
          BY DEF PlacesAfter, LiveEventType, AfterCall
        <4>3. QED
          BY <1>10, <4>1, <4>2
      <3>2. QED
        BY <1>2, <1>8, <3>1 DEF EventsHaveAuthors
    <2>2. \A q \in Requests : pc'[q] \in Holding /\ KeyOf[q] = KeyOf[r] => q = r
      BY <1>2, <1>3 DEF OneHolder
    <2>3. \A q \in Requests : pc'[q] \in Holding => pc[q] \in Holding
      BY <1>2, <1>3
    <2> HIDE DEF e
    <2>4. \A f \in ledger' :
            /\ f.key = KeyOf[f.by]
            /\ intents[f.key] # "none"
            /\ pc'[f.by] \in PlacesAfter[f.type]
            /\ \A q \in Requests : pc'[q] \in Holding /\ KeyOf[q] = f.key => q = f.by
      BY <1>1, <1>6, <1>7, <2>1, <2>2, <2>3 DEF EventsHaveAuthors
    <2>5. QED
      BY <1>1, <2>4 DEF EventsHaveAuthors
  <1>12. AtMostOneVenueCall' /\ SubmissionRecordedFirst'
    BY <1>1 DEF AtMostOneVenueCall, SubmissionRecordedFirst
  <1>13. OneStoryPerKey'
    <2> HIDE DEF e
    <2>1. \A f \in ledger :
            f.key = e.key => f.by = e.by /\ {f.type, e.type} # {"filled", "rejected"}
      BY <1>6, <1>9, <1>10
    <2>2. QED
      BY <1>1, <2>1 DEF OneStoryPerKey
  <1>14. QED
    BY <1>4, <1>5, <1>11, <1>12, <1>13

\* A mark moves the row of the one call that holds it.
LEMMA MarkPreserves ==
  ASSUME TypeOK, Core, NEW r \in Requests, Mark(r)
  PROVE  Core'
  <1> USE DEF Core, Holding
  <1>1. /\ pc[r] \in {"mark-submitted", "mark-filled", "mark-rejected"}
        /\ intents' = [intents EXCEPT ![KeyOf[r]] = Marked[pc[r]]]
        /\ pc' = [pc EXCEPT ![r] = IF pc[r] = "mark-submitted" THEN "venue" ELSE "done"]
        /\ UNCHANGED <<ledger, sent>>
    BY DEF Mark, Goto, Marked
  <1>2. /\ pc'[r] = IF pc[r] = "mark-submitted" THEN "venue" ELSE "done"
        /\ \A q \in Requests : q # r => pc'[q] = pc[q]
        /\ \A k \in Keys : k # KeyOf[r] => intents'[k] = intents[k]
        /\ intents'[KeyOf[r]] = Marked[pc[r]]
    BY <1>1, LiveAssumption DEF TypeOK
  <1>3. /\ pc[r] \in Holding
        /\ intents'[KeyOf[r]] \in {"submitted", "filled", "rejected"}
        /\ pc[r] = "mark-submitted" => intents'[KeyOf[r]] = "submitted"
    BY <1>1, <1>2 DEF Marked, BeforeCall, AfterCall
  <1>4. \A q \in Requests : pc'[q] \in Holding => pc[q] \in Holding
    BY <1>2, <1>3 DEF BeforeCall, AfterCall
  <1>5. \A q \in Requests : q # r /\ pc'[q] \in Holding => KeyOf[q] # KeyOf[r]
    BY <1>3, <1>4 DEF OneHolder
  <1>6. HoldersReserve'
    BY <1>2, <1>3, <1>5, LiveAssumption DEF HoldersReserve, StageAt, BeforeCall, AfterCall
  <1>7. OneHolder'
    BY <1>2, <1>4 DEF OneHolder
  <1>8. SentSettled'
    <2>1. \A q \in sent : q \in Requests /\ intents'[KeyOf[q]] \in {"submitted", "filled", "rejected"}
      BY <1>2, <1>3, LiveAssumption DEF SentSettled, TypeOK
    <2>2. \A q \in sent : pc'[q] \in AfterCall \cup {"done", "failed"}
      BY <1>1, <1>2, <2>1 DEF SentSettled, AfterCall
    <2>3. QED
      BY <1>1, <1>4, <2>1, <2>2 DEF SentSettled
  <1>9. AfterCallSent' /\ Recorded'
    BY <1>1, <1>2 DEF AfterCallSent, Recorded, SubmittedBy, AfterCall
  <1>10. EventsHaveAuthors'
    <2>1. \A f \in ledger : f.type \in LiveEventType /\ f.by \in Requests /\ f.key \in Keys
      BY DEF TypeOK, Event
    <2>2. \A f \in ledger : pc'[f.by] \in PlacesAfter[f.type]
      BY <1>1, <1>2, <2>1 DEF EventsHaveAuthors, PlacesAfter, AfterCall, LiveEventType
    <2>3. \A f \in ledger : intents'[f.key] # "none"
      BY <1>2, <1>3, <2>1 DEF EventsHaveAuthors
    <2>4. QED
      BY <1>1, <1>4, <2>2, <2>3 DEF EventsHaveAuthors
  <1>11. AtMostOneVenueCall' /\ OneStoryPerKey'
    BY <1>1 DEF AtMostOneVenueCall, OneStoryPerKey
  <1>12. SubmissionRecordedFirst'
    BY <1>1, <1>2, <1>3, LiveAssumption DEF SubmissionRecordedFirst, TypeOK
  <1>13. QED
    BY <1>6, <1>7, <1>8, <1>9, <1>10, <1>11, <1>12

\* The venue is called by the one holder of the key, for the first time.
LEMMA SendPreserves ==
  ASSUME TypeOK, Core, NEW r \in Requests, Send(r)
  PROVE  Core'
  <1> USE DEF Core, Holding
  <1>1. PICK p \in {"append-filled", "append-rejected"} :
          /\ pc[r] = "venue"
          /\ sent' = sent \cup {r}
          /\ pc' = [pc EXCEPT ![r] = p]
          /\ UNCHANGED <<intents, ledger>>
    BY DEF Send, Goto, RecordedAs
  <1>2. pc'[r] = p /\ \A q \in Requests : q # r => pc'[q] = pc[q]
    BY <1>1 DEF TypeOK
  <1>3. /\ pc[r] \in Holding /\ p \in AfterCall /\ p \in Holding
        /\ intents[KeyOf[r]] = "submitted" /\ StageAt(p) = "submitted"
    BY <1>1 DEF BeforeCall, AfterCall, HoldersReserve, StageAt
  <1>4. \A q \in Requests : pc'[q] \in Holding => pc[q] \in Holding
    BY <1>2, <1>3
  <1>5. HoldersReserve' /\ OneHolder' /\ AfterCallSent'
    BY <1>1, <1>2, <1>3, <1>4 DEF HoldersReserve, OneHolder, AfterCallSent
  \* Had another call of this key called the venue, r would not be about to.
  <1>6. \A q \in sent : KeyOf[q] # KeyOf[r]
    <2>1. \A q \in sent : KeyOf[q] = KeyOf[r] => r = q
      BY <1>3 DEF SentSettled
    <2>2. r \notin sent
      BY <1>1 DEF SentSettled, AfterCall
    <2>3. QED
      BY <2>1, <2>2
  <1>7. SentSettled'
    <2>1. \A q \in sent : q \in Requests /\ q # r
      BY <1>6 DEF TypeOK
    <2>2. \A q \in Requests : pc'[q] \in Holding /\ KeyOf[q] = KeyOf[r] => q = r
      BY <1>3, <1>4 DEF OneHolder
    <2>3. QED
      BY <1>1, <1>2, <1>3, <1>4, <2>1, <2>2 DEF SentSettled
  <1>8. Recorded'
    BY <1>1, <1>2 DEF Recorded, SubmittedBy
  <1>9. EventsHaveAuthors'
    <2>1. \A f \in ledger : f.type \in LiveEventType /\ f.by \in Requests
      BY DEF TypeOK, Event
    <2>2. \A f \in ledger : pc'[f.by] \in PlacesAfter[f.type]
      BY <1>1, <1>2, <2>1 DEF EventsHaveAuthors, PlacesAfter, AfterCall, LiveEventType
    <2>3. QED
      BY <1>1, <1>4, <2>2 DEF EventsHaveAuthors
  <1>10. AtMostOneVenueCall' /\ OneStoryPerKey'
    BY <1>1, <1>6 DEF AtMostOneVenueCall, OneStoryPerKey
  <1>11. SubmissionRecordedFirst'
    <2>1. SubmittedBy(r) \in ledger
      BY <1>1 DEF Recorded
    <2>2. QED
      BY <1>1, <1>3, <2>1 DEF SubmissionRecordedFirst, SubmittedBy
  <1>12. QED
    BY <1>5, <1>7, <1>8, <1>9, <1>10, <1>11

\* Every other step leaves holders, rows, events and sent orders alone.
LEMMA CoreStep == TypeOK /\ Core /\ [Next]_vars => Core'
  <1> SUFFICES ASSUME TypeOK, Core, [Next]_vars
               PROVE  Core'
    OBVIOUS
  <1>1. ASSUME NEW r \in Requests, Call(r) \/ LookUp(r) \/ ReadApproval(r) \/ Consume(r)
                                     \/ Reserve(r) \/ Fail(r)
        PROVE  Core'
    <2>1. PICK p \in {"lookup", "approval", "consume", "reserve", "claim", "blocked",
                      "duplicate", "failed"} :
            /\ pc' = [pc EXCEPT ![r] = p]
            /\ p = "failed" \/ pc[r] \in {"idle", "lookup", "approval", "consume", "reserve", "claim"}
      <3>1. CASE Call(r)
        BY <3>1 DEF Call, Goto
      <3>2. CASE LookUp(r)
        BY <3>2 DEF LookUp, Goto
      <3>3. CASE ReadApproval(r)
        BY <3>3 DEF ReadApproval, Goto
      <3>4. CASE Consume(r)
        BY <3>4 DEF Consume, Goto
      <3>5. CASE Reserve(r)
        BY <3>5 DEF Reserve, Goto
      <3>6. CASE Fail(r)
        BY <3>6 DEF Fail, Goto
      <3>7. QED
        BY <1>1, <3>1, <3>2, <3>3, <3>4, <3>5, <3>6
    <2>2. UNCHANGED <<intents, sent, ledger>>
      BY <1>1 DEF Call, LookUp, ReadApproval, Consume, Reserve, Fail
    <2>3. p \notin Holding
      BY DEF Holding, BeforeCall, AfterCall
    <2>4. QED
      BY <2>1, <2>2, <2>3, QuietMove
  <1>2. ASSUME NEW r \in Requests, Claim(r) \/ AppendEvent(r) \/ Mark(r) \/ Send(r)
        PROVE  Core'
    BY <1>2, ClaimPreserves, AppendPreserves, MarkPreserves, SendPreserves
  <1>3. ASSUME UNCHANGED <<intents, ledger, sent, pc>>
        PROVE  Core'
    BY <1>3 DEF Core, HoldersReserve, OneHolder, SentSettled, AfterCallSent, Recorded,
       EventsHaveAuthors, AtMostOneVenueCall, SubmissionRecordedFirst, OneStoryPerKey,
       SubmittedBy
  <1>4. (\E to \in AuthorityState : MoveAuthority(to)) \/ (\E k \in Keys : Approve(k) \/ Expire(k))
          \/ NextDay \/ UNCHANGED vars
          => UNCHANGED <<intents, ledger, sent, pc>>
    BY DEF MoveAuthority, Approve, Expire, NextDay, vars, local
  <1>5. QED
    BY <1>1, <1>2, <1>3, <1>4 DEF Next, Step

\* So Core holds throughout.
LEMMA CoreHolds == Spec => []Core
  BY CoreInit, CoreStep, TypeHolds, PTL DEF Spec

\* For any number of racing, failing or retried calls the venue is asked to
\* place the order of a key at most once.
THEOREM OneVenueCall == Spec => []AtMostOneVenueCall
  BY CoreHolds, PTL DEF Core

\* Who has called the venue has recorded the submission before.
THEOREM RecordComesFirst == Spec => []SubmissionRecordedFirst
  BY CoreHolds, PTL DEF Core

\* The live events of a key come from one call and have one outcome.
THEOREM OneStory == Spec => []OneStoryPerKey
  BY CoreHolds, PTL DEF Core

-----------------------------------------------------------------------------

(* The reservations implement LiveIntent *)

CallsOf(k) == {r \in sent : KeyOf[r] = k}
Calls == [k \in Keys |-> Cardinality(CallsOf(k))]

\* The refinement's initial state: nothing reserved, nothing sent.
LEMMA CallsInit == Init => Once!Init
  <1> SUFFICES ASSUME Init PROVE Once!Init
    OBVIOUS
  <1>1. \A k \in Keys : Cardinality(CallsOf(k)) = 0
    BY FS_EmptySet DEF Init, CallsOf
  <1>2. QED
    BY <1>1 DEF Init, Once!Init, CallsOf

\* Each step is one of LiveIntent's, or leaves intents and venue calls alone.
LEMMA CallsStep == TypeOK /\ Core /\ [Next]_vars => [Once!Next]_(Once!vars)
  <1> SUFFICES ASSUME TypeOK, Core, [Next]_vars
               PROVE  Once!Next \/ UNCHANGED <<intents, Calls>>
    BY DEF Once!vars, Calls, CallsOf
  <1> USE DEF Core
  <1>1. sent' = sent => Calls' = Calls
    BY DEF Calls, CallsOf
  \* A call that changes its reservation takes it to the next status.
  <1>2. ASSUME NEW r \in Requests, Claim(r)
        PROVE  Once!Next \/ UNCHANGED <<intents, Calls>>
    <2>1. CASE intents[KeyOf[r]] = "none"
      <3>1. Once!Mark(KeyOf[r], "none", "reserved")
        BY <1>1, <1>2, <2>1 DEF Claim, Once!Mark, Calls, CallsOf
      <3>2. QED
        BY <3>1, LiveAssumption DEF Once!Next
    <2>2. CASE intents[KeyOf[r]] # "none"
      BY <1>1, <1>2, <2>2 DEF Claim
    <2>3. QED
      BY <2>1, <2>2
  <1>3. ASSUME NEW r \in Requests, Mark(r)
        PROVE  Once!Next \/ UNCHANGED <<intents, Calls>>
    <2>1. /\ intents[KeyOf[r]] = StageAt(pc[r])
          /\ KeyOf[r] \in Keys
          /\ Calls' = Calls
          /\ pc[r] \in {"mark-submitted", "mark-filled", "mark-rejected"}
          /\ intents' = [intents EXCEPT ![KeyOf[r]] = Marked[pc[r]]]
      BY <1>1, <1>3, LiveAssumption
         DEF Mark, Marked, HoldersReserve, Holding, BeforeCall, AfterCall
    <2>2. CASE pc[r] = "mark-submitted"
      <3>1. Once!Mark(KeyOf[r], "reserved", "submitted")
        BY <2>1, <2>2 DEF Once!Mark, Marked, StageAt, Calls, CallsOf
      <3>2. QED
        BY <3>1, <2>1 DEF Once!Next
    <2>3. CASE pc[r] # "mark-submitted"
      <3>1. r \in sent
        BY <2>1, <2>3 DEF AfterCallSent, AfterCall
      <3>2. CallsOf(KeyOf[r]) = {r}
        BY <3>1 DEF AtMostOneVenueCall, CallsOf
      <3>3. Calls[KeyOf[r]] = 1
        BY <2>1, <3>2, FS_Singleton DEF Calls
      <3>4. /\ intents[KeyOf[r]] = "submitted"
            /\ Marked[pc[r]] \in {"filled", "rejected"}
        BY <2>1, <2>3 DEF StageAt, Marked
      <3>5. Once!Settle(KeyOf[r])
        BY <2>1, <3>3, <3>4 DEF Once!Settle, Once!Mark, Calls, CallsOf
      <3>6. QED
        BY <2>1, <3>5 DEF Once!Next
    <2>4. QED
      BY <2>2, <2>3
  \* A venue call is the first one of its key.
  <1>4. ASSUME NEW r \in Requests, Send(r)
        PROVE  Once!Next \/ UNCHANGED <<intents, Calls>>
    <2>1. /\ pc[r] = "venue" /\ sent' = sent \cup {r} /\ UNCHANGED intents
          /\ KeyOf[r] \in Keys
      BY <1>4, LiveAssumption DEF Send
    <2>2. intents[KeyOf[r]] = "submitted"
      BY <2>1 DEF HoldersReserve, Holding, BeforeCall, StageAt
    <2>3. CallsOf(KeyOf[r]) = {}
      <3>1. r \notin sent
        BY <2>1 DEF SentSettled, AfterCall
      <3>2. \A q \in sent : KeyOf[q] # KeyOf[r]
        BY <2>1, <3>1 DEF SentSettled, Holding, BeforeCall
      <3>3. QED
        BY <3>2 DEF CallsOf
    <2>4. CallsOf(KeyOf[r])' = {r} /\ \A k \in Keys : k # KeyOf[r] => CallsOf(k)' = CallsOf(k)
      BY <2>1, <2>3 DEF CallsOf
    <2>5. Calls[KeyOf[r]] = 0 /\ Calls'[KeyOf[r]] = 1
      BY <2>1, <2>3, <2>4, FS_EmptySet, FS_Singleton DEF Calls
    <2>6. Calls' = [Calls EXCEPT ![KeyOf[r]] = 1]
      BY <2>1, <2>4, <2>5 DEF Calls
    <2>7. Once!Call(KeyOf[r])
      BY <2>1, <2>2, <2>5, <2>6 DEF Once!Call, Calls, CallsOf
    <2>8. QED
      BY <2>1, <2>7 DEF Once!Next
  <1>5. ASSUME UNCHANGED <<intents, sent>>
        PROVE  Once!Next \/ UNCHANGED <<intents, Calls>>
    BY <1>1, <1>5
  <1>6. [Next]_vars => \/ \E r \in Requests : Claim(r) \/ Mark(r) \/ Send(r)
                       \/ UNCHANGED <<intents, sent>>
    BY DEF Next, Step, Call, LookUp, ReadApproval, Consume, Reserve, AppendEvent, Fail,
           MoveAuthority, Approve, Expire, NextDay, vars, local
  <1>7. QED
    BY <1>2, <1>3, <1>4, <1>5, <1>6

\* The reservations and venue calls implement LiveIntent under every
\* interleaving and failure.
THEOREM IntentImplemented == Spec => ImplementsIntent
  <1>1. Spec => Once!Spec
    BY CallsInit, CallsStep, CoreHolds, TypeHolds, PTL DEF Spec, Once!Spec
  <1>2. QED
    BY <1>1 DEF ImplementsIntent

-----------------------------------------------------------------------------

(* The seal *)

Rows == Seq({"fresh", "stale"} \cup Requests)

\* A call that a sealed build serves does not get beyond its first gate.
Halted == \A r \in Sealed : pc[r] \in {"idle", "blocked"}

NotTaken(r) == \A k \in Keys : \A i \in DOMAIN approvals[k] : approvals[k][i] # r

\* An approval row is found by its place in the sequence.
LEMMA RowsDomain ==
  ASSUME TypeOK, NEW k \in Keys
  PROVE  approvals[k] \in Rows /\ DOMAIN approvals[k] = 1..Len(approvals[k])
  BY DEF TypeOK, Rows

\* A call that a sealed build serves never gets past its first step.
LEMMA HaltedStep == TypeOK /\ Halted /\ [Next]_vars => Halted'
  <1> SUFFICES ASSUME TypeOK, Halted, [Next]_vars
               PROVE  Halted'
    OBVIOUS
  <1>1. ASSUME NEW r \in Requests, Call(r)
        PROVE  Halted'
    BY <1>1, LiveAssumption DEF Call, Goto, TypeOK, Halted
  <1>2. ASSUME NEW r \in Requests, Step(r) \/ Fail(r)
        PROVE  Halted'
    <2>1. r \notin Sealed
      BY <1>2 DEF Halted, Step, LookUp, ReadApproval, Consume, Reserve, Claim, AppendEvent,
                  Mark, Send, Fail, Appended, Marked, Answers
    <2>2. \A q \in Requests : q # r => pc'[q] = pc[q]
      BY <1>2 DEF TypeOK, Step, LookUp, ReadApproval, Consume, Reserve, Claim, AppendEvent,
                  Mark, Send, Fail, Goto
    <2>3. QED
      BY <2>1, <2>2, LiveAssumption DEF Halted
  <1>3. CASE UNCHANGED pc
    BY <1>3 DEF Halted
  <1>4. QED
    BY <1>1, <1>2, <1>3
       DEF Next, Approve, Expire, MoveAuthority, NextDay, vars, local

\* A call that takes no step of its own takes no row: rows are consumed by the
\* call that acts, and the owner and the clock write no call into them.
LEMMA NotTakenStep ==
  ASSUME TypeOK, Halted, [Next]_vars, NEW q \in Sealed, NotTaken(q)
  PROVE  \A k \in Keys : \A i \in DOMAIN approvals'[k] : approvals'[k][i] # q
  <1>1. q \in Requests /\ q \notin {"fresh", "stale"}
    BY LiveAssumption
  <1>2. CASE approvals' = approvals
    BY <1>2 DEF NotTaken
  <1>3. ASSUME NEW r \in Requests, Consume(r), approvals' # approvals
        PROVE  \A k \in Keys : \A i \in DOMAIN approvals'[k] : approvals'[k][i] # q
    <2>1. r # q
      BY <1>3 DEF Consume, Halted
    <2>2. KeyOf[r] \in Keys /\ approvals' = [approvals EXCEPT ![KeyOf[r]] =
                                             [approvals[KeyOf[r]] EXCEPT ![picked[r]] = r]]
      BY <1>3, LiveAssumption DEF Consume
    <2>3. QED
      BY <2>1, <2>2 DEF TypeOK, NotTaken
  <1>4. ASSUME NEW k \in Keys, Approve(k)
        PROVE  \A j \in Keys : \A i \in DOMAIN approvals'[j] : approvals'[j][i] # q
    <2>1. approvals' = [approvals EXCEPT ![k] = Append(approvals[k], "fresh")]
      BY <1>4 DEF Approve
    <2>2. \A i \in DOMAIN Append(approvals[k], "fresh") : Append(approvals[k], "fresh")[i] # q
      BY <1>1, RowsDomain DEF Rows, NotTaken
    <2>3. QED
      BY <2>1, <2>2 DEF TypeOK, NotTaken
  <1>5. ASSUME NEW k \in Keys, Expire(k)
        PROVE  \A j \in Keys : \A i \in DOMAIN approvals'[j] : approvals'[j][i] # q
    <2>1. PICK n \in DOMAIN approvals[k] :
            approvals' = [approvals EXCEPT ![k] = [approvals[k] EXCEPT ![n] = "stale"]]
      BY <1>5 DEF Expire
    <2>2. QED
      BY <1>1, <2>1 DEF TypeOK, NotTaken
  <1>6. \/ approvals' = approvals
        \/ \E r \in Requests : Consume(r)
        \/ \E k \in Keys : Approve(k) \/ Expire(k)
    BY DEF Next, Step, Call, LookUp, ReadApproval, Reserve, Claim, AppendEvent, Mark, Send,
           Fail, MoveAuthority, NextDay, vars, local
  <1>7. QED
    BY <1>2, <1>3, <1>4, <1>5, <1>6

\* What a call sends, records and reserves, it does in a step of its own.
LEMMA OwnTraces ==
  ASSUME TypeOK, Halted, [Next]_vars, NEW q \in Sealed,
         q \notin sent, reservedOn[q] = 0, \A e \in ledger : e.by # q
  PROVE  q \notin sent' /\ reservedOn'[q] = 0 /\ \A e \in ledger' : e.by # q
  <1>1. q \in Requests
    BY LiveAssumption
  <1>2. ASSUME NEW r \in Requests, AppendEvent(r)
        PROVE  q \notin sent' /\ reservedOn'[q] = 0 /\ \A e \in ledger' : e.by # q
    <2>1. r # q
      BY <1>2 DEF AppendEvent, Appended, Halted
    <2>2. QED
      BY <1>2, <2>1 DEF AppendEvent
  <1>3. ASSUME NEW r \in Requests, Send(r)
        PROVE  q \notin sent' /\ reservedOn'[q] = 0 /\ \A e \in ledger' : e.by # q
    <2>1. r # q
      BY <1>3 DEF Send, Halted
    <2>2. QED
      BY <1>3, <2>1 DEF Send
  <1>4. ASSUME NEW r \in Requests, Reserve(r)
        PROVE  q \notin sent' /\ reservedOn'[q] = 0 /\ \A e \in ledger' : e.by # q
    <2>1. r # q
      BY <1>4 DEF Reserve, Halted
    <2>2. UNCHANGED <<sent, ledger>> /\ reservedOn'[q] = reservedOn[q]
      BY <1>1, <1>4, <2>1 DEF Reserve, TypeOK
    <2>3. QED
      BY <2>2
  <1>5. CASE UNCHANGED <<sent, ledger, reservedOn>>
    BY <1>5
  <1>6. \/ UNCHANGED <<sent, ledger, reservedOn>>
        \/ \E r \in Requests : AppendEvent(r) \/ Send(r) \/ Reserve(r)
    BY DEF Next, Step, Call, LookUp, ReadApproval, Consume, Claim, Mark, Fail,
           Approve, Expire, MoveAuthority, NextDay, vars, local
  <1>7. QED
    BY <1>2, <1>3, <1>4, <1>5, <1>6

\* A call that a sealed build serves takes no approval and no budget, records
\* nothing and sends nothing, whatever the other calls and the owner do.
THEOREM SealNeverBroken == Spec => []SealHolds
  <1>1. Init => Halted /\ SealHolds
    BY LiveAssumption DEF Init, Halted, SealHolds
  <1>2. TypeOK /\ Halted /\ SealHolds /\ [Next]_vars => Halted' /\ SealHolds'
    <2> SUFFICES ASSUME TypeOK, Halted, SealHolds, [Next]_vars, NEW q \in Sealed
                 PROVE  /\ q \notin sent' /\ reservedOn'[q] = 0
                        /\ \A e \in ledger' : e.by # q
                        /\ \A k \in Keys : \A i \in DOMAIN approvals'[k] : approvals'[k][i] # q
      BY HaltedStep DEF SealHolds
    <2>1. NotTaken(q)
      BY DEF SealHolds, NotTaken
    <2>2. QED
      BY <2>1, OwnTraces, NotTakenStep DEF SealHolds
  <1>3. QED
    BY <1>1, <1>2, TypeHolds, PTL DEF Spec

-----------------------------------------------------------------------------

(* Approvals *)

HasApproval(r) == \E i \in DOMAIN approvals[KeyOf[r]] : approvals[KeyOf[r]][i] = r

\* A call past its approval has one that is still its own.
ApprovalsKept ==
  /\ \A r \in Requests :
       /\ seen[r] = "approval-required-live"
       /\ pc[r] \in {"reserve", "claim"} \cup Holding \/ r \in sent
       => HasApproval(r)
  /\ \A r \in Requests : pc[r] = "consume" => picked[r] \in 1..Len(approvals[KeyOf[r]])

\* Rows are only added, and a row that a call has consumed never changes.
RowsKept ==
  \A k \in Keys :
    /\ Len(approvals[k]) <= Len(approvals'[k])
    /\ \A i \in 1..Len(approvals[k]) :
         approvals[k][i] \in Requests => approvals'[k][i] = approvals[k][i]

\* No step removes an approval, or gives a consumed one to another call.
LEMMA RowsAreKept ==
  ASSUME TypeOK, [Next]_vars, \A r \in Requests : pc[r] = "consume" => picked[r] \in 1..Len(approvals[KeyOf[r]])
  PROVE  RowsKept
  <1>1. \A k \in Keys : approvals[k] \in Rows
    BY DEF TypeOK, Rows
  <1>2. CASE approvals' = approvals
    BY <1>1, <1>2 DEF RowsKept, Rows
  <1>3. ASSUME NEW r \in Requests, Consume(r), approvals' # approvals
        PROVE  RowsKept
    <2> DEFINE k == KeyOf[r]
    <2>1. /\ k \in Keys /\ picked[r] \in 1..Len(approvals[k])
          /\ approvals[k][picked[r]] \notin Requests
          /\ approvals' = [approvals EXCEPT ![k] = [approvals[k] EXCEPT ![picked[r]] = r]]
      BY <1>3, LiveAssumption DEF Consume
    <2>2. approvals'[k] = [approvals[k] EXCEPT ![picked[r]] = r]
          /\ \A j \in Keys : j # k => approvals'[j] = approvals[j]
      BY <2>1 DEF TypeOK
    <2> HIDE DEF k
    <2>3. /\ Len(approvals'[k]) = Len(approvals[k])
          /\ \A i \in 1..Len(approvals[k]) :
               approvals[k][i] \in Requests => approvals'[k][i] = approvals[k][i]
      BY <1>1, <2>1, <2>2, ExceptSeq DEF Rows
    <2>4. \A j \in Keys : Len(approvals[j]) \in Nat
      BY <1>1 DEF Rows
    <2>5. QED
      BY <2>1, <2>2, <2>3, <2>4 DEF RowsKept
  <1>4. ASSUME NEW k \in Keys, Approve(k)
        PROVE  RowsKept
    <2>1. approvals'[k] = Append(approvals[k], "fresh")
          /\ \A j \in Keys : j # k => approvals'[j] = approvals[j]
      BY <1>4 DEF Approve, TypeOK
    <2>2. /\ Len(approvals'[k]) = Len(approvals[k]) + 1
          /\ \A i \in 1..Len(approvals[k]) : approvals'[k][i] = approvals[k][i]
      BY <1>1, <2>1 DEF Rows
    <2>3. \A j \in Keys : Len(approvals[j]) \in Nat
      BY <1>1 DEF Rows
    <2>4. QED
      BY <2>1, <2>2, <2>3 DEF RowsKept
  <1>5. ASSUME NEW k \in Keys, Expire(k)
        PROVE  RowsKept
    <2>1. PICK i \in DOMAIN approvals[k] :
            /\ approvals[k][i] = "fresh"
            /\ approvals' = [approvals EXCEPT ![k] = [approvals[k] EXCEPT ![i] = "stale"]]
      BY <1>5 DEF Expire
    <2>2. i \in 1..Len(approvals[k]) /\ approvals[k][i] \notin Requests
      BY <1>1, <2>1, LiveAssumption DEF Rows
    <2>3. approvals'[k] = [approvals[k] EXCEPT ![i] = "stale"]
          /\ \A j \in Keys : j # k => approvals'[j] = approvals[j]
      BY <2>1 DEF TypeOK
    <2>4. /\ Len(approvals'[k]) = Len(approvals[k])
          /\ \A j \in 1..Len(approvals[k]) :
               approvals[k][j] \in Requests => approvals'[k][j] = approvals[k][j]
      BY <1>1, <2>2, <2>3, ExceptSeq DEF Rows
    <2>5. \A j \in Keys : Len(approvals[j]) \in Nat
      BY <1>1 DEF Rows
    <2>6. QED
      BY <2>3, <2>4, <2>5 DEF RowsKept
  <1>6. \/ approvals' = approvals
        \/ \E r \in Requests : Consume(r)
        \/ \E k \in Keys : Approve(k) \/ Expire(k)
    BY DEF Next, Step, Call, LookUp, ReadApproval, Reserve, Claim, AppendEvent, Mark, Send,
           Fail, MoveAuthority, NextDay, vars, local
  <1>7. QED
    BY <1>2, <1>3, <1>4, <1>5, <1>6

\* Each step keeps the calls past their approval in possession of a row.
LEMMA ApprovalStep == TypeOK /\ Core /\ ApprovalsKept /\ [Next]_vars => ApprovalsKept'
  <1> SUFFICES ASSUME TypeOK, Core, ApprovalsKept, [Next]_vars
               PROVE  ApprovalsKept'
    OBVIOUS
  <1>1. RowsKept
    BY RowsAreKept DEF ApprovalsKept
  <1>2. \A r \in Requests : /\ approvals[KeyOf[r]] \in Rows /\ approvals'[KeyOf[r]] \in Rows
                           /\ KeyOf[r] \in Keys
    BY TypeStep, LiveAssumption DEF TypeOK, Rows
  <1>3. \A r \in Requests : HasApproval(r) => HasApproval(r)'
    <2>1. \A r \in Requests : HasApproval(r) =>
            \E i \in DOMAIN approvals'[KeyOf[r]] : approvals'[KeyOf[r]][i] = r
      BY <1>1, <1>2 DEF HasApproval, RowsKept, Rows
    <2>2. QED
      BY <2>1 DEF HasApproval
  \* What a step can do to one call: leave it; refuse it; move it on within the
  \* places where it has an approval; or bring it to such a place.
  <1>4. ASSUME NEW r \in Requests
        PROVE  \/ pc'[r] = pc[r] /\ seen'[r] = seen[r] /\ picked'[r] = picked[r]
                 /\ (r \in sent' => r \in sent)
               \/ Call(r) \/ LookUp(r) \/ ReadApproval(r) \/ Consume(r)
               \/ Reserve(r) \/ Claim(r) \/ AppendEvent(r) \/ Mark(r) \/ Send(r) \/ Fail(r)
    <2>1. ASSUME NEW q \in Requests, q # r, Call(q) \/ Step(q) \/ Fail(q)
          PROVE  pc'[r] = pc[r] /\ seen'[r] = seen[r] /\ picked'[r] = picked[r]
                 /\ (r \in sent' => r \in sent)
      BY <2>1 DEF Step, Call, LookUp, ReadApproval, Consume, Reserve, Claim, AppendEvent,
                  Mark, Send, Fail, Goto, TypeOK
    <2>2. ASSUME UNCHANGED local
          PROVE  pc'[r] = pc[r] /\ seen'[r] = seen[r] /\ picked'[r] = picked[r]
                 /\ (r \in sent' => r \in sent)
      BY <2>2 DEF local
    <2>3. QED
      BY <2>1, <2>2 DEF Next, Step, MoveAuthority, Approve, Expire, NextDay, vars
  <1>5. ASSUME NEW r \in Requests, seen'[r] = "approval-required-live",
               pc'[r] \in {"reserve", "claim"} \cup Holding \/ r \in sent'
        PROVE  HasApproval(r)'
    <2>1. CASE Consume(r)
      <3>1. CASE r \in sent
        BY <3>1, <2>1 DEF Consume, Core, SentSettled, AfterCall
      <3>2. CASE r \notin sent
        <4>1. /\ picked[r] \in 1..Len(approvals[KeyOf[r]])
              /\ approvals'[KeyOf[r]] = [approvals[KeyOf[r]] EXCEPT ![picked[r]] = r]
          BY <1>2, <1>5, <2>1, <3>2
             DEF Consume, Goto, ApprovalsKept, TypeOK, Holding, BeforeCall, AfterCall
        <4>2. /\ picked[r] \in DOMAIN approvals'[KeyOf[r]]
              /\ approvals'[KeyOf[r]][picked[r]] = r
          BY <1>2, <4>1 DEF Rows
        <4>3. QED
          BY <4>2 DEF HasApproval
      <3>3. QED
        BY <3>1, <3>2
    <2>2. CASE ~Consume(r)
      <3>1. /\ seen[r] = "approval-required-live"
            /\ pc[r] \in {"reserve", "claim"} \cup Holding \/ r \in sent
        <4>1. CASE Call(r)
          <5>1. pc[r] = "idle" /\ sent' = sent /\ pc'[r] \in {"lookup", "blocked"}
            BY <4>1 DEF Call, Goto, TypeOK
          <5>2. r \in sent
            BY <1>5, <5>1 DEF Holding, BeforeCall, AfterCall
          <5>3. QED
            BY <5>1, <5>2 DEF Core, SentSettled, AfterCall
        <4>2. CASE LookUp(r)
          BY <1>5, <4>2 DEF LookUp, Goto, TypeOK, Holding, BeforeCall, AfterCall
        <4>3. CASE ReadApproval(r)
          BY <1>5, <4>3 DEF ReadApproval, Goto, TypeOK, Holding, BeforeCall, AfterCall
        <4>4. CASE Reserve(r)
          BY <1>5, <4>4 DEF Reserve
        <4>5. CASE Claim(r)
          BY <1>5, <4>5 DEF Claim
        <4>6. CASE AppendEvent(r)
          BY <1>5, <4>6 DEF AppendEvent, Appended, Holding, BeforeCall, AfterCall
        <4>7. CASE Mark(r)
          BY <1>5, <4>7 DEF Mark, Marked, Holding, BeforeCall, AfterCall
        <4>8. CASE Send(r)
          BY <1>5, <4>8 DEF Send, Holding, BeforeCall
        <4>9. CASE Fail(r)
          BY <1>5, <4>9 DEF Fail, Goto, TypeOK, Holding, BeforeCall, AfterCall
        <4>10. QED
          BY <1>4, <1>5, <2>2, <4>1, <4>2, <4>3, <4>4, <4>5, <4>6, <4>7, <4>8, <4>9
      <3>2. QED
        BY <3>1, <1>3 DEF ApprovalsKept
    <2>3. QED
      BY <2>1, <2>2
  <1>6. ASSUME NEW r \in Requests, pc'[r] = "consume"
        PROVE  picked'[r] \in 1..Len(approvals'[KeyOf[r]])
    <2>1. Len(approvals[KeyOf[r]]) \in Nat /\ Len(approvals'[KeyOf[r]]) \in Nat
      BY <1>2 DEF Rows
    <2>2. Len(approvals[KeyOf[r]]) <= Len(approvals'[KeyOf[r]])
      BY <1>1, <1>2 DEF RowsKept
    <2>3. CASE ReadApproval(r)
      BY <1>2, <1>6, <2>1, <2>3 DEF ReadApproval, Goto, TypeOK, Rows
    <2>4. CASE pc'[r] = pc[r] /\ picked'[r] = picked[r]
      BY <1>6, <2>1, <2>2, <2>4 DEF ApprovalsKept
    <2>5. CASE Call(r) \/ LookUp(r) \/ Consume(r) \/ Reserve(r) \/ Claim(r) \/ Mark(r) \/ Fail(r)
      BY <1>6, <2>5 DEF Call, LookUp, Consume, Reserve, Claim, Mark, Fail, Goto, TypeOK
    <2>6. CASE AppendEvent(r) \/ Send(r)
      BY <1>6, <2>6 DEF AppendEvent, AfterAppend, Appended, Send, RecordedAs, Goto, TypeOK
    <2>7. QED
      BY <1>4, <2>3, <2>4, <2>5, <2>6
  <1>7. QED
    BY <1>5, <1>6 DEF ApprovalsKept

\* Every order placed under approval-required-live has an approval that no
\* other call has used, whatever calls race for it.
THEOREM OrdersApproved == Spec => []EveryOrderApproved
  <1>1. Init => ApprovalsKept
    BY DEF Init, ApprovalsKept, Holding, BeforeCall, AfterCall
  <1>2. TypeOK /\ ApprovalsKept => EveryOrderApproved
    BY DEF ApprovalsKept, EveryOrderApproved, HasApproval, TypeOK
  <1>3. QED
    BY <1>1, <1>2, ApprovalStep, CoreHolds, TypeHolds, PTL DEF Spec

-----------------------------------------------------------------------------

(* Fills *)

\* A call records a fill only of an order the venue has accepted, and nothing
\* is sent for a key after that.
FillsKept ==
  /\ FillsWereAccepted
  /\ \A r \in Requests : pc[r] = "append-filled" => venue[KeyOf[r]] \in {"resting", "filled"}

\* Each step keeps fills and what is about to be one with the venue's orders.
LEMMA FillsStep == TypeOK /\ Core /\ FillsKept /\ [Next]_vars => FillsKept'
  <1> SUFFICES ASSUME TypeOK, Core, FillsKept, [Next]_vars
               PROVE  FillsKept'
    OBVIOUS
  <1>1. \A e \in ledger : e.key \in Keys /\ e.by \in Requests /\ e.type \in LiveEventType
    BY DEF TypeOK, Event
  <1>2. ASSUME NEW r \in Requests, Send(r)
        PROVE  FillsKept'
    <2>1. PICK status \in VenueStatus, answered \in BOOLEAN :
            /\ pc[r] = "venue"
            /\ answered => status # "none"
            /\ venue' = [venue EXCEPT ![KeyOf[r]] = status]
            /\ pc' = [pc EXCEPT ![r] = RecordedAs(status, answered)]
            /\ ledger' = ledger
      BY <1>2 DEF Send, Goto
    <2>2. /\ pc'[r] = RecordedAs(status, answered)
          /\ \A q \in Requests : q # r => pc'[q] = pc[q]
          /\ venue'[KeyOf[r]] = status
          /\ \A k \in Keys : k # KeyOf[r] => venue'[k] = venue[k]
      BY <2>1, LiveAssumption DEF TypeOK
    \* Nothing of this key has been recorded as filled or is about to be.
    <2>3. \A e \in ledger : e.type = "filled" => e.key # KeyOf[r]
      <3>1. \A e \in ledger : e.key = KeyOf[r] => e.by = r
        BY <2>1 DEF Core, EventsHaveAuthors, Holding, BeforeCall
      <3>2. \A e \in ledger : e.type = "filled" => pc[e.by] # "venue"
        BY DEF Core, EventsHaveAuthors, PlacesAfter, LiveEventType
      <3>3. QED
        BY <2>1, <3>1, <3>2
    <2>4. \A q \in Requests : q # r /\ pc[q] = "append-filled" => KeyOf[q] # KeyOf[r]
      BY <2>1 DEF Core, OneHolder, Holding, BeforeCall, AfterCall
    <2>5. pc'[r] = "append-filled" => status \in {"resting", "filled"}
      BY <2>1, <2>2 DEF RecordedAs, VenueStatus
    <2>6. FillsWereAccepted'
      BY <1>1, <2>1, <2>2, <2>3 DEF FillsKept, FillsWereAccepted
    <2>7. QED
      BY <2>2, <2>4, <2>5, <2>6, LiveAssumption DEF FillsKept
  <1>3. ASSUME NEW r \in Requests, AppendEvent(r)
        PROVE  FillsKept'
    <2>1. /\ pc[r] \in DOMAIN Appended
          /\ ledger' = ledger \cup {[key |-> KeyOf[r], type |-> Appended[pc[r]], by |-> r]}
          /\ pc' = [pc EXCEPT ![r] = AfterAppend(pc[r])]
          /\ venue' = venue
      BY <1>3 DEF AppendEvent, Goto
    <2>2. Appended[pc[r]] = "filled" => venue[KeyOf[r]] \in {"resting", "filled"}
      BY <2>1 DEF Appended, FillsKept
    <2>3. FillsWereAccepted'
      BY <2>1, <2>2 DEF FillsKept, FillsWereAccepted
    <2>4. \A q \in Requests : pc'[q] = "append-filled" => pc[q] = "append-filled"
      BY <2>1 DEF TypeOK, Appended, AfterAppend
    <2>5. QED
      BY <2>1, <2>3, <2>4 DEF FillsKept
  <1>4. ASSUME UNCHANGED <<venue, ledger>>,
               \A r \in Requests : pc'[r] = "append-filled" => pc[r] = "append-filled"
        PROVE  FillsKept'
    BY <1>4 DEF FillsKept, FillsWereAccepted
  <1>5. ASSUME NEW r \in Requests, Call(r) \/ LookUp(r) \/ ReadApproval(r) \/ Consume(r)
                                     \/ Reserve(r) \/ Claim(r) \/ Mark(r) \/ Fail(r)
        PROVE  FillsKept'
    <2>1. UNCHANGED <<venue, ledger>>
      BY <1>5 DEF Call, LookUp, ReadApproval, Consume, Reserve, Claim, Mark, Fail
    <2>2. \A q \in Requests : pc'[q] = "append-filled" => pc[q] = "append-filled"
      BY <1>5 DEF Call, LookUp, ReadApproval, Consume, Reserve, Claim, Mark, Fail, Goto, TypeOK
    <2>3. QED
      BY <1>4, <2>1, <2>2
  <1>6. (\E to \in AuthorityState : MoveAuthority(to)) \/ (\E k \in Keys : Approve(k) \/ Expire(k))
          \/ NextDay \/ UNCHANGED vars
          => UNCHANGED <<venue, ledger, pc>>
    BY DEF MoveAuthority, Approve, Expire, NextDay, vars, local
  <1>7. QED
    BY <1>2, <1>3, <1>4, <1>5, <1>6 DEF Next, Step

\* Whatever the venue answers, and whether or not its answer arrives, an order
\* that the ledger calls filled was accepted by the venue.
THEOREM FillsAccepted == Spec => []FillsWereAccepted
  <1>1. Init => FillsKept
    BY DEF Init, FillsKept, FillsWereAccepted
  <1>2. FillsKept => FillsWereAccepted
    BY DEF FillsKept
  <1>3. QED
    BY <1>1, <1>2, FillsStep, CoreHolds, TypeHolds, PTL DEF Spec

-----------------------------------------------------------------------------

(* The day's budget *)

ReservedOn(d) == {r \in Requests : reservedOn[r] = d}

\* A bucket is the account of the calls that have reserved budget on its day;
\* the last of them found the whole within the cap it computed.
BucketTells(d) ==
  /\ IsFiniteSet(ReservedOn(d))
  /\ buckets[d].notional = SumFunctionOnSet(Notional, ReservedOn(d))
  /\ buckets[d].count = Cardinality(ReservedOn(d))
  /\ ReservedOn(d) # {} =>
       /\ \E r \in ReservedOn(d) : buckets[d].notional <= Cap[r]
       /\ buckets[d].count <= TradeLimit

BudgetKept ==
  /\ \A r \in Requests :
       pc[r] \in {"idle", "lookup", "approval", "consume", "reserve"} => reservedOn[r] = 0
  /\ \A d \in 1..Days : BucketTells(d)

\* The buckets start empty, and nobody has reserved.
LEMMA BudgetInit == Init => BudgetKept
  <1> SUFFICES ASSUME Init PROVE BudgetKept
    OBVIOUS
  <1>1. ASSUME NEW d \in 1..Days
        PROVE  BucketTells(d)
    <2>1. ReservedOn(d) = {}
      BY LiveAssumption DEF Init, ReservedOn
    <2>2. buckets[d].notional = 0 /\ buckets[d].count = 0
      BY DEF Init
    <2>3. SumFunctionOnSet(Notional, {}) = 0
      BY FS_EmptySet, SumUnfolds
    <2>4. QED
      BY <2>1, <2>2, <2>3, FS_EmptySet DEF BucketTells
  <1>2. QED
    BY <1>1 DEF Init, BudgetKept

\* A reservation adds a call to the account of the day.
LEMMA ReservationAccounted ==
  ASSUME TypeOK, BudgetKept, NEW r \in Requests, pc[r] = "reserve",
         Fits(r, buckets[day]),
         buckets' = [buckets EXCEPT ![day] =
                       [notional |-> buckets[day].notional + Notional[r],
                        count |-> buckets[day].count + 1]],
         reservedOn' = [reservedOn EXCEPT ![r] = day]
  PROVE  \A d \in 1..Days : BucketTells(d)'
  <1>1. day \in 1..Days /\ reservedOn[r] = 0 /\ day # 0
    BY LiveAssumption DEF TypeOK, BudgetKept
  <1>2. \A d \in 1..Days : d # day => ReservedOn(d)' = ReservedOn(d) /\ buckets'[d] = buckets[d]
    BY <1>1 DEF ReservedOn, TypeOK
  <1>3. ASSUME NEW d \in 1..Days, d # day
        PROVE  BucketTells(d)'
    <2>1. BucketTells(d)
      BY DEF BudgetKept
    <2>2. QED
      BY <1>2, <1>3, <2>1 DEF BucketTells
  <1>4. ASSUME NEW d \in 1..Days, d = day
        PROVE  BucketTells(d)'
    <2> DEFINE b == buckets[d]
               S == ReservedOn(d)
    <2>1. r \notin S /\ ReservedOn(d)' = S \cup {r}
      BY <1>1, <1>4 DEF ReservedOn, TypeOK
    <2>2. /\ IsFiniteSet(S) /\ S \subseteq Requests
          /\ b.notional = SumFunctionOnSet(Notional, S)
          /\ b.count = Cardinality(S)
          /\ b.notional \in Nat /\ b.count \in Nat
      BY <1>1 DEF BudgetKept, BucketTells, ReservedOn, TypeOK, Bucket
    <2>3. buckets'[d].notional = b.notional + Notional[r] /\ buckets'[d].count = b.count + 1
      BY <1>1, <1>4 DEF TypeOK
    <2>4. IsFiniteSet(S \cup {r}) /\ Cardinality(S \cup {r}) = b.count + 1
      BY <2>1, <2>2, FS_AddElement
    <2>5. SumFunctionOnSet(Notional, S \cup {r}) = Notional[r] + SumFunctionOnSet(Notional, S)
      <3>1. (S \cup {r}) \ {r} = S /\ S \cup {r} \in SUBSET Requests /\ r \in S \cup {r}
        BY <2>1, <2>2
      <3>2. Notional \in [Requests -> Nat]
        BY LiveAssumption
      <3> HIDE DEF S
      <3>3. SumFunctionOnSet(Notional, S \cup {r}) =
              Notional[r] + SumFunctionOnSet(Notional, (S \cup {r}) \ {r})
        BY <2>4, <3>1, <3>2, SumWithout
      <3>4. QED
        BY <3>1, <3>3
    <2>6. Notional[r] \in Nat
      BY LiveAssumption
    <2>7. b.notional + Notional[r] <= Cap[r] /\ b.count + 1 <= TradeLimit
      BY <1>4 DEF Fits
    <2> HIDE DEF b, S
    <2>8. /\ IsFiniteSet(ReservedOn(d)')
          /\ buckets'[d].notional = SumFunctionOnSet(Notional, ReservedOn(d)')
          /\ buckets'[d].count = Cardinality(ReservedOn(d)')
      BY <2>1, <2>2, <2>3, <2>4, <2>5, <2>6
    <2>9. r \in ReservedOn(d)' /\ buckets'[d].notional <= Cap[r]
          /\ buckets'[d].count <= TradeLimit
      BY <1>4, <2>1, <2>3, <2>7
    <2>10. ReservedOn(d)' = {q \in Requests : reservedOn'[q] = d}
      BY DEF ReservedOn
    <2>11. QED
      BY <2>8, <2>9, <2>10 DEF BucketTells
  <1>5. QED
    BY <1>3, <1>4

\* Each step keeps the buckets the accounts of their days.
LEMMA BudgetStep == TypeOK /\ BudgetKept /\ [Next]_vars => BudgetKept'
  <1> SUFFICES ASSUME TypeOK, BudgetKept, [Next]_vars
               PROVE  BudgetKept'
    OBVIOUS
  <1> DEFINE Early == {"idle", "lookup", "approval", "consume", "reserve"}
  <1>1. ASSUME UNCHANGED <<buckets, reservedOn>>
        PROVE  \A d \in 1..Days : BucketTells(d)'
    <2>1. \A d \in 1..Days : BucketTells(d)
      BY DEF BudgetKept
    <2>2. QED
      BY <1>1, <2>1 DEF BucketTells, ReservedOn
  <1>2. ASSUME NEW r \in Requests, Reserve(r)
        PROVE  BudgetKept'
    <2>1. pc[r] = "reserve" /\ pc'[r] \notin Early /\ \A q \in Requests : q # r => pc'[q] = pc[q]
      BY <1>2 DEF Reserve, Goto, TypeOK
    <2>2. \A q \in Requests : q # r => reservedOn'[q] = reservedOn[q]
      BY <1>2 DEF Reserve, TypeOK
    <2>3. \A d \in 1..Days : BucketTells(d)'
      <3>1. CASE UNCHANGED <<buckets, reservedOn>>
        BY <1>1, <3>1
      <3>2. CASE ~ UNCHANGED <<buckets, reservedOn>>
        BY <1>2, <3>2, ReservationAccounted DEF Reserve
      <3>3. QED
        BY <3>1, <3>2
    <2>4. QED
      BY <2>1, <2>2, <2>3 DEF BudgetKept
  <1>3. ASSUME NEW r \in Requests, Call(r) \/ LookUp(r) \/ ReadApproval(r) \/ Consume(r)
                                     \/ Claim(r) \/ AppendEvent(r) \/ Mark(r) \/ Send(r) \/ Fail(r)
        PROVE  BudgetKept'
    <2>1. UNCHANGED <<buckets, reservedOn>>
      BY <1>3 DEF Call, LookUp, ReadApproval, Consume, Claim, AppendEvent, Mark, Send, Fail
    <2>2. \A q \in Requests : pc'[q] \in Early => pc[q] \in Early
      <3>1. \A q \in Requests : q # r => pc'[q] = pc[q]
        BY <1>3 DEF Call, LookUp, ReadApproval, Consume, Claim, AppendEvent, Mark, Send, Fail,
                    Goto, TypeOK
      <3>2. CASE AppendEvent(r)
        BY <3>1, <3>2 DEF AppendEvent, Appended, AfterAppend, Goto, TypeOK
      <3>3. CASE Send(r)
        BY <3>1, <3>3 DEF Send, RecordedAs, Goto, TypeOK
      <3>4. CASE Call(r) \/ LookUp(r) \/ ReadApproval(r) \/ Consume(r)
        BY <3>1, <3>4 DEF Call, LookUp, ReadApproval, Consume
      <3>5. CASE Claim(r) \/ Mark(r) \/ Fail(r)
        BY <3>1, <3>5 DEF Claim, Mark, Fail, Goto, TypeOK
      <3>6. QED
        BY <1>3, <3>2, <3>3, <3>4, <3>5
    <2>3. QED
      BY <1>1, <2>1, <2>2 DEF BudgetKept
  <1>4. ASSUME UNCHANGED <<buckets, reservedOn, pc>>
        PROVE  BudgetKept'
    BY <1>1, <1>4 DEF BudgetKept
  <1>5. (\E to \in AuthorityState : MoveAuthority(to)) \/ (\E k \in Keys : Approve(k) \/ Expire(k))
          \/ NextDay \/ UNCHANGED vars
          => UNCHANGED <<buckets, reservedOn, pc>>
    BY DEF MoveAuthority, Approve, Expire, NextDay, vars, local
  <1>6. QED
    BY <1>2, <1>3, <1>4, <1>5 DEF Next, Step

\* What was sent on a day is part of what was reserved on it.
LEMMA BudgetBounds == TypeOK /\ BudgetKept => DayWithinBudget
  <1> SUFFICES ASSUME TypeOK, BudgetKept, NEW d \in 1..Days, SentOn(d) # {}
               PROVE  /\ \E r \in Requests :
                           reservedOn[r] = d /\ SumFunctionOnSet(Notional, SentOn(d)) <= Cap[r]
                      /\ Cardinality(SentOn(d)) <= TradeLimit
    BY DEF DayWithinBudget
  <1>1. SentOn(d) \in SUBSET ReservedOn(d) /\ ReservedOn(d) \in SUBSET Requests
    BY DEF SentOn, ReservedOn, TypeOK
  <1>2. BucketTells(d) /\ ReservedOn(d) # {}
    BY <1>1 DEF BudgetKept
  <1>3. PICK r \in ReservedOn(d) : buckets[d].notional <= Cap[r]
    BY <1>2 DEF BucketTells
  <1>4. Notional \in [Requests -> Nat] /\ Cap[r] \in Nat /\ r \in Requests /\ reservedOn[r] = d
    BY LiveAssumption DEF ReservedOn
  <1>5. IsFiniteSet(ReservedOn(d)) /\ IsFiniteSet(SentOn(d))
        /\ Cardinality(SentOn(d)) <= Cardinality(ReservedOn(d))
    BY <1>1, <1>2, FS_Subset DEF BucketTells
  <1>6. /\ SumFunctionOnSet(Notional, SentOn(d)) \in Nat
        /\ SumFunctionOnSet(Notional, ReservedOn(d)) \in Nat
    BY <1>1, <1>4, <1>5, SumIsNatural
  <1>7. SumFunctionOnSet(Notional, SentOn(d)) <= SumFunctionOnSet(Notional, ReservedOn(d))
    BY <1>1, <1>4, <1>5, SumGrows
  <1>8. Cardinality(SentOn(d)) \in Nat /\ Cardinality(ReservedOn(d)) \in Nat /\ TradeLimit \in Nat
    BY <1>5, FS_CardinalityType, LiveAssumption
  <1>9. SumFunctionOnSet(Notional, SentOn(d)) <= Cap[r]
    BY <1>2, <1>3, <1>4, <1>6, <1>7 DEF BucketTells
  <1>10. Cardinality(SentOn(d)) <= TradeLimit
    BY <1>2, <1>5, <1>8 DEF BucketTells
  <1>11. QED
    BY <1>4, <1>9, <1>10

\* The orders placed against the budget of a day stay within the cap that some
\* call of that day computed, and within the trade limit: for any number of
\* racing calls, any values and any caps.
THEOREM BudgetHeld == Spec => []DayWithinBudget
  BY BudgetInit, BudgetStep, BudgetBounds, TypeHolds, PTL DEF Spec

=============================================================================
