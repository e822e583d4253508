--------------------------- MODULE ProposalsProofs ---------------------------
(***************************************************************************)
(* Proofs about Proposals for any number of proposals and calls: the paper *)
(* book holds an order only of an approved, policy-passing proposal, and   *)
(* the queue implements ProposalLifecycle, and a proposal is simulated     *)
(* only by a settlement that met the order of another.                     *)
(***************************************************************************)
EXTENDS Proposals, TLAPS

\* Each place in the code belongs to one kind of call.
PlacesFit ==
  /\ \A a \in Approvals : pc[a] \in {"idle", "gate", "store-approved"} \cup Ends
  /\ \A x \in Rejections : pc[x] \in {"idle", "store-rejected"} \cup Ends
  /\ \A s \in Settlements : pc[s] \notin {"gate", "store-approved"}

\* A call in flight names a proposal that was once open to it.
CallsNameOpen ==
  \A h \in Handlers : pc[h] # "idle" => Of(h).status \notin {"none", "blocked"}

\* Only a passing proposal leaves "none" for anything but "blocked".
OpenPasses ==
  \A p \in ProposalIds :
    proposals[p].status \notin {"none", "blocked"} => proposals[p].policy = "pass"

GatePassed ==
  \A a \in Approvals : pc[a] \in {"store-approved", "stored"} => Of(a).run = "passed"

ApprovedIsSound ==
  \A p \in ProposalIds : proposals[p].status = "approved" => ApprovedBy(p) # {}

SettledIsSound ==
  \A s \in Settlements : pc[s] # "idle" => ApprovedBy(Subject[s]) # {}

\* The paper executor acts for a settlement that has started, under its key.
PaperFollows ==
  /\ \A s \in Settlements : paperPc[s] # "idle" => pc[s] # "idle"
  /\ \A e \in ledger : Paper!OrderKey(e.order) = Subject[e.by] /\ pc[e.by] # "idle"

IInv ==
  /\ TypeOK
  /\ PlacesFit
  /\ CallsNameOpen
  /\ OpenPasses
  /\ GatePassed
  /\ ApprovedIsSound
  /\ SettledIsSound
  /\ PaperFollows

\* An event of the paper ledger goes back to a stored approval.
LEMMA InvImpliesOrders == IInv => OrdersAreApproved
  <1> SUFFICES ASSUME IInv, NEW e \in ledger
               PROVE  LET p == Paper!OrderKey(e.order) IN
                        /\ ApprovedBy(p) # {}
                        /\ proposals[p].policy = "pass" /\ proposals[p].run = "passed"
    BY DEF OrdersAreApproved
  <1>1. e.by \in Settlements
    BY DEF IInv, TypeOK, Paper!TypeOK, Paper!Event, Paper!Handlers
  <1>2. Paper!OrderKey(e.order) = Subject[e.by] /\ pc[e.by] # "idle"
    BY DEF IInv, PaperFollows
  <1>3. ApprovedBy(Subject[e.by]) # {}
    BY <1>1, <1>2 DEF IInv, SettledIsSound
  <1>4. PICK a \in Approvals : Subject[a] = Subject[e.by] /\ pc[a] = "stored"
    BY <1>3 DEF ApprovedBy
  <1>5. proposals[Subject[e.by]].run = "passed"
    BY <1>4 DEF IInv, GatePassed, Of
  <1>6. proposals[Subject[e.by]].policy = "pass"
    BY <1>1, <1>2, ProposalAssumption
       DEF IInv, CallsNameOpen, OpenPasses, Handlers, Of
  <1>7. QED
    BY <1>2, <1>3, <1>5, <1>6

-----------------------------------------------------------------------------

(* Types *)

\* The executor's authority states are the server's.
LEMMA SameStates == Paper!AuthorityState = AuthorityState
  BY DEF Paper!AuthorityState, AuthorityState

\* The queue and the executor start with their types.
LEMMA TypeInit == Init => TypeOK
  <1> SUFFICES ASSUME Init PROVE TypeOK
    OBVIOUS
  <1>1. proposals \in [ProposalIds -> Row] /\ pc \in [Handlers -> Places]
    BY DEF Init, NoRow, Row, Status, Policy, Places
  <1>2. orders \in [Paper!OrderIds -> Paper!Row] /\ paperPc \in [Paper!Handlers -> Paper!Places]
    BY DEF Init, Paper!Init, Paper!NoRow, Paper!Row, Paper!Places
  <1>3. seen \in [Settlements -> AuthorityState] /\ refused \subseteq Settlements
        /\ authority \in AuthorityState /\ ledger \subseteq Paper!Event
    BY SameStates DEF Init, Paper!Init, AuthorityState
  <1>4. QED
    BY <1>1, <1>2, <1>3, SameStates DEF TypeOK, Paper!TypeOK

\* A step of the executor keeps the types of both.
LEMMA PaperTypes ==
  ASSUME TypeOK, NEW s \in Settlements, Execute(s) \/ Throw(s)
  PROVE  TypeOK'
  <1> USE DEF TypeOK, Paper!TypeOK, Paper!Handlers
  <1>1. UNCHANGED <<proposals, pc>>
    BY DEF Execute, Throw
  <1>2. Paper!OrderOf(s) \in Paper!OrderIds
    BY ProposalAssumption DEF Paper!OrderOf, Paper!OrderIds, Handlers
  <1>3. CASE Paper!Submit(s)
    BY <1>1, <1>3 DEF Paper!Submit, Paper!Start, Paper!Places
  <1>4. CASE Paper!LookUp(s)
    <2>1. /\ paperPc' = [paperPc EXCEPT ![s] = "answer-duplicate"]
             \/ paperPc' = [paperPc EXCEPT ![s] = "proposed"]
          /\ refused' \subseteq refused \cup {s}
          /\ seen' = [seen EXCEPT ![s] = "disabled"]
          /\ UNCHANGED <<authority, ledger, orders>>
      BY <1>4 DEF Paper!LookUp
    <2>2. {"answer-duplicate", "proposed"} \subseteq Paper!Places
      BY DEF Paper!Places, Paper!Answers, Paper!LedgerEventType
    <2>3. QED
      BY <1>1, <2>1, <2>2 DEF Paper!AuthorityState
  <1>5. CASE Paper!AppendEvent(s)
    <2>1. [order |-> Paper!OrderOf(s), type |-> paperPc[s], by |-> s] \in Paper!Event
      BY <1>2, <1>5 DEF Paper!AppendEvent, Paper!Event
    <2>2. Paper!AfterAppend(paperPc[s]) \in Paper!Places
      BY <1>5 DEF Paper!AppendEvent, Paper!AfterAppend, Paper!LedgerEventType,
                  Paper!Places, Paper!Saves
    <2>3. QED
      BY <1>1, <1>5, <2>1, <2>2 DEF Paper!AppendEvent
  <1>6. CASE Paper!SaveProjection(s)
    <2>1. [status |-> Paper!Saved[paperPc[s]], recon |-> "pending"] \in Paper!Row
      BY <1>6 DEF Paper!SaveProjection, Paper!Saved, Paper!Saves, Paper!Row
    <2>2. Paper!AfterSave(s) \in Paper!Places
      BY <1>6 DEF Paper!SaveProjection, Paper!AfterSave, Paper!Saves, Paper!Places,
                  Paper!Answers, Paper!LedgerEventType
    <2>3. QED
      BY <1>1, <1>2, <1>6, <2>1, <2>2 DEF Paper!SaveProjection
  <1>7. CASE Paper!Fail(s)
    BY <1>1, <1>7 DEF Paper!Fail, Paper!Places, Paper!Answers
  <1>8. QED
    BY <1>3, <1>4, <1>5, <1>6, <1>7 DEF Execute, Throw, Paper!Step

\* Each step keeps the types.
LEMMA TypeStep == TypeOK /\ [Next]_vars => TypeOK'
  <1> SUFFICES ASSUME TypeOK, [Next]_vars
               PROVE  TypeOK'
    OBVIOUS
  <1>1. ASSUME UNCHANGED <<authority, paperVars>>
        PROVE  Paper!TypeOK'
    BY <1>1 DEF TypeOK, Paper!TypeOK, paperVars
  <1>2. ASSUME NEW p \in ProposalIds, Propose(p)
        PROVE  TypeOK'
    BY <1>1, <1>2 DEF Propose, TypeOK, Row, Status, Policy
  <1>3. ASSUME NEW h \in Handlers,
               Approve(h) \/ Gate(h) \/ Reject(h) \/ Settle(h) \/ Prepare(h) \/ Return(h)
        PROVE  TypeOK'
    BY <1>1, <1>3 DEF Approve, Gate, Reject, Settle, Prepare, Return, Go, TypeOK, Places,
                      Stored, Ends
  <1>4. ASSUME NEW s \in Settlements, Execute(s) \/ Throw(s)
        PROVE  TypeOK'
    BY <1>4, PaperTypes
  <1>5. ASSUME NEW h \in Handlers, Store(h)
        PROVE  TypeOK'
    <2>1. Stored[pc[h]] \in Status /\ Subject[h] \in ProposalIds
      BY <1>5, ProposalAssumption DEF Store, Stored, Status
    <2>2. [proposals[Subject[h]] EXCEPT !.status = Stored[pc[h]]] \in Row
      BY <2>1 DEF TypeOK, Row
    <2>3. proposals' \in [ProposalIds -> Row]
      BY <1>5, <2>1, <2>2 DEF Store, TypeOK
    <2>4. QED
      BY <1>1, <1>5, <2>3 DEF Store, Go, TypeOK, Places, Ends
  <1>6. ASSUME NEW h \in Handlers, Fail(h)
        PROVE  TypeOK'
    <2>1. /\ paperPc' = [paperPc EXCEPT ![h] = "failed"] \/ paperPc' = paperPc
          /\ pc' = [pc EXCEPT ![h] = "failed"]
          /\ UNCHANGED <<proposals, authority, ledger, orders, seen, refused>>
      BY <1>6 DEF Fail, Go
    <2>2. "failed" \in Places /\ "failed" \in Paper!Places
      BY DEF Places, Ends, Paper!Places, Paper!Answers
    <2>3. QED
      BY <2>1, <2>2 DEF TypeOK, Paper!TypeOK, Paper!Handlers
  <1>7. ASSUME NEW to \in AuthorityState, MoveAuthority(to)
        PROVE  TypeOK'
    BY <1>7, SameStates DEF MoveAuthority, Owner!Move, TypeOK, Paper!TypeOK, paperVars
  <1>8. CASE UNCHANGED vars
    BY <1>1, <1>8 DEF vars, TypeOK, paperVars
  <1>9. QED
    BY <1>2, <1>3, <1>4, <1>5, <1>6, <1>7, <1>8 DEF Next, Handlers

\* Type correctness of the proposal queue and the paper executor below it.
THEOREM TypeCorrect == Spec => []TypeOK
  BY TypeInit, TypeStep, PTL DEF Spec

-----------------------------------------------------------------------------

(* Orders are of approved proposals *)

\* There is no proposal and no call in flight at the start.
LEMMA InitInv == Init => IInv
  <1> SUFFICES ASSUME Init PROVE IInv
    OBVIOUS
  <1>1. \A h \in Handlers : pc[h] = "idle"
    BY DEF Init
  <1>2. \A p \in ProposalIds : proposals[p].status = "none"
    BY DEF Init, NoRow
  <1>3. PaperFollows
    BY DEF Init, Paper!Init, PaperFollows, Paper!Handlers
  <1>4. QED
    BY <1>1, <1>2, <1>3, TypeInit
       DEF IInv, PlacesFit, CallsNameOpen, OpenPasses, GatePassed, ApprovedIsSound,
           SettledIsSound, Handlers

\* What no step undoes: a started call stays started, a stored one stored, a
\* queued proposal keeps its policy and run, an open one stays open.
Onward ==
  /\ \A h \in Handlers :
       /\ pc[h] # "idle" => pc'[h] # "idle"
       /\ pc[h] = "stored" => pc'[h] = "stored"
  /\ \A p \in ProposalIds :
       proposals[p].status # "none" =>
         /\ proposals'[p].policy = proposals[p].policy
         /\ proposals'[p].run = proposals[p].run
         /\ proposals[p].status \notin {"none", "blocked"} =>
              proposals'[p].status \notin {"none", "blocked"}

\* No step of the queue or of the executor takes any of this back.
LEMMA AlwaysOnward == TypeOK /\ [Next]_vars => Onward
  <1> SUFFICES ASSUME TypeOK, [Next]_vars
               PROVE  Onward
    OBVIOUS
  <1>1. ASSUME NEW p \in ProposalIds, Propose(p)
        PROVE  Onward
    BY <1>1 DEF Propose, TypeOK, Onward
  <1>2. ASSUME NEW h \in Handlers,
               Approve(h) \/ Gate(h) \/ Reject(h) \/ Settle(h) \/ Prepare(h) \/ Return(h)
        PROVE  Onward
    BY <1>2 DEF Approve, Gate, Reject, Settle, Prepare, Return, Go, TypeOK, Onward
  <1>3. ASSUME NEW h \in Handlers, Store(h)
        PROVE  Onward
    <2>1. Stored[pc[h]] \notin {"none", "blocked"} /\ Subject[h] \in ProposalIds
      BY <1>3, ProposalAssumption DEF Store, Stored
    <2>2. \A p \in ProposalIds :
            /\ proposals'[p].policy = proposals[p].policy
            /\ proposals'[p].run = proposals[p].run
            /\ proposals'[p].status = proposals[p].status
               \/ proposals'[p].status = Stored[pc[h]]
      BY <1>3, <2>1 DEF Store, TypeOK, Row
    <2>3. \A g \in Handlers : pc'[g] = pc[g] \/ (g = h /\ pc'[g] = "stored")
      BY <1>3 DEF Store, Go, TypeOK
    <2>4. QED
      BY <2>1, <2>2, <2>3 DEF Onward
  <1>4. ASSUME NEW h \in Handlers, Fail(h)
        PROVE  Onward
    BY <1>4 DEF Fail, Go, TypeOK, Ends, Onward
  <1>5. CASE UNCHANGED <<proposals, pc>>
    BY <1>5 DEF Onward
  <1>6. QED
    BY <1>1, <1>2, <1>3, <1>4, <1>5
       DEF Next, Handlers, Execute, Throw, MoveAuthority, vars

\* An approval that was stored stays so.
LEMMA ApprovalsStay ==
  ASSUME Onward, NEW p \in ProposalIds, ApprovedBy(p) # {}
  PROVE  \E a \in Approvals : Subject[a] = p /\ pc'[a] = "stored"
  BY DEF ApprovedBy, Onward, Handlers

\* What the queue's own steps keep.
LEMMA QueueStep ==
  ASSUME IInv, [Next]_vars, Onward
  PROVE  PlacesFit' /\ CallsNameOpen' /\ OpenPasses' /\ GatePassed'
  <1> USE DEF IInv
  <1>1. ASSUME NEW p \in ProposalIds, Propose(p)
        PROVE  PlacesFit' /\ CallsNameOpen' /\ OpenPasses' /\ GatePassed'
    <2>1. /\ pc' = pc /\ proposals[p].status = "none"
          /\ \A q \in ProposalIds : q # p => proposals'[q] = proposals[q]
          /\ proposals'[p].status \notin {"none", "blocked"} => proposals'[p].policy = "pass"
      BY <1>1 DEF Propose, TypeOK
    <2>2. \A h \in Handlers : pc[h] # "idle" => Subject[h] # p
      BY <2>1 DEF CallsNameOpen, Of
    <2>3. \A h \in Handlers : pc[h] # "idle" => proposals'[Subject[h]] = proposals[Subject[h]]
      BY <2>1, <2>2, ProposalAssumption
    <2>4. QED
      BY <2>1, <2>3 DEF PlacesFit, CallsNameOpen, OpenPasses, GatePassed, Of, Handlers
  <1>2. ASSUME UNCHANGED proposals
        PROVE  OpenPasses'
    BY <1>2 DEF OpenPasses
  <1>3. ASSUME NEW a \in Approvals, Approve(a) \/ Gate(a)
        PROVE  PlacesFit' /\ CallsNameOpen' /\ OpenPasses' /\ GatePassed'
    <2>1. a \in Handlers /\ a \notin Rejections /\ a \notin Settlements
      BY ProposalAssumption DEF Handlers
    <2>2. /\ proposals' = proposals
          /\ \A h \in Handlers : h # a => pc'[h] = pc[h]
          /\ pc'[a] \in {"gate", "store-approved", "refused"}
          /\ Of(a).status \notin {"none", "blocked"}
          /\ pc'[a] = "store-approved" => Of(a).run = "passed"
      BY <1>3, <2>1 DEF Approve, Gate, GatePasses, Go, TypeOK, CallsNameOpen, Of
    <2>3. QED
      BY <1>2, <2>1, <2>2 DEF PlacesFit, CallsNameOpen, GatePassed, Of, Handlers, Ends
  <1>4. ASSUME NEW h \in Rejections \cup Settlements,
               (h \in Rejections /\ Reject(h))
               \/ (h \in Settlements /\ (Settle(h) \/ Prepare(h) \/ Return(h)))
        PROVE  PlacesFit' /\ CallsNameOpen' /\ OpenPasses' /\ GatePassed'
    <2>1. h \in Handlers /\ h \notin Approvals
      BY ProposalAssumption DEF Handlers
    <2>2. /\ proposals' = proposals
          /\ \A g \in Handlers : g # h => pc'[g] = pc[g]
          /\ pc'[h] \in {"store-rejected"} \/ (h \in Settlements /\
                pc'[h] \in {"prepare", "execute", "store-simulated"})
          /\ Of(h).status \notin {"none", "blocked"}
      BY <1>4, <2>1 DEF Reject, Settle, Prepare, Return, Go, TypeOK, CallsNameOpen, Of
    <2>3. QED
      BY <1>2, <2>1, <2>2, ProposalAssumption
         DEF PlacesFit, CallsNameOpen, GatePassed, Of, Handlers, Ends
  <1>5. ASSUME NEW h \in Handlers, Store(h) \/ Fail(h)
        PROVE  PlacesFit' /\ CallsNameOpen' /\ OpenPasses' /\ GatePassed'
    <2>1. /\ \A g \in Handlers : g # h => pc'[g] = pc[g]
          /\ pc'[h] \in {"stored", "failed"}
          /\ pc'[h] = "stored" => pc[h] \in DOMAIN Stored
          /\ pc[h] # "idle"
      BY <1>5 DEF Store, Fail, Go, TypeOK, Stored
    <2>2. PlacesFit'
      BY <2>1 DEF PlacesFit, Handlers, Ends
    <2>3. \A g \in Handlers : pc'[g] # "idle" => pc[g] # "idle"
      BY <2>1
    <2>4. CallsNameOpen'
      BY <2>3, ProposalAssumption DEF CallsNameOpen, Onward, Of
    <2>5. OpenPasses'
      <3>1. \A p \in ProposalIds : proposals'[p].policy = proposals[p].policy
                 /\ (proposals'[p].status = proposals[p].status
                        \/ proposals[p].status \notin {"none", "blocked"})
        <4>1. CASE Fail(h)
          BY <4>1 DEF Fail
        <4>2. CASE Store(h)
          <5>1. Of(h).status \notin {"none", "blocked"}
            BY <2>1 DEF CallsNameOpen
          <5>2. QED
            BY <4>2, <5>1, ProposalAssumption DEF Store, TypeOK, Row, Of
        <4>3. QED
          BY <1>5, <4>1, <4>2
      <3>2. QED
        BY <3>1 DEF OpenPasses
    <2>6. GatePassed'
      <3>1. \A a \in Approvals : pc'[a] \in {"store-approved", "stored"} =>
                                   pc[a] \in {"store-approved", "stored"}
        BY <2>1 DEF PlacesFit, Handlers, Stored, Ends
      <3>2. \A a \in Approvals : pc[a] \in {"store-approved", "stored"} =>
                                   Of(a).status # "none" /\ Of(a).run = "passed"
        BY DEF CallsNameOpen, GatePassed, Handlers
      <3>3. QED
        BY <3>1, <3>2, ProposalAssumption DEF GatePassed, Onward, Of, Handlers
    <2>7. QED
      BY <2>2, <2>4, <2>5, <2>6
  <1>6. CASE UNCHANGED <<proposals, pc>>
    BY <1>6 DEF PlacesFit, CallsNameOpen, OpenPasses, GatePassed, Of
  <1>7. QED
    BY <1>1, <1>3, <1>4, <1>5, <1>6 DEF Next, Execute, Throw, MoveAuthority, vars

\* A proposal becomes approved only by an approval that is stored with it.
LEMMA ApprovedStep ==
  ASSUME IInv, [Next]_vars, Onward
  PROVE  ApprovedIsSound'
  <1> USE DEF IInv
  <1> SUFFICES ASSUME NEW p \in ProposalIds, proposals'[p].status = "approved"
               PROVE  \E a \in Approvals : Subject[a] = p /\ pc'[a] = "stored"
    BY DEF ApprovedIsSound, ApprovedBy
  <1>1. CASE proposals[p].status = "approved"
    BY <1>1, ApprovalsStay DEF ApprovedIsSound
  <1>2. CASE proposals[p].status # "approved"
    <2>1. PICK h \in Handlers : Store(h)
      <3>1. proposals' # proposals
        BY <1>2
      <3>2. ~ \E q \in ProposalIds : Propose(q)
        <4>1. ASSUME NEW q \in ProposalIds, Propose(q)
              PROVE  FALSE
          BY <1>2, <4>1 DEF Propose, TypeOK
        <4>2. QED
          BY <4>1
      <3>3. QED
        BY <3>1, <3>2 DEF Next, Approve, Gate, Reject, Settle, Prepare, Execute, Throw, Return,
                          Fail, MoveAuthority, vars
    <2>2. /\ pc[h] \in DOMAIN Stored /\ pc'[h] = "stored"
          /\ p = Subject[h] /\ Stored[pc[h]] = "approved"
      BY <1>2, <2>1, ProposalAssumption DEF Store, Go, TypeOK, Row
    <2>3. pc[h] = "store-approved"
      BY <2>2 DEF Stored
    <2>4. h \in Approvals
      BY <2>3 DEF PlacesFit, Handlers, Ends
    <2>5. QED
      BY <2>2, <2>4
  <1>3. QED
    BY <1>1, <1>2

\* A settlement starts only on an approved proposal.
LEMMA SettledStep ==
  ASSUME IInv, [Next]_vars, Onward
  PROVE  SettledIsSound'
  <1> USE DEF IInv
  <1> SUFFICES ASSUME NEW s \in Settlements, pc'[s] # "idle"
               PROVE  \E a \in Approvals : Subject[a] = Subject[s] /\ pc'[a] = "stored"
    BY DEF SettledIsSound, ApprovedBy
  <1>1. s \in Handlers /\ Subject[s] \in ProposalIds
    BY ProposalAssumption DEF Handlers
  <1>2. CASE pc[s] # "idle"
    BY <1>1, <1>2, ApprovalsStay DEF SettledIsSound
  <1>3. CASE pc[s] = "idle"
    <2>1. Settle(s)
      <3>1. \A h \in Handlers : h # s => ~(Approve(h) \/ Gate(h) \/ Reject(h) \/ Settle(h)
                                           \/ Prepare(h) \/ Return(h) \/ Store(h) \/ Fail(h))
        BY <1>1, <1>3 DEF Approve, Gate, Reject, Settle, Prepare, Return, Store, Fail, Go, TypeOK
      <3>2. ~(Prepare(s) \/ Return(s) \/ Store(s) \/ Fail(s))
        BY <1>3 DEF Prepare, Return, Store, Fail, Stored
      <3>3. pc' # pc
        BY <1>3
      <3>4. s \notin Approvals /\ s \notin Rejections
        BY ProposalAssumption
      <3>5. QED
        BY <3>1, <3>2, <3>3, <3>4
           DEF Next, Propose, Execute, Throw, MoveAuthority, vars, Handlers
    <2>2. QED
      BY <1>1, <2>1, ApprovalsStay DEF Settle, Of, ApprovedIsSound
  <1>4. QED
    BY <1>2, <1>3

\* What the executor appends is the order of the settlement that called it.
LEMMA PaperStep ==
  ASSUME IInv, [Next]_vars, Onward
  PROVE  PaperFollows'
  <1> USE DEF IInv
  <1>1. \A s \in Settlements : pc[s] # "idle" => pc'[s] # "idle"
    BY DEF Onward, Handlers
  <1>2. \A e \in ledger : e.by \in Settlements
    BY DEF TypeOK, Paper!TypeOK, Paper!Event, Paper!Handlers
  <1>3. CASE UNCHANGED <<ledger, paperPc>>
    BY <1>1, <1>2, <1>3 DEF PaperFollows, Paper!OrderKey
  <1>4. ASSUME NEW s \in Settlements, Execute(s) \/ Throw(s)
        PROVE  PaperFollows'
    <2>1. /\ \A t \in Settlements : t # s => paperPc'[t] = paperPc[t]
          /\ pc' = pc /\ pc[s] = "execute"
          /\ ledger' \subseteq ledger \cup
               {[order |-> Paper!OrderOf(s), type |-> paperPc[s], by |-> s]}
      BY <1>4 DEF Execute, Throw, TypeOK, Paper!TypeOK, Paper!Handlers, Paper!Submit,
                  Paper!LookUp, Paper!Step, Paper!AppendEvent, Paper!SaveProjection, Paper!Fail
    <2>2. Paper!OrderKey(Paper!OrderOf(s)) = Subject[s]
      BY ProposalAssumption DEF Paper!OrderKey, Paper!OrderOf, Handlers
    <2>3. ASSUME NEW e \in ledger'
          PROVE  Paper!OrderKey(e.order) = Subject[e.by] /\ pc'[e.by] # "idle"
      <3>1. CASE e \in ledger
        BY <1>1, <1>2, <3>1 DEF PaperFollows
      <3>2. CASE e \notin ledger
        <4>1. e.order = Paper!OrderOf(s) /\ e.by = s
          BY <2>1, <3>2
        <4>2. QED
          BY <2>1, <2>2, <4>1
      <3>3. QED
        BY <3>1, <3>2
    <2>4. QED
      BY <2>1, <2>3 DEF PaperFollows, Paper!OrderKey
  <1>5. ASSUME NEW h \in Handlers, Fail(h)
        PROVE  PaperFollows'
    <2>1. /\ ledger' = ledger
          /\ \A t \in Settlements : t # h => paperPc'[t] = paperPc[t]
          /\ pc'[h] = "failed"
      BY <1>5 DEF Fail, Go, TypeOK, Paper!TypeOK, Paper!Handlers
    <2>2. QED
      BY <1>1, <1>2, <2>1 DEF PaperFollows, Paper!OrderKey
  <1>6. QED
    BY <1>3, <1>4, <1>5 DEF Next, Propose, Approve, Gate, Reject, Settle, Prepare, Return,
                            Store, MoveAuthority, paperVars, vars

\* Each step keeps the invariant.
LEMMA InvStep == IInv /\ [Next]_vars => IInv'
  <1> SUFFICES ASSUME IInv, [Next]_vars PROVE IInv'
    OBVIOUS
  <1>1. TypeOK' /\ Onward
    BY TypeStep, AlwaysOnward DEF IInv
  <1>2. QED
    BY <1>1, QueueStep, ApprovedStep, SettledStep, PaperStep DEF IInv

\* So the invariant holds throughout.
LEMMA InvHolds == Spec => []IInv
  BY InitInv, InvStep, PTL DEF Spec

\* The paper book holds an order of a proposal only if its policy and its
\* research run passed and an approval of it was stored.
THEOREM OrdersApproved == Spec => []OrdersAreApproved
  BY InvHolds, InvImpliesOrders, PTL

-----------------------------------------------------------------------------

(* The queue implements its abstract lifecycle *)

StatusOf == [p \in ProposalIds |-> proposals[p].status]
Granted == {p \in ProposalIds : ApprovedBy(p) # {}}

\* The refinement's initial state: no proposal, no approval.
LEMMA LifecycleInit == Init => Lifecycle!Init
  BY DEF Init, NoRow, Lifecycle!Init, ApprovedBy, Handlers

\* A step that stores no approval grants nothing.
LEMMA NothingGranted ==
  ASSUME TypeOK,
         \A a \in Approvals : pc'[a] = "stored" <=> pc[a] = "stored"
  PROVE  Granted' = Granted
  BY DEF Granted, ApprovedBy

\* Each step is one of ProposalLifecycle's, or leaves status and approvals alone.
LEMMA LifecycleStep ==
  IInv /\ [Next]_vars => [Lifecycle!Next]_<<StatusOf, Granted>>
  <1> SUFFICES ASSUME IInv, [Next]_vars
               PROVE  [Lifecycle!Next]_<<StatusOf, Granted>>
    OBVIOUS
  <1> USE DEF IInv
  <1>0. UNCHANGED proposals => StatusOf' = StatusOf
    BY DEF StatusOf
  <1>1. ASSUME NEW p \in ProposalIds, Propose(p)
        PROVE  Lifecycle!Next
    <2>1. /\ proposals[p].status = "none" /\ pc' = pc
          /\ proposals'[p].status \in {"review", "blocked"}
          /\ \A q \in ProposalIds : q # p => proposals'[q] = proposals[q]
      BY <1>1 DEF Propose, TypeOK
    <2> PICK to \in {"review", "blocked"} : proposals'[p].status = to
      BY <2>1
    <2>0. StatusOf' = [StatusOf EXCEPT ![p] = to]
      BY <2>1 DEF StatusOf
    <2>2. Granted' = Granted
      BY <2>1, NothingGranted
    <2>3. Lifecycle!Queue(p, to)
      BY <2>1, <2>2, <2>0 DEF Lifecycle!Queue, StatusOf, Granted
    <2>4. QED
      BY <2>3 DEF Lifecycle!Next
  <1>2. ASSUME NEW h \in Handlers, Store(h)
        PROVE  Lifecycle!Next
    <2> DEFINE p == Subject[h]
               to == Stored[pc[h]]
    <2>1. /\ p \in ProposalIds /\ proposals[p].status \notin {"none", "blocked"}
          /\ StatusOf' = [StatusOf EXCEPT ![p] = to]
          /\ pc' = [pc EXCEPT ![h] = "stored"]
          /\ pc[h] \in DOMAIN Stored
      BY <1>2, ProposalAssumption DEF Store, Go, CallsNameOpen, Of, TypeOK, Row, StatusOf, Stored
    <2>2. CASE h \in Approvals
      <3>1. to = "approved"
        BY <2>1, <2>2 DEF PlacesFit, Stored, Ends
      <3>2. Granted' = Granted \cup {p}
        BY <2>1, <2>2 DEF Granted, ApprovedBy, TypeOK
      <3>3. Lifecycle!Grant(p)
        BY <2>1, <3>1, <3>2 DEF Lifecycle!Grant, Lifecycle!Open, StatusOf, Granted
      <3>4. QED
        BY <2>1, <3>3 DEF Lifecycle!Next
    <2>3. CASE h \notin Approvals
      <3>1. Granted' = Granted
        <4>1. \A a \in Approvals : pc'[a] = pc[a]
          BY <2>1, <2>3 DEF TypeOK
        <4>2. QED
          BY <4>1, NothingGranted
      <3>2. CASE h \in Rejections
        <4>1. to = "rejected"
          BY <2>1, <3>2 DEF PlacesFit, Stored, Ends
        <4>2. Lifecycle!Refuse(p)
          BY <2>1, <3>1, <4>1 DEF Lifecycle!Refuse, Lifecycle!Open, StatusOf, Granted
        <4>3. QED
          BY <2>1, <4>2 DEF Lifecycle!Next
      <3>3. CASE h \in Settlements
        <4>1. to \in {"simulated", "rejected"}
          BY <2>1, <3>3 DEF PlacesFit, Stored
        <4>2. p \in Granted
          BY <2>1, <3>3 DEF SettledIsSound, Granted, Stored
        <4>3. Lifecycle!Settle(p)
          BY <2>1, <3>1, <4>1, <4>2 DEF Lifecycle!Settle, StatusOf, Granted
        <4>4. QED
          BY <2>1, <4>3 DEF Lifecycle!Next
      <3>4. QED
        BY <2>3, <3>2, <3>3 DEF Handlers
    <2>4. QED
      BY <2>2, <2>3
  <1>3. ASSUME NEW h \in Handlers,
               Approve(h) \/ Gate(h) \/ Reject(h) \/ Settle(h) \/ Prepare(h) \/ Return(h) \/ Fail(h)
        PROVE  UNCHANGED <<StatusOf, Granted>>
    <2>1. /\ proposals' = proposals
          /\ \A g \in Handlers : pc'[g] = "stored" <=> pc[g] = "stored"
      BY <1>3 DEF Approve, Gate, Reject, Settle, Prepare, Return, Fail, Go, TypeOK, Ends
    <2>2. QED
      BY <1>0, <2>1, NothingGranted DEF Handlers
  <1>4. CASE UNCHANGED <<proposals, pc>>
    BY <1>0, <1>4, NothingGranted
  <1>5. QED
    BY <1>1, <1>2, <1>3, <1>4 DEF Next, Handlers, Execute, Throw, MoveAuthority, vars

\* The queue implements ProposalLifecycle for any number of proposals and calls,
\* under every interleaving and failure.
THEOREM LifecycleImplemented == Spec => ImplementsLifecycle
  <1>1. Spec => Lifecycle!Spec
    BY LifecycleInit, LifecycleStep, InvHolds, PTL
       DEF Spec, Lifecycle!Spec, StatusOf, Granted
  <1>2. QED
    BY <1>1 DEF ImplementsLifecycle

-----------------------------------------------------------------------------

(* A proposal is recorded as simulated only by a retry *)

Proposed(s) == \E e \in ledger : e.by = s /\ e.type = "proposed"

\* Where the paper executor can be with an order that has no price.
Unfilled == {"idle", "lookup", "proposed", "save-proposed", "rejected", "save-rejected",
             "answer-rejected", "answer-duplicate", "failed"}

\* The order of a settlement is refused, once it is proposed; a duplicate is one
\* of the order of another settlement.
OnlyRefused ==
  \A s \in Settlements :
    /\ paperPc[s] \in Unfilled
    /\ paperPc[s] \in {"proposed", "save-proposed"} => s \in refused
    /\ paperPc[s] \in {"idle", "lookup"} => ~Proposed(s)
    /\ paperPc[s] \in {"save-proposed", "rejected", "save-rejected"} => Proposed(s)
    /\ paperPc[s] = "answer-duplicate" =>
         \E t \in Settlements : t # s /\ Subject[t] = Subject[s] /\ Proposed(t)
    /\ pc[s] = "store-simulated" => paperPc[s] = "answer-duplicate"

RowsProposed ==
  \A o \in Paper!OrderIds :
    orders[o].status # "none" =>
      \E s \in Settlements : Subject[s] = Paper!OrderKey(o) /\ Proposed(s)

SimulatedMet ==
  \A p \in ProposalIds :
    proposals[p].status = "simulated" =>
      \E t \in Settlements : Subject[t] = p /\ paperPc[t] = "answer-duplicate"

RetryInv == OnlyRefused /\ RowsProposed /\ SimulatedMet

\* What no step of the paper executor undoes.
LEMMA PaperOnward ==
  ASSUME TypeOK, [Next]_vars
  PROVE  /\ \A s \in Settlements : Proposed(s) => Proposed(s)'
         /\ \A s \in Settlements : paperPc[s] = "answer-duplicate" => paperPc'[s] = "answer-duplicate"
  <1>1. ledger \subseteq ledger'
    BY DEF Next, Propose, Approve, Gate, Reject, Settle, Prepare, Execute, Throw, Return, Store,
           Fail, MoveAuthority, vars, paperVars, Paper!Submit, Paper!LookUp, Paper!Step,
           Paper!AppendEvent, Paper!SaveProjection, Paper!Fail
  <1>2. ASSUME NEW s \in Settlements, paperPc[s] = "answer-duplicate"
        PROVE  paperPc'[s] = "answer-duplicate"
    <2>1. ASSUME NEW h \in Settlements, Execute(h) \/ Throw(h)
          PROVE  paperPc'[s] = "answer-duplicate"
      BY <1>2, <2>1 DEF Execute, Throw, TypeOK, Paper!TypeOK, Paper!Handlers, Paper!Submit,
         Paper!Start, Paper!LookUp, Paper!Step, Paper!AppendEvent, Paper!SaveProjection,
         Paper!Fail, Paper!InFlight, Paper!Answers, Paper!LedgerEventType, Paper!Saves
    <2>2. ASSUME NEW h \in Handlers, Fail(h)
          PROVE  paperPc'[s] = "answer-duplicate"
      BY <1>2, <2>2 DEF Fail, TypeOK, Paper!TypeOK, Paper!Handlers, Paper!InFlight, Paper!Answers
    <2>3. QED
      BY <1>2, <2>1, <2>2 DEF Next, Propose, Approve, Gate, Reject, Settle, Prepare, Return,
                              Store, MoveAuthority, vars, paperVars
  <1>3. QED
    BY <1>1, <1>2 DEF Proposed

\* An order without a price is refused, or it is a duplicate of another one's.
LEMMA LookUpRefuses ==
  ASSUME IInv, RetryInv, NEW s \in Settlements, Paper!LookUp(s)
  PROVE  /\ paperPc[s] = "lookup" /\ ledger' = ledger /\ orders' = orders
         /\ \A t \in Settlements : t # s => paperPc'[t] = paperPc[t]
         /\ \/ paperPc'[s] = "proposed" /\ refused' = refused \cup {s}
            \/ /\ paperPc'[s] = "answer-duplicate" /\ refused' = refused
               /\ \E t \in Settlements : t # s /\ Subject[t] = Subject[s] /\ Proposed(t)
  <1> USE DEF IInv, RetryInv, TypeOK, Paper!TypeOK, Paper!Handlers
  <1> DEFINE duplicate == Paper!HasRow(Subject[s])
  <1>1. PICK f \in Unpriced :
          LET decision == Paper!Decide(seen[s], f, duplicate) IN
          /\ paperPc' = [paperPc EXCEPT ![s] = IF decision = "duplicate"
                                               THEN "answer-duplicate" ELSE "proposed"]
          /\ refused' = IF decision = "reject" THEN refused \cup {s} ELSE refused
    BY DEF Paper!LookUp
  <1>2. Paper!ReferencePrice(seen[s], f) = "missing"
    BY DEF Unpriced, Paper!ReferencePrice
  <1>3. Paper!Decide(seen[s], f, duplicate) = IF duplicate THEN "duplicate" ELSE "reject"
    BY <1>2 DEF Paper!Decide
  <1>4. paperPc[s] = "lookup" /\ ledger' = ledger /\ orders' = orders
    BY DEF Paper!LookUp
  <1>5. ASSUME duplicate
        PROVE  \E t \in Settlements : t # s /\ Subject[t] = Subject[s] /\ Proposed(t)
    <2>1. PICK o \in Paper!OrderIds : Paper!OrderKey(o) = Subject[s] /\ orders[o].status # "none"
      BY <1>5 DEF Paper!HasRow
    <2>2. PICK t \in Settlements : Subject[t] = Subject[s] /\ Proposed(t)
      BY <2>1 DEF RowsProposed
    <2>3. t # s
      BY <1>4, <2>2 DEF OnlyRefused
    <2>4. QED
      BY <2>2, <2>3
  <1> HIDE DEF duplicate
  <1>6. CASE duplicate
    BY <1>1, <1>3, <1>4, <1>5, <1>6
  <1>7. CASE ~duplicate
    BY <1>1, <1>3, <1>4, <1>7
  <1>8. QED
    BY <1>6, <1>7

\* The paper executor's part of a settlement.
LEMMA PaperRetry ==
  ASSUME IInv, RetryInv, [Next]_vars, NEW s \in Settlements, Execute(s) \/ Throw(s)
  PROVE  OnlyRefused' /\ RowsProposed'
  <1> USE DEF IInv, RetryInv, TypeOK, Paper!TypeOK, Paper!Handlers
  <1>1. \A t \in Settlements : Proposed(t) => Proposed(t)'
    BY PaperOnward
  <1>2. pc' = pc /\ pc[s] = "execute"
    BY DEF Execute, Throw
  <1>3. ASSUME NEW t \in Settlements, t # s, paperPc'[t] = paperPc[t],
               refused \subseteq refused',
               Proposed(t)' => Proposed(t)
        PROVE  /\ paperPc'[t] \in Unfilled
               /\ paperPc'[t] \in {"proposed", "save-proposed"} => t \in refused'
               /\ paperPc'[t] \in {"idle", "lookup"} => ~Proposed(t)'
               /\ paperPc'[t] \in {"save-proposed", "rejected", "save-rejected"} => Proposed(t)'
               /\ paperPc'[t] = "answer-duplicate" =>
                    \E u \in Settlements : u # t /\ Subject[u] = Subject[t] /\ Proposed(u)'
               /\ pc'[t] = "store-simulated" => paperPc'[t] = "answer-duplicate"
    BY <1>1, <1>2, <1>3 DEF OnlyRefused
  <1>4. ASSUME orders' = orders
        PROVE  RowsProposed'
    <2>1. \A o \in Paper!OrderIds : orders[o].status # "none" =>
            \E t \in Settlements : Subject[t] = Paper!OrderKey(o) /\ Proposed(t)'
      BY <1>1 DEF RowsProposed
    <2>2. QED
      BY <1>4, <2>1 DEF RowsProposed, Paper!OrderKey
  <1>5. CASE Paper!Submit(s) \/ Paper!Fail(s)
    <2>1. /\ paperPc'[s] = "failed" \/ (paperPc[s] = "idle" /\ paperPc'[s] = "lookup")
          /\ \A t \in Settlements : t # s => paperPc'[t] = paperPc[t]
          /\ UNCHANGED <<ledger, orders, refused>>
      BY <1>5 DEF Paper!Submit, Paper!Start, Paper!Fail
    <2>2. \A t \in Settlements : Proposed(t)' <=> Proposed(t)
      BY <2>1 DEF Proposed
    <2>3. QED
      BY <1>2, <1>3, <1>4, <2>1, <2>2 DEF OnlyRefused, Unfilled
  <1>6. CASE Paper!LookUp(s)
    <2>1. /\ UNCHANGED <<ledger, orders>> /\ refused \subseteq refused'
          /\ \A t \in Settlements : t # s => paperPc'[t] = paperPc[t]
          /\ \/ paperPc'[s] = "proposed" /\ s \in refused'
             \/ /\ paperPc'[s] = "answer-duplicate"
                /\ \E t \in Settlements : t # s /\ Subject[t] = Subject[s] /\ Proposed(t)
      BY <1>6, LookUpRefuses
    <2>2. \A t \in Settlements : Proposed(t)' <=> Proposed(t)
      BY <2>1 DEF Proposed
    <2>3. QED
      BY <1>2, <1>3, <1>4, <2>1, <2>2 DEF OnlyRefused, Unfilled
  <1>7. CASE Paper!AppendEvent(s)
    <2>1. /\ paperPc[s] \in Paper!LedgerEventType /\ UNCHANGED <<orders, refused>>
          /\ ledger' = ledger \cup {[order |-> Paper!OrderOf(s), type |-> paperPc[s], by |-> s]}
          /\ paperPc' = [paperPc EXCEPT ![s] = Paper!AfterAppend(paperPc[s])]
      BY <1>7 DEF Paper!AppendEvent
    <2>2. \/ paperPc[s] = "proposed" /\ paperPc'[s] = "save-proposed"
          \/ paperPc[s] = "rejected" /\ paperPc'[s] = "save-rejected"
      BY <2>1 DEF OnlyRefused, Unfilled, Paper!LedgerEventType, Paper!AfterAppend
    <2>3. Proposed(s)'
      BY <1>1, <2>1, <2>2 DEF OnlyRefused, Proposed
    <2>4. \A t \in Settlements : t # s => (Proposed(t)' <=> Proposed(t)) /\ paperPc'[t] = paperPc[t]
      BY <2>1 DEF Proposed
    <2>5. paperPc[s] = "proposed" => s \in refused'
      BY <2>1 DEF OnlyRefused
    <2>6. QED
      BY <1>2, <1>3, <1>4, <2>1, <2>2, <2>3, <2>4, <2>5 DEF OnlyRefused, Unfilled
  <1>8. CASE Paper!SaveProjection(s)
    <2>1. /\ paperPc[s] \in Paper!Saves /\ UNCHANGED <<ledger, refused>>
          /\ paperPc' = [paperPc EXCEPT ![s] = Paper!AfterSave(s)]
          /\ \A o \in Paper!OrderIds : o # Paper!OrderOf(s) => orders'[o] = orders[o]
      BY <1>8 DEF Paper!SaveProjection
    <2>2. \/ paperPc[s] = "save-proposed" /\ paperPc'[s] = "rejected"
          \/ paperPc[s] = "save-rejected" /\ paperPc'[s] = "answer-rejected"
      BY <2>1 DEF OnlyRefused, Unfilled, Paper!Saves, Paper!AfterSave
    <2>3. \A t \in Settlements : (Proposed(t)' <=> Proposed(t)) /\ (t # s => paperPc'[t] = paperPc[t])
      BY <2>1 DEF Proposed
    <2>4. Proposed(s)
      BY <2>2 DEF OnlyRefused
    <2>5. Paper!OrderKey(Paper!OrderOf(s)) = Subject[s]
      BY ProposalAssumption DEF Paper!OrderKey, Paper!OrderOf, Handlers
    <2>6. RowsProposed'
      <3>1. \A o \in Paper!OrderIds : orders'[o].status # "none" =>
              \E t \in Settlements : Subject[t] = Paper!OrderKey(o) /\ Proposed(t)
        BY <2>1, <2>4, <2>5 DEF RowsProposed
      <3>2. \A o \in Paper!OrderIds : orders'[o].status # "none" =>
              \E t \in Settlements : Subject[t] = Paper!OrderKey(o) /\ Proposed(t)'
        BY <2>3, <3>1
      <3>3. QED
        BY <3>2 DEF RowsProposed, Paper!OrderKey
    <2>7. OnlyRefused'
      BY <1>2, <1>3, <2>1, <2>2, <2>3, <2>4 DEF OnlyRefused, Unfilled
    <2>8. QED
      BY <2>6, <2>7
  <1>9. QED
    BY <1>5, <1>6, <1>7, <1>8 DEF Execute, Throw, Paper!Step

\* Each step keeps every order refused, and every duplicate a second one.
LEMMA RetryStep == IInv /\ RetryInv /\ [Next]_vars => RetryInv'
  <1> SUFFICES ASSUME IInv, RetryInv, [Next]_vars
               PROVE  RetryInv'
    OBVIOUS
  <1> USE DEF IInv, RetryInv
  <1>1. \A t \in Settlements : paperPc[t] = "answer-duplicate" => paperPc'[t] = "answer-duplicate"
    BY PaperOnward
  <1>2. ASSUME \A p \in ProposalIds :
                 proposals'[p].status = "simulated" => proposals[p].status = "simulated"
        PROVE  SimulatedMet'
    BY <1>1, <1>2 DEF SimulatedMet
  \* A step of the handler itself, while the paper executor rests or fails.
  <1>3. ASSUME UNCHANGED <<ledger, orders, refused>>,
               \A s \in Settlements :
                 /\ paperPc'[s] = paperPc[s] \/ paperPc'[s] = "failed"
                 /\ pc'[s] = "store-simulated" => paperPc'[s] = "answer-duplicate"
        PROVE  OnlyRefused' /\ RowsProposed'
    <2>1. \A s \in Settlements : Proposed(s)' <=> Proposed(s)
      BY <1>3 DEF Proposed
    <2>2. RowsProposed'
      <3>1. \A o \in Paper!OrderIds : orders'[o].status # "none" =>
              \E t \in Settlements : Subject[t] = Paper!OrderKey(o) /\ Proposed(t)'
        BY <1>3, <2>1 DEF RowsProposed
      <3>2. QED
        BY <3>1 DEF RowsProposed, Paper!OrderKey
    <2>3. OnlyRefused'
      BY <1>3, <2>1 DEF OnlyRefused, Unfilled
    <2>4. QED
      BY <2>2, <2>3
  <1>4. \A s \in Settlements : s \in Handlers /\ s \notin Approvals /\ s \notin Rejections
    BY ProposalAssumption DEF Handlers
  <1>5. ASSUME NEW p \in ProposalIds, Propose(p)
        PROVE  RetryInv'
    <2>1. UNCHANGED <<pc, ledger, orders, paperPc, refused>>
      BY <1>5 DEF Propose, paperVars
    <2>2. \A q \in ProposalIds :
            proposals'[q].status = "simulated" => proposals[q].status = "simulated"
      BY <1>5 DEF Propose, TypeOK
    <2>3. \A s \in Settlements : pc[s] = "store-simulated" => paperPc[s] = "answer-duplicate"
      BY DEF OnlyRefused
    <2>4. QED
      BY <1>2, <1>3, <2>1, <2>2, <2>3
  <1>6. ASSUME NEW h \in Handlers,
               Approve(h) \/ Gate(h) \/ Reject(h) \/ Settle(h) \/ Prepare(h) \/ Return(h)
        PROVE  RetryInv'
    <2>1. UNCHANGED <<proposals, ledger, orders, paperPc, refused>>
      BY <1>6 DEF Approve, Gate, Reject, Settle, Prepare, Return, paperVars
    <2>2. \A s \in Settlements : pc'[s] = "store-simulated" =>
            \/ pc[s] = "store-simulated"
            \/ paperPc[s] \in {"answer-filled", "answer-duplicate"}
      BY <1>4, <1>6 DEF Approve, Gate, Reject, Settle, Prepare, Return, Go, TypeOK
    <2>3. \A s \in Settlements : pc'[s] = "store-simulated" => paperPc[s] = "answer-duplicate"
      BY <2>2 DEF OnlyRefused, Unfilled
    <2>4. QED
      BY <1>2, <1>3, <2>1, <2>3
  <1>7. ASSUME NEW s \in Settlements, Execute(s) \/ Throw(s)
        PROVE  RetryInv'
    BY <1>2, <1>7, PaperRetry DEF Execute, Throw
  <1>8. ASSUME NEW h \in Handlers, Store(h)
        PROVE  RetryInv'
    <2>1. /\ pc[h] \in DOMAIN Stored /\ UNCHANGED <<ledger, orders, paperPc, refused>>
          /\ pc' = [pc EXCEPT ![h] = "stored"]
          /\ proposals' = [proposals EXCEPT ![Subject[h]].status = Stored[pc[h]]]
      BY <1>8 DEF Store, Go, paperVars
    <2>2. \A s \in Settlements : pc'[s] = "store-simulated" => paperPc[s] = "answer-duplicate"
      BY <1>4, <2>1 DEF OnlyRefused, TypeOK
    <2>3. ASSUME NEW p \in ProposalIds, proposals'[p].status = "simulated",
                 proposals[p].status # "simulated"
          PROVE  \E t \in Settlements : Subject[t] = p /\ paperPc'[t] = "answer-duplicate"
      <3>1. p = Subject[h] /\ Stored[pc[h]] = "simulated"
        BY <2>1, <2>3 DEF TypeOK, Row
      <3>2. pc[h] = "store-simulated"
        BY <2>1, <3>1 DEF Stored
      <3>3. h \in Settlements
        BY <3>2 DEF PlacesFit, Handlers, Ends
      <3>4. QED
        BY <2>1, <3>1, <3>2, <3>3 DEF OnlyRefused
    <2>4. SimulatedMet'
      BY <1>1, <2>3 DEF SimulatedMet
    <2>5. QED
      BY <1>3, <2>1, <2>2, <2>4
  <1>9. ASSUME NEW h \in Handlers, Fail(h)
        PROVE  RetryInv'
    <2>1. /\ UNCHANGED <<proposals, ledger, orders, refused>>
          /\ pc' = [pc EXCEPT ![h] = "failed"]
          /\ paperPc' = [paperPc EXCEPT ![h] = "failed"] \/ paperPc' = paperPc
      BY <1>9 DEF Fail, Go
    <2>2. \A s \in Settlements : pc'[s] = "store-simulated" => pc[s] = "store-simulated"
      BY <1>4, <2>1 DEF TypeOK
    <2>3. \A s \in Settlements : pc'[s] = "store-simulated" => paperPc'[s] = "answer-duplicate"
      BY <1>1, <2>2 DEF OnlyRefused
    <2>4. \A s \in Settlements : paperPc'[s] = paperPc[s] \/ paperPc'[s] = "failed"
      BY <2>1 DEF TypeOK, Paper!TypeOK, Paper!Handlers
    <2>5. QED
      BY <1>2, <1>3, <2>1, <2>3, <2>4
  <1>10. CASE UNCHANGED <<proposals, pc, ledger, orders, paperPc, refused>>
    <2>1. \A s \in Settlements : pc[s] = "store-simulated" => paperPc[s] = "answer-duplicate"
      BY DEF OnlyRefused
    <2>2. QED
      BY <1>2, <1>3, <1>10, <2>1
  <1>11. QED
    BY <1>5, <1>6, <1>7, <1>8, <1>9, <1>10 DEF Next, Handlers, MoveAuthority, vars, paperVars

\* No settlement has run at the start.
LEMMA RetryInit == Init => RetryInv
  BY DEF Init, NoRow, RetryInv, OnlyRefused, Unfilled, RowsProposed, SimulatedMet, Proposed,
         Handlers, Paper!Init, Paper!NoRow, Paper!Handlers

\* A proposal that is recorded as simulated was settled more than once, and the
\* settlement that said so met the order of another one; that order was never
\* filled, because it has no price.
THEOREM SimulatedByRetry == Spec => []SimulatedOnlyByRetry
  <1>1. RetryInv => SimulatedOnlyByRetry
    <2> SUFFICES ASSUME RetryInv, NEW p \in ProposalIds, proposals[p].status = "simulated"
                 PROVE  \E s, t \in Settlements :
                          /\ s # t /\ Subject[s] = p /\ Subject[t] = p
                          /\ paperPc[t] = "answer-duplicate"
                          /\ \E e \in ledger : e.by = s /\ e.type = "proposed"
      BY DEF SimulatedOnlyByRetry
    <2>1. PICK t \in Settlements : Subject[t] = p /\ paperPc[t] = "answer-duplicate"
      BY DEF RetryInv, SimulatedMet
    <2>2. PICK s \in Settlements : s # t /\ Subject[s] = Subject[t] /\ Proposed(s)
      BY <2>1 DEF RetryInv, OnlyRefused
    <2>3. QED
      BY <2>1, <2>2 DEF Proposed
  <1>2. QED
    BY <1>1, RetryInit, RetryStep, InvHolds, PTL DEF Spec

=============================================================================
