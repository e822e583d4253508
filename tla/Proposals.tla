------------------------------ MODULE Proposals ------------------------------
(***************************************************************************)
(* The proposal queue: approveProposal, rejectProposal and settleSimulation *)
(* of server/routers.ts over agentProposals, the last one through           *)
(* runtime/executionOrchestrator.ts and the paper backend down to the paper *)
(* executor, whose module this one composes with.  Every handler reads a    *)
(* proposal's status, awaits, and then stores a status unconditionally.     *)
(***************************************************************************)
EXTENDS AuthorityStates, Naturals, FiniteSets

CONSTANTS
  ProposalIds,
  Approvals,    \* calls of approveProposal, each made at most once
  Rejections,   \* calls of rejectProposal, each made at most once
  Settlements,  \* calls of settleSimulation, each made at most once
  Subject       \* the proposal each call names

Handlers == Approvals \cup Rejections \cup Settlements

ASSUME ProposalAssumption ==
  /\ Subject \in [Handlers -> ProposalIds]
  /\ Approvals \cap Rejections = {}
  /\ Approvals \cap Settlements = {}
  /\ Rejections \cap Settlements = {}
  /\ ProposalIds \cap Settlements = {}

Status == {"none", "review", "approved", "rejected", "simulated", "blocked"}
Policy == {"pass", "review", "block"}

\* An agentProposals row, with the status of the research run it names.
Row == [status : Status, policy : Policy, run : {"passed", "review", "blocked"}]

NoRow == [status |-> "none", policy |-> "block", run |-> "blocked"]

\* Mutant: a settled proposal keeps the backend's word for it.
StoredRaw ==
  [place \in {"store-approved", "store-rejected", "store-simulated"} |->
     CASE place = "store-approved"  -> "approved"
       [] place = "store-rejected"  -> "rejected"
       [] place = "store-simulated" -> "submitted"]

Stored ==
  [place \in {"store-approved", "store-rejected", "store-simulated"} |->
     CASE place = "store-approved"  -> "approved"
       [] place = "store-rejected"  -> "rejected"
       [] place = "store-simulated" -> "simulated"]

Ends == {"stored", "refused", "failed"}
Places == {"idle", "gate", "prepare", "execute"} \cup DOMAIN Stored \cup Ends

VARIABLES
  proposals,  \* agentProposals
  pc,         \* where each call is
  authority,  \* the owner's authority state
  ledger, orders, paperPc, seen, refused   \* the paper executor's

paperVars == <<ledger, orders, paperPc, seen, refused>>
vars == <<proposals, pc, authority, ledger, orders, paperPc, seen, refused>>

\* The orders of proposals are market orders for an "evm" asset without a limit
\* price: the paper backend hands over no reference price and no ticker is read.
\* The idempotency key is the proposal's id.
Unpriced == [mandate : {"paused", "active"}, covered : BOOLEAN, price : {"missing"},
             ticker : {FALSE}, fits : BOOLEAN]

\* The owner's own paper orders are in PaperOrders: here only settlements submit.
Paper == INSTANCE PaperOrders WITH
  Requests <- Settlements, Reconcilers <- {}, Keys <- ProposalIds,
  KeyOf <- [s \in Settlements |-> Subject[s]], Target <- <<>>, Outcome <- <<>>,
  Meets <- [s \in Settlements |-> Unpriced],
  Serialised <- FALSE, pc <- paperPc

Owner == INSTANCE AuthorityMachine WITH state <- authority

TypeOK ==
  /\ proposals \in [ProposalIds -> Row]
  /\ pc \in [Handlers -> Places]
  /\ Paper!TypeOK

Init ==
  /\ proposals = [p \in ProposalIds |-> NoRow]
  /\ pc = [h \in Handlers |-> "idle"]
  /\ Paper!Init

-----------------------------------------------------------------------------

Of(h) == proposals[Subject[h]]

Go(h, place) == pc' = [pc EXCEPT ![h] = place]

\* analyzeToken: the research run is on record before the proposal is.  A pass
\* gives a passed run unless the owner was paused when the research was made.
Propose(p) ==
  /\ proposals[p].status = "none"
  /\ \E policy \in Policy, paused \in BOOLEAN :
       proposals' = [proposals EXCEPT ![p] =
         [status |-> IF policy = "pass" THEN "review" ELSE "blocked",
          policy |-> policy,
          run |-> IF paused \/ policy = "block" THEN "blocked"
                  ELSE IF policy = "review" THEN "review" ELSE "passed"]]
  /\ UNCHANGED <<pc, authority, paperVars>>

\* approveProposal reads the proposal.
Approve(a) ==
  /\ pc[a] = "idle"
  /\ Of(a).status = "review" /\ Of(a).policy = "pass"
  /\ Go(a, "gate")
  /\ UNCHANGED <<proposals, authority, paperVars>>

\* deriveGateInputs and evaluatePromotionGate: coverage and complexity are 0,
\* and only the 30 latest runs are searched for the proposal's.
GatePasses(p, s, listed) ==
  /\ ~IsBlockedByDominantState(s)
  /\ proposals[p].policy # "block"
  /\ listed /\ proposals[p].run = "passed"

Gate(a) ==
  /\ pc[a] = "gate"
  /\ \E listed \in BOOLEAN :
       Go(a, IF GatePasses(Subject[a], authority, listed) THEN "store-approved"
             ELSE "refused")
  /\ UNCHANGED <<proposals, authority, paperVars>>

\* Mutant: any proposal can be rejected.
RejectAny(x) ==
  /\ pc[x] = "idle"
  /\ Of(x).status # "none"
  /\ Go(x, "store-rejected")
  /\ UNCHANGED <<proposals, authority, paperVars>>

\* rejectProposal reads the proposal.
Reject(x) ==
  /\ pc[x] = "idle"
  /\ Of(x).status = "review"
  /\ Go(x, "store-rejected")
  /\ UNCHANGED <<proposals, authority, paperVars>>

\* Mutant: a proposal awaiting review can be settled too.
SettleUnreviewed(s) ==
  /\ pc[s] = "idle"
  /\ Of(s).status \in {"review", "approved"}
  /\ Go(s, "prepare")
  /\ UNCHANGED <<proposals, authority, paperVars>>

\* executeApprovedProposal reads the proposal.
Settle(s) ==
  /\ pc[s] = "idle"
  /\ Of(s).status = "approved"
  /\ Go(s, "prepare")
  /\ UNCHANGED <<proposals, authority, paperVars>>

\* The authority and the mandate are read; the paper backend blocks or rejects
\* the order, or hands it to the paper executor.
Prepare(s) ==
  /\ pc[s] = "prepare"
  /\ \E mandate \in BOOLEAN :
       Go(s, IF /\ ~IsBlockedByDominantState(authority)
                /\ CanPlaceOrders(authority)
                /\ mandate
             THEN "execute" ELSE "store-rejected")
  /\ UNCHANGED <<proposals, authority, paperVars>>

\* The paper executor's part of the call; a throw in it is caught.
Execute(s) ==
  /\ pc[s] = "execute"
  /\ Paper!Submit(s) \/ Paper!LookUp(s) \/ Paper!Step(s)
  /\ UNCHANGED <<proposals, pc>>

Throw(s) ==
  /\ pc[s] = "execute"
  /\ Paper!Fail(s)
  /\ UNCHANGED <<proposals, pc>>

\* Mutants: a rejected order counts as a success; a throw is not caught.
ReturnLenient(s) ==
  /\ pc[s] = "execute"
  /\ paperPc[s] \in Paper!Answers
  /\ Go(s, IF paperPc[s] = "failed" THEN "store-rejected" ELSE "store-simulated")
  /\ UNCHANGED <<proposals, authority, paperVars>>
ReturnUncaught(s) ==
  /\ pc[s] = "execute"
  /\ paperPc[s] \in Paper!Answers \ {"failed"}
  /\ Go(s, IF paperPc[s] = "answer-rejected" THEN "store-rejected" ELSE "store-simulated")
  /\ UNCHANGED <<proposals, authority, paperVars>>

\* A duplicate is returned as "submitted", which counts as a success.
Return(s) ==
  /\ pc[s] = "execute"
  /\ paperPc[s] \in Paper!Answers
  /\ Go(s, IF paperPc[s] \in {"answer-filled", "answer-duplicate"}
           THEN "store-simulated" ELSE "store-rejected")
  /\ UNCHANGED <<proposals, authority, paperVars>>

\* updateAgentProposalStatus: whatever the row holds by now.
Store(h) ==
  /\ pc[h] \in DOMAIN Stored
  /\ proposals' = [proposals EXCEPT ![Subject[h]].status = Stored[pc[h]]]
  /\ Go(h, "stored")
  /\ UNCHANGED <<authority, paperVars>>

\* A database call of the handler itself throws, or the server stops.
Fail(h) ==
  /\ pc[h] \notin {"idle"} \cup Ends
  /\ Go(h, "failed")
  /\ IF h \in Settlements /\ h \in Paper!InFlight
     THEN paperPc' = [paperPc EXCEPT ![h] = "failed"]
     ELSE UNCHANGED paperPc
  /\ UNCHANGED <<proposals, authority, ledger, orders, seen, refused>>

MoveAuthority(to) == Owner!Move(to) /\ UNCHANGED <<proposals, pc, paperVars>>

Progress(s) == Prepare(s) \/ Execute(s) \/ Return(s) \/ Store(s)

Next ==
  \/ \E p \in ProposalIds : Propose(p)
  \/ \E a \in Approvals : Approve(a) \/ Gate(a)
  \/ \E x \in Rejections : Reject(x)
  \/ \E s \in Settlements : Settle(s) \/ Prepare(s) \/ Execute(s) \/ Throw(s) \/ Return(s)
  \/ \E h \in Handlers : Store(h) \/ Fail(h)
  \/ \E to \in AuthorityState : MoveAuthority(to)

\* The event loop resumes a settlement whenever its awaited call has returned.
Fairness == \A s \in Settlements : WF_vars(Progress(s))

Spec == Init /\ [][Next]_vars
FairSpec == Spec /\ Fairness

-----------------------------------------------------------------------------

\* The calls whose approval of p is stored.
ApprovedBy(p) == {a \in Approvals : Subject[a] = p /\ pc[a] = "stored"}

\* "Only a passing gate can approve a proposal for a paper simulation"
\* (docs/architecture/paia-v0.4-foundation.md:41): whatever interleaves, the
\* paper book holds an order of a proposal only if its policy and its research
\* run passed and an owner's approval of it was stored.
OrdersAreApproved ==
  \A e \in ledger :
    LET p == Paper!OrderKey(e.order) IN
      /\ ApprovedBy(p) # {}
      /\ proposals[p].policy = "pass" /\ proposals[p].run = "passed"

\* A proposal's first order never fills, because it has no price: one that is
\* recorded as simulated was settled twice, and the second settlement met the
\* order of the first (server/backends/paper.backend.ts:82-88).
SimulatedOnlyByRetry ==
  \A p \in ProposalIds :
    proposals[p].status = "simulated" =>
      \E s, t \in Settlements :
        /\ s # t /\ Subject[s] = p /\ Subject[t] = p
        /\ paperPc[t] = "answer-duplicate"
        /\ \E e \in ledger : e.by = s /\ e.type = "proposed"

\* A settlement that does not fail ends, whatever the paper executor does.
SettlementsEnd ==
  \A s \in Settlements : pc[s] = "prepare" ~> pc[s] \in Ends

Lifecycle == INSTANCE ProposalLifecycle WITH
  Proposals <- ProposalIds,
  status <- [p \in ProposalIds |-> proposals[p].status],
  granted <- {p \in ProposalIds : ApprovedBy(p) # {}}

\* The queue implements ProposalLifecycle under any interleaving.
ImplementsLifecycle == Lifecycle!Spec

\* "Approvals are single-use" (docs/SECURITY-AUDIT-v0.1.md:132): the orders of
\* one proposal come from one settlement of it.
ApprovalUsedOnce ==
  \A e, f \in ledger :
    Paper!OrderKey(e.order) = Paper!OrderKey(f.order) => e.by = f.by

=============================================================================
