----------------------- MODULE AuthorityControlProofs ------------------------
(***************************************************************************)
(* Proofs about AuthorityControl for any set of concurrent handlers: the   *)
(* ladder and the audit trail survive the unconditional write, and with    *)
(* one request at a time the handlers implement AuthorityMachine.          *)
(***************************************************************************)
EXTENDS AuthorityControl, TLAPS

\* What a handler holds between its awaits: an edge of the machine whose
\* origin the row has held, and, once stored, whose target it has held.
HandlersHoldEdges ==
  \A c \in Callers :
    /\ pc[c] # "idle" => /\ from[c] \in visited
                         /\ TransitionAllowed(from[c], target[c])
    /\ pc[c] = "audit" => target[c] \in visited

IInv ==
  /\ TypeOK
  /\ state \in visited
  /\ HandlersHoldEdges
  /\ LadderClimbed
  /\ AuditTruthful

\* The one fact about the table the ladder rests on: the rung below the
\* target of an edge is its origin, or is below the origin or the target
\* itself, so storing the target never skips a rung.
LEMMA EdgeKeepsLadder ==
  ASSUME NEW V \in SUBSET AuthorityState,
         \A s \in V : RungsBelow[s] \subseteq V,
         "disabled" \in V,
         NEW f \in V, NEW t \in AuthorityState, TransitionAllowed(f, t)
  PROVE  \A s \in V \cup {t} : RungsBelow[s] \subseteq V \cup {t}
  <1>1. RungsBelow[t] \subseteq V
    <2>1. f \in AuthorityState
      OBVIOUS
    <2>2. CASE t \in {"disabled", "sandbox-only"}
      BY <2>2 DEF RungsBelow, AuthorityState
    <2>3. CASE t = "read-only-live"
      <3>1. f \in {"sandbox-only", "approval-required-live"}
        BY <2>1, <2>3 DEF TransitionAllowed, ALLOWED_TRANSITIONS, AuthorityState
      <3>2. RungsBelow["approval-required-live"] = {"read-only-live"}
        BY DEF RungsBelow, AuthorityState
      <3>3. RungsBelow["read-only-live"] = {"sandbox-only"}
        BY DEF RungsBelow, AuthorityState
      <3>4. CASE f = "sandbox-only"
        BY <3>3, <3>4, <2>3
      <3>5. CASE f = "approval-required-live"
        <4>1. "read-only-live" \in V
          BY <3>2, <3>5
        <4>2. QED
          BY <4>1, <3>3, <2>3
      <3>6. QED
        BY <3>1, <3>4, <3>5
    <2>4. CASE t \in {"approval-required-live", "paused", "revoked"}
      <3>1. RungsBelow[t] = {"read-only-live"}
        BY <2>4 DEF RungsBelow, AuthorityState
      <3>2. f \in {"read-only-live", "approval-required-live", "limited-live", "paused"}
        BY <2>1, <2>4 DEF TransitionAllowed, ALLOWED_TRANSITIONS, AuthorityState
      <3>3. RungsBelow["limited-live"] = {"approval-required-live"}
        BY DEF RungsBelow, AuthorityState
      <3>4. /\ RungsBelow["approval-required-live"] = {"read-only-live"}
            /\ RungsBelow["paused"] = {"read-only-live"}
        BY DEF RungsBelow, AuthorityState
      <3>5. "read-only-live" \in V
        BY <3>2, <3>3, <3>4
      <3>6. QED
        BY <3>1, <3>5
    <2>5. CASE t = "limited-live"
      <3>1. f = "approval-required-live"
        BY <2>1, <2>5 DEF TransitionAllowed, ALLOWED_TRANSITIONS, AuthorityState
      <3>2. RungsBelow[t] = {"approval-required-live"}
        BY <2>5 DEF RungsBelow, AuthorityState
      <3>3. QED
        BY <3>1, <3>2
    <2>6. QED
      BY <2>2, <2>3, <2>4, <2>5 DEF AuthorityState
  <1>2. QED
    BY <1>1

\* No handler is in flight at the start.
LEMMA InitEstablishes == Init => IInv
  BY DEF Init, IInv, TypeOK, HandlersHoldEdges, LadderClimbed, AuditTruthful,
         RungsBelow, AuthorityState

\* Each step of a handler keeps the invariant, whatever others have stored.
LEMMA StepPreserves == IInv /\ [Next]_vars => IInv'
  <1> SUFFICES ASSUME IInv, [Next]_vars
               PROVE  IInv'
    OBVIOUS
  <1> USE DEF IInv, TypeOK
  <1>1. ASSUME NEW c \in Callers, NEW to \in AuthorityState, RequestTransition(c, to)
        PROVE  IInv'
    <2>1. HandlersHoldEdges'
      BY <1>1 DEF RequestTransition, HandlersHoldEdges
    <2>2. LadderClimbed' /\ AuditTruthful'
      BY <1>1 DEF RequestTransition, LadderClimbed, AuditTruthful
    <2>3. QED
      BY <1>1, <2>1, <2>2 DEF RequestTransition
  <1>2. ASSUME NEW c \in Callers, StoreState(c)
        PROVE  IInv'
    <2>1. TypeOK' /\ state' \in visited'
      BY <1>2 DEF StoreState
    <2>2. HandlersHoldEdges'
      BY <1>2 DEF StoreState, HandlersHoldEdges
    <2>3. from[c] \in visited /\ TransitionAllowed(from[c], target[c])
      BY <1>2 DEF StoreState, HandlersHoldEdges
    <2>4. "disabled" \in visited
      <3>1. \A s \in visited : RungsBelow[s] \subseteq visited
        BY DEF LadderClimbed
      <3>2. /\ RungsBelow["disabled"] = {"disabled"}
            /\ RungsBelow["sandbox-only"] = {"disabled"}
            /\ RungsBelow["read-only-live"] = {"sandbox-only"}
            /\ RungsBelow["approval-required-live"] = {"read-only-live"}
            /\ RungsBelow["paused"] = {"read-only-live"}
            /\ RungsBelow["revoked"] = {"read-only-live"}
            /\ RungsBelow["limited-live"] = {"approval-required-live"}
        BY DEF RungsBelow, AuthorityState
      <3>3. QED
        BY <3>1, <3>2 DEF AuthorityState
    <2>5. LadderClimbed'
      <3>1. \A s \in visited \cup {target[c]} :
               RungsBelow[s] \subseteq visited \cup {target[c]}
        BY <2>3, <2>4, EdgeKeepsLadder DEF LadderClimbed
      <3>2. QED
        BY <3>1, <1>2 DEF StoreState, LadderClimbed
    <2>6. AuditTruthful'
      BY <1>2 DEF StoreState, AuditTruthful
    <2>7. QED
      BY <2>1, <2>2, <2>5, <2>6
  <1>3. ASSUME NEW c \in Callers, RecordTransition(c)
        PROVE  IInv'
    <2>1. TypeOK' /\ HandlersHoldEdges'
      BY <1>3 DEF RecordTransition, Return, HandlersHoldEdges, AuthorityState
    <2>2. LadderClimbed' /\ AuditTruthful'
      BY <1>3 DEF RecordTransition, HandlersHoldEdges, LadderClimbed, AuditTruthful
    <2>3. QED
      BY <1>3, <2>1, <2>2 DEF RecordTransition
  <1>4. ASSUME NEW c \in Callers, Abandon(c)
        PROVE  IInv'
    BY <1>4 DEF Abandon, Return, HandlersHoldEdges, LadderClimbed, AuditTruthful,
                AuthorityState
  <1>5. CASE UNCHANGED vars
    BY <1>5 DEF vars, HandlersHoldEdges, LadderClimbed, AuditTruthful
  <1>6. QED
    BY <1>1, <1>2, <1>3, <1>4, <1>5 DEF Next

\* So the invariant holds throughout.
LEMMA InvariantHolds == Spec => []IInv
  BY InitEstablishes, StepPreserves, PTL DEF Spec

\* Every variable of changeAuthorityState's model keeps its type.
THEOREM TypeCorrect == Spec => []TypeOK
  BY InvariantHolds, PTL DEF IInv

\* No interleaving of changeAuthorityState handlers, and no abandoned one,
\* stores a state whose rung below was never stored.
THEOREM LadderAlwaysClimbed == Spec => []LadderClimbed
  BY InvariantHolds, PTL DEF IInv

\* Every authority_changed record names two states the row really held and
\* an edge of the machine.
THEOREM AuditAlwaysTruthful == Spec => []AuditTruthful
  BY InvariantHolds, PTL DEF IInv

-----------------------------------------------------------------------------

\* With one request at a time, the state a handler read is still the stored
\* one when it writes.
SnapshotCurrent ==
  /\ \A c, d \in Callers : pc[c] # "idle" /\ pc[d] # "idle" => c = d
  /\ \A c \in Callers : pc[c] = "store" => /\ from[c] = state
                                           /\ TransitionAllowed(from[c], target[c])

\* With one request at a time, what it has read is what the row holds.
LEMMA SerialSnapshot ==
  ASSUME Serialised
  PROVE  Spec => []SnapshotCurrent
  <1> USE DEF SnapshotCurrent
  <1>1. Init => SnapshotCurrent
    BY DEF Init
  <1>2. TypeOK /\ SnapshotCurrent /\ [Next]_vars => SnapshotCurrent'
    <2> SUFFICES ASSUME TypeOK, SnapshotCurrent, [Next]_vars
                 PROVE  SnapshotCurrent'
      OBVIOUS
    <2> USE DEF TypeOK
    <2>1. ASSUME NEW c \in Callers, NEW to \in AuthorityState, RequestTransition(c, to)
          PROVE  SnapshotCurrent'
      <3>1. \A d \in Callers : pc[d] = "idle"
        BY <2>1, Serialised DEF RequestTransition, InFlight
      <3>2. QED
        BY <2>1, <3>1 DEF RequestTransition
    <2>2. ASSUME NEW c \in Callers, StoreState(c)
          PROVE  SnapshotCurrent'
      BY <2>2 DEF StoreState
    <2>3. ASSUME NEW c \in Callers, RecordTransition(c) \/ Abandon(c)
          PROVE  SnapshotCurrent'
      BY <2>3 DEF RecordTransition, Abandon, Return
    <2>4. CASE UNCHANGED vars
      BY <2>4 DEF vars
    <2>5. QED
      BY <2>1, <2>2, <2>3, <2>4 DEF Next
  <1>3. QED
    BY <1>1, <1>2, TypeCorrect, PTL DEF Spec

\* While one request is handled at a time, changeAuthorityState implements
\* the abstract machine: each write moves the stored state along one edge.
THEOREM SerialImplementsMachine ==
  ASSUME Serialised
  PROVE  Spec => ImplementsMachine
  <1>1. Init => Machine!Init
    BY DEF Init, Machine!Init
  <1>2. TypeOK /\ SnapshotCurrent /\ [Next]_vars => [Machine!Next]_state
    <2> SUFFICES ASSUME TypeOK, SnapshotCurrent, [Next]_vars, state' # state
                 PROVE  Machine!Next
      BY DEF Machine!Next
    <2>1. PICK c \in Callers : StoreState(c)
      BY DEF Next, vars, RequestTransition, RecordTransition, Abandon
    <2>2. target[c] \in AuthorityState /\ Machine!Move(target[c])
      BY <2>1 DEF TypeOK, SnapshotCurrent, StoreState, Machine!Move,
                  Machine!TransitionAllowed, TransitionAllowed,
                  Machine!ALLOWED_TRANSITIONS, ALLOWED_TRANSITIONS,
                  Machine!AuthorityState, AuthorityState
    <2>3. QED
      BY <2>2 DEF Machine!Next, Machine!AuthorityState, AuthorityState
  <1>3. QED
    BY <1>1, <1>2, SerialSnapshot, TypeCorrect, PTL
       DEF Spec, ImplementsMachine, Machine!Spec

\* While one request is handled at a time, no handler stores anything over
\* "revoked": it has no outgoing edge, and what a handler validated is still so
\* when it writes.
THEOREM SerialRevokedIsTerminal ==
  ASSUME Serialised
  PROVE  Spec => RevokedIsTerminal
  <1>1. TypeOK /\ SnapshotCurrent /\ [Next]_vars => (state = "revoked" => state' = "revoked")
    <2> SUFFICES ASSUME TypeOK, SnapshotCurrent, [Next]_vars, state = "revoked", state' # state
                 PROVE  FALSE
      OBVIOUS
    <2>1. PICK c \in Callers : StoreState(c)
      BY DEF Next, vars, RequestTransition, RecordTransition, Abandon
    <2>2. TransitionAllowed("revoked", target[c])
      BY <2>1 DEF SnapshotCurrent, StoreState
    <2>3. target[c] # "revoked"
      BY <2>1 DEF StoreState
    <2>4. QED
      BY <2>2, <2>3 DEF TransitionAllowed, ALLOWED_TRANSITIONS, AuthorityState
  <1>2. QED
    BY <1>1, SerialSnapshot, TypeCorrect, PTL DEF Spec, RevokedIsTerminal

=============================================================================
