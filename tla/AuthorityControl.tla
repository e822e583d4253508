-------------------------- MODULE AuthorityControl ---------------------------
(***************************************************************************)
(* changeAuthorityState of server/db.ts as the authority router calls it.  *)
(* The handler reads the stored state, validates the edge, stores the new  *)
(* state whatever the row holds by then, and appends an audit record; each *)
(* of the three is a database call the handler awaits, so handlers of      *)
(* several calls interleave between them.                                  *)
(***************************************************************************)
EXTENDS AuthorityStates

CONSTANTS
  Callers,     \* transition requests that can be in flight at once
  Serialised   \* TRUE: the owner sends a request only when none is in flight

ASSUME SerialisedAssumption == Serialised \in BOOLEAN

VARIABLES
  state,     \* authorityControls.state of the owner's row
  audit,     \* <<from, to>> of the latest authority_changed action, or <<>>
  pc,        \* where each handler is: "idle", "store" or "audit"
  from,      \* the state each handler in flight read
  target,    \* the state each handler in flight was asked for
  visited    \* history: every state the row has held

vars == <<state, audit, pc, from, target, visited>>

Machine == INSTANCE AuthorityMachine

TypeOK ==
  /\ state \in AuthorityState
  /\ audit \in {<<>>} \cup (AuthorityState \X AuthorityState)
  /\ pc \in [Callers -> {"idle", "store", "audit"}]
  /\ from \in [Callers -> AuthorityState]
  /\ target \in [Callers -> AuthorityState]
  /\ visited \subseteq AuthorityState

InFlight == {c \in Callers : pc[c] # "idle"}

Init ==
  /\ state = "disabled"
  /\ audit = <<>>
  /\ pc = [c \in Callers |-> "idle"]
  /\ from = [c \in Callers |-> "disabled"]
  /\ target = [c \in Callers |-> "disabled"]
  /\ visited = {"disabled"}

-----------------------------------------------------------------------------

\* Mutant: the edge is not validated.
RequestUnvalidated(c, to) ==
  /\ pc[c] = "idle"
  /\ Serialised => InFlight = {}
  /\ pc' = [pc EXCEPT ![c] = "store"]
  /\ from' = [from EXCEPT ![c] = state]
  /\ target' = [target EXCEPT ![c] = to]
  /\ UNCHANGED <<state, audit, visited>>

\* getAuthorityState and evaluateAuthorityTransition.  A refused request
\* returns { ok: false } and changes nothing, so only an allowed one moves.
RequestTransition(c, to) ==
  /\ pc[c] = "idle"
  /\ Serialised => InFlight = {}
  /\ TransitionAllowed(state, to)
  /\ pc' = [pc EXCEPT ![c] = "store"]
  /\ from' = [from EXCEPT ![c] = state]
  /\ target' = [target EXCEPT ![c] = to]
  /\ UNCHANGED <<state, audit, visited>>

\* INSERT ... ON DUPLICATE KEY UPDATE: unconditional.
StoreState(c) ==
  /\ pc[c] = "store"
  /\ state' = target[c]
  /\ visited' = visited \cup {target[c]}
  /\ pc' = [pc EXCEPT ![c] = "audit"]
  /\ UNCHANGED <<audit, from, target>>

\* The handler returns or throws: its local values are gone.
Return(c) ==
  /\ pc' = [pc EXCEPT ![c] = "idle"]
  /\ from' = [from EXCEPT ![c] = "disabled"]
  /\ target' = [target EXCEPT ![c] = "disabled"]

\* Mutant: the audit payload leaves out the state the row came from.
RecordTargetOnly(c) ==
  /\ pc[c] = "audit"
  /\ audit' = <<target[c]>>
  /\ Return(c)
  /\ UNCHANGED <<state, visited>>

\* Mutant: the audit record is written before the state is.
RecordBeforeStore(c) ==
  /\ pc[c] = "store"
  /\ audit' = <<from[c], target[c]>>
  /\ UNCHANGED <<state, visited, pc, from, target>>

\* createOperatorAction(kind "authority_changed"), then return { ok: true }.
RecordTransition(c) ==
  /\ pc[c] = "audit"
  /\ audit' = <<from[c], target[c]>>
  /\ Return(c)
  /\ UNCHANGED <<state, visited>>

\* The awaited database call throws, or the server stops: the handler is
\* gone and what it had not written yet is never written.
Abandon(c) ==
  /\ pc[c] # "idle"
  /\ Return(c)
  /\ UNCHANGED <<state, audit, visited>>

Next ==
  \E c \in Callers :
    \/ \E to \in AuthorityState : RequestTransition(c, to)
    \/ StoreState(c)
    \/ RecordTransition(c)
    \/ Abandon(c)

Spec == Init /\ [][Next]_vars

-----------------------------------------------------------------------------

\* The rungs of the ladder below each state: to have held a state the row
\* must have held these before.
RungsBelow ==
  [s \in AuthorityState |->
     CASE s \in {"disabled", "sandbox-only"}              -> {"disabled"}
       [] s = "read-only-live"                            -> {"sandbox-only"}
       [] s \in {"approval-required-live", "paused", "revoked"} -> {"read-only-live"}
       [] s = "limited-live"                              -> {"approval-required-live"}]

\* However the handlers of several requests interleave or fail, no state is
\* ever stored unless the rung below it was stored before: "moving up the
\* ladder requires one explicit owner call per step" (server/authorityRouter.ts:8)
\* survives the unconditional write.
LadderClimbed ==
  \A s \in visited : RungsBelow[s] \subseteq visited

\* An audit record is never a fiction: both states it names were really
\* stored, in the row, at some time, and its edge is one of the machine's.
AuditTruthful ==
  audit # <<>> =>
    /\ {audit[1], audit[2]} \subseteq visited
    /\ TransitionAllowed(audit[1], audit[2])

\* "revoked" is terminal: no step of any handler replaces it
\* (shared/authorityState.ts:52).
RevokedIsTerminal ==
  [][state = "revoked" => state' = "revoked"]_vars

\* With one request at a time the handlers implement the abstract machine:
\* every stored state is one allowed edge away from the one it replaces.
ImplementsMachine == Machine!Spec

=============================================================================
