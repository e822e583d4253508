----------------------------- MODULE AgentNodes -----------------------------
(***************************************************************************)
(* The owner's agents: ensureProtectedAgentNodes and retireOptionalSubagent *)
(* of server/agentFabricDb.ts and createOptionalSubagent of                *)
(* server/routers.ts.  An optional subagent is named by the call that      *)
(* created it; the protected team is inserted, and found, as a whole.      *)
(***************************************************************************)
EXTENDS RacingCalls, FiniteSets

CONSTANT OptionalSubagentLimit

VARIABLES
  team,     \* the protected agentNodes rows are there
  optional  \* the optional subagents that are not retired

Step == {Idle, Done}
   \cup [at : {"seed", "list", "insert"}]
   \cup [at : {"retire"}, agent : Calls]

TypeOK ==
  /\ team \in BOOLEAN
  /\ optional \subseteq Calls
  /\ pc \in [Calls -> Step]

Init == team = FALSE /\ optional = {}

-----------------------------------------------------------------------------

\* Every procedure that needs the agents asks for the protected ones first.
Ensure(c) ==
  /\ pc[c] = Idle
  /\ Becomes(c, [at |-> IF team THEN "list" ELSE "seed"])
  /\ UNCHANGED <<team, optional>>

\* The ids of the protected agents are fixed: a second insert violates the
\* unique index and rejects.
Seed(c) ==
  /\ At(c, "seed")
  /\ team' = TRUE
  /\ Becomes(c, IF team THEN Done ELSE [at |-> "list"])
  /\ UNCHANGED optional

\* Mutant: the limit is reached only when it is exceeded.
RoomToOne == Cardinality(optional) <= OptionalSubagentLimit

Room == Cardinality(optional) < OptionalSubagentLimit

\* The agents are listed, and counted before anything else is awaited.
List(c) ==
  /\ At(c, "list")
  /\ Becomes(c, IF Room THEN [at |-> "insert"] ELSE Done)
  /\ UNCHANGED <<team, optional>>

CreateOptionalSubagent(c) ==
  /\ At(c, "insert")
  /\ optional' = optional \cup {c}
  /\ Becomes(c, Done)
  /\ UNCHANGED team

Retire(c) ==
  /\ pc[c] = Idle
  /\ \E a \in optional : Becomes(c, [at |-> "retire", agent |-> a])
  /\ UNCHANGED <<team, optional>>

StoreRetired(c) ==
  /\ At(c, "retire")
  /\ optional' = optional \ {pc[c].agent}
  /\ Becomes(c, Done)
  /\ UNCHANGED team

Next ==
  \E c \in Calls :
    \/ Ensure(c)
    \/ Seed(c)
    \/ List(c)
    \/ CreateOptionalSubagent(c)
    \/ Retire(c)
    \/ StoreRetired(c)
    \/ Fail(c) /\ UNCHANGED <<team, optional>>

=============================================================================
