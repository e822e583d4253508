---------------------------- MODULE AgentMemory -----------------------------
(***************************************************************************)
(* One agent memory and its action log: create, requestPromotion and       *)
(* reviewPromotion of server/agentMemoryRouter.ts.  Every handler reads    *)
(* the entry, stores a patch computed from what it read, reads the entry   *)
(* again and appends a memory action.                                      *)
(***************************************************************************)
EXTENDS RacingCalls, Sequences

VARIABLES
  entry,   \* the agentMemoryEntries row
  actions  \* its agentMemoryActions, oldest first

Verdicts == {"promotion_approved", "promotion_rejected"}
Changes == {"promotion_requested"} \cup Verdicts

Entry == [scope : {"private", "shared"}, status : {"active", "pending_promotion"},
          revision : Nat]

NoEntry == [scope |-> "none", status |-> "none", revision |-> 0]

Action == [action : Changes \cup {"created"}, to : Entry]

Step == {Idle, Done}
   \cup [at : {"store", "reread"}, change : Changes \cup {"created"}, read : Entry]
   \cup [at : {"append"}, logs : Action]

TypeOK ==
  /\ entry \in Entry \cup {NoEntry}
  /\ actions \in Seq(Action)
  /\ pc \in [Calls -> Step]

Init == entry = NoEntry /\ actions = <<>>

-----------------------------------------------------------------------------

\* createAgentMemoryEntry: a new row, always active and in its first revision.
Create(c) ==
  /\ pc[c] = Idle /\ entry = NoEntry
  /\ \E scope \in {"private", "shared"} :
       entry' = [scope |-> scope, status |-> "active", revision |-> 1]
  /\ Becomes(c, [at |-> "reread", change |-> "created", read |-> entry'])
  /\ UNCHANGED actions

CanPromoteMemory(e) == e.scope = "private" /\ e.status = "active"

Reviewable(e) == e.status = "pending_promotion" /\ e.scope = "private"

\* Mutant: any private memory can be reviewed, asked for or not.
ReviewAnyPrivate(c) ==
  /\ pc[c] = Idle /\ entry.scope = "private"
  /\ \E verdict \in Verdicts :
       Becomes(c, [at |-> "store", change |-> verdict, read |-> entry])
  /\ UNCHANGED <<entry, actions>>

Review(c) ==
  /\ pc[c] = Idle /\ Reviewable(entry)
  /\ \E verdict \in Verdicts :
       Becomes(c, [at |-> "store", change |-> verdict, read |-> entry])
  /\ UNCHANGED <<entry, actions>>

RequestPromotion(c) ==
  /\ pc[c] = Idle /\ CanPromoteMemory(entry)
  /\ Becomes(c, [at |-> "store", change |-> "promotion_requested", read |-> entry])
  /\ UNCHANGED <<entry, actions>>

\* The patch of each change leaves the fields alone that it does not name.
Patched(e, change, read) ==
  [scope    |-> IF change = "promotion_approved" THEN "shared" ELSE e.scope,
   status   |-> IF change \in Verdicts THEN "active" ELSE "pending_promotion",
   revision |-> read.revision + 1]

\* updateMemoryEntry: the update names the row, and nothing that was read of it.
Store(c) ==
  /\ At(c, "store")
  /\ entry' = Patched(entry, pc[c].change, pc[c].read)
  /\ Becomes(c, [pc[c] EXCEPT !.at = "reread"])
  /\ UNCHANGED actions

\* What is logged of a review is the row as it is read after the update; of a
\* request, what it was read as before and the status asked for.
Logged(change, read) ==
  IF change = "promotion_requested"
  THEN [scope |-> read.scope, status |-> "pending_promotion", revision |-> entry.revision]
  ELSE entry

Reread(c) ==
  /\ At(c, "reread")
  /\ Becomes(c, [at |-> "append",
                 logs |-> [action |-> pc[c].change, to |-> Logged(pc[c].change, pc[c].read)]])
  /\ UNCHANGED <<entry, actions>>

AppendAction(c) ==
  /\ At(c, "append")
  /\ actions' = Append(actions, pc[c].logs)
  /\ Becomes(c, Done)
  /\ UNCHANGED entry

Next ==
  \E c \in Calls :
    \/ Create(c)
    \/ RequestPromotion(c)
    \/ Review(c)
    \/ Store(c)
    \/ Reread(c)
    \/ AppendAction(c)
    \/ Fail(c) /\ UNCHANGED <<entry, actions>>

=============================================================================
