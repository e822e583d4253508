------------------------ MODULE OwnerServicesProofs ------------------------
(***************************************************************************)
(* The owner's records and services, for any number of calls: their types, *)
(* what is left of their limits and decisions when calls overlap, and the  *)
(* promises of OwnerPromises while none do.                                *)
(*                                                                         *)
(* Overlap is counted by peak, the calls in flight at once.  A limit that  *)
(* is overrun is overrun by calls that had all read before any had stored, *)
(* so they were in flight together.  Without overlap, what a call has read *)
(* is what the row still holds: each component says what its calls have    *)
(* read and checked (...Current), and its stores are then moves of the row *)
(* they are about.                                                         *)
(***************************************************************************)
EXTENDS MCOwnerServices, ServicesProofs, RateLimitsProofs, FiniteSetTheorems

-----------------------------------------------------------------------------
(* Agent memory *)

\* A patch is for an entry that is there.
MemoryHeld ==
  \A c \in Calls : pc[c].at \in {"store", "reread"} => entry \in Memory!Entry

\* Each step keeps the types of the memory, its log and its calls.
LEMMA MemoryStep ==
  ASSUME Memory!TypeOK, MemoryHeld, Memory!Next
  PROVE  Memory!TypeOK' /\ MemoryHeld'
<1> USE DEF Memory!TypeOK, MemoryHeld, Memory!Becomes, Memory!At
<1>1. Memory!Idle \in Memory!Step /\ Memory!Done \in Memory!Step
  BY DEF Memory!Step
<1>2. Memory!Idle.at = "idle" /\ Memory!Done.at = "done"
  BY DEF Memory!Idle, Memory!Done
<1>3. \A c \in Calls :
        /\ pc[c].at \in {"store", "reread"} =>
             pc[c] \in [at : {"store", "reread"}, change : Memory!Changes \cup {"created"},
                        read : Memory!Entry]
        /\ pc[c].at = "append" => pc[c] \in [at : {"append"}, logs : Memory!Action]
  BY <1>2 DEF Memory!Step
<1>4. ASSUME NEW c \in Calls, Memory!Create(c) PROVE Memory!TypeOK' /\ MemoryHeld'
  <2>1. entry' \in Memory!Entry
    BY <1>4 DEF Memory!Create, Memory!Entry
  <2>2. [at |-> "reread", change |-> "created", read |-> entry'] \in Memory!Step
    BY <2>1 DEF Memory!Step
  <2> QED
    BY <1>4, <2>1, <2>2 DEF Memory!Create
<1>5. ASSUME NEW c \in Calls, NEW change \in Memory!Changes, entry \in Memory!Entry,
             Memory!Becomes(c, [at |-> "store", change |-> change, read |-> entry]),
             UNCHANGED <<entry, actions>>
      PROVE  Memory!TypeOK' /\ MemoryHeld'
  <2>1. [at |-> "store", change |-> change, read |-> entry] \in Memory!Step
    BY <1>5 DEF Memory!Step
  <2> QED
    BY <1>5, <2>1
<1>6. entry.scope = "private" => entry \in Memory!Entry
  BY DEF Memory!NoEntry
<1>7. ASSUME NEW c \in Calls, Memory!RequestPromotion(c) PROVE Memory!TypeOK' /\ MemoryHeld'
  BY <1>5, <1>6, <1>7 DEF Memory!RequestPromotion, Memory!CanPromoteMemory, Memory!Changes
<1>8. ASSUME NEW c \in Calls, Memory!Review(c) PROVE Memory!TypeOK' /\ MemoryHeld'
  BY <1>5, <1>6, <1>8 DEF Memory!Review, Memory!Reviewable, Memory!Changes
<1>9. ASSUME NEW c \in Calls, Memory!Store(c) PROVE Memory!TypeOK' /\ MemoryHeld'
  <2>1. entry \in Memory!Entry /\ pc[c].read \in Memory!Entry
    BY <1>3, <1>9 DEF Memory!Store
  <2>2. entry' \in Memory!Entry
    BY <1>9, <2>1 DEF Memory!Store, Memory!Patched, Memory!Entry
  <2>3. [pc[c] EXCEPT !.at = "reread"] \in Memory!Step
    BY <1>3, <1>9 DEF Memory!Store, Memory!Step
  <2> QED
    BY <1>9, <2>2, <2>3 DEF Memory!Store
<1>10. ASSUME NEW c \in Calls, Memory!Reread(c) PROVE Memory!TypeOK' /\ MemoryHeld'
  <2>1. entry \in Memory!Entry /\ pc[c].read \in Memory!Entry
        /\ pc[c].change \in Memory!Changes \cup {"created"}
    BY <1>3, <1>10 DEF Memory!Reread
  <2>2. Memory!Logged(pc[c].change, pc[c].read) \in Memory!Entry
    BY <2>1 DEF Memory!Logged, Memory!Entry
  <2>3. [at |-> "append", logs |-> [action |-> pc[c].change,
                                    to |-> Memory!Logged(pc[c].change, pc[c].read)]]
          \in Memory!Step
    BY <2>1, <2>2 DEF Memory!Step, Memory!Action
  <2> QED
    BY <1>10, <2>3 DEF Memory!Reread
<1>11. ASSUME NEW c \in Calls, Memory!AppendAction(c) PROVE Memory!TypeOK' /\ MemoryHeld'
  <2>1. pc[c].logs \in Memory!Action
    BY <1>3, <1>11 DEF Memory!AppendAction
  <2>2. actions' \in Seq(Memory!Action)
    BY <1>11, <2>1 DEF Memory!AppendAction
  <2> QED
    BY <1>1, <1>2, <1>11, <2>2 DEF Memory!AppendAction
<1>12. ASSUME NEW c \in Calls, Memory!Fail(c), UNCHANGED <<entry, actions>>
       PROVE  Memory!TypeOK' /\ MemoryHeld'
  BY <1>1, <1>2, <1>12 DEF Memory!Fail
<1> QED
  BY <1>4, <1>7, <1>8, <1>9, <1>10, <1>11, <1>12 DEF Memory!Next

-----------------------------------------------------------------------------
(* Platform keys *)

\* Each step keeps the types of the key, what was verified, and its calls.
LEMMA KeysStep == ASSUME Keys!TypeOK, Keys!Next PROVE Keys!TypeOK'
<1> USE DEF Keys!TypeOK, Keys!Becomes, Keys!At
<1>1. Keys!Idle \in Keys!Step /\ Keys!Done \in Keys!Step /\ [at |-> "alert"] \in Keys!Step
      /\ \A patch \in Keys!Patches : [at |-> "store", patch |-> patch] \in Keys!Step
  BY DEF Keys!Step
<1>2. \A c \in Calls :
        /\ pc[c].at = "venue" => pc[c].material \in Calls
        /\ pc[c].at = "store" => pc[c].patch \in Keys!Patches
  BY DEF Keys!Step, Keys!Idle, Keys!Done
<1>3. Keys!Exists => key \in Keys!Key
  BY DEF Keys!Exists, Keys!NoKey
<1>4. ASSUME NEW c \in Calls, Keys!AddKey(c) PROVE Keys!TypeOK'
  BY <1>1, <1>4 DEF Keys!AddKey, Keys!Key
<1>5. ASSUME NEW c \in Calls, Keys!TestConnection(c) PROVE Keys!TypeOK'
  <2>1. [at |-> "venue", material |-> key.material] \in Keys!Step
    BY <1>3, <1>5 DEF Keys!TestConnection, Keys!Step, Keys!Key
  <2> QED
    BY <1>5, <2>1 DEF Keys!TestConnection
<1>6. ASSUME NEW c \in Calls, Keys!VenueAnswers(c) PROVE Keys!TypeOK'
  BY <1>1, <1>2, <1>6 DEF Keys!VenueAnswers, Keys!Patches
<1>7. ASSUME NEW c \in Calls, NEW patch \in {"disabled", "rotated", "limited", "deleted"},
             Keys!Change(c, patch)
      PROVE  Keys!TypeOK'
  BY <1>1, <1>7 DEF Keys!Change, Keys!Patches
<1>8. ASSUME NEW c \in Calls, Keys!Store(c) PROVE Keys!TypeOK'
  <2>1. key' \in Keys!Key \cup {Keys!NoKey}
    BY <1>2, <1>3, <1>8 DEF Keys!Store, Keys!Patched, Keys!Rotated, Keys!Patches, Keys!Key
  <2> QED
    BY <1>1, <1>8, <2>1 DEF Keys!Store
<1>9. ASSUME NEW c \in Calls, Keys!Alert(c) \/ Keys!Catch(c) PROVE Keys!TypeOK'
  BY <1>1, <1>9 DEF Keys!Alert, Keys!Catch, Keys!Patches
<1>10. ASSUME NEW c \in Calls, Keys!Fail(c), UNCHANGED <<key, verified>> PROVE Keys!TypeOK'
  BY <1>1, <1>10 DEF Keys!Fail
<1> QED
  BY <1>4, <1>5, <1>6, <1>7, <1>8, <1>9, <1>10 DEF Keys!Next

-----------------------------------------------------------------------------
(* Binding requests *)

\* Each step keeps the types of the request, its announcements and its calls.
LEMMA BindingsStep == ASSUME Bindings!TypeOK, Bindings!Next PROVE Bindings!TypeOK'
<1> USE DEF Bindings!TypeOK, Bindings!RequestStatus, Bindings!Becomes
<1>1. Bindings!Idle \in Bindings!Step /\ Bindings!Done \in Bindings!Step
  BY DEF Bindings!Step
<1>2. \A c \in Calls : pc[c].at \in {"store", "announce"} =>
        pc[c] \in [at : {"store", "announce"}, decision : Bindings!Decisions]
  BY DEF Bindings!Step, Bindings!Idle, Bindings!Done
<1>3. ASSUME NEW c \in Calls, Bindings!RequestChange(c) PROVE Bindings!TypeOK'
  BY <1>1, <1>3 DEF Bindings!RequestChange
<1>4. ASSUME NEW c \in Calls, Bindings!Review(c) PROVE Bindings!TypeOK'
  <2>1. PICK decision \in Bindings!Decisions :
          Bindings!Becomes(c, [at |-> "store", decision |-> decision])
    BY <1>4 DEF Bindings!Review
  <2>2. [at |-> "store", decision |-> decision] \in Bindings!Step
    BY DEF Bindings!Step
  <2> QED
    BY <1>4, <2>1, <2>2 DEF Bindings!Review
<1>5. ASSUME NEW c \in Calls, Bindings!Store(c) PROVE Bindings!TypeOK'
  <2>1. pc[c].decision \in Bindings!Decisions
        /\ [pc[c] EXCEPT !.at = "announce"] \in Bindings!Step
    BY <1>2, <1>5 DEF Bindings!Store, Bindings!At, Bindings!Step
  <2> QED
    BY <1>5, <2>1 DEF Bindings!Store
<1>6. ASSUME NEW c \in Calls, Bindings!Announce(c) PROVE Bindings!TypeOK'
  BY <1>1, <1>2, <1>6 DEF Bindings!Announce, Bindings!At
<1>7. ASSUME NEW c \in Calls, Bindings!Fail(c), UNCHANGED <<request, announced>>
      PROVE  Bindings!TypeOK'
  BY <1>1, <1>7 DEF Bindings!Fail
<1> QED
  BY <1>3, <1>4, <1>5, <1>6, <1>7 DEF Bindings!Next

-----------------------------------------------------------------------------
(* Wallet sessions *)

\* What a call is about to revoke is there.
SessionsHeld ==
  \A c \in Calls : pc[c].at = "revoke" => sessions[pc[c].session] \in Sessions!Session

\* Revoking sessions that are there keeps every session of its type, and in place.
LEMMA RevokedTyped ==
  ASSUME sessions \in [Calls -> Sessions!Session \cup {Sessions!NoSession}],
         NEW S \in SUBSET Calls, \A s \in S : sessions[s] \in Sessions!Session,
         sessions' = Sessions!Revoked(S)
  PROVE  /\ sessions' \in [Calls -> Sessions!Session \cup {Sessions!NoSession}]
         /\ \A s \in Calls : sessions[s] \in Sessions!Session => sessions'[s] \in Sessions!Session
BY DEF Sessions!Revoked, Sessions!Session

\* Each step keeps the types of the sessions and their calls.
LEMMA SessionsStep ==
  ASSUME Sessions!TypeOK, SessionsHeld, Sessions!Next
  PROVE  Sessions!TypeOK' /\ SessionsHeld'
<1> USE DEF Sessions!TypeOK, SessionsHeld, Sessions!Becomes, Sessions!At
<1>1. Sessions!Idle \in Sessions!Step /\ Sessions!Done \in Sessions!Step
      /\ Sessions!Idle.at = "idle" /\ Sessions!Done.at = "done"
  BY DEF Sessions!Step, Sessions!Idle, Sessions!Done
<1>2. \A c \in Calls :
        /\ pc[c].at = "insert" => pc[c].provider \in Providers
        /\ pc[c].at = "revoke" => pc[c].session \in Calls
  BY DEF Sessions!Step, Sessions!Idle, Sessions!Done
<1>3. ASSUME NEW c \in Calls, Sessions!Connect(c) PROVE Sessions!TypeOK' /\ SessionsHeld'
  <2>1. PICK p \in Providers : /\ sessions' = Sessions!Revoked(Sessions!Active(p))
                               /\ Sessions!Becomes(c, [at |-> "insert", provider |-> p])
    BY <1>3 DEF Sessions!Connect
  <2>2. /\ Sessions!Active(p) \in SUBSET Calls
        /\ \A s \in Sessions!Active(p) : sessions[s] \in Sessions!Session
    BY DEF Sessions!Active, Sessions!Session
  <2>3. [at |-> "insert", provider |-> p] \in Sessions!Step
    BY DEF Sessions!Step
  <2> QED
    BY <1>2, <2>1, <2>2, <2>3, RevokedTyped
<1>4. ASSUME NEW c \in Calls, Sessions!Insert(c) PROVE Sessions!TypeOK' /\ SessionsHeld'
  <2>1. [provider |-> pc[c].provider, state |-> "active"] \in Sessions!Session
    BY <1>2, <1>4 DEF Sessions!Insert, Sessions!Session
  <2> QED
    BY <1>1, <1>2, <1>4, <2>1 DEF Sessions!Insert
<1>5. ASSUME NEW c \in Calls, Sessions!Disconnect(c) PROVE Sessions!TypeOK' /\ SessionsHeld'
  <2>1. PICK s \in Calls : /\ sessions[s].state = "active"
                           /\ Sessions!Becomes(c, [at |-> "revoke", session |-> s])
    BY <1>5 DEF Sessions!Disconnect
  <2>2. sessions[s] \in Sessions!Session
    BY <2>1 DEF Sessions!NoSession
  <2>3. [at |-> "revoke", session |-> s] \in Sessions!Step
    BY DEF Sessions!Step
  <2> QED
    BY <1>5, <2>1, <2>2, <2>3 DEF Sessions!Disconnect
<1>6. ASSUME NEW c \in Calls, Sessions!Revoke(c) PROVE Sessions!TypeOK' /\ SessionsHeld'
  <2>1. {pc[c].session} \in SUBSET Calls /\ sessions[pc[c].session] \in Sessions!Session
    BY <1>2, <1>6 DEF Sessions!Revoke
  <2> QED
    BY <1>1, <1>2, <1>6, <2>1, RevokedTyped DEF Sessions!Revoke
<1>7. ASSUME NEW c \in Calls, Sessions!Fail(c), UNCHANGED sessions
      PROVE  Sessions!TypeOK' /\ SessionsHeld'
  BY <1>1, <1>7 DEF Sessions!Fail
<1> QED
  BY <1>3, <1>4, <1>5, <1>6, <1>7 DEF Sessions!Next

-----------------------------------------------------------------------------
(* Agents *)

\* Each step keeps the types of the agents and their calls.
LEMMA NodesStep == ASSUME Nodes!TypeOK, Nodes!Next PROVE Nodes!TypeOK'
<1> USE DEF Nodes!TypeOK, Nodes!Becomes, Nodes!At
<1>1. Nodes!Idle \in Nodes!Step /\ Nodes!Done \in Nodes!Step
      /\ (\A place \in {"seed", "list", "insert"} : [at |-> place] \in Nodes!Step)
      /\ \A a \in Calls : [at |-> "retire", agent |-> a] \in Nodes!Step
  BY DEF Nodes!Step
<1>2. ASSUME NEW c \in Calls, Nodes!Ensure(c) PROVE Nodes!TypeOK'
  BY <1>1, <1>2 DEF Nodes!Ensure
<1>3. ASSUME NEW c \in Calls, Nodes!Seed(c) PROVE Nodes!TypeOK'
  BY <1>1, <1>3 DEF Nodes!Seed
<1>4. ASSUME NEW c \in Calls, Nodes!List(c) PROVE Nodes!TypeOK'
  BY <1>1, <1>4 DEF Nodes!List
<1>5. ASSUME NEW c \in Calls, Nodes!CreateOptionalSubagent(c) PROVE Nodes!TypeOK'
  BY <1>1, <1>5 DEF Nodes!CreateOptionalSubagent
<1>6. ASSUME NEW c \in Calls, Nodes!Retire(c) PROVE Nodes!TypeOK'
  BY <1>1, <1>6 DEF Nodes!Retire
<1>7. ASSUME NEW c \in Calls, Nodes!StoreRetired(c) PROVE Nodes!TypeOK'
  BY <1>1, <1>7 DEF Nodes!StoreRetired
<1>8. ASSUME NEW c \in Calls, Nodes!Fail(c), UNCHANGED <<team, optional>> PROVE Nodes!TypeOK'
  BY <1>1, <1>8 DEF Nodes!Fail
<1> QED
  BY <1>2, <1>3, <1>4, <1>5, <1>6, <1>7, <1>8 DEF Nodes!Next

-----------------------------------------------------------------------------
(* Mandates and policies *)

\* The owner's move ends in a state of the machine.
LEMMA OwnerMoves == ASSUME Settings!Owner!Next PROVE authority' \in AuthorityState
BY DEF Settings!Owner!Next, Settings!Owner!Move, Settings!Owner!AuthorityState,
       Settings!AuthorityState, AuthorityState

\* Each step keeps the types of the mandate, the policy and their calls.
LEMMA SettingsStep == ASSUME Settings!TypeOK, Settings!Next PROVE Settings!TypeOK'
<1> USE DEF Settings!TypeOK, Settings!Becomes, Settings!At
<1>1. Settings!Idle \in Settings!Step /\ Settings!Done \in Settings!Step
      /\ [at |-> "policy"] \in Settings!Step
      /\ (\A mode \in Settings!Modes : [at |-> "mode", mode |-> mode] \in Settings!Step)
      /\ \A n \in Nat : [at |-> "save", read |-> n] \in Settings!Step
  BY DEF Settings!Step
<1>2. \A c \in Calls :
        /\ pc[c].at = "mode" => pc[c].mode \in Settings!Modes
        /\ pc[c].at = "save" => pc[c].read \in Nat
  BY DEF Settings!Step, Settings!Idle, Settings!Done
<1>3. ASSUME NEW c \in Calls, Settings!CreateMandate(c) PROVE Settings!TypeOK'
  BY <1>1, <1>3 DEF Settings!CreateMandate, Settings!Modes
<1>4. ASSUME NEW c \in Calls, Settings!SetMode(c) PROVE Settings!TypeOK'
  BY <1>1, <1>4 DEF Settings!SetMode
<1>5. ASSUME NEW c \in Calls, Settings!CheckPolicy(c) PROVE Settings!TypeOK'
  BY <1>1, <1>5 DEF Settings!CheckPolicy, Settings!Modes
<1>6. ASSUME NEW c \in Calls, Settings!StoreMode(c) PROVE Settings!TypeOK'
  BY <1>1, <1>2, <1>6 DEF Settings!StoreMode
<1>7. ASSUME NEW c \in Calls, Settings!SavePolicy(c) PROVE Settings!TypeOK'
  <2>1. policy.version \in Nat
    BY DEF Settings!NothingSaved
  <2> QED
    BY <1>1, <1>7, <2>1 DEF Settings!SavePolicy
<1>8. ASSUME NEW c \in Calls, Settings!StorePolicy(c) PROVE Settings!TypeOK'
  <2>1. policy' \in [version : Nat, values : Calls]
    BY <1>2, <1>8 DEF Settings!StorePolicy
  <2> QED
    BY <1>1, <1>8, <2>1 DEF Settings!StorePolicy
<1>9. ASSUME NEW c \in Calls, Settings!MoveAuthority(c) PROVE Settings!TypeOK'
  BY <1>1, <1>9, OwnerMoves DEF Settings!MoveAuthority, Settings!AuthorityState, AuthorityState
<1>10. ASSUME NEW c \in Calls, Settings!Fail(c), UNCHANGED <<mandate, policy, authority>>
       PROVE  Settings!TypeOK'
  BY <1>1, <1>10 DEF Settings!Fail
<1> QED
  BY <1>3, <1>4, <1>5, <1>6, <1>7, <1>8, <1>9, <1>10 DEF Settings!Next

-----------------------------------------------------------------------------
(* The owner's account at the exchange *)

\* Each step keeps the types of what the calls read, and what they were told.
LEMMA AccountStep == ASSUME Account!TypeOK, Account!Next PROVE Account!TypeOK'
<1> USE DEF Account!TypeOK, Account!Becomes, Account!At, Account!rest
<1> DEFINE Held == [at : {"mandate", "key-cancel", "key-read", "cancel", "read"},
                    saw : Account!AuthorityState]
<1>1. Account!Idle \in Account!Step /\ Account!Done \in Account!Step /\ Held \subseteq Account!Step
  BY DEF Account!Step
<1>2. \A c \in Calls :
        pc[c].at \in {"mandate", "key-cancel", "key-read", "cancel", "read"} => pc[c] \in Held
  BY DEF Account!Step, Account!Idle, Account!Done
<1>3. ASSUME NEW c \in Calls, Account!CancelLiveOrder(c) \/ Account!GetLive(c)
      PROVE  Account!TypeOK'
  BY <1>1, <1>3 DEF Account!CancelLiveOrder, Account!GetLive
<1>4. ASSUME NEW c \in Calls, Account!CheckMandate(c) PROVE Account!TypeOK'
  <2>1. [pc[c] EXCEPT !.at = "key-cancel"] \in Held
    BY <1>2, <1>4 DEF Account!CheckMandate
  <2> QED
    BY <1>1, <1>4, <2>1 DEF Account!CheckMandate
<1>5. ASSUME NEW c \in Calls, Account!ReadKey(c) PROVE Account!TypeOK'
  <2>1. [pc[c] EXCEPT !.at = IF pc[c].at = "key-read" THEN "read" ELSE "cancel"] \in Held
    BY <1>2, <1>5 DEF Account!ReadKey
  <2> QED
    BY <1>1, <1>5, <2>1 DEF Account!ReadKey
<1>6. ASSUME NEW c \in Calls, Account!VenueCancels(c) \/ Account!VenueReads(c)
      PROVE  Account!TypeOK'
  BY <1>1, <1>6 DEF Account!VenueCancels, Account!VenueReads
<1>7. ASSUME NEW c \in Calls, Account!LoseAnswer(c) PROVE Account!TypeOK'
  BY <1>1, <1>7 DEF Account!LoseAnswer
<1>8. ASSUME NEW c \in Calls, Account!OwnerChanges(c) PROVE Account!TypeOK'
  <2>1. Account!Owner!Next => authority' \in Account!AuthorityState
    BY DEF Account!Owner!Next, Account!Owner!Move, Account!Owner!AuthorityState,
           Account!AuthorityState
  <2>2. authority' \in Account!AuthorityState /\ mandate' \in Account!Modes /\ usable' \in BOOLEAN
    BY <1>8, <2>1 DEF Account!OwnerChanges
  <2> QED
    BY <1>1, <1>8, <2>2 DEF Account!OwnerChanges
<1>9. CASE Account!VenueFills
  BY <1>9 DEF Account!VenueFills
<1> QED
  BY <1>3, <1>4, <1>5, <1>6, <1>7, <1>8, <1>9 DEF Account!Next

-----------------------------------------------------------------------------
(* Sailor mandates *)

\* Each step keeps the types of the mandate, its transactions and their calls.
LEMMA SailorsStep == ASSUME Sailors!TypeOK, Sailors!Next PROVE Sailors!TypeOK'
<1> USE DEF Sailors!TypeOK, Sailors!Becomes, Sailors!At, Sailors!Logs, Sailors!SailorStatus
<1>1. Sailors!Idle \in Sailors!Step /\ Sailors!Done \in Sailors!Step
      /\ [at |-> "log"] \in Sailors!Step
  BY DEF Sailors!Step
<1>2. ASSUME NEW c \in Calls, Sailors!CreateMandate(c) \/ Sailors!ActivateMandate(c)
      PROVE  Sailors!TypeOK'
  BY <1>1, <1>2 DEF Sailors!CreateMandate, Sailors!ActivateMandate
<1>3. ASSUME NEW c \in Calls, Sailors!RevokeMandate(c) PROVE Sailors!TypeOK'
  BY <1>1, <1>3 DEF Sailors!RevokeMandate
<1>4. ASSUME NEW c \in Calls, Sailors!ExecuteMandateTransaction(c) PROVE Sailors!TypeOK'
  BY <1>1, <1>4 DEF Sailors!ExecuteMandateTransaction
<1>5. ASSUME NEW c \in Calls, Sailors!Log(c) PROVE Sailors!TypeOK'
  BY <1>1, <1>5 DEF Sailors!Log
<1>6. CASE Sailors!FallDue
  BY <1>6 DEF Sailors!FallDue
<1>7. CASE Sailors!Restart
  BY <1>1, <1>7 DEF Sailors!Restart
<1> QED
  BY <1>2, <1>3, <1>4, <1>5, <1>6, <1>7 DEF Sailors!Next

-----------------------------------------------------------------------------
(* Scheduled discovery *)

\* Each step of the owner's keeps the types of the schedule and its lists.
LEMMA OwnersScheduleStep ==
  ASSUME Schedules!TypeOK, NEW c \in Calls,
         \/ Schedules!Activate(c) \/ Schedules!CreateJob(c) \/ Schedules!ResumeJob(c)
         \/ Schedules!StoreEnabled(c) \/ Schedules!Pause(c) \/ Schedules!SuspendJob(c)
         \/ Schedules!StorePaused(c) \/ Schedules!Breaks(c) \/ Schedules!ChangeLists(c)
  PROVE  Schedules!TypeOK'
<1> USE DEF Schedules!TypeOK, Schedules!Becomes, Schedules!At, Schedules!scheduleVars,
            Schedules!listVars, Schedules!runVars
<1>1. Schedules!Idle \in Schedules!Step /\ Schedules!Done \in Schedules!Step
      /\ \A place \in {"create", "resume", "enabled", "suspend", "paused"} :
           [at |-> place] \in Schedules!Step
  BY DEF Schedules!Step
<1>2. CASE Schedules!Activate(c) \/ Schedules!Pause(c)
  BY <1>1, <1>2 DEF Schedules!Activate, Schedules!Pause
<1>3. CASE Schedules!CreateJob(c)
  BY <1>1, <1>3 DEF Schedules!CreateJob
<1>4. CASE Schedules!ResumeJob(c) \/ Schedules!SuspendJob(c)
  BY <1>1, <1>4 DEF Schedules!ResumeJob, Schedules!SuspendJob
<1>5. CASE Schedules!StoreEnabled(c) \/ Schedules!StorePaused(c)
  <2>1. CASE schedule' = [enabled |-> TRUE, uid |-> TRUE]
    BY <1>1, <1>5, <2>1 DEF Schedules!StoreEnabled, Schedules!StorePaused
  <2>2. CASE schedule' = [schedule EXCEPT !.enabled = FALSE]
    <3>1. schedule \in [enabled : BOOLEAN, uid : BOOLEAN] /\ FALSE \in BOOLEAN
      OBVIOUS
    <3>2. schedule' \in [enabled : BOOLEAN, uid : BOOLEAN]
      BY <2>2, <3>1, Zenon
    <3> QED
      BY <1>1, <1>5, <3>2 DEF Schedules!StoreEnabled, Schedules!StorePaused
  <2> QED
    BY <1>5, <2>1, <2>2 DEF Schedules!StoreEnabled, Schedules!StorePaused
<1>6. CASE Schedules!Breaks(c)
  BY <1>1, <1>6 DEF Schedules!Breaks, Schedules!Fail
<1>7. CASE Schedules!ChangeLists(c)
  BY <1>1, <1>7 DEF Schedules!ChangeLists
<1> QED
  BY <1>2, <1>3, <1>4, <1>5, <1>6, <1>7

\* Each step of a callback keeps the types of its run and its findings.
LEMMA CallbackStep ==
  ASSUME Schedules!TypeOK, NEW k \in Callbacks,
         Schedules!Callback(k) \/ Schedules!Advance(k) \/ Schedules!CallbackFails(k)
  PROVE  Schedules!TypeOK'
<1> USE DEF Schedules!TypeOK, Schedules!Goes, Schedules!scheduleVars, Schedules!listVars
<1> DEFINE Looping(r) == r.todo \in SUBSET Items /\ r.bucket \in 0..LastBucket
<1>1. Schedules!Resting \in Schedules!Run /\ [at |-> "gather"] \in Schedules!Run
      /\ \A todo \in SUBSET Items :
           /\ [at |-> "gathered", todo |-> todo] \in Schedules!Run
           /\ \A b \in 0..LastBucket :
                /\ [at |-> "loop", todo |-> todo, bucket |-> b] \in Schedules!Run
                /\ \A i \in Items :
                     [at |-> "insert", item |-> i, todo |-> todo, bucket |-> b] \in Schedules!Run
  BY DEF Schedules!Run
<1>2. /\ run[k].at = "gathered" => run[k].todo \in SUBSET Items
      /\ run[k].at = "loop" =>
           /\ run[k] \in [at : {"loop"}, todo : SUBSET Items, bucket : 0..LastBucket]
           /\ Looping(run[k])
      /\ run[k].at = "insert" => run[k].item \in Items /\ Looping(run[k])
  BY DEF Schedules!Run, Schedules!Resting
<1>3. CASE Schedules!Callback(k)
  BY <1>1, <1>3 DEF Schedules!Callback
<1>4. CASE Schedules!Gather(k) \/ Schedules!TakeBucket(k)
  <2>1. CASE Schedules!Gather(k)
    BY <1>1, <2>1 DEF Schedules!Gather
  <2>2. CASE Schedules!TakeBucket(k)
    <3> DEFINE next == [at |-> "loop", todo |-> run[k].todo, bucket |-> bucket]
    <3>1. next \in Schedules!Run
      BY <1>1, <1>2, <2>2 DEF Schedules!TakeBucket
    <3>2. run' = [run EXCEPT ![k] = next]
      BY <2>2 DEF Schedules!TakeBucket
    <3> HIDE DEF next
    <3> QED
      BY <2>2, <3>1, <3>2 DEF Schedules!TakeBucket
  <2> QED
    BY <1>4, <2>1, <2>2
<1>5. ASSUME NEW i \in Items, Schedules!LookAt(k, i) PROVE Schedules!TypeOK'
  <2> DEFINE rest == run[k].todo \ {i}
             next == IF Schedules!Recorded(i, run[k].bucket) THEN [run[k] EXCEPT !.todo = rest]
                     ELSE [at |-> "insert", item |-> i, todo |-> rest, bucket |-> run[k].bucket]
  <2>1. rest \in SUBSET Items
    BY <1>2, <1>5 DEF Schedules!LookAt
  <2>2. [run[k] EXCEPT !.todo = rest] \in Schedules!Run
    BY <1>2, <1>5, <2>1 DEF Schedules!LookAt, Schedules!Run
  <2>3. next \in Schedules!Run
    BY <1>1, <1>2, <1>5, <2>1, <2>2 DEF Schedules!LookAt
  <2>4. run' = [run EXCEPT ![k] = next]
    BY <1>5 DEF Schedules!LookAt
  <2> HIDE DEF next
  <2> QED
    BY <1>5, <2>3, <2>4 DEF Schedules!LookAt
<1>6. CASE Schedules!Insert(k)
  <2>1. run[k].item \in Items /\ Looping(run[k])
    BY <1>2, <1>6 DEF Schedules!Insert
  <2> DEFINE next == [at |-> "loop", todo |-> run[k].todo, bucket |-> run[k].bucket]
             new  == [item |-> run[k].item, bucket |-> run[k].bucket]
  <2>2. next \in Schedules!Run /\ new \in [item : Items, bucket : 0..LastBucket]
    BY <1>1, <2>1
  <2>3. \/ run' = [run EXCEPT ![k] = Schedules!Resting] /\ findings' = findings
        \/ run' = [run EXCEPT ![k] = next] /\ findings' = findings \cup {new}
    BY <1>6 DEF Schedules!Insert
  <2> HIDE DEF next, new
  <2> QED
    BY <1>1, <1>6, <2>2, <2>3 DEF Schedules!Insert
<1>7. CASE Schedules!Finish(k)
  BY <1>1, <1>7 DEF Schedules!Finish
<1>8. CASE Schedules!CallbackFails(k)
  BY <1>1, <1>8, DiscoveryAssumption DEF Schedules!CallbackFails
<1> QED
  BY <1>3, <1>4, <1>5, <1>6, <1>7, <1>8 DEF Schedules!Advance

\* Each step keeps the types of the schedule, its job, its lists and its runs.
LEMMA SchedulesStep == ASSUME Schedules!TypeOK, Schedules!Next PROVE Schedules!TypeOK'
<1>1. CASE Schedules!NextBucket
  BY <1>1, DiscoveryAssumption DEF Schedules!NextBucket, Schedules!TypeOK, Schedules!scheduleVars, Schedules!runVars
<1> QED
  BY <1>1, OwnersScheduleStep, CallbackStep DEF Schedules!Next

-----------------------------------------------------------------------------
(* The watchlist *)

\* Each step keeps the types of the list, the policy and their calls.
LEMMA ListsStep == ASSUME Lists!TypeOK, Lists!Next PROVE Lists!TypeOK'
<1> USE DEF Lists!TypeOK, Lists!Becomes, Lists!At
<1> DEFINE Storing == [at : {"store"}, items : SUBSET Items, policy : Lists!Universes]
<1>1. Lists!Idle \in Lists!Step /\ Lists!Done \in Lists!Step /\ Storing \subseteq Lists!Step
      /\ (\A chosen \in Lists!Universes : [at |-> "items", policy |-> chosen] \in Lists!Step)
      /\ \A listed \in SUBSET Items : [at |-> "policy", items |-> listed] \in Lists!Step
  BY DEF Lists!Step
<1>2. \A c \in Calls :
        /\ pc[c].at = "items" => pc[c].policy \in Lists!Universes
        /\ pc[c].at = "policy" => pc[c].items \in SUBSET Items
        /\ pc[c].at = "store" => pc[c] \in Storing
  BY DEF Lists!Step, Lists!Idle, Lists!Done
<1>3. Lists!Listed \in SUBSET Items
  BY DEF Lists!Listed
<1>4. ASSUME NEW c \in Calls, NEW i \in Items, Lists!AddItem(c, i) \/ Lists!RemoveItem(c, i)
      PROVE  Lists!TypeOK'
  BY <1>1, <1>4 DEF Lists!AddItem, Lists!RemoveItem
<1>5. ASSUME NEW c \in Calls, Lists!SavePolicy(c) PROVE Lists!TypeOK'
  BY <1>1, <1>5 DEF Lists!SavePolicy, Lists!Universes
<1>6. ASSUME NEW c \in Calls, Lists!Evaluate(c) PROVE Lists!TypeOK'
  BY <1>1, <1>3, <1>6 DEF Lists!Evaluate
<1>7. ASSUME NEW c \in Calls, Lists!ReadOther(c) PROVE Lists!TypeOK'
  <2>1. PICK listed \in SUBSET Items, chosen \in Lists!Universes :
          Lists!Becomes(c, [at |-> "store", items |-> listed, policy |-> chosen])
    BY <1>2, <1>3, <1>7 DEF Lists!ReadOther
  <2>2. [at |-> "store", items |-> listed, policy |-> chosen] \in Lists!Step
    BY <1>1
  <2> QED
    BY <1>7, <2>1, <2>2 DEF Lists!ReadOther
<1>8. ASSUME NEW c \in Calls, NEW i \in Items, Lists!StoreStatus(c, i) PROVE Lists!TypeOK'
  <2>1. [pc[c] EXCEPT !.items = @ \ {i}] \in Lists!Step
    <3>1. [pc[c] EXCEPT !.items = @ \ {i}] \in Storing
      BY <1>2, <1>8 DEF Lists!StoreStatus
    <3> QED
      BY <1>1, <3>1
  <2>2. Lists!Verdict(i, pc[c].policy) \in Lists!Verdicts
    BY DEF Lists!Verdict, Lists!Verdicts
  <2>3. watched' \in [Items -> {"absent", "watching", "removed"} \cup Lists!Verdicts]
    BY <1>8, <2>2 DEF Lists!StoreStatus
  <2> QED
    BY <1>8, <2>1, <2>3 DEF Lists!StoreStatus
<1>9. ASSUME NEW c \in Calls, Lists!Finish(c) PROVE Lists!TypeOK'
  BY <1>1, <1>9 DEF Lists!Finish
<1>10. ASSUME NEW c \in Calls, Lists!Fail(c), UNCHANGED <<watched, universe>>
       PROVE  Lists!TypeOK'
  BY <1>1, <1>10 DEF Lists!Fail
<1> QED
  BY <1>4, <1>5, <1>6, <1>7, <1>8, <1>9, <1>10 DEF Lists!Next

-----------------------------------------------------------------------------
(* Accounts *)

\* A call that reads a user again has stored one.
PeopleHeld == \A c \in Calls : pc[c].at = "reread" => account \in People!Roles

\* Each step keeps the types of the account, its tokens and their calls.
LEMMA PeopleStep ==
  ASSUME People!TypeOK, PeopleHeld, People!Next
  PROVE  People!TypeOK' /\ PeopleHeld'
<1> USE DEF People!TypeOK, PeopleHeld, People!Becomes, People!At, People!Roles
<1> DEFINE Acting == [at : {"touch", "act", "fresh"}, role : People!Roles]
           Signing == [at : {"upsert", "issue"}, named : BOOLEAN]
<1>1. People!Idle \in People!Step /\ People!Done \in People!Step
      /\ [at |-> "sync"] \in People!Step /\ [at |-> "reread"] \in People!Step
      /\ Acting \subseteq People!Step /\ Signing \subseteq People!Step
      /\ People!Done.at = "done"
  BY DEF People!Step, People!Done
<1>2. \A c \in Calls :
        /\ pc[c].at \in {"touch", "act", "fresh"} => pc[c] \in Acting
        /\ pc[c].at \in {"upsert", "issue"} => pc[c] \in Signing
  BY DEF People!Step, People!Idle, People!Done
<1>3. People!Upserted \in People!Roles
  BY DEF People!Upserted
<1>4. ASSUME NEW c \in Calls, People!Callback(c) PROVE People!TypeOK' /\ PeopleHeld'
  BY <1>1, <1>4 DEF People!Callback
<1>5. ASSUME NEW c \in Calls, People!Upsert(c) PROVE People!TypeOK' /\ PeopleHeld'
  <2>1. [pc[c] EXCEPT !.at = "issue"] \in Signing
    BY <1>2, <1>5 DEF People!Upsert
  <2> QED
    BY <1>1, <1>3, <1>5, <2>1 DEF People!Upsert
<1>6. ASSUME NEW c \in Calls, People!Issue(c) PROVE People!TypeOK' /\ PeopleHeld'
  BY <1>1, <1>2, <1>6 DEF People!Issue
<1>7. ASSUME NEW c \in Calls, People!Authenticate(c) PROVE People!TypeOK' /\ PeopleHeld'
  <2>1. account # "none" => [at |-> "touch", role |-> account] \in Acting
    OBVIOUS
  <2> QED
    BY <1>1, <1>7, <2>1 DEF People!Authenticate
<1>8. ASSUME NEW c \in Calls, People!Sync(c) PROVE People!TypeOK' /\ PeopleHeld'
  BY <1>1, <1>3, <1>8 DEF People!Sync
<1>9. ASSUME NEW c \in Calls, People!Reread(c) PROVE People!TypeOK' /\ PeopleHeld'
  <2>1. [at |-> "touch", role |-> account] \in Acting
    BY <1>9 DEF People!Reread
  <2> QED
    BY <1>1, <1>9, <2>1 DEF People!Reread
<1>10. ASSUME NEW c \in Calls, People!Touch(c) PROVE People!TypeOK' /\ PeopleHeld'
  <2>1. \A place \in {"act", "fresh"} : [pc[c] EXCEPT !.at = place] \in Acting
    BY <1>2, <1>10 DEF People!Touch
  <2> QED
    BY <1>1, <1>3, <1>10, <2>1 DEF People!Touch
<1>11. ASSUME NEW c \in Calls, People!Act(c) \/ People!ActFresh(c)
       PROVE  People!TypeOK' /\ PeopleHeld'
  BY <1>1, <1>11 DEF People!Act, People!ActFresh
<1>12. ASSUME NEW c \in Calls, People!ChangeRole(c) PROVE People!TypeOK' /\ PeopleHeld'
  BY <1>1, <1>12 DEF People!ChangeRole
<1>13. ASSUME NEW c \in Calls, People!Fail(c), UNCHANGED <<owner, account, issued, acted>>
       PROVE  People!TypeOK' /\ PeopleHeld'
  BY <1>1, <1>13 DEF People!Fail
<1> QED
  BY <1>4, <1>5, <1>6, <1>7, <1>8, <1>9, <1>10, <1>11, <1>12, <1>13 DEF People!Next

-----------------------------------------------------------------------------
(* The components together *)

\* The component that is watched has its types, and what they rest on.
ServicesHeld ==
  /\ about \in Components
  /\ about = "memory"     => Memory!TypeOK /\ MemoryHeld
  /\ about = "keys"       => Keys!TypeOK
  /\ about = "bindings"   => Bindings!TypeOK
  /\ about = "sessions"   => Sessions!TypeOK /\ SessionsHeld
  /\ about = "nodes"      => Nodes!TypeOK
  /\ about = "settings"   => Settings!TypeOK
  /\ about = "account"    => Account!TypeOK
  /\ about = "sailors"    => Sailors!TypeOK
  /\ about = "schedules"  => Schedules!TypeOK
  /\ about = "lists"      => Lists!TypeOK
  /\ about = "threads"    => ThreadTypeOK
  /\ about = "people"     => People!TypeOK /\ PeopleHeld
  /\ about = "lineages"   => LineageTypeOK
  /\ about = "connectors" => ServerTypeOK
  /\ about = "limits"     => Limits!TypeOK /\ LimitsHeld

\* Each component starts as it should.
LEMMA ServicesStart == Init => ServicesHeld
<1> SUFFICES ASSUME Init PROVE ServicesHeld
  OBVIOUS
<1>1. pc = [c \in Calls |-> [at |-> "idle"]]
  BY DEF Init, Waiting, Idle
<1>2. /\ about \in Components
      /\ about = "account" => Account!Init
      /\ about # "account" => Settings!Init
      /\ Memory!Init /\ Keys!Init /\ Bindings!Init /\ Sessions!Init /\ Nodes!Init
      /\ Sailors!Init /\ Schedules!Init /\ Lists!Init /\ ThreadInit /\ pc = Waiting
      /\ People!Init /\ LineageInit /\ ServerInit /\ Limits!Init
  BY DEF Init
<1>3. Memory!TypeOK /\ MemoryHeld
  BY <1>1, <1>2 DEF Memory!Init, Memory!TypeOK, Memory!Step, Memory!Idle, MemoryHeld
<1>4. Keys!TypeOK
  BY <1>1, <1>2 DEF Keys!Init, Keys!TypeOK, Keys!Step, Keys!Idle
<1>5. Bindings!TypeOK
  BY <1>1, <1>2 DEF Bindings!Init, Bindings!TypeOK, Bindings!Step, Bindings!Idle, Bindings!RequestStatus
<1>6. Sessions!TypeOK /\ SessionsHeld
  BY <1>1, <1>2 DEF Sessions!Init, Sessions!TypeOK, Sessions!Step, Sessions!Idle, SessionsHeld
<1>7. Nodes!TypeOK
  BY <1>1, <1>2 DEF Nodes!Init, Nodes!TypeOK, Nodes!Step, Nodes!Idle
<1>8. about = "settings" => Settings!TypeOK
  BY <1>1, <1>2 DEF Settings!Init, Settings!TypeOK, Settings!Step, Settings!Idle,
                     Settings!AuthorityState
<1>9. about = "account" => Account!TypeOK
  BY <1>1, <1>2 DEF Account!Init, Account!TypeOK, Account!Step, Account!Idle,
                     Account!Modes, Account!LiveModes, Account!AuthorityState
<1>10. Sailors!TypeOK
  BY <1>1, <1>2 DEF Sailors!Init, Sailors!TypeOK, Sailors!Step, Sailors!Idle, Sailors!SailorStatus
<1>11. Schedules!TypeOK
  <2>1. /\ schedule \in [enabled : BOOLEAN, uid : BOOLEAN]
        /\ job \in {"absent", "on", "off"}
        /\ items \subseteq Items
        /\ spoilt \in BOOLEAN
    BY <1>2 DEF Schedules!Init
  <2>2. bucket \in 0..LastBucket /\ failed \subseteq 0..LastBucket
    BY <1>2, DiscoveryAssumption DEF Schedules!Init
  <2>3. run \in [Callbacks -> Schedules!Run]
    BY <1>2 DEF Schedules!Init, Schedules!Run
  <2>4. findings \subseteq [item : Items, bucket : 0..LastBucket]
    BY <1>2 DEF Schedules!Init
  <2>5. pc \in [Calls -> Schedules!Step]
    BY <1>1 DEF Schedules!Step, Schedules!Idle
  <2> QED
    BY <2>1, <2>2, <2>3, <2>4, <2>5, Zenon DEF Schedules!TypeOK
<1>12. Lists!TypeOK
  <2>1. universe \in Lists!Universes
    BY <1>2 DEF Lists!Init, Lists!Universes
  <2>2. pc \in [Calls -> Lists!Step]
    BY <1>1 DEF Lists!Step, Lists!Idle
  <2> QED
    BY <1>2, <2>1, <2>2 DEF Lists!Init, Lists!TypeOK
<1>13. ThreadTypeOK
  BY <1>2, ThreadStarts
<1>14. People!TypeOK /\ PeopleHeld
  <2>1. /\ owner \in BOOLEAN /\ account = "none" /\ acted = {}
        /\ issued = {} \/ issued = {TRUE}
    BY <1>2 DEF People!Init
  <2>2. issued \subseteq BOOLEAN
    BY <2>1, Zenon
  <2> QED
    BY <1>1, <2>1, <2>2 DEF People!TypeOK, People!Step, People!Idle, PeopleHeld
<1>15. LineageTypeOK
  BY <1>2, LineageStarts
<1>16. ServerTypeOK
  BY <1>2, ServerStarts
<1>17. Limits!TypeOK /\ LimitsHeld
  BY <1>2, LimitsStart
<1> QED
  BY <1>2, <1>3, <1>4, <1>5, <1>6, <1>7, <1>8, <1>9, <1>10, <1>11, <1>12, <1>13, <1>14, <1>15,
     <1>16, <1>17 DEF ServicesHeld

\* The component that is watched stays watched, and makes its own steps.
LEMMA Watched ==
  ASSUME [Next]_vars
  PROVE  about' = about /\ (Steps \/ UNCHANGED vars)
BY DEF Next, Frame, vars

\* Each step of a component keeps what the component holds.
LEMMA ServicesStep == ASSUME ServicesHeld, [Next]_vars PROVE ServicesHeld'
<1>0. about' = about /\ (Steps \/ UNCHANGED vars)
  BY Watched
<1>1. ASSUME about = "memory" PROVE Memory!TypeOK' /\ MemoryHeld'
  <2>1. CASE Memory!Next
    BY <1>1, <2>1, MemoryStep DEF ServicesHeld
  <2>2. CASE UNCHANGED vars
    BY <1>1, <2>2 DEF ServicesHeld, Memory!TypeOK, MemoryHeld, vars, rows, memoryVars
  <2> QED
    BY <1>0, <1>1, <2>1, <2>2 DEF Steps
<1>2. ASSUME about = "keys" PROVE Keys!TypeOK'
  <2>1. CASE Keys!Next
    BY <1>2, <2>1, KeysStep DEF ServicesHeld
  <2>2. CASE UNCHANGED vars
    BY <1>2, <2>2 DEF ServicesHeld, Keys!TypeOK, vars, rows, keyVars
  <2> QED
    BY <1>0, <1>2, <2>1, <2>2 DEF Steps
<1>3. ASSUME about = "bindings" PROVE Bindings!TypeOK'
  <2>1. CASE Bindings!Next
    BY <1>3, <2>1, BindingsStep DEF ServicesHeld
  <2>2. CASE UNCHANGED vars
    BY <1>3, <2>2 DEF ServicesHeld, Bindings!TypeOK, vars, rows, bindingVars
  <2> QED
    BY <1>0, <1>3, <2>1, <2>2 DEF Steps
<1>4. ASSUME about = "sessions" PROVE Sessions!TypeOK' /\ SessionsHeld'
  <2>1. CASE Sessions!Next
    BY <1>4, <2>1, SessionsStep DEF ServicesHeld
  <2>2. CASE UNCHANGED vars
    BY <1>4, <2>2 DEF ServicesHeld, Sessions!TypeOK, SessionsHeld, vars, rows
  <2> QED
    BY <1>0, <1>4, <2>1, <2>2 DEF Steps
<1>5. ASSUME about = "nodes" PROVE Nodes!TypeOK'
  <2>1. CASE Nodes!Next
    BY <1>5, <2>1, NodesStep DEF ServicesHeld
  <2>2. CASE UNCHANGED vars
    BY <1>5, <2>2 DEF ServicesHeld, Nodes!TypeOK, vars, rows, nodeVars
  <2> QED
    BY <1>0, <1>5, <2>1, <2>2 DEF Steps
<1>6. ASSUME about = "settings" PROVE Settings!TypeOK'
  <2>1. CASE Settings!Next
    BY <1>6, <2>1, SettingsStep DEF ServicesHeld
  <2>2. CASE UNCHANGED vars
    BY <1>6, <2>2 DEF ServicesHeld, Settings!TypeOK, vars, rows, ownerVars
  <2> QED
    BY <1>0, <1>6, <2>1, <2>2 DEF Steps
<1>7. ASSUME about = "account" PROVE Account!TypeOK'
  <2>1. CASE Account!Next
    BY <1>7, <2>1, AccountStep DEF ServicesHeld
  <2>2. CASE UNCHANGED vars
    BY <1>7, <2>2 DEF ServicesHeld, Account!TypeOK, vars, rows, ownerVars, accountVars
  <2> QED
    BY <1>0, <1>7, <2>1, <2>2 DEF Steps
<1>8. ASSUME about = "sailors" PROVE Sailors!TypeOK'
  <2>1. CASE Sailors!Next
    BY <1>8, <2>1, SailorsStep DEF ServicesHeld
  <2>2. CASE UNCHANGED vars
    BY <1>8, <2>2 DEF ServicesHeld, Sailors!TypeOK, vars, rows, sailorVars
  <2> QED
    BY <1>0, <1>8, <2>1, <2>2 DEF Steps
<1>9. ASSUME about = "schedules" PROVE Schedules!TypeOK'
  <2>1. CASE Schedules!Next
    BY <1>9, <2>1, SchedulesStep DEF ServicesHeld
  <2>2. CASE UNCHANGED vars
    BY <1>9, <2>2 DEF ServicesHeld, Schedules!TypeOK, vars, rows, scheduleVars
  <2> QED
    BY <1>0, <1>9, <2>1, <2>2 DEF Steps
<1>10. ASSUME about = "lists" PROVE Lists!TypeOK'
  <2>1. CASE Lists!Next
    BY <1>10, <2>1, ListsStep DEF ServicesHeld
  <2>2. CASE UNCHANGED vars
    BY <1>10, <2>2 DEF ServicesHeld, Lists!TypeOK, vars, rows, listVars
  <2> QED
    BY <1>0, <1>10, <2>1, <2>2 DEF Steps
<1>11. ASSUME about = "people" PROVE People!TypeOK' /\ PeopleHeld'
  <2>1. CASE People!Next
    BY <1>11, <2>1, PeopleStep DEF ServicesHeld
  <2>2. CASE UNCHANGED vars
    BY <1>11, <2>2 DEF ServicesHeld, People!TypeOK, PeopleHeld, vars, rows, personVars
  <2> QED
    BY <1>0, <1>11, <2>1, <2>2 DEF Steps
<1>12. ASSUME about = "threads" PROVE ThreadTypeOK'
  <2>1. ThreadNext \/ UNCHANGED threadVars
    BY <1>0, <1>12 DEF Steps, vars, rows, threadRows, threadVars
  <2> QED
    BY <1>12, <2>1, ThreadTyping DEF ServicesHeld
<1>13. ASSUME about = "lineages" PROVE LineageTypeOK'
  <2>1. LineageNext \/ UNCHANGED lineageVars
    BY <1>0, <1>13 DEF Steps, vars, rows, lineageVars
  <2> QED
    BY <1>13, <2>1, LineageTyping DEF ServicesHeld
<1>14. ASSUME about = "connectors" PROVE ServerTypeOK'
  <2>1. ServerNext \/ UNCHANGED connectorVars
    BY <1>0, <1>14 DEF Steps, vars, rows, connectorVars
  <2> QED
    BY <1>14, <2>1, ServerTyping DEF ServicesHeld
<1>15. ASSUME about = "limits" PROVE Limits!TypeOK' /\ LimitsHeld'
  <2>1. Limits!Next \/ UNCHANGED Limits!limitVars
    BY <1>0, <1>15 DEF Steps, vars, rows, limitVars, Limits!limitVars
  <2> QED
    BY <1>15, <2>1, LimitsStep DEF ServicesHeld
<1> QED
  BY <1>0, <1>1, <1>2, <1>3, <1>4, <1>5, <1>6, <1>7, <1>8, <1>9, <1>10, <1>11, <1>12, <1>13, <1>14,
     <1>15 DEF ServicesHeld

\* Each call and row of a component is of its type, whatever the calls do.
THEOREM ServicesTyped == Spec => []ServicesTypeOK
<1>1. ServicesHeld => ServicesTypeOK
  <2> SUFFICES ASSUME ServicesHeld PROVE ServicesTypeOK
    OBVIOUS
  <2>1. CASE about = "memory"
    BY <2>1 DEF ServicesHeld, ServicesTypeOK
  <2>2. CASE about = "keys"
    BY <2>2 DEF ServicesHeld, ServicesTypeOK
  <2>3. CASE about = "bindings"
    BY <2>3 DEF ServicesHeld, ServicesTypeOK
  <2>4. CASE about = "sessions"
    BY <2>4 DEF ServicesHeld, ServicesTypeOK
  <2>5. CASE about = "nodes"
    BY <2>5 DEF ServicesHeld, ServicesTypeOK
  <2>6. CASE about = "settings"
    BY <2>6 DEF ServicesHeld, ServicesTypeOK
  <2>7. CASE about = "account"
    BY <2>7 DEF ServicesHeld, ServicesTypeOK
  <2>8. CASE about = "sailors"
    BY <2>8 DEF ServicesHeld, ServicesTypeOK
  <2>9. CASE about = "schedules"
    BY <2>9 DEF ServicesHeld, ServicesTypeOK
  <2>10. CASE about = "lists"
    BY <2>10 DEF ServicesHeld, ServicesTypeOK
  <2>11. CASE about = "threads"
    BY <2>11 DEF ServicesHeld, ServicesTypeOK
  <2>12. CASE about = "people"
    BY <2>12 DEF ServicesHeld, ServicesTypeOK
  <2>13. CASE about = "lineages"
    BY <2>13 DEF ServicesHeld, ServicesTypeOK
  <2>14. CASE about = "connectors"
    BY <2>14 DEF ServicesHeld, ServicesTypeOK
  <2>15. CASE about = "limits"
    BY <2>15 DEF ServicesHeld, ServicesTypeOK
  <2> QED
    BY <2>1, <2>2, <2>3, <2>4, <2>5, <2>6, <2>7, <2>8, <2>9, <2>10, <2>11, <2>12, <2>13, <2>14, <2>15
       DEF ServicesHeld, Components, Sealable
<1> QED
  BY <1>1, ServicesStart, ServicesStep, PTL DEF Spec

\* No limiter lets through more than its limit says.
THEOREM LimitsKept == Spec => []LimitsHold
<1>1. ServicesHeld => LimitsHold
  BY LimitsBound DEF ServicesHeld, LimitsHold
<1> QED
  BY <1>1, ServicesStart, ServicesStep, PTL DEF Spec

-----------------------------------------------------------------------------
(* Calls in flight *)

\* The rows that stay as they were at the start while another component is
\* watched, and the number of calls that have been in flight at once.
Bystanders ==
  /\ peak \in Nat
  /\ about # "sessions" => Sessions!Init
  /\ about # "nodes" => Nodes!Init
  /\ about # "keys" => Keys!Init

\* They start so and stay so, and the peak does not sink.
LEMMA BystandersStart == Init => Bystanders
BY DEF Init, Bystanders

\* The calls that are in flight during a step.
Flying == {c \in Calls : c \in Busy \/ pc'[c] # pc[c]}

\* A set of calls in flight is no larger than the peak.
LEMMA FlightCounts ==
  ASSUME peak \in Nat, Frame
  PROVE  /\ peak' \in Nat /\ peak <= peak'
         /\ \A S \in SUBSET Flying :
              IsFiniteSet(S) /\ Cardinality(S) \in Nat /\ Cardinality(S) <= peak'
<1> DEFINE flight == Flying
<1>1. flight \subseteq Calls
  BY DEF Flying
<1>2. IsFiniteSet(flight) /\ Cardinality(flight) \in Nat
  BY <1>1, CallsAssumption, FS_Subset, FS_CardinalityType
<1>3. peak' = IF Cardinality(flight) > peak THEN Cardinality(flight) ELSE peak
  BY DEF Frame, InFlight, Flying
<1>4. ASSUME NEW S \in SUBSET flight
      PROVE  IsFiniteSet(S) /\ Cardinality(S) \in Nat /\ Cardinality(S) <= Cardinality(flight)
  BY <1>2, FS_Subset, FS_CardinalityType
<1> HIDE DEF flight
<1>5. peak' \in Nat /\ peak <= peak' /\ Cardinality(flight) <= peak'
  BY <1>2, <1>3
<1>6. ASSUME NEW S \in SUBSET flight
      PROVE  IsFiniteSet(S) /\ Cardinality(S) \in Nat /\ Cardinality(S) <= peak'
  BY <1>2, <1>4, <1>5
<1> QED
  BY <1>5, <1>6 DEF flight

\* While no two calls have overlapped, a call that takes a step is alone.
LEMMA OneAtATime ==
  ASSUME peak \in Nat, Frame, peak' <= 1,
         NEW c \in Calls, pc'[c] # pc[c], NEW d \in Calls \ {c}
  PROVE  pc[d] \in {Idle, Done} /\ pc'[d] = pc[d]
<1> SUFFICES ASSUME pc[d] \notin {Idle, Done} \/ pc'[d] # pc[d] PROVE FALSE
  OBVIOUS
<1>1. {c, d} \in SUBSET Flying
  BY DEF Flying, Busy
<1>2. Cardinality({c, d}) <= peak' /\ peak' \in Nat
  BY <1>1, FlightCounts
<1>3. Cardinality({c, d}) = 2
  <2>1. IsFiniteSet({c}) /\ Cardinality({c}) = 1
    BY FS_Singleton
  <2>2. Cardinality({c} \cup {d}) = Cardinality({c}) + 1
    BY <2>1, FS_AddElement
  <2>3. {c} \cup {d} = {c, d}
    OBVIOUS
  <2> QED
    BY <2>1, <2>2, <2>3
<1> QED
  BY <1>2, <1>3

\* The rows that are not watched stay so.
LEMMA BystandersStep == ASSUME Bystanders, [Next]_vars PROVE Bystanders'
<1>1. CASE UNCHANGED vars
  BY <1>1 DEF Bystanders, vars, rows, keyVars, nodeVars, Sessions!Init, Nodes!Init, Keys!Init
<1>2. CASE Next
  <2>1. about' = about /\ peak' \in Nat
    BY <1>2, FlightCounts DEF Next, Frame, Bystanders
  <2>2. /\ about # "sessions" => sessions' = sessions
        /\ about # "nodes" => nodeVars' = nodeVars
        /\ about # "keys" => keyVars' = keyVars
    BY <1>2 DEF Next, Frame, Untouched
  <2> QED
    BY <2>1, <2>2 DEF Bystanders, keyVars, nodeVars, Sessions!Init, Nodes!Init, Keys!Init
<1> QED
  BY <1>1, <1>2

-----------------------------------------------------------------------------
(* Limits and overlapping calls *)

\* The sessions of a provider that are active or about to be, and the optional
\* subagents that are there or about to be.
Connecting(p) == Sessions!Active(p) \cup {c \in Calls : pc[c].at = "insert" /\ pc[c].provider = p}
Joining == optional \cup {c \in Calls : pc[c].at = "insert"}

\* No more than overlapped: the sessions, and the subagents beyond the capacity.
OverrunHeld ==
  /\ about = "sessions" => \A p \in Providers : Cardinality(Connecting(p)) <= peak
  /\ about = "nodes" =>
       Cardinality(Joining) + 1 <= OptionalSubagentLimit + (IF peak = 0 THEN 1 ELSE peak)

\* At the start there are none.
LEMMA OverrunStart == Init => OverrunHeld
<1> SUFFICES ASSUME Init PROVE OverrunHeld
  OBVIOUS
<1>1. /\ peak = 0 /\ optional = {} /\ pc = [c \in Calls |-> [at |-> "idle"]]
      /\ sessions = [c \in Calls |-> Sessions!NoSession]
  BY DEF Init, Sessions!Init, Nodes!Init, Waiting, Idle
<1>2. ASSUME NEW p \in Providers PROVE Connecting(p) = {}
  BY <1>1 DEF Connecting, Sessions!Active, Sessions!NoSession
<1>3. Joining = {}
  BY <1>1 DEF Joining
<1>4. Cardinality({}) = 0
  BY FS_EmptySet
<1> QED
  BY <1>1, <1>2, <1>3, <1>4, LimitAssumption DEF OverrunHeld

\* A step adds to the sessions of a provider only what it revokes all others for.
LEMMA ConnectingMoves ==
  ASSUME Sessions!TypeOK, Sessions!Next, NEW p \in Providers
  PROVE  Connecting(p)' \subseteq Connecting(p) \/ Connecting(p)' \subseteq Flying
<1> USE DEF Sessions!TypeOK, Sessions!Becomes, Sessions!At, Connecting, Sessions!Active
<1>1. \A c \in Calls : pc[c].at = "insert" => pc[c].provider \in Providers
  BY DEF Sessions!Step, Sessions!Idle, Sessions!Done
<1>2. Sessions!Idle.at = "idle" /\ Sessions!Done.at = "done" /\ Idle = Sessions!Idle /\ Done = Sessions!Done
  BY DEF Sessions!Idle, Sessions!Done, Idle, Done
<1>3. ASSUME NEW S, NEW s \in Calls,
             Sessions!Revoked(S)[s] = [provider |-> p, state |-> "active"]
      PROVE  s \notin S /\ sessions[s] = [provider |-> p, state |-> "active"]
  BY <1>3 DEF Sessions!Revoked, Sessions!Session, Sessions!NoSession
<1>4. ASSUME NEW c \in Calls, Sessions!Connect(c)
      PROVE  Connecting(p)' \subseteq Connecting(p) \/ Connecting(p)' \subseteq Flying
  <2>1. PICK q \in Providers : /\ sessions' = Sessions!Revoked(Sessions!Active(q))
                               /\ pc' = [pc EXCEPT ![c] = [at |-> "insert", provider |-> q]]
    BY <1>4 DEF Sessions!Connect
  <2>2. \A s \in Calls : sessions'[s] = [provider |-> p, state |-> "active"] =>
          s \notin Sessions!Active(q) /\ sessions[s] = [provider |-> p, state |-> "active"]
    BY <1>3, <2>1
  <2>3. pc[c] = Idle
    BY <1>2, <1>4 DEF Sessions!Connect
  <2>4. CASE q = p
    <3>1. \A s \in Calls : sessions'[s] # [provider |-> p, state |-> "active"]
      BY <2>2, <2>4
    <3>2. \A d \in Calls : pc'[d].at = "insert" => d = c \/ pc[d].at = "insert"
      BY <2>1
    <3>3. \A d \in Calls : pc[d].at = "insert" => d \in Busy
      BY <1>2 DEF Busy
    <3>4. pc'[c] # pc[c]
      BY <1>2, <2>1, <2>3
    <3> QED
      BY <3>1, <3>2, <3>3, <3>4 DEF Flying
  <2>5. CASE q # p
    <3>1. \A d \in Calls : pc'[d].at = "insert" /\ pc'[d].provider = p
                             => pc[d].at = "insert" /\ pc[d].provider = p
      BY <2>1, <2>5
    <3> QED
      BY <2>2, <3>1
  <2> QED
    BY <2>4, <2>5
<1>5. ASSUME NEW c \in Calls, Sessions!Insert(c) PROVE Connecting(p)' \subseteq Connecting(p)
  <2>1. \A s \in Calls : sessions'[s] = [provider |-> p, state |-> "active"] =>
          \/ sessions[s] = [provider |-> p, state |-> "active"]
          \/ s = c /\ pc[c].provider = p
    BY <1>5 DEF Sessions!Insert
  <2>2. \A d \in Calls : pc'[d].at = "insert" => pc'[d] = pc[d]
    BY <1>2, <1>5 DEF Sessions!Insert
  <2> QED
    BY <1>5, <2>1, <2>2 DEF Sessions!Insert
<1>6. ASSUME NEW c \in Calls, Sessions!Disconnect(c) PROVE Connecting(p)' \subseteq Connecting(p)
  <2>1. \A d \in Calls : pc'[d].at = "insert" => pc'[d] = pc[d]
    BY <1>6 DEF Sessions!Disconnect
  <2> QED
    BY <1>6, <2>1 DEF Sessions!Disconnect
<1>7. ASSUME NEW c \in Calls, Sessions!Revoke(c) PROVE Connecting(p)' \subseteq Connecting(p)
  <2>1. \A d \in Calls : pc'[d].at = "insert" => pc'[d] = pc[d]
    BY <1>2, <1>7 DEF Sessions!Revoke
  <2>2. sessions' = Sessions!Revoked({pc[c].session})
    BY <1>7 DEF Sessions!Revoke
  <2>3. \A s \in Calls : sessions'[s] = [provider |-> p, state |-> "active"] =>
                           sessions[s] = [provider |-> p, state |-> "active"]
    BY <1>3, <2>2
  <2> QED
    BY <2>1, <2>3
<1>8. ASSUME NEW c \in Calls, Sessions!Fail(c), UNCHANGED sessions
      PROVE  Connecting(p)' \subseteq Connecting(p)
  <2>1. \A d \in Calls : pc'[d].at = "insert" => pc'[d] = pc[d]
    BY <1>2, <1>8 DEF Sessions!Fail
  <2> QED
    BY <1>8, <2>1
<1> QED
  BY <1>4, <1>5, <1>6, <1>7, <1>8 DEF Sessions!Next

\* A step adds to the optional subagents only while there is room.
LEMMA JoiningMoves ==
  ASSUME Nodes!TypeOK, Nodes!Next
  PROVE  \/ Joining' \subseteq Joining
         \/ Nodes!Room /\ Joining' \subseteq optional \cup Flying
<1> USE DEF Nodes!TypeOK, Nodes!Becomes, Nodes!At
<1>1. Nodes!Idle.at = "idle" /\ Nodes!Done.at = "done" /\ Idle = Nodes!Idle /\ Done = Nodes!Done
  BY DEF Nodes!Idle, Nodes!Done, Idle, Done
<1>2. ASSUME NEW c \in Calls, pc' = [pc EXCEPT ![c] = pc'[c]], pc'[c].at # "insert",
             optional' \subseteq optional
      PROVE  Joining' \subseteq Joining
  BY <1>2 DEF Joining
<1>3. ASSUME NEW c \in Calls, Nodes!Ensure(c) PROVE Joining' \subseteq Joining
  <2>1. pc' = [pc EXCEPT ![c] = pc'[c]] /\ pc'[c].at # "insert" /\ optional' \subseteq optional
    BY <1>3 DEF Nodes!Ensure
  <2> QED
    BY <1>2, <2>1
<1>4. ASSUME NEW c \in Calls, Nodes!Seed(c) PROVE Joining' \subseteq Joining
  <2>1. pc' = [pc EXCEPT ![c] = pc'[c]] /\ pc'[c].at # "insert" /\ optional' \subseteq optional
    BY <1>1, <1>4 DEF Nodes!Seed
  <2> QED
    BY <1>2, <2>1
<1>5. ASSUME NEW c \in Calls, Nodes!List(c)
      PROVE  \/ Joining' \subseteq Joining
             \/ Nodes!Room /\ Joining' \subseteq optional \cup Flying
  <2>1. CASE ~ Nodes!Room
    <3>1. pc' = [pc EXCEPT ![c] = pc'[c]] /\ pc'[c].at # "insert" /\ optional' \subseteq optional
      BY <1>1, <1>5, <2>1 DEF Nodes!List
    <3> QED
      BY <1>2, <3>1
  <2>2. CASE Nodes!Room
    <3>1. \A d \in Calls : pc'[d].at = "insert" => d = c \/ pc[d].at = "insert"
      BY <1>5, <2>2 DEF Nodes!List
    <3>2. pc[c].at = "list" /\ optional' = optional
      BY <1>5 DEF Nodes!List
    <3>3. \A d \in Calls : pc[d].at \in {"list", "insert"} => d \in Flying
      BY <1>1 DEF Flying, Busy
    <3> QED
      BY <2>2, <3>1, <3>2, <3>3 DEF Joining
  <2> QED
    BY <2>1, <2>2
<1>6. ASSUME NEW c \in Calls, Nodes!CreateOptionalSubagent(c) PROVE Joining' \subseteq Joining
  <2>1. \A d \in Calls : pc'[d].at = "insert" => pc[d].at = "insert"
    BY <1>1, <1>6 DEF Nodes!CreateOptionalSubagent
  <2> QED
    BY <1>6, <2>1 DEF Nodes!CreateOptionalSubagent, Joining
<1>7. ASSUME NEW c \in Calls, Nodes!Retire(c) PROVE Joining' \subseteq Joining
  <2>1. pc' = [pc EXCEPT ![c] = pc'[c]] /\ pc'[c].at # "insert" /\ optional' \subseteq optional
    BY <1>7 DEF Nodes!Retire
  <2> QED
    BY <1>2, <2>1
<1>8. ASSUME NEW c \in Calls, Nodes!StoreRetired(c) PROVE Joining' \subseteq Joining
  <2>1. pc' = [pc EXCEPT ![c] = pc'[c]] /\ pc'[c].at # "insert" /\ optional' \subseteq optional
    BY <1>1, <1>8 DEF Nodes!StoreRetired
  <2> QED
    BY <1>2, <2>1
<1>9. ASSUME NEW c \in Calls, Nodes!Fail(c), UNCHANGED <<team, optional>>
      PROVE  Joining' \subseteq Joining
  <2>1. pc' = [pc EXCEPT ![c] = pc'[c]] /\ pc'[c].at # "insert" /\ optional' \subseteq optional
    BY <1>1, <1>9 DEF Nodes!Fail
  <2> QED
    BY <1>2, <2>1
<1>10. PICK c \in Calls :
         \/ Nodes!Ensure(c)
         \/ Nodes!Seed(c)
         \/ Nodes!List(c)
         \/ Nodes!CreateOptionalSubagent(c)
         \/ Nodes!Retire(c)
         \/ Nodes!StoreRetired(c)
         \/ Nodes!Fail(c) /\ UNCHANGED <<team, optional>>
  BY DEF Nodes!Next
<1> QED
  BY <1>3, <1>4, <1>5, <1>6, <1>7, <1>8, <1>9, <1>10

\* The sets that are counted are finite.
LEMMA SetsCounted ==
  ASSUME about = "nodes" => Nodes!TypeOK
  PROVE  /\ \A S \in SUBSET Calls : IsFiniteSet(S) /\ Cardinality(S) \in Nat
         /\ \A T \in SUBSET Calls : \A S \in SUBSET T : Cardinality(S) <= Cardinality(T)
         /\ \A p : Connecting(p) \in SUBSET Calls
         /\ about = "nodes" => Joining \in SUBSET Calls /\ optional \in SUBSET Joining
<1>1. \A S \in SUBSET Calls : IsFiniteSet(S) /\ Cardinality(S) \in Nat
  BY CallsAssumption, FS_Subset, FS_CardinalityType
<1>2. \A T \in SUBSET Calls : \A S \in SUBSET T : Cardinality(S) <= Cardinality(T)
  BY <1>1, FS_Subset
<1> QED
  BY <1>1, <1>2 DEF Connecting, Joining, Sessions!Active, Nodes!TypeOK

\* Each step adds only calls in flight.
LEMMA OverrunStep ==
  ASSUME ServicesHeld, ServicesHeld', Bystanders, OverrunHeld, [Next]_vars
  PROVE  OverrunHeld'
<1>1. CASE UNCHANGED vars
  BY <1>1 DEF OverrunHeld, vars, rows, nodeVars, Connecting, Joining, Sessions!Active
<1>2. CASE Next
  <2>1. about' = about /\ Frame /\ Steps /\ peak \in Nat
    BY <1>2 DEF Next, Frame, Bystanders
  <2>2. /\ peak' \in Nat /\ peak <= peak'
        /\ \A S \in SUBSET Flying :
             IsFiniteSet(S) /\ Cardinality(S) \in Nat /\ Cardinality(S) <= peak'
    BY <2>1, FlightCounts
  <2>3. ASSUME about = "sessions", NEW p \in Providers PROVE Cardinality(Connecting(p)') <= peak'
    <3>1. Sessions!TypeOK /\ Sessions!Next
      BY <2>1, <2>3 DEF ServicesHeld, Steps
    <3>2. CASE Connecting(p)' \subseteq Connecting(p)
      <4>1. Cardinality(Connecting(p)') <= Cardinality(Connecting(p))
        BY <2>3, <3>2, SetsCounted
      <4>2. Cardinality(Connecting(p)) <= peak /\ Cardinality(Connecting(p)) \in Nat
        BY <2>3, SetsCounted DEF OverrunHeld
      <4>3. Cardinality(Connecting(p)') \in Nat
        BY <2>3, <3>2, SetsCounted
      <4> QED
        BY <2>1, <2>2, <4>1, <4>2, <4>3
    <3>3. CASE Connecting(p)' \subseteq Flying
      BY <2>2, <3>3
    <3> QED
      BY <3>1, <3>2, <3>3, ConnectingMoves
  <2>4. ASSUME about = "nodes"
        PROVE  Cardinality(Joining') + 1 <= OptionalSubagentLimit + (IF peak' = 0 THEN 1 ELSE peak')
    <3>1. Nodes!TypeOK /\ Nodes!Next
      BY <2>1, <2>4 DEF ServicesHeld, Steps
    <3>2. /\ Joining \in SUBSET Calls /\ Cardinality(Joining) \in Nat
          /\ optional \in SUBSET Calls /\ IsFiniteSet(optional) /\ Cardinality(optional) \in Nat
      BY <2>4, <3>1, SetsCounted DEF Nodes!TypeOK
    <3>3. Cardinality(Joining) + 1 <= OptionalSubagentLimit + (IF peak = 0 THEN 1 ELSE peak)
      BY <2>4 DEF OverrunHeld
    <3>4. CASE Joining' \subseteq Joining
      <4>1. Cardinality(Joining') <= Cardinality(Joining) /\ Cardinality(Joining') \in Nat
        BY <3>1, <3>2, <3>4, SetsCounted
      <4> QED
        BY <2>1, <2>2, <3>2, <3>3, <4>1, LimitAssumption
    <3>5. CASE Nodes!Room /\ Joining' \subseteq optional \cup Flying
      <4> DEFINE joined == Joining' \cap Flying
      <4>1. IsFiniteSet(joined) /\ Cardinality(joined) \in Nat /\ Cardinality(joined) <= peak'
        BY <2>2
      <4>2. Joining' \subseteq optional \cup joined /\ optional \cup joined \in SUBSET Calls
        BY <3>2, <3>5 DEF Flying
      <4> HIDE DEF joined
      <4>3. Cardinality(optional \cup joined) <= Cardinality(optional) + Cardinality(joined)
        <5>1. /\ Cardinality(optional \cup joined)
                   = Cardinality(optional) + Cardinality(joined) - Cardinality(optional \cap joined)
              /\ Cardinality(optional \cap joined) \in Nat
          BY <3>2, <4>1, FS_Union, FS_Intersection, FS_CardinalityType
        <5> QED
          BY <3>2, <4>1, <5>1
      <4>4. /\ Cardinality(Joining') <= Cardinality(optional \cup joined)
            /\ Cardinality(Joining') \in Nat /\ Cardinality(optional \cup joined) \in Nat
        <5>1. Joining' \in SUBSET Calls
          BY <4>2
        <5> QED
          BY <4>2, <5>1, <2>4, <3>1, SetsCounted
      <4>5. Cardinality(optional) < OptionalSubagentLimit
        BY <3>5 DEF Nodes!Room, Nodes!Cardinality, Cardinality
      <4> QED
        BY <2>2, <3>2, <4>1, <4>3, <4>4, <4>5, LimitAssumption
    <3> QED
      BY <3>1, <3>4, <3>5, JoiningMoves
  <2> QED
    BY <2>1, <2>3, <2>4 DEF OverrunHeld
<1> QED
  BY <1>1, <1>2

\* Each limit that is counted before an insert is exceeded by no more than the
\* calls that overlapped.
THEOREM OverrunBounded == Spec => []OverrunIsOverlap
<1>1. ServicesHeld /\ Bystanders /\ OverrunHeld => OverrunIsOverlap
  <2> SUFFICES ASSUME ServicesHeld, Bystanders, OverrunHeld PROVE OverrunIsOverlap
    OBVIOUS
  <2>1. ASSUME NEW p \in Providers PROVE Cardinality(Sessions!Active(p)) <= peak
    <3>1. CASE about = "sessions"
      <4>1. /\ Connecting(p) \in SUBSET Calls /\ Sessions!Active(p) \in SUBSET Connecting(p)
            /\ about = "nodes" => Nodes!TypeOK
        BY <3>1 DEF Connecting, Sessions!Active
      <4>2. /\ Cardinality(Sessions!Active(p)) <= Cardinality(Connecting(p))
            /\ Cardinality(Connecting(p)) \in Nat /\ Cardinality(Sessions!Active(p)) \in Nat
        BY <4>1, SetsCounted DEF Connecting
      <4>3. Cardinality(Connecting(p)) <= peak /\ peak \in Nat
        BY <2>1, <3>1 DEF OverrunHeld, Bystanders
      <4> QED
        BY <4>2, <4>3
    <3>2. CASE about # "sessions"
      <4>1. Sessions!Active(p) = {}
        BY <3>2 DEF Bystanders, Sessions!Init, Sessions!Active, Sessions!NoSession
      <4> QED
        BY <4>1, FS_EmptySet DEF Bystanders
    <3> QED
      BY <3>1, <3>2
  <2>2. Cardinality(optional) + 1 <= OptionalSubagentLimit + (IF peak = 0 THEN 1 ELSE peak)
    <3>1. CASE about = "nodes"
      <4>1. Nodes!TypeOK
        BY <3>1 DEF ServicesHeld
      <4>2. /\ Cardinality(optional) <= Cardinality(Joining)
            /\ Cardinality(optional) \in Nat /\ Cardinality(Joining) \in Nat
        BY <3>1, <4>1, SetsCounted DEF Nodes!TypeOK
      <4> QED
        BY <3>1, <4>2, LimitAssumption DEF OverrunHeld, Bystanders
    <3>2. CASE about # "nodes"
      BY <3>2, FS_EmptySet, LimitAssumption DEF Bystanders, Nodes!Init
    <3> QED
      BY <3>1, <3>2
  <2> QED
    BY <2>1, <2>2 DEF OverrunIsOverlap
<1>2. ServicesHeld /\ [Next]_vars => ServicesHeld'
  BY ServicesStep
<1>3. Bystanders /\ [Next]_vars => Bystanders'
  BY BystandersStep
<1>4. ServicesHeld /\ ServicesHeld' /\ Bystanders /\ OverrunHeld /\ [Next]_vars => OverrunHeld'
  BY OverrunStep
<1> QED
  BY <1>1, <1>2, <1>3, <1>4, ServicesStart, BystandersStart, OverrunStart, PTL DEF Spec

-----------------------------------------------------------------------------
(* Tested keys *)

\* A call is about to make the key active.
Tested(c) == pc[c].at = "store" /\ pc[c].patch = "tested"

\* The venue has accepted something; while no two calls have overlapped, it has
\* accepted, or is asked about, the material the key has.
KeysTested ==
  /\ (key.state = "active" \/ \E c \in Calls : Tested(c)) => verified # {}
  /\ peak <= 1 =>
       /\ key.state = "active" => key.material \in verified
       /\ \A c \in Calls :
            /\ pc[c].at = "venue" => pc[c].material = key.material
            /\ Tested(c) => key.material \in verified

\* Each step of a procedure keeps that.
LEMMA KeysTestedStep ==
  ASSUME Keys!TypeOK, KeysTested, Keys!Next, Frame, peak \in Nat
  PROVE  KeysTested'
<1> USE DEF Keys!TypeOK, Keys!Becomes, Keys!At
<1>1. Keys!Idle.at = "idle" /\ Keys!Done.at = "done" /\ Idle = Keys!Idle /\ Done = Keys!Done
  BY DEF Keys!Idle, Keys!Done, Idle, Done
<1>2. peak' \in Nat /\ peak <= peak'
  BY FlightCounts
<1>3. ASSUME NEW c \in Calls, pc'[c] # pc[c], peak' <= 1, NEW d \in Calls \ {c}
      PROVE  pc'[d].at \notin {"venue", "store"}
  BY <1>1, <1>3, OneAtATime
<1>4. key.material \in Calls \/ key = Keys!NoKey
  BY DEF Keys!Key
<1>5. \A c \in Calls : /\ pc[c].at = "venue" => pc[c].material \in Calls
                       /\ pc[c].at = "store" => pc[c].patch \in Keys!Patches
  BY DEF Keys!Step, Keys!Idle, Keys!Done
<1>6. ASSUME NEW c \in Calls, Keys!AddKey(c) PROVE KeysTested'
  <2>1. /\ key'.state = "testing" /\ verified' = verified
        /\ pc' = [pc EXCEPT ![c] = Keys!Done] /\ pc[c] = Keys!Idle
    BY <1>6 DEF Keys!AddKey
  <2>2. pc'[c] # pc[c] /\ pc'[c].at = "done"
    BY <1>1, <2>1
  <2>3. \A d \in Calls : Tested(d)' => Tested(d)
    BY <2>1, <2>2 DEF Tested
  <2>4. peak' <= 1 => \A d \in Calls : pc'[d].at \notin {"venue", "store"}
    BY <1>3, <2>2
  <2> QED
    BY <2>1, <2>3, <2>4 DEF KeysTested, Tested
<1>7. ASSUME NEW c \in Calls, Keys!TestConnection(c) PROVE KeysTested'
  <2>1. /\ pc' = [pc EXCEPT ![c] = [at |-> "venue", material |-> key.material]]
        /\ key' = key /\ verified' = verified
    BY <1>7 DEF Keys!TestConnection
  <2>2. \A d \in Calls : Tested(d)' => Tested(d)
    BY <2>1 DEF Tested
  <2>3. \A d \in Calls : pc'[d] = pc[d] \/ (d = c /\ pc'[d].material = key.material)
    BY <2>1
  <2> QED
    BY <1>2, <2>1, <2>2, <2>3 DEF KeysTested
<1>8. ASSUME NEW c \in Calls, Keys!VenueAnswers(c) PROVE KeysTested'
  <2>1. /\ pc[c].at = "venue" /\ key' = key
        /\ \/ /\ pc' = [pc EXCEPT ![c] = [at |-> "store", patch |-> "tested"]]
              /\ verified' = verified \cup {pc[c].material}
           \/ /\ pc' = [pc EXCEPT ![c] = [at |-> "store", patch |-> "disabled"]]
              /\ verified' = verified
    BY <1>8 DEF Keys!VenueAnswers
  <2>2. \A d \in Calls : d # c => pc'[d] = pc[d]
    BY <2>1
  <2>3. CASE verified' = verified \cup {pc[c].material}
    <3>1. pc'[c].at = "store"
      BY <2>1
    <3>2. \A d \in Calls : pc'[d].at = "venue" => pc'[d] = pc[d]
      BY <2>2, <3>1
    <3>3. verified' # {} /\ verified \subseteq verified'
      BY <2>3
    <3>4. peak' <= 1 => peak <= 1 /\ key.material \in verified'
      BY <1>2, <2>1, <2>3 DEF KeysTested
    <3> QED
      BY <2>1, <3>2, <3>3, <3>4 DEF KeysTested
  <2>4. CASE /\ pc' = [pc EXCEPT ![c] = [at |-> "store", patch |-> "disabled"]]
             /\ verified' = verified
    <3>1. \A d \in Calls : /\ Tested(d)' => Tested(d)
                           /\ pc'[d].at = "venue" => pc'[d] = pc[d]
      BY <2>4 DEF Tested
    <3> QED
      BY <1>2, <2>1, <2>4, <3>1 DEF KeysTested
  <2> QED
    BY <2>1, <2>3, <2>4
<1>9. ASSUME NEW c \in Calls, NEW patch \in {"disabled", "rotated", "limited", "deleted"},
             Keys!Change(c, patch)
      PROVE  KeysTested'
  <2>1. /\ pc' = [pc EXCEPT ![c] = [at |-> "store", patch |-> patch]]
        /\ key' = key /\ verified' = verified
    BY <1>9 DEF Keys!Change
  <2>2. \A d \in Calls : /\ Tested(d)' => Tested(d)
                         /\ pc'[d].at = "venue" => pc'[d] = pc[d]
    BY <2>1 DEF Tested
  <2> QED
    BY <1>2, <2>1, <2>2 DEF KeysTested
<1>10. ASSUME NEW c \in Calls, Keys!Store(c) PROVE KeysTested'
  <2>1. /\ pc[c].at = "store" /\ pc[c].patch \in Keys!Patches /\ verified' = verified
        /\ pc' = [pc EXCEPT ![c] = IF pc[c].patch = "tested" THEN [at |-> "alert"] ELSE Keys!Done]
        /\ key' = IF Keys!Exists THEN Keys!Patched(c, pc[c].patch) ELSE key
    BY <1>5, <1>10 DEF Keys!Store
  <2>2. pc'[c].at \in {"alert", "done"} /\ pc'[c] # pc[c]
    BY <1>1, <2>1
  <2>3. \A d \in Calls : Tested(d)' => Tested(d)
    BY <2>1, <2>2 DEF Tested
  <2>4. peak' <= 1 => \A d \in Calls : pc'[d].at \notin {"venue", "store"}
    BY <1>3, <2>2
  <2>5. /\ key'.state = "active" => Tested(c) \/ key.state = "active"
        /\ key'.state = "active" => key'.material = key.material
    <3>1. CASE ~ Keys!Exists
      BY <2>1, <3>1
    <3>2. CASE Keys!Exists
      <4>1. key \in Keys!Key /\ key' = Keys!Patched(c, pc[c].patch)
        BY <2>1, <3>2 DEF Keys!Exists, Keys!NoKey
      <4> QED
        BY <2>1, <4>1 DEF Keys!Patched, Keys!Rotated, Keys!Patches, Keys!Key, Tested
    <3> QED
      BY <3>1, <3>2
  <2> QED
    BY <1>2, <2>1, <2>3, <2>4, <2>5 DEF KeysTested, Tested
<1>11. ASSUME NEW c \in Calls, NEW step, pc' = [pc EXCEPT ![c] = step],
              step.at \in {"done", "store"}, step.at = "store" => step.patch = "disabled",
              key' = key, verified' = verified
       PROVE  KeysTested'
  <2>1. \A d \in Calls : /\ Tested(d)' => Tested(d)
                         /\ pc'[d].at = "venue" => pc'[d] = pc[d]
    BY <1>11 DEF Tested
  <2> QED
    BY <1>2, <1>11, <2>1 DEF KeysTested
<1>12. ASSUME NEW c \in Calls, Keys!Alert(c) \/ Keys!Fail(c), UNCHANGED <<key, verified>>
       PROVE  KeysTested'
  <2>1. /\ pc' = [pc EXCEPT ![c] = Keys!Done]
        /\ key' = key /\ verified' = verified
    BY <1>12 DEF Keys!Alert, Keys!Fail
  <2> QED
    BY <1>1, <1>11, <2>1
<1>13. ASSUME NEW c \in Calls, Keys!Alert(c) PROVE KeysTested'
  BY <1>12, <1>13 DEF Keys!Alert
<1>14. ASSUME NEW c \in Calls, Keys!Catch(c) PROVE KeysTested'
  <2>1. /\ pc' = [pc EXCEPT ![c] = [at |-> "store", patch |-> "disabled"]]
        /\ key' = key /\ verified' = verified
    BY <1>14 DEF Keys!Catch
  <2> QED
    BY <1>11, <2>1
<1> QED
  BY <1>6, <1>7, <1>8, <1>9, <1>10, <1>12, <1>13, <1>14 DEF Keys!Next

\* At the start there is no key, and a key that is not watched stays away.
LEMMA TestedStart == Init => KeysTested
<1> SUFFICES ASSUME Init PROVE KeysTested
  OBVIOUS
<1>1. key.state = "absent" /\ pc = [c \in Calls |-> [at |-> "idle"]]
  BY DEF Init, Keys!Init, Keys!NoKey, Waiting, Idle
<1> QED
  BY <1>1 DEF KeysTested, Tested

\* A key is active only for material the venue accepted, as long as no two calls
\* have overlapped, and never without a test that passed.
THEOREM ActiveKeysTested == Spec => []ActiveWasTested
<1> DEFINE Held == about = "keys" => KeysTested
<1>1. Bystanders /\ Held => ActiveWasTested
  <2> SUFFICES ASSUME Bystanders, Held, key.state = "active" PROVE ActiveWasTested
    BY DEF ActiveWasTested
  <2>1. about = "keys"
    BY DEF Bystanders, Keys!Init, Keys!NoKey
  <2>2. peak \in Nat
    BY DEF Bystanders
  <2> QED
    BY <2>1, <2>2 DEF ActiveWasTested, KeysTested
<1>2. Init => Held
  BY TestedStart
<1>3. ServicesHeld /\ [Next]_vars => ServicesHeld'
  BY ServicesStep
<1>4. Bystanders /\ [Next]_vars => Bystanders'
  BY BystandersStep
<1>5. ServicesHeld /\ Bystanders /\ Held /\ [Next]_vars => Held'
  <2> SUFFICES ASSUME ServicesHeld, Bystanders, Held, [Next]_vars, about' = "keys"
               PROVE  KeysTested'
    OBVIOUS
  <2>1. CASE UNCHANGED vars
    BY <2>1 DEF vars, rows, keyVars, KeysTested, Tested
  <2>2. CASE Next
    <3>1. Frame /\ Steps /\ about = "keys" /\ peak \in Nat
      BY <2>2 DEF Next, Frame, Bystanders
    <3>2. Keys!TypeOK /\ KeysTested /\ Keys!Next
      BY <3>1 DEF ServicesHeld, Steps
    <3> QED
      BY <3>1, <3>2, KeysTestedStep
  <2> QED
    BY <2>1, <2>2
<1> QED
  BY <1>1, <1>2, <1>3, <1>4, <1>5, ServicesStart, BystandersStart, PTL DEF Spec

-----------------------------------------------------------------------------
(* Moves that no overlap can change *)

\* A step moves the rows of the component that is watched, and no others.
LEMMA OneMoves ==
  ASSUME [Next]_vars
  PROVE  /\ about # "memory" => entry' = entry
         /\ about # "keys" => key' = key
         /\ about # "bindings" => request' = request
         /\ about # "sessions" => sessions' = sessions
         /\ about # "nodes" => optional' = optional
         /\ about # "settings" => policy' = policy
         /\ about \notin {"settings", "account"} => mandate' = mandate
         /\ about # "account" => order' = order /\ answers' = answers
         /\ about # "sailors" => sailor' = sailor /\ transactions' = transactions
         /\ about # "lists" => watched' = watched
         /\ about # "people" => acted' = acted
<1>1. CASE UNCHANGED vars
  BY <1>1 DEF vars, rows, memoryVars, keyVars, bindingVars, nodeVars, ownerVars, accountVars,
              sailorVars, listVars, personVars
<1>2. CASE Frame
  BY <1>2 DEF Frame, Untouched, memoryVars, keyVars, bindingVars, nodeVars, ownerVars, accountVars,
              sailorVars, listVars, personVars
<1> QED
  BY <1>1, <1>2 DEF Next

\* A shared memory stays shared.
LEMMA SharedStays ==
  ASSUME Memory!TypeOK, MemoryHeld, Memory!Next, entry.scope = "shared"
  PROVE  entry'.scope = "shared"
<1>1. ASSUME NEW c \in Calls, Memory!Store(c) PROVE entry'.scope = "shared"
  BY <1>1 DEF Memory!Store, Memory!Patched
<1>2. ASSUME NEW c \in Calls, Memory!Create(c) PROVE FALSE
  BY <1>2 DEF Memory!Create, Memory!NoEntry
<1> QED
  BY <1>1, <1>2 DEF Memory!Next, Memory!Review, Memory!RequestPromotion, Memory!Reread,
                    Memory!AppendAction

\* A request is decided once, by the update that finds it pending.
LEMMA DecidedOnce ==
  ASSUME Bindings!TypeOK, Bindings!Next, request' # request
  PROVE  Promises!RequestMoves
<1>1. ASSUME NEW c \in Calls, Bindings!Store(c) PROVE Promises!RequestMoves
  <2>1. pc[c].decision \in Bindings!Decisions
    BY <1>1 DEF Bindings!Store, Bindings!At, Bindings!TypeOK, Bindings!Step, Bindings!Idle,
                Bindings!Done
  <2> QED
    BY <1>1, <2>1 DEF Bindings!Store, Bindings!Decisions, Promises!RequestMoves
<1>2. ASSUME NEW c \in Calls, Bindings!RequestChange(c) PROVE Promises!RequestMoves
  BY <1>2 DEF Bindings!RequestChange, Promises!RequestMoves
<1> QED
  BY <1>1, <1>2 DEF Bindings!Next, Bindings!Review, Bindings!Announce

\* A mandate becomes active once, and executes only while it is.
LEMMA SailorsMove ==
  ASSUME Sailors!TypeOK, Sailors!Next, <<sailor, transactions>>' # <<sailor, transactions>>
  PROVE  Promises!SailorMoves
<1> USE DEF Promises!SailorMoves
<1>1. ASSUME NEW c \in Calls, Sailors!CreateMandate(c) PROVE Promises!SailorMoves
  BY <1>1 DEF Sailors!CreateMandate
<1>2. ASSUME NEW c \in Calls, Sailors!ActivateMandate(c) PROVE Promises!SailorMoves
  BY <1>2 DEF Sailors!ActivateMandate
<1>3. ASSUME NEW c \in Calls, Sailors!RevokeMandate(c) PROVE Promises!SailorMoves
  BY <1>3 DEF Sailors!RevokeMandate
<1>4. ASSUME NEW c \in Calls, Sailors!ExecuteMandateTransaction(c) PROVE Promises!SailorMoves
  BY <1>4 DEF Sailors!ExecuteMandateTransaction, Sailors!MayExecute
<1>5. ASSUME NEW c \in Calls, Sailors!Log(c) PROVE FALSE
  BY <1>5 DEF Sailors!Log
<1>6. ASSUME Sailors!FallDue PROVE FALSE
  BY <1>6 DEF Sailors!FallDue
<1>7. ASSUME Sailors!Restart PROVE Promises!SailorMoves
  BY <1>7 DEF Sailors!Restart
<1> QED
  BY <1>1, <1>2, <1>3, <1>4, <1>5, <1>6, <1>7 DEF Sailors!Next

\* A procedure that reads the role again acts for an administrator.
LEMMA FreshActs ==
  ASSUME People!TypeOK, People!Next
  PROVE  \A a \in acted' \ acted : a.asked = "fresh" => account = "admin"
<1>1. ASSUME NEW c \in Calls, People!Act(c)
      PROVE  \A a \in acted' \ acted : a.asked = "context"
  BY <1>1 DEF People!Act
<1>2. ASSUME NEW c \in Calls, People!ActFresh(c)
      PROVE  account = "admin" \/ acted' = acted
  BY <1>2 DEF People!ActFresh
<1>3. ASSUME ~ (\E c \in Calls : People!Act(c) \/ People!ActFresh(c)) PROVE acted' = acted
  BY <1>3 DEF People!Next, People!Callback, People!Upsert, People!Issue, People!Authenticate,
              People!Sync, People!Reread, People!Touch, People!ChangeRole
<1> QED
  BY <1>1, <1>2, <1>3

\* However the calls overlap and fail, a binding request is decided once, a memory
\* that is shared stays shared, a revoked mandate executes nothing, and a
\* procedure that reads the role again acts for an administrator.
THEOREM DecisionsLasting == Spec => DecisionsLast
<1>1. ServicesHeld /\ [Next]_vars => [Promises!Lasting]_rows
  <2> SUFFICES ASSUME ServicesHeld, Next PROVE Promises!Lasting
    BY DEF vars
  <2>1. Steps
    BY DEF Next
  <2>2. entry.scope = "shared" => entry'.scope = "shared"
    BY <2>1, OneMoves, SharedStays DEF ServicesHeld, Steps
  <2>3. request' # request => Promises!RequestMoves
    BY <2>1, OneMoves, DecidedOnce DEF ServicesHeld, Steps
  <2>4. <<sailor, transactions>>' # <<sailor, transactions>> => Promises!SailorMoves
    BY <2>1, OneMoves, SailorsMove DEF ServicesHeld, Steps
  <2>5. \A a \in acted' \ acted : a.asked = "fresh" => account = "admin"
    <3>1. CASE about = "people"
      BY <2>1, <3>1, FreshActs DEF ServicesHeld, Steps
    <3>2. CASE about # "people"
      BY <3>2, OneMoves
    <3> QED
      BY <3>1, <3>2
  <2> QED
    BY <2>2, <2>3, <2>4, <2>5 DEF Promises!Lasting
<1> QED
  BY <1>1, ServicesStart, ServicesStep, PTL DEF Spec, DecisionsLast

-----------------------------------------------------------------------------
(* What a call has read is current, while no two calls have overlapped *)

\* The patch of a memory is one its row, read before, allows.
MemoryCurrent(c) ==
  pc[c].at = "store" =>
    /\ pc[c].read = entry /\ pc[c].change \in Memory!Changes
    /\ pc[c].change = "promotion_requested" => Memory!CanPromoteMemory(entry)
    /\ pc[c].change \in Memory!Verdicts => Memory!Reviewable(entry)

\* So each store is a move of the row.
LEMMA MemoryAlone ==
  ASSUME Memory!TypeOK, MemoryHeld, Memory!Next, Frame, peak \in Nat, peak' <= 1,
         \A c \in Calls : MemoryCurrent(c)
  PROVE  /\ entry' # entry => Promises!MemoryMoves
         /\ \A c \in Calls : MemoryCurrent(c)'
<1> USE DEF Memory!TypeOK, Memory!Becomes, Memory!At
<1>1. Memory!Idle.at = "idle" /\ Memory!Done.at = "done" /\ Idle = Memory!Idle /\ Done = Memory!Done
  BY DEF Memory!Idle, Memory!Done, Idle, Done
<1>2. ASSUME NEW c \in Calls, pc'[c] # pc[c], MemoryCurrent(c)'
      PROVE  \A d \in Calls : MemoryCurrent(d)'
  BY <1>1, <1>2, OneAtATime DEF MemoryCurrent
<1>3. ASSUME NEW c \in Calls, Memory!Create(c)
      PROVE  pc'[c] # pc[c] /\ MemoryCurrent(c)' /\ Promises!MemoryMoves
  <2>1. pc'[c].at = "reread" /\ pc[c].at = "idle"
    BY <1>1, <1>3 DEF Memory!Create
  <2>2. entry.revision = 0 /\ entry'.revision = 1 /\ entry'.status = "active"
    BY <1>3 DEF Memory!Create, Memory!NoEntry
  <2> QED
    BY <2>1, <2>2 DEF MemoryCurrent, Promises!MemoryMoves
<1>4. ASSUME NEW c \in Calls, Memory!RequestPromotion(c) \/ Memory!Review(c)
      PROVE  pc'[c] # pc[c] /\ MemoryCurrent(c)' /\ entry' = entry
  <2>1. PICK change \in Memory!Changes :
          /\ pc' = [pc EXCEPT ![c] = [at |-> "store", change |-> change, read |-> entry]]
          /\ change = "promotion_requested" => Memory!CanPromoteMemory(entry)
          /\ change \in Memory!Verdicts => Memory!Reviewable(entry)
    BY <1>4 DEF Memory!RequestPromotion, Memory!Review, Memory!Changes, Memory!Verdicts
  <2>2. pc[c].at = "idle" /\ entry' = entry
    BY <1>1, <1>4 DEF Memory!RequestPromotion, Memory!Review
  <2> QED
    BY <2>1, <2>2 DEF MemoryCurrent, Memory!CanPromoteMemory, Memory!Reviewable
<1>5. ASSUME NEW c \in Calls, Memory!Store(c)
      PROVE  pc'[c] # pc[c] /\ MemoryCurrent(c)' /\ Promises!MemoryMoves
  <2>1. entry \in Memory!Entry /\ pc[c].read = entry /\ pc[c].at = "store"
        /\ entry' = Memory!Patched(entry, pc[c].change, entry)
    BY <1>5 DEF Memory!Store, MemoryCurrent, MemoryHeld
  <2>2. pc[c].change \in Memory!Changes
    BY <1>5 DEF Memory!Store, MemoryCurrent
  <2>3. Promises!MemoryMoves
    <3>1. /\ pc[c].change = "promotion_requested" => entry.scope = "private" /\ entry.status = "active"
          /\ pc[c].change \in Memory!Verdicts =>
               entry.scope = "private" /\ entry.status = "pending_promotion"
      BY <1>5 DEF Memory!Store, MemoryCurrent, Memory!CanPromoteMemory, Memory!Reviewable
    <3>2. entry.revision \in Nat
      BY <2>1 DEF Memory!Entry
    <3> QED
      BY <2>1, <2>2, <3>1, <3>2
         DEF Memory!Patched, Memory!Changes, Memory!Verdicts, Promises!MemoryMoves
  <2>4. pc[c] \in [at : {"store", "reread"}, change : Memory!Changes \cup {"created"},
                   read : Memory!Entry]
    BY <1>1, <2>1 DEF Memory!Step
  <2>5. pc'[c].at = "reread"
    BY <1>5, <2>4 DEF Memory!Store
  <2> QED
    BY <2>1, <2>3, <2>5 DEF MemoryCurrent
<1>6. ASSUME NEW c \in Calls,
             Memory!Reread(c) \/ Memory!AppendAction(c) \/ Memory!Fail(c), UNCHANGED entry
      PROVE  pc'[c] # pc[c] /\ MemoryCurrent(c)'
  <2>1. pc'[c].at \in {"append", "done"} /\ pc'[c] # pc[c]
    BY <1>1, <1>6 DEF Memory!Reread, Memory!AppendAction, Memory!Fail, Memory!Busy
  <2> QED
    BY <2>1 DEF MemoryCurrent
<1>7. PICK c \in Calls : \/ Memory!Create(c) \/ Memory!RequestPromotion(c) \/ Memory!Review(c)
                         \/ Memory!Store(c) \/ Memory!Reread(c) \/ Memory!AppendAction(c)
                         \/ Memory!Fail(c) /\ UNCHANGED <<entry, actions>>
  BY DEF Memory!Next
<1>8. /\ pc'[c] # pc[c] /\ MemoryCurrent(c)'
      /\ entry' # entry => Promises!MemoryMoves
  BY <1>3, <1>4, <1>5, <1>6, <1>7 DEF Memory!Reread, Memory!AppendAction
<1> QED
  BY <1>2, <1>8

\* The mode of a mandate is one the authority state and the policy allow, and a
\* policy is the next version of the one there is.
SettingsCurrent(c) ==
  /\ pc[c].at = "policy" => Settings!CanPlaceOrders(authority)
  /\ pc[c].at = "mode" /\ pc[c].mode = "real" =>
       Settings!CanPlaceOrders(authority) /\ policy.version > 0
  /\ pc[c].at = "save" => pc[c].read = policy.version

\* A policy that is there has a version.
Versioned == policy = Settings!NothingSaved \/ policy.version > 0

\* Whatever overlaps.
LEMMA VersionedStep ==
  ASSUME Settings!TypeOK, Versioned, Settings!Next
  PROVE  Versioned'
<1>1. ASSUME NEW c \in Calls, Settings!StorePolicy(c) PROVE Versioned'
  <2>1. pc[c].read \in Nat
    BY <1>1 DEF Settings!StorePolicy, Settings!At, Settings!TypeOK, Settings!Step, Settings!Idle,
                Settings!Done
  <2>2. policy'.version = pc[c].read + 1
    BY <1>1 DEF Settings!StorePolicy
  <2> QED
    BY <2>1, <2>2 DEF Versioned
<1>2. ASSUME ~ \E c \in Calls : Settings!StorePolicy(c) PROVE policy' = policy
  BY <1>2 DEF Settings!Next, Settings!CreateMandate, Settings!SetMode, Settings!CheckPolicy,
              Settings!StoreMode, Settings!SavePolicy, Settings!MoveAuthority
<1> QED
  BY <1>1, <1>2 DEF Versioned

\* So each store is a move of its row.
LEMMA SettingsAlone ==
  ASSUME Settings!TypeOK, Versioned, Settings!Next, Frame, peak \in Nat, peak' <= 1,
         \A c \in Calls : SettingsCurrent(c)
  PROVE  /\ mandate' # mandate => Promises!MandateMoves
         /\ policy' # policy => Promises!PolicyMoves
         /\ \A c \in Calls : SettingsCurrent(c)'
<1> USE DEF Settings!TypeOK, Settings!Becomes, Settings!At
<1> DEFINE Moves == /\ mandate' # mandate => Promises!MandateMoves
                    /\ policy' # policy => Promises!PolicyMoves
<1>1. /\ Settings!Idle.at = "idle" /\ Settings!Done.at = "done"
      /\ Idle = Settings!Idle /\ Done = Settings!Done
  BY DEF Settings!Idle, Settings!Done, Idle, Done
<1>2. ASSUME NEW c \in Calls, pc'[c] # pc[c], SettingsCurrent(c)'
      PROVE  \A d \in Calls : SettingsCurrent(d)'
  BY <1>1, <1>2, OneAtATime DEF SettingsCurrent
<1>3. ASSUME NEW c \in Calls, pc'[c].at = "done", pc[c].at # "done"
      PROVE  pc'[c] # pc[c] /\ SettingsCurrent(c)'
  BY <1>3 DEF SettingsCurrent
<1>4. ASSUME NEW c \in Calls, Settings!CreateMandate(c)
      PROVE  pc'[c] # pc[c] /\ SettingsCurrent(c)' /\ Moves
  BY <1>1, <1>3, <1>4 DEF Settings!CreateMandate, Promises!MandateMoves
<1>5. ASSUME NEW c \in Calls, Settings!SetMode(c)
      PROVE  pc'[c] # pc[c] /\ SettingsCurrent(c)' /\ Moves
  <2>1. UNCHANGED <<mandate, policy, authority>> /\ pc[c].at = "idle"
    BY <1>1, <1>5 DEF Settings!SetMode
  <2>2. \/ pc'[c] = [at |-> "policy"] /\ Settings!CanPlaceOrders(authority)
        \/ \E mode \in Settings!Modes \ {"real"} : pc'[c] = [at |-> "mode", mode |-> mode]
    BY <1>5 DEF Settings!SetMode
  <2>3. CASE pc'[c] = [at |-> "policy"] /\ Settings!CanPlaceOrders(authority)
    <3>1. Settings!CanPlaceOrders(authority)'
      BY <2>1, <2>3 DEF Settings!CanPlaceOrders, Settings!ORDER_PLACING_STATES
    <3>2. pc'[c].at = "policy"
      BY <2>3
    <3> QED
      BY <2>1, <3>1, <3>2 DEF SettingsCurrent
  <2>4. ASSUME NEW mode \in Settings!Modes \ {"real"}, pc'[c] = [at |-> "mode", mode |-> mode]
        PROVE  pc'[c] # pc[c] /\ SettingsCurrent(c)' /\ Moves
    BY <2>1, <2>4 DEF SettingsCurrent
  <2> QED
    BY <2>2, <2>3, <2>4
<1>6. ASSUME NEW c \in Calls, Settings!CheckPolicy(c)
      PROVE  pc'[c] # pc[c] /\ SettingsCurrent(c)' /\ Moves
  <2>1. UNCHANGED <<mandate, policy, authority>> /\ pc[c].at = "policy"
    BY <1>6 DEF Settings!CheckPolicy
  <2>2. CASE policy = Settings!NothingSaved
    BY <1>1, <1>3, <1>6, <2>1, <2>2 DEF Settings!CheckPolicy
  <2>3. CASE policy # Settings!NothingSaved
    <3>1. pc'[c] = [at |-> "mode", mode |-> "real"]
      BY <1>6, <2>3 DEF Settings!CheckPolicy
    <3>2. Settings!CanPlaceOrders(authority) /\ policy.version > 0
      BY <2>1, <2>3 DEF SettingsCurrent, Versioned
    <3> QED
      BY <2>1, <3>1, <3>2 DEF SettingsCurrent, Settings!CanPlaceOrders
  <2> QED
    BY <2>2, <2>3
<1>7. ASSUME NEW c \in Calls, Settings!StoreMode(c)
      PROVE  pc'[c] # pc[c] /\ SettingsCurrent(c)' /\ Moves
  <2>1. pc[c].at = "mode" /\ pc'[c].at = "done" /\ mandate' = pc[c].mode /\ policy' = policy
    BY <1>1, <1>7 DEF Settings!StoreMode
  <2>2. Promises!MandateMoves
    BY <2>1 DEF SettingsCurrent, Promises!MandateMoves, Promises!CanPlaceOrders,
                Settings!CanPlaceOrders, Promises!ORDER_PLACING_STATES,
                Settings!ORDER_PLACING_STATES
  <2> QED
    BY <1>3, <2>1, <2>2
<1>8. ASSUME NEW c \in Calls, Settings!SavePolicy(c)
      PROVE  pc'[c] # pc[c] /\ SettingsCurrent(c)' /\ Moves
  <2>1. /\ UNCHANGED <<mandate, policy, authority>> /\ pc[c].at = "idle"
        /\ pc'[c] = [at |-> "save", read |-> policy.version]
    BY <1>1, <1>8 DEF Settings!SavePolicy
  <2> QED
    BY <2>1 DEF SettingsCurrent
<1>9. ASSUME NEW c \in Calls, Settings!StorePolicy(c)
      PROVE  pc'[c] # pc[c] /\ SettingsCurrent(c)' /\ Moves
  <2>1. pc[c].at = "save" /\ pc'[c].at = "done" /\ mandate' = mandate
        /\ policy' = [version |-> pc[c].read + 1, values |-> c]
    BY <1>1, <1>9 DEF Settings!StorePolicy
  <2>2. Promises!PolicyMoves
    BY <2>1 DEF SettingsCurrent, Promises!PolicyMoves
  <2> QED
    BY <1>3, <2>1, <2>2
<1>10. ASSUME NEW c \in Calls, Settings!MoveAuthority(c)
       PROVE  pc'[c] # pc[c] /\ SettingsCurrent(c)' /\ Moves
  BY <1>1, <1>3, <1>10 DEF Settings!MoveAuthority
<1>11. ASSUME NEW c \in Calls, Settings!Fail(c), UNCHANGED <<mandate, policy, authority>>
       PROVE  pc'[c] # pc[c] /\ SettingsCurrent(c)' /\ Moves
  <2>1. pc'[c] = Settings!Done /\ pc[c] # Settings!Done
    BY <1>11 DEF Settings!Fail, Settings!Busy
  <2> QED
    BY <1>1, <1>11, <2>1 DEF SettingsCurrent
<1>12. PICK c \in Calls : pc'[c] # pc[c] /\ SettingsCurrent(c)' /\ Moves
  BY <1>4, <1>5, <1>6, <1>7, <1>8, <1>9, <1>10, <1>11, Zenon DEF Settings!Next
<1> QED
  BY <1>2, <1>12

\* A call about the account has seen the authority state there is, and has
\* checked what there is.
AccountCurrent(c) ==
  pc[c].at \in {"mandate", "key-cancel", "key-read", "cancel", "read"} =>
    /\ pc[c].saw = authority
    /\ pc[c].at \in {"key-cancel", "cancel"} => ~sealed /\ Account!MayCancel(authority, mandate)
    /\ pc[c].at \in {"key-read", "read"} => Account!AuthorityAllows(authority, "read-live")
    /\ pc[c].at \in {"cancel", "read"} => usable

\* What the venue is asked for is permitted.
LEMMA AccountAlone ==
  ASSUME Account!TypeOK, Account!Next, policy.version > 0, Frame, peak \in Nat, peak' <= 1,
         \A c \in Calls : AccountCurrent(c)
  PROVE  /\ mandate' # mandate => Promises!MandateMoves
         /\ <<order, answers>>' # <<order, answers>> => Promises!VenueMoves
         /\ \A c \in Calls : AccountCurrent(c)'
<1> USE DEF Account!TypeOK, Account!Becomes, Account!At
<1> DEFINE Moves == /\ mandate' # mandate => Promises!MandateMoves
                    /\ <<order, answers>>' # <<order, answers>> => Promises!VenueMoves
           Held == [at : {"mandate", "key-cancel", "key-read", "cancel", "read"},
                    saw : AuthorityState]
<1>1. /\ Account!Idle.at = "idle" /\ Account!Done.at = "done"
      /\ Idle = Account!Idle /\ Done = Account!Done
  BY DEF Account!Idle, Account!Done, Idle, Done
<1>2. ASSUME NEW c \in Calls, pc'[c] # pc[c], AccountCurrent(c)'
      PROVE  \A d \in Calls : AccountCurrent(d)'
  BY <1>1, <1>2, OneAtATime DEF AccountCurrent
<1>3. ASSUME NEW c \in Calls, pc'[c].at = "done"
      PROVE  AccountCurrent(c)'
  BY <1>3 DEF AccountCurrent
<1>4. \A c \in Calls : pc[c].at \in {"mandate", "key-cancel", "key-read", "cancel", "read"}
                         => pc[c] \in Held
  BY DEF Account!Step, Account!Idle, Account!Done, Account!AuthorityState, AuthorityState
<1>5. \A s \in AuthorityState : /\ Account!AuthorityAllows(s, "cancel-order")
                                     => /\ Promises!AuthorityAllows(s, "cancel-order")
                                        /\ Promises!AuthorityAllows(s, "read-live")
                                /\ Account!AuthorityAllows(s, "read-live")
                                     => Promises!AuthorityAllows(s, "read-live")
                                /\ Account!CanPlaceOrders(s) => Promises!CanPlaceOrders(s)
  BY DEF Account!AuthorityAllows, Promises!AuthorityAllows, Account!CanPlaceOrders,
         Promises!CanPlaceOrders, Account!ORDER_PLACING_STATES, Promises!ORDER_PLACING_STATES,
         Account!CanReadLive, Promises!CanReadLive, Account!READ_ONLY_LIVE_STATES,
         Promises!READ_ONLY_LIVE_STATES, Account!IsBlockedByDominantState,
         Promises!IsBlockedByDominantState
<1>6. authority \in AuthorityState
  BY DEF Account!AuthorityState, AuthorityState
<1>7. ASSUME NEW c \in Calls, Account!CancelLiveOrder(c) \/ Account!GetLive(c)
      PROVE  pc'[c] # pc[c] /\ AccountCurrent(c)' /\ Moves
  <2>1. UNCHANGED <<sealed, authority, mandate, usable, order, answers>> /\ pc[c].at = "idle"
    BY <1>1, <1>7 DEF Account!CancelLiveOrder, Account!GetLive, Account!rest
  <2>2. \/ pc'[c] = [at |-> "mandate", saw |-> authority]
        \/ /\ pc'[c] = [at |-> "key-read", saw |-> authority]
           /\ Account!AuthorityAllows(authority, "read-live")
    BY <1>7 DEF Account!CancelLiveOrder, Account!GetLive
  <2> QED
    BY <2>1, <2>2 DEF AccountCurrent
<1>8. ASSUME NEW c \in Calls, Account!CheckMandate(c)
      PROVE  pc'[c] # pc[c] /\ AccountCurrent(c)' /\ Moves
  <2>1. /\ UNCHANGED <<sealed, authority, mandate, usable, order, answers>>
        /\ pc[c].at = "mandate" /\ pc[c] \in Held /\ pc[c].saw = authority
    BY <1>4, <1>8 DEF Account!CheckMandate, Account!rest, AccountCurrent
  <2>2. CASE Account!MayCancel(authority, mandate) /\ ~sealed
    <3>1. pc'[c] = [pc[c] EXCEPT !.at = "key-cancel"]
      BY <1>8, <2>1, <2>2 DEF Account!CheckMandate
    <3>2. pc'[c].at = "key-cancel" /\ pc'[c].saw = authority
      BY <2>1, <3>1
    <3> QED
      BY <2>1, <2>2, <3>2 DEF AccountCurrent
  <2>3. CASE ~ (Account!MayCancel(authority, mandate) /\ ~sealed)
    <3>1. pc'[c].at = "done"
      BY <1>1, <1>8, <2>1, <2>3 DEF Account!CheckMandate
    <3> QED
      BY <1>3, <2>1, <3>1
  <2> QED
    BY <2>2, <2>3
<1>9. ASSUME NEW c \in Calls, Account!ReadKey(c)
      PROVE  pc'[c] # pc[c] /\ AccountCurrent(c)' /\ Moves
  <2>1. /\ UNCHANGED <<sealed, authority, mandate, usable, order, answers>>
        /\ pc[c].at \in {"key-cancel", "key-read"} /\ pc[c] \in Held /\ pc[c].saw = authority
    BY <1>4, <1>9 DEF Account!ReadKey, Account!rest, AccountCurrent
  <2>2. CASE usable
    <3>1. pc'[c] = [pc[c] EXCEPT !.at = IF pc[c].at = "key-read" THEN "read" ELSE "cancel"]
      BY <1>9, <2>2 DEF Account!ReadKey
    <3>2. /\ pc'[c].at = (IF pc[c].at = "key-read" THEN "read" ELSE "cancel")
          /\ pc'[c].saw = authority
      BY <2>1, <3>1
    <3>3. /\ pc[c].at = "key-cancel" => ~sealed /\ Account!MayCancel(authority, mandate)
          /\ pc[c].at = "key-read" => Account!AuthorityAllows(authority, "read-live")
      BY DEF AccountCurrent
    <3> QED
      BY <2>1, <2>2, <3>2, <3>3 DEF AccountCurrent
  <2>3. CASE ~ usable
    <3>1. pc'[c].at = "done"
      BY <1>1, <1>9, <2>3 DEF Account!ReadKey
    <3> QED
      BY <1>3, <2>1, <3>1
  <2> QED
    BY <2>2, <2>3
<1>10. ASSUME NEW c \in Calls, pc[c].at \in {"cancel", "read"}, pc[c].at = "read" => order' = order
       PROVE  Promises!VenueMoves
  BY <1>5, <1>6, <1>10
     DEF AccountCurrent, Account!MayCancel, Account!LiveModes, Promises!VenueMoves
<1>11. ASSUME NEW c \in Calls, Account!VenueCancels(c)
       PROVE  pc'[c] # pc[c] /\ AccountCurrent(c)' /\ Moves
  <2>1. pc[c].at = "cancel" /\ pc'[c].at = "done" /\ mandate' = mandate
    BY <1>1, <1>11 DEF Account!VenueCancels
  <2>2. order' # order \/ answers' # answers => Promises!VenueMoves
    BY <1>10, <1>11, <2>1 DEF Account!VenueCancels
  <2> QED
    BY <1>3, <2>1, <2>2

<1>12. ASSUME NEW c \in Calls, Account!VenueReads(c)
       PROVE  pc'[c] # pc[c] /\ AccountCurrent(c)' /\ Moves
  <2>1. pc[c].at = "read" /\ pc'[c].at = "done" /\ mandate' = mandate /\ order' = order
    BY <1>1, <1>12 DEF Account!VenueReads
  <2> QED
    BY <1>3, <1>10, <2>1
<1>13. ASSUME NEW c \in Calls, Account!LoseAnswer(c)
       PROVE  pc'[c] # pc[c] /\ AccountCurrent(c)' /\ Moves
  <2>1. pc'[c].at = "done" /\ pc'[c] # pc[c] /\ mandate' = mandate /\ answers' = answers
    BY <1>1, <1>13 DEF Account!LoseAnswer, Account!Busy
  <2>2. order' # order => pc[c].at = "cancel"
    BY <1>13 DEF Account!LoseAnswer
  <2> QED
    BY <1>3, <1>10, <2>1, <2>2
<1>14. ASSUME NEW c \in Calls, Account!OwnerChanges(c)
       PROVE  pc'[c] # pc[c] /\ AccountCurrent(c)' /\ Moves
  <2>1. pc'[c].at = "done" /\ pc[c].at = "idle" /\ order' = order /\ answers' = answers
    BY <1>1, <1>14 DEF Account!OwnerChanges
  <2>2. mandate' # mandate => (mandate' = "real" => Account!CanPlaceOrders(authority))
    BY <1>14 DEF Account!OwnerChanges
  <2>3. mandate' # mandate => Promises!MandateMoves
    BY <1>5, <1>6, <2>2 DEF Promises!MandateMoves
  <2> QED
    BY <1>3, <2>1, <2>3
<1>15. CASE Account!VenueFills
  <2>1. order' = "filled" /\ UNCHANGED <<pc, sealed, authority, mandate, usable, answers>>
    BY <1>15 DEF Account!VenueFills
  <2>2. Promises!VenueMoves
    BY <2>1 DEF Promises!VenueMoves
  <2>3. \A c \in Calls : AccountCurrent(c)'
    BY <2>1 DEF AccountCurrent
  <2> QED
    BY <2>1, <2>2, <2>3
<1>16. ASSUME NEW c \in Calls, pc'[c] # pc[c] /\ AccountCurrent(c)' /\ Moves
       PROVE  Moves /\ \A d \in Calls : AccountCurrent(d)'
  BY <1>2, <1>16
<1> QED
  BY <1>7, <1>8, <1>9, <1>11, <1>12, <1>13, <1>14, <1>15, <1>16, Zenon DEF Account!Next

\* An evaluation that has read the policy has read the one there is.
ListsCurrent(c) == pc[c].at \in {"items", "store"} => pc[c].policy = universe

\* So each status it stores is what the policy says.
LEMMA ListsAlone ==
  ASSUME Lists!TypeOK, Lists!Next, Frame, peak \in Nat, peak' <= 1,
         \A c \in Calls : ListsCurrent(c)
  PROVE  Promises!StatusMoves /\ \A c \in Calls : ListsCurrent(c)'
<1> USE DEF Lists!TypeOK, Lists!Becomes, Lists!At
<1>1. /\ Lists!Idle.at = "idle" /\ Lists!Done.at = "done"
      /\ Idle = Lists!Idle /\ Done = Lists!Done
  BY DEF Lists!Idle, Lists!Done, Idle, Done
<1>2. ASSUME NEW c \in Calls, pc'[c] # pc[c], ListsCurrent(c)'
      PROVE  \A d \in Calls : ListsCurrent(d)'
  BY <1>1, <1>2, OneAtATime DEF ListsCurrent
<1>3. watched' = watched => Promises!StatusMoves
  BY DEF Promises!StatusMoves
<1>4. ASSUME NEW c \in Calls, NEW i \in Items, Lists!AddItem(c, i) \/ Lists!RemoveItem(c, i)
      PROVE  pc'[c] # pc[c] /\ ListsCurrent(c)' /\ Promises!StatusMoves
  <2>1. pc'[c].at = "done" /\ pc[c].at = "idle"
    BY <1>1, <1>4 DEF Lists!AddItem, Lists!RemoveItem
  <2>2. \A j \in Items : watched'[j] # watched[j] => watched'[j] \in {"watching", "removed"}
    BY <1>4 DEF Lists!AddItem, Lists!RemoveItem
  <2> QED
    BY <2>1, <2>2 DEF ListsCurrent, Promises!StatusMoves
<1>5. ASSUME NEW c \in Calls, NEW i \in Items, Lists!StoreStatus(c, i)
      PROVE  ListsCurrent(c)' /\ (\A d \in Calls \ {c} : pc'[d] = pc[d]) /\ Promises!StatusMoves
  <2>1. /\ pc[c].at = "store" /\ universe' = universe
        /\ pc' = [pc EXCEPT ![c] = [pc[c] EXCEPT !.items = @ \ {i}]]
        /\ watched' = IF i \in Lists!Listed THEN [watched EXCEPT ![i] = Lists!Verdict(i, pc[c].policy)]
                      ELSE watched
    BY <1>5 DEF Lists!StoreStatus
  <2>2. pc[c] \in [at : {"store"}, items : SUBSET Items, policy : Lists!Universes]
    BY <1>1, <2>1 DEF Lists!Step
  <2>3. pc'[c].policy = pc[c].policy /\ pc'[c].at = "store" /\ pc[c].policy = universe
    BY <2>1, <2>2 DEF ListsCurrent
  <2>4. \A j \in Items : watched'[j] # watched[j] => j = i /\ watched'[i] = Lists!Verdict(i, universe)
    BY <2>1, <2>3
  <2>5. Promises!StatusMoves
    BY <2>4 DEF Lists!Verdict, Promises!StatusMoves
  <2> QED
    BY <2>1, <2>3, <2>5 DEF ListsCurrent
<1>6. ASSUME NEW c \in Calls, Lists!SavePolicy(c)
      PROVE  pc'[c] # pc[c] /\ ListsCurrent(c)' /\ watched' = watched
  BY <1>1, <1>6 DEF Lists!SavePolicy, ListsCurrent
<1>7. ASSUME NEW c \in Calls, Lists!Evaluate(c)
      PROVE  pc'[c] # pc[c] /\ ListsCurrent(c)' /\ watched' = watched
  <2>1. /\ pc[c].at = "idle" /\ UNCHANGED <<watched, universe>>
        /\ \/ pc'[c] = [at |-> "policy", items |-> Lists!Listed]
           \/ pc'[c] = [at |-> "items", policy |-> universe]
    BY <1>1, <1>7 DEF Lists!Evaluate
  <2> QED
    BY <2>1 DEF ListsCurrent
<1>8. ASSUME NEW c \in Calls, Lists!ReadOther(c)
      PROVE  pc'[c] # pc[c] /\ ListsCurrent(c)' /\ watched' = watched
  <2>1. /\ pc[c].at \in {"policy", "items"} /\ UNCHANGED <<watched, universe>>
        /\ \/ pc'[c] = [at |-> "store", items |-> pc[c].items, policy |-> universe]
           \/ /\ pc[c].at = "items"
              /\ pc'[c] = [at |-> "store", items |-> Lists!Listed, policy |-> pc[c].policy]
    BY <1>8 DEF Lists!ReadOther
  <2> QED
    BY <2>1 DEF ListsCurrent
<1>9. ASSUME NEW c \in Calls, Lists!Finish(c) \/ Lists!Fail(c), UNCHANGED <<watched, universe>>
      PROVE  pc'[c] # pc[c] /\ ListsCurrent(c)' /\ watched' = watched
  <2>1. pc'[c].at = "done" /\ pc'[c] # pc[c]
    BY <1>1, <1>9 DEF Lists!Finish, Lists!Fail, Lists!Busy
  <2> QED
    BY <1>9, <2>1 DEF ListsCurrent
<1>10. ASSUME NEW c \in Calls, Lists!Finish(c)
       PROVE  pc'[c] # pc[c] /\ ListsCurrent(c)' /\ watched' = watched
  BY <1>9, <1>10 DEF Lists!Finish
<1>11. CASE \E c \in Calls, i \in Items : Lists!StoreStatus(c, i)
  <2>1. PICK c \in Calls, i \in Items : Lists!StoreStatus(c, i)
    BY <1>11
  <2>2. universe' = universe
    BY <2>1 DEF Lists!StoreStatus
  <2>3. \A d \in Calls : ListsCurrent(d)'
    BY <1>5, <2>1, <2>2 DEF ListsCurrent
  <2> QED
    BY <1>5, <2>1, <2>3
<1>12. CASE ~ \E c \in Calls, i \in Items : Lists!StoreStatus(c, i)
  <2>1. PICK c \in Calls : pc'[c] # pc[c] /\ ListsCurrent(c)' /\ Promises!StatusMoves
    BY <1>3, <1>4, <1>6, <1>7, <1>8, <1>9, <1>10, <1>12, Zenon DEF Lists!Next
  <2> QED
    BY <1>2, <2>1
<1> QED
  BY <1>11, <1>12

\* A call acts in the role the account has.
PeopleCurrent(c) ==
  /\ pc[c].at = "touch" => pc[c].role = account
  /\ pc[c].at \in {"act", "fresh"} => account = "admin"

\* So whoever acts is an administrator.
LEMMA PeopleAlone ==
  ASSUME People!TypeOK, PeopleHeld, People!Next, Frame, peak \in Nat, peak' <= 1,
         \A c \in Calls : PeopleCurrent(c)
  PROVE  Promises!AdminMoves /\ \A c \in Calls : PeopleCurrent(c)'
<1> USE DEF People!TypeOK, People!Becomes, People!At
<1>1. /\ People!Idle.at = "idle" /\ People!Done.at = "done"
      /\ Idle = People!Idle /\ Done = People!Done
  BY DEF People!Idle, People!Done, Idle, Done
<1>2. ASSUME NEW c \in Calls, pc'[c] # pc[c], PeopleCurrent(c)'
      PROVE  \A d \in Calls : PeopleCurrent(d)'
  BY <1>1, <1>2, OneAtATime DEF PeopleCurrent
<1>3. acted' = acted => Promises!AdminMoves
  BY DEF Promises!AdminMoves
<1>4. ASSUME NEW c \in Calls, pc'[c].at \in {"done", "upsert", "issue", "sync", "reread"}
      PROVE  PeopleCurrent(c)'
  BY <1>4 DEF PeopleCurrent
<1>5. \A c \in Calls :
        /\ pc[c].at = "upsert" => pc[c] \in [at : {"upsert", "issue"}, named : BOOLEAN]
        /\ pc[c].at = "touch" => pc[c] \in [at : {"touch", "act", "fresh"}, role : People!Roles]
  BY <1>1 DEF People!Step
<1>6. ASSUME NEW c \in Calls, People!Callback(c)
      PROVE  pc'[c] # pc[c] /\ PeopleCurrent(c)' /\ acted' = acted
  <2>1. pc[c].at = "idle" /\ pc'[c].at = "upsert" /\ acted' = acted
    BY <1>1, <1>6 DEF People!Callback
  <2> QED
    BY <1>4, <2>1
<1>7. ASSUME NEW c \in Calls, People!Upsert(c)
      PROVE  pc'[c] # pc[c] /\ PeopleCurrent(c)' /\ acted' = acted
  <2>1. pc[c].at = "upsert" /\ pc'[c].at = "issue" /\ acted' = acted
    BY <1>5, <1>7 DEF People!Upsert
  <2> QED
    BY <1>4, <2>1
<1>8. ASSUME NEW c \in Calls, People!Issue(c) \/ People!Sync(c) \/ People!ChangeRole(c)
      PROVE  pc'[c] # pc[c] /\ PeopleCurrent(c)' /\ acted' = acted
  <2>1. pc[c].at \in {"issue", "sync", "idle"} /\ pc'[c].at \in {"done", "reread"} /\ acted' = acted
    BY <1>1, <1>8 DEF People!Issue, People!Sync, People!ChangeRole
  <2> QED
    BY <1>4, <2>1
<1>9. ASSUME NEW c \in Calls, People!Authenticate(c) \/ People!Reread(c)
      PROVE  pc'[c] # pc[c] /\ PeopleCurrent(c)' /\ acted' = acted
  <2>1. /\ pc[c].at \in {"idle", "reread"} /\ acted' = acted /\ account' = account
        /\ pc'[c] = [at |-> "sync"] \/ pc'[c] = [at |-> "touch", role |-> account]
    BY <1>1, <1>9 DEF People!Authenticate, People!Reread
  <2> QED
    BY <2>1 DEF PeopleCurrent
<1>10. ASSUME NEW c \in Calls, People!Touch(c)
       PROVE  pc'[c] # pc[c] /\ PeopleCurrent(c)' /\ acted' = acted
  <2>1. /\ pc[c].at = "touch" /\ pc[c].role = account /\ account \in People!Roles
        /\ acted' = acted /\ account' = People!Upserted
    BY <1>5, <1>10 DEF People!Touch, PeopleCurrent
  <2>2. account' = account
    BY <2>1 DEF People!Upserted, People!Roles
  <2>3. CASE account = "admin"
    <3>1. PICK place \in {"act", "fresh"} : pc'[c] = [pc[c] EXCEPT !.at = place]
      BY <1>10, <2>1, <2>3 DEF People!Touch
    <3>2. pc'[c].at = place
      BY <1>5, <2>1, <3>1
    <3> QED
      BY <2>1, <2>2, <2>3, <3>2 DEF PeopleCurrent
  <2>4. CASE account # "admin"
    <3>1. pc'[c].at = "done"
      BY <1>1, <1>10, <2>1, <2>4 DEF People!Touch
    <3> QED
      BY <1>4, <2>1, <3>1
  <2> QED
    BY <2>3, <2>4
<1>11. ASSUME NEW c \in Calls, People!Act(c) \/ People!ActFresh(c)
       PROVE  pc'[c] # pc[c] /\ PeopleCurrent(c)' /\ Promises!AdminMoves
  <2>1. pc[c].at \in {"act", "fresh"} /\ pc'[c].at = "done"
    BY <1>1, <1>11 DEF People!Act, People!ActFresh
  <2>2. account = "admin"
    BY <2>1 DEF PeopleCurrent
  <2> QED
    BY <1>4, <2>1, <2>2 DEF Promises!AdminMoves
<1>12. ASSUME NEW c \in Calls, People!Fail(c), UNCHANGED <<owner, account, issued, acted>>
       PROVE  pc'[c] # pc[c] /\ PeopleCurrent(c)' /\ acted' = acted
  <2>1. pc'[c].at = "done" /\ pc'[c] # pc[c]
    BY <1>1, <1>12 DEF People!Fail, People!Busy
  <2> QED
    BY <1>4, <1>12, <2>1
<1>13. PICK c \in Calls : pc'[c] # pc[c] /\ PeopleCurrent(c)' /\ Promises!AdminMoves
  BY <1>3, <1>6, <1>7, <1>8, <1>9, <1>10, <1>11, <1>12, Zenon DEF People!Next
<1> QED
  BY <1>2, <1>13

\* A key becomes active for the material the venue has accepted, and new material
\* has to be tested.
LEMMA KeysAlone ==
  ASSUME Keys!TypeOK, KeysTested', Keys!Next, peak' <= 1, key' # key
  PROVE  Promises!KeyMoves
<1>1. key'.state = "active" => key'.material \in verified'
  BY DEF KeysTested
<1>2. ASSUME NEW c \in Calls, Keys!AddKey(c) PROVE Promises!KeyMoves
  BY <1>1, <1>2 DEF Keys!AddKey, Keys!NoKey, Promises!KeyMoves
<1>3. ASSUME NEW c \in Calls, Keys!Store(c) PROVE Promises!KeyMoves
  <2>1. Keys!Exists /\ key' = Keys!Patched(c, pc[c].patch)
    BY <1>3 DEF Keys!Store
  <2>2. key \in Keys!Key /\ key.state # "deleted"
    BY <2>1 DEF Keys!Exists, Keys!NoKey, Keys!TypeOK
  <2>3. pc[c].patch \in Keys!Patches
    BY <1>3 DEF Keys!Store, Keys!At, Keys!TypeOK, Keys!Step, Keys!Idle, Keys!Done
  <2>4. key'.material # key.material => key'.state = "testing"
    BY <2>1, <2>2, <2>3 DEF Keys!Patched, Keys!Rotated, Keys!Patches, Keys!Key
  <2> QED
    BY <1>1, <2>2, <2>4 DEF Promises!KeyMoves
<1> QED
  BY <1>2, <1>3 DEF Keys!Next, Keys!TestConnection, Keys!VenueAnswers, Keys!Change, Keys!Alert,
                    Keys!Catch

\* What the calls about the watched component have read, and what makes of it
\* that their stores are moves.
SerialHeld ==
  /\ about = "settings" => Versioned
  /\ about = "account" => policy.version > 0
  /\ about = "keys" => KeysTested
  /\ peak <= 1 => \A c \in Calls :
       /\ about = "memory" => MemoryCurrent(c)
       /\ about = "settings" => SettingsCurrent(c)
       /\ about = "account" => AccountCurrent(c)
       /\ about = "lists" => ListsCurrent(c)
       /\ about = "people" => PeopleCurrent(c)

\* At the start no call has read anything.
LEMMA SerialStart == Init => SerialHeld
<1> SUFFICES ASSUME Init PROVE SerialHeld
  OBVIOUS
<1>1. \A c \in Calls : pc[c].at = "idle"
  BY DEF Init, Waiting, Idle
<1>2. about = "account" => policy.version > 0
  BY DEF Init
<1>3. about = "settings" => Versioned
  BY DEF Init, Settings!Init, Versioned
<1> QED
  BY <1>1, <1>2, <1>3, TestedStart
     DEF SerialHeld, MemoryCurrent, SettingsCurrent, AccountCurrent, ListsCurrent, PeopleCurrent

\* While no two calls have overlapped, each step keeps what the calls have read
\* current, and is a move of the row.
LEMMA SerialStep ==
  ASSUME ServicesHeld, Bystanders, SerialHeld, OverrunHeld', [Next]_vars
  PROVE  /\ SerialHeld'
         /\ peak' > 1 \/ UNCHANGED rows \/ Promises!Next
<1>1. CASE UNCHANGED vars
  BY <1>1 DEF vars, rows, memoryVars, keyVars, ownerVars, accountVars, listVars, personVars,
              SerialHeld, Versioned, KeysTested, Tested, MemoryCurrent, SettingsCurrent,
              AccountCurrent, ListsCurrent, PeopleCurrent
<1>2. CASE Next
  <2>1. about' = about /\ Frame /\ Steps /\ peak \in Nat /\ peak' \in Nat /\ peak <= peak'
    BY <1>2, FlightCounts DEF Next, Frame, Bystanders
  <2>2. about = "settings" => Versioned'
    BY <2>1, VersionedStep DEF ServicesHeld, SerialHeld, Steps
  <2>3. about = "account" => (policy.version > 0)'
    BY <2>1, OneMoves DEF SerialHeld
  <2>4. about = "keys" => KeysTested'
    BY <2>1, KeysTestedStep DEF ServicesHeld, SerialHeld, Steps
  <2>5. CASE peak' > 1
    BY <2>1, <2>2, <2>3, <2>4, <2>5 DEF SerialHeld
  <2>6. CASE peak' <= 1
    <3>1. ASSUME about = "memory"
          PROVE  (entry' # entry => Promises!MemoryMoves) /\ \A c \in Calls : MemoryCurrent(c)'
      BY <2>1, <2>6, <3>1, MemoryAlone DEF ServicesHeld, SerialHeld, Steps
    <3>2. ASSUME about = "settings"
          PROVE  /\ mandate' # mandate => Promises!MandateMoves
                 /\ policy' # policy => Promises!PolicyMoves
                 /\ \A c \in Calls : SettingsCurrent(c)'
      BY <2>1, <2>6, <3>2, SettingsAlone DEF ServicesHeld, SerialHeld, Steps
    <3>3. ASSUME about = "account"
          PROVE  /\ mandate' # mandate => Promises!MandateMoves
                 /\ <<order, answers>>' # <<order, answers>> => Promises!VenueMoves
                 /\ \A c \in Calls : AccountCurrent(c)'
      BY <2>1, <2>6, <3>3, AccountAlone DEF ServicesHeld, SerialHeld, Steps
    <3>4. ASSUME about = "lists"
          PROVE  Promises!StatusMoves /\ \A c \in Calls : ListsCurrent(c)'
      BY <2>1, <2>6, <3>4, ListsAlone DEF ServicesHeld, SerialHeld, Steps
    <3>5. ASSUME about = "people"
          PROVE  Promises!AdminMoves /\ \A c \in Calls : PeopleCurrent(c)'
      BY <2>1, <2>6, <3>5, PeopleAlone DEF ServicesHeld, SerialHeld, Steps
    <3>6. about = "keys" /\ key' # key => Promises!KeyMoves
      BY <2>1, <2>4, <2>6, KeysAlone DEF ServicesHeld, Steps
    <3>7. about = "bindings" /\ request' # request => Promises!RequestMoves
      BY <2>1, DecidedOnce DEF ServicesHeld, Steps
    <3>8. about = "sailors" /\ <<sailor, transactions>>' # <<sailor, transactions>>
            => Promises!SailorMoves
      BY <2>1, SailorsMove DEF ServicesHeld, Steps
    <3>9. about = "sessions" => Promises!SessionMoves
      <4> SUFFICES ASSUME about = "sessions", NEW p \in Providers
                   PROVE  Promises!Cardinality({s \in DOMAIN sessions :
                            sessions'[s] = [provider |-> p, state |-> "active"]}) <= 1
        BY DEF Promises!SessionMoves
      <4>1. DOMAIN sessions = Calls
        BY DEF ServicesHeld, Sessions!TypeOK
      <4>2. {s \in DOMAIN sessions : sessions'[s] = [provider |-> p, state |-> "active"]}
              \in SUBSET Connecting(p)'
        BY <4>1 DEF Connecting, Sessions!Active
      <4>3. Connecting(p)' \in SUBSET Calls
        BY DEF Connecting, Sessions!Active
      <4>4. Cardinality(Connecting(p)') <= peak'
        BY <2>1 DEF OverrunHeld
      <4> DEFINE active == {s \in DOMAIN sessions :
                              sessions'[s] = [provider |-> p, state |-> "active"]}
      <4>5. /\ Cardinality(active) <= Cardinality(Connecting(p)')
            /\ Cardinality(active) \in Nat /\ Cardinality(Connecting(p)') \in Nat
        BY <4>2, <4>3, CallsAssumption, FS_Subset, FS_CardinalityType
      <4>6. Promises!Cardinality(active) = Cardinality(active)
        BY DEF Promises!Cardinality, Cardinality
      <4> HIDE DEF active
      <4>7. Promises!Cardinality(active) <= 1
        BY <2>1, <2>6, <4>4, <4>5, <4>6
      <4> QED
        BY <4>7 DEF active
    <3>10. about = "nodes" => Promises!NodeMoves
      <4> SUFFICES ASSUME about = "nodes" PROVE Promises!NodeMoves
        OBVIOUS
      <4>1. optional' \in SUBSET Joining' /\ Joining' \in SUBSET Calls
        <5>1. Nodes!TypeOK'
          BY <2>1, NodesStep DEF ServicesHeld, Steps
        <5> QED
          BY <5>1 DEF Joining, Nodes!TypeOK
      <4>2. /\ Cardinality(optional') <= Cardinality(Joining')
            /\ Cardinality(optional') \in Nat /\ Cardinality(Joining') \in Nat
        BY <4>1, CallsAssumption, FS_Subset, FS_CardinalityType
      <4>3. Cardinality(Joining') + 1 <= OptionalSubagentLimit + (IF peak' = 0 THEN 1 ELSE peak')
        BY <2>1 DEF OverrunHeld
      <4>4. Cardinality(optional') <= OptionalSubagentLimit
        BY <2>1, <2>6, <4>2, <4>3, LimitAssumption
      <4> QED
        BY <4>4 DEF Promises!NodeMoves, Promises!Cardinality, Cardinality
    <3>11. about # "lists" => Promises!StatusMoves
      BY OneMoves DEF Promises!StatusMoves
    <3>12. about # "people" => Promises!AdminMoves
      BY OneMoves DEF Promises!AdminMoves
    <3>13. Promises!Next
      BY <3>1, <3>2, <3>3, <3>4, <3>5, <3>6, <3>7, <3>8, <3>9, <3>10, <3>11, <3>12, OneMoves
         DEF Promises!Next
    <3>14. SerialHeld'
      BY <2>1, <2>2, <2>3, <2>4, <3>1, <3>2, <3>3, <3>4, <3>5 DEF SerialHeld
    <3> QED
      BY <3>13, <3>14
  <2> QED
    BY <2>1, <2>5, <2>6
<1> QED
  BY <1>1, <1>2

\* While no two calls have overlapped, every store of every handler, those of
\* calls that failed half way included, is a move its row promises.
THEOREM PromisesHold == Spec => PromisesKept
<1>1. ServicesHeld /\ [Next]_vars => ServicesHeld'
  BY ServicesStep
<1>2. Bystanders /\ [Next]_vars => Bystanders'
  BY BystandersStep
<1>3. ServicesHeld /\ ServicesHeld' /\ Bystanders /\ OverrunHeld /\ [Next]_vars => OverrunHeld'
  BY OverrunStep
<1>4. ServicesHeld /\ Bystanders /\ SerialHeld /\ OverrunHeld' /\ [Next]_vars
        => SerialHeld' /\ [peak' > 1 \/ Promises!Next]_rows
  BY SerialStep
<1> QED
  BY <1>1, <1>2, <1>3, <1>4, ServicesStart, BystandersStart, OverrunStart, SerialStart, PTL
     DEF Spec, PromisesKept

-----------------------------------------------------------------------------
(* The schedule and the scheduler's job *)

\* The schedule says of the job what is so.
Matching ==
  /\ schedule.enabled <=> job = "on"
  /\ schedule.uid <=> job # "absent"

\* How far a procedure of the owner's has brought the two.
JobCurrent(c) ==
  /\ pc[c].at = "create" => Matching /\ job = "absent"
  /\ pc[c].at = "resume" => Matching /\ job # "absent"
  /\ pc[c].at = "enabled" => job = "on"
  /\ pc[c].at = "suspend" => Matching /\ job # "absent"
  /\ pc[c].at = "paused" => job # "on" /\ (schedule.uid <=> job # "absent")

\* While nothing has failed and no two calls have overlapped.
JobHeld ==
  peak <= 1 /\ ~spoilt =>
    /\ Busy = {} => Matching
    /\ \A c \in Calls : JobCurrent(c)

\* Each step of a procedure, and of the scheduler, keeps that.
LEMMA JobStep ==
  ASSUME Schedules!TypeOK, Schedules!Next, JobHeld, Frame, peak \in Nat
  PROVE  JobHeld'
<1> SUFFICES ASSUME peak' <= 1, ~spoilt'
             PROVE  (Busy = {} => Matching)' /\ \A c \in Calls : JobCurrent(c)'
  BY DEF JobHeld
<1> USE DEF Schedules!TypeOK, Schedules!Becomes, Schedules!At
<1>1. /\ Schedules!Idle.at = "idle" /\ Schedules!Done.at = "done"
      /\ Idle = Schedules!Idle /\ Done = Schedules!Done
  BY DEF Schedules!Idle, Schedules!Done, Idle, Done
<1>2. peak <= 1
  BY FlightCounts
<1>3. ASSUME NEW c \in Calls, pc'[c] # pc[c], NEW d \in Calls \ {c}
      PROVE  pc[d] \in {Idle, Done} /\ pc'[d] \in {Idle, Done}
  BY <1>3, OneAtATime
<1>4. ASSUME NEW c \in Calls, pc'[c] # pc[c], JobCurrent(c)', pc'[c] \in {Idle, Done} => Matching'
      PROVE  (Busy = {} => Matching)' /\ \A d \in Calls : JobCurrent(d)'
  <2>1. \A d \in Calls \ {c} : pc'[d].at \in {"idle", "done"}
    BY <1>1, <1>3, <1>4
  <2>2. \A d \in Calls : JobCurrent(d)'
    BY <1>4, <2>1 DEF JobCurrent
  <2>3. Busy' = {} => pc'[c] \in {Idle, Done}
    BY DEF Busy
  <2> QED
    BY <1>4, <2>2, <2>3
<1>5. ASSUME NEW c \in Calls, pc'[c] # pc[c], ~spoilt, pc[c].at = "idle", pc[c] = Idle
      PROVE  Matching
  <2>1. Busy = {}
    BY <1>3, <1>5 DEF Busy
  <2> QED
    BY <1>2, <1>5, <2>1 DEF JobHeld
<1>6. ASSUME NEW c \in Calls, Schedules!Activate(c) \/ Schedules!Pause(c)
      PROVE  pc'[c] # pc[c] /\ JobCurrent(c)' /\ (pc'[c] \in {Idle, Done} => Matching')
  <2>1. /\ UNCHANGED <<schedule, job, spoilt>> /\ pc[c] = Idle /\ pc[c].at = "idle"
        /\ \/ pc'[c].at = (IF schedule.uid THEN "resume" ELSE "create")
           \/ pc'[c].at = (IF schedule.uid THEN "suspend" ELSE "paused")
    BY <1>1, <1>6 DEF Schedules!Activate, Schedules!Pause, Schedules!scheduleVars
  <2>2. pc'[c] # pc[c] /\ pc'[c].at \in {"resume", "create", "suspend", "paused"}
    BY <2>1
  <2>3. Matching
    BY <1>5, <2>1, <2>2
  <2> QED
    BY <1>1, <2>1, <2>2, <2>3 DEF JobCurrent, Matching
<1>7. ASSUME NEW c \in Calls, Schedules!CreateJob(c)
      PROVE  pc'[c] # pc[c] /\ JobCurrent(c)' /\ (pc'[c] \in {Idle, Done} => Matching')
  <2>1. pc[c].at = "create" /\ ~spoilt
    BY <1>7 DEF Schedules!CreateJob
  <2>2. job = "absent"
    BY <1>2, <2>1 DEF JobHeld, JobCurrent
  <2>3. job' = "on" /\ pc'[c].at = "enabled"
    BY <1>7, <2>2 DEF Schedules!CreateJob
  <2> QED
    BY <1>1, <2>1, <2>3 DEF JobCurrent
<1>8. ASSUME NEW c \in Calls, Schedules!ResumeJob(c)
      PROVE  pc'[c] # pc[c] /\ JobCurrent(c)' /\ (pc'[c] \in {Idle, Done} => Matching')
  <2>1. pc[c].at = "resume" /\ job' = "on" /\ pc'[c].at = "enabled"
    BY <1>8 DEF Schedules!ResumeJob
  <2> QED
    BY <1>1, <2>1 DEF JobCurrent
<1>9. ASSUME NEW c \in Calls, Schedules!StoreEnabled(c)
      PROVE  pc'[c] # pc[c] /\ JobCurrent(c)' /\ (pc'[c] \in {Idle, Done} => Matching')
  <2>1. /\ pc[c].at = "enabled" /\ job' = job /\ spoilt' = spoilt /\ pc'[c].at = "done"
        /\ schedule' = [enabled |-> TRUE, uid |-> TRUE]
    BY <1>1, <1>9 DEF Schedules!StoreEnabled
  <2>2. job = "on"
    BY <1>2, <2>1 DEF JobHeld, JobCurrent
  <2>3. Matching'
    BY <2>1, <2>2 DEF Matching
  <2> QED
    BY <2>1, <2>3 DEF JobCurrent
<1>10. ASSUME NEW c \in Calls, Schedules!SuspendJob(c)
       PROVE  pc'[c] # pc[c] /\ JobCurrent(c)' /\ (pc'[c] \in {Idle, Done} => Matching')
  <2>1. /\ pc[c].at = "suspend" /\ job' = "off" /\ pc'[c].at = "paused"
        /\ schedule' = schedule /\ spoilt' = spoilt
    BY <1>10 DEF Schedules!SuspendJob
  <2>2. schedule.uid
    BY <1>2, <2>1 DEF JobHeld, JobCurrent, Matching
  <2> QED
    BY <1>1, <2>1, <2>2 DEF JobCurrent
<1>11. ASSUME NEW c \in Calls, Schedules!StorePaused(c)
       PROVE  pc'[c] # pc[c] /\ JobCurrent(c)' /\ (pc'[c] \in {Idle, Done} => Matching')
  <2>1. /\ pc[c].at = "paused" /\ job' = job /\ spoilt' = spoilt /\ pc'[c].at = "done"
        /\ schedule' = [schedule EXCEPT !.enabled = FALSE]
    BY <1>1, <1>11 DEF Schedules!StorePaused
  <2>2. job # "on" /\ (schedule.uid <=> job # "absent")
    BY <1>2, <2>1 DEF JobHeld, JobCurrent
  <2>3. schedule \in [enabled : BOOLEAN, uid : BOOLEAN]
    OBVIOUS
  <2>4. schedule'.enabled = FALSE /\ schedule'.uid = schedule.uid
    BY <2>1, <2>3
  <2>5. Matching'
    BY <2>1, <2>2, <2>4 DEF Matching
  <2> QED
    BY <2>1, <2>5 DEF JobCurrent
<1>12. ASSUME NEW c \in Calls, Schedules!ChangeLists(c)
       PROVE  pc'[c] # pc[c] /\ JobCurrent(c)' /\ (pc'[c] \in {Idle, Done} => Matching')
  <2>1. /\ UNCHANGED <<schedule, job, spoilt>> /\ pc[c] = Idle /\ pc[c].at = "idle"
        /\ pc'[c].at = "done"
    BY <1>1, <1>12 DEF Schedules!ChangeLists, Schedules!scheduleVars
  <2>2. Matching
    BY <1>5, <2>1
  <2> QED
    BY <2>1, <2>2 DEF JobCurrent, Matching
<1>13. ASSUME NEW c \in Calls, Schedules!Breaks(c) PROVE FALSE
  BY <1>13 DEF Schedules!Breaks
<1>14. CASE \E c \in Calls :
              \/ Schedules!Activate(c) \/ Schedules!CreateJob(c) \/ Schedules!ResumeJob(c)
              \/ Schedules!StoreEnabled(c) \/ Schedules!Pause(c) \/ Schedules!SuspendJob(c)
              \/ Schedules!StorePaused(c) \/ Schedules!Breaks(c) \/ Schedules!ChangeLists(c)
  <2>1. PICK c \in Calls :
          pc'[c] # pc[c] /\ JobCurrent(c)' /\ (pc'[c] \in {Idle, Done} => Matching')
    BY <1>6, <1>7, <1>8, <1>9, <1>10, <1>11, <1>12, <1>13, <1>14
  <2> QED
    BY <1>4, <2>1
<1>15. CASE UNCHANGED <<pc, schedule, job, spoilt>>
  BY <1>2, <1>15 DEF JobHeld, JobCurrent, Matching, Busy
<1>16. ASSUME NEW k \in Callbacks,
              Schedules!Callback(k) \/ Schedules!Advance(k) \/ Schedules!CallbackFails(k)
       PROVE  UNCHANGED <<pc, schedule, job, spoilt>>
  BY <1>16 DEF Schedules!Callback, Schedules!Advance, Schedules!CallbackFails, Schedules!Gather,
               Schedules!TakeBucket, Schedules!LookAt, Schedules!Insert, Schedules!Finish,
               Schedules!scheduleVars
<1> QED
  BY <1>14, <1>15, <1>16 DEF Schedules!Next, Schedules!NextBucket, Schedules!scheduleVars

\* At the start there is no job.
LEMMA JobStart == Init => JobHeld
<1> SUFFICES ASSUME Init PROVE JobHeld
  OBVIOUS
<1>1. Matching /\ \A c \in Calls : pc[c].at = "idle"
  BY DEF Init, Schedules!Init, Matching, Waiting, Idle
<1> QED
  BY <1>1 DEF JobHeld, JobCurrent

\* While nothing has failed and no two calls have overlapped, the schedule says
\* of the scheduler's job what is so, and an activation meets no job it has lost.
THEOREM ScheduleMatches == Spec => []ScheduleMatchesJob
<1> DEFINE Held == about = "schedules" => JobHeld
<1>1. Held => ScheduleMatchesJob
  BY DEF JobHeld, JobCurrent, Matching, ScheduleMatchesJob, Schedules!At
<1>2. Init => Held
  BY JobStart
<1>3. ServicesHeld /\ [Next]_vars => ServicesHeld'
  BY ServicesStep
<1>4. Bystanders /\ [Next]_vars => Bystanders'
  BY BystandersStep
<1>5. ServicesHeld /\ Bystanders /\ Held /\ [Next]_vars => Held'
  <2> SUFFICES ASSUME ServicesHeld, Bystanders, Held, [Next]_vars, about' = "schedules"
               PROVE  JobHeld'
    OBVIOUS
  <2>1. CASE UNCHANGED vars
    BY <2>1 DEF vars, rows, scheduleVars, JobHeld, JobCurrent, Matching, Busy
  <2>2. CASE Next
    <3>1. Frame /\ Steps /\ about = "schedules" /\ peak \in Nat
      BY <2>2 DEF Next, Frame, Bystanders
    <3>2. Schedules!TypeOK /\ JobHeld /\ Schedules!Next
      BY <3>1 DEF ServicesHeld, Steps
    <3> QED
      BY <3>1, <3>2, JobStep
  <2> QED
    BY <2>1, <2>2
<1> QED
  BY <1>1, <1>2, <1>3, <1>4, <1>5, ServicesStart, BystandersStart, PTL DEF Spec

-----------------------------------------------------------------------------
(* Connectors, threads and lineages, watched among the others *)

\* Whatever is watched, a server's children move as Connectors says: what it
\* shares with the other components is the seal, and no step of theirs breaks it.
LEMMA ServerIsWatched == [Next]_vars => [ServerNext]_connectorVars
<1>1. CASE UNCHANGED vars
  BY <1>1 DEF vars
<1>2. CASE Next /\ about = "connectors"
  BY <1>2 DEF Next, Steps
<1>3. CASE Next /\ about # "connectors"
  BY <1>3 DEF Next, Frame, Untouched
<1> QED
  BY <1>1, <1>2, <1>3

\* McpServerManager among the owner's services: a child that runs and is not
\* registered, or runs while its server is called disabled, is left by a restart.
THEOREM OnlyRestartsOrphan == Spec => []OnlyRestartOrphans
<1>1. Init => ServerInit
  BY DEF Init
<1>2. Spec => ServerSpec
  BY <1>1, ServerIsWatched, PTL DEF Spec, ServerSpec
<1> QED
  BY <1>2, OrphansOfRestarts, PTL

\* A thread that is not watched stays empty.
ThreadHeldAmong ==
  IF about = "threads" THEN ThreadTypeOK /\ ThreadInv ELSE SomeoneHears

\* The two ways a thread is written, among the owner's services: of two answers
\* of the supervisor one knows the other's question.
THEOREM SomeoneAlwaysHears == Spec => []SomeoneHears
<1>1. Init => ThreadHeldAmong
  <2>1. Init => ThreadTypeOK /\ ThreadInv
    BY ThreadStarts DEF Init
  <2> QED
    BY <2>1 DEF ThreadHeldAmong, ThreadInv, SomeoneHears, HasHeard
<1>2. ThreadHeldAmong /\ [Next]_vars => ThreadHeldAmong'
  <2> SUFFICES ASSUME ThreadHeldAmong, [Next]_vars PROVE ThreadHeldAmong'
    OBVIOUS
  <2>1. about' = about /\ (Steps \/ UNCHANGED vars)
    BY Watched
  <2>2. CASE about = "threads"
    <3>1. [ThreadNext]_threadVars
      BY <2>1, <2>2 DEF Steps, vars, rows, threadRows, threadVars
    <3> QED
      BY <2>1, <2>2, <3>1, ThreadTyping, ThreadInvStep DEF ThreadHeldAmong
  <2>3. CASE about # "threads"
    <3>1. UNCHANGED threadRows
      BY <2>3 DEF Next, Frame, Untouched, vars, rows
    <3> QED
      BY <2>1, <2>3, <3>1 DEF ThreadHeldAmong, SomeoneHears, Replied, Knew, threadRows
  <2> QED
    BY <2>2, <2>3
<1>3. ThreadHeldAmong => SomeoneHears
  BY DEF ThreadHeldAmong, ThreadInv, SomeoneHears, HasHeard
<1> QED
  BY <1>1, <1>2, <1>3, PTL DEF Spec

\* The records of a lineage, among the owner's services: what speaks for it never
\* lowers what is recommended for it, what speaks against it never raises that.
THEOREM NewsAlwaysHeard == Spec => NewsIsHeard
<1>1. ServicesHeld /\ [Next]_vars => [NewsMoves]_record
  <2> SUFFICES ASSUME ServicesHeld, [Next]_vars PROVE [NewsMoves]_record
    OBVIOUS
  <2>1. CASE about = "lineages"
    <3>1. about' = about
      BY Watched
    <3>2. LineageTypeOK /\ LineageTypeOK'
      BY <2>1, <3>1, ServicesStep DEF ServicesHeld
    <3> QED
      BY <3>2, NewsOfStep
  <2>2. CASE about # "lineages"
    BY <2>2 DEF Next, Frame, Untouched, vars, rows
  <2> QED
    BY <2>1, <2>2
<1> QED
  BY <1>1, ServicesStart, ServicesStep, PTL DEF Spec, NewsIsHeard

=============================================================================
