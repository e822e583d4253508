----------------------------- MODULE Discovery ------------------------------
(***************************************************************************)
(* One discovery schedule of the owner's: the discovery procedures of      *)
(* server/routers.ts, the callback of server/scheduledDiscovery.ts, and    *)
(* the external scheduler they configure through server/_core/heartbeat.ts. *)
(* The job's name is its key at the scheduler and is made of the schedule's *)
(* id, so a schedule has at most one job.  The owner's procedures are the  *)
(* racing calls; callbacks may come late, twice, side by side or not at    *)
(* all, and each may fail.                                                 *)
(***************************************************************************)
EXTENDS RacingCalls, FiniteSets

CONSTANTS
  Callbacks,   \* callbacks that are handled at the same time
  Items,       \* assets an owner may put on a watchlist
  LastBucket   \* bound: day or six-hour buckets that pass

VARIABLES
  schedule,  \* the discoverySchedules row
  job,       \* the scheduler's job
  items,     \* the owner's watchlistItems
  bucket,    \* what runBucket returns now
  run,       \* where each callback is
  findings,  \* discoveryFindings: item and bucket
  failed,    \* buckets whose findings a callback has left half way
  spoilt     \* a procedure of the owner's has failed half way

scheduleVars == <<schedule, job, spoilt>>
listVars     == <<items, bucket>>
runVars      == <<run, findings, failed>>

Resting == [at |-> "idle"]

Run == {Resting} \cup [at : {"gather"}]
  \cup [at : {"gathered"}, todo : SUBSET Items]
  \cup [at : {"loop"}, todo : SUBSET Items, bucket : 0..LastBucket]
  \cup [at : {"insert"}, item : Items, todo : SUBSET Items, bucket : 0..LastBucket]

Step == {Idle, Done} \cup [at : {"create", "resume", "enabled", "suspend", "paused"}]

TypeOK ==
  /\ schedule \in [enabled : BOOLEAN, uid : BOOLEAN]
  /\ job \in {"absent", "on", "off"}
  /\ items \subseteq Items
  /\ bucket \in 0..LastBucket
  /\ run \in [Callbacks -> Run]
  /\ findings \subseteq [item : Items, bucket : 0..LastBucket]
  /\ failed \subseteq 0..LastBucket
  /\ spoilt \in BOOLEAN
  /\ pc \in [Calls -> Step]

\* configureInactive has saved the schedule, and the owner keeps some watchlist.
Init ==
  /\ schedule = [enabled |-> FALSE, uid |-> FALSE]
  /\ job = "absent"
  /\ items = Items
  /\ bucket = 0
  /\ run = [k \in Callbacks |-> Resting]
  /\ findings = {} /\ failed = {}
  /\ spoilt = FALSE

-----------------------------------------------------------------------------

\* activate reads the schedule: a job it knows is resumed, else one is created.
Activate(c) ==
  /\ pc[c] = Idle
  /\ Becomes(c, [at |-> IF schedule.uid THEN "resume" ELSE "create"])
  /\ UNCHANGED <<scheduleVars, listVars, runVars>>

\* createHeartbeatJob: a name that is taken is a conflict, and ends the call.
CreateJob(c) ==
  /\ At(c, "create")
  /\ IF job = "absent"
     THEN job' = "on" /\ Becomes(c, [at |-> "enabled"]) /\ UNCHANGED spoilt
     ELSE Becomes(c, Done) /\ spoilt' = TRUE /\ UNCHANGED job
  /\ UNCHANGED <<schedule, listVars, runVars>>

\* updateHeartbeatJob with enable: true
ResumeJob(c) ==
  /\ At(c, "resume")
  /\ job' = "on"
  /\ Becomes(c, [at |-> "enabled"])
  /\ UNCHANGED <<schedule, spoilt, listVars, runVars>>

\* activateDiscoverySchedule
StoreEnabled(c) ==
  /\ At(c, "enabled")
  /\ schedule' = [enabled |-> TRUE, uid |-> TRUE]
  /\ Becomes(c, Done)
  /\ UNCHANGED <<job, spoilt, listVars, runVars>>

\* pause reads the schedule: only a job that is known is disabled.
Pause(c) ==
  /\ pc[c] = Idle
  /\ Becomes(c, [at |-> IF schedule.uid THEN "suspend" ELSE "paused"])
  /\ UNCHANGED <<scheduleVars, listVars, runVars>>

\* updateHeartbeatJob with enable: false
SuspendJob(c) ==
  /\ At(c, "suspend")
  /\ job' = "off"
  /\ Becomes(c, [at |-> "paused"])
  /\ UNCHANGED <<schedule, spoilt, listVars, runVars>>

\* Mutant: pausing forgets the job's uid.
StorePausedWithoutUid(c) ==
  /\ At(c, "paused")
  /\ schedule' = [enabled |-> FALSE, uid |-> FALSE]
  /\ Becomes(c, Done)
  /\ UNCHANGED <<job, spoilt, listVars, runVars>>

\* pauseDiscoverySchedule
StorePaused(c) ==
  /\ At(c, "paused")
  /\ schedule' = [schedule EXCEPT !.enabled = FALSE]
  /\ Becomes(c, Done)
  /\ UNCHANGED <<job, spoilt, listVars, runVars>>

\* The scheduler refuses, its answer is lost, or the row cannot be stored.
Breaks(c) ==
  /\ Fail(c)
  /\ spoilt' = TRUE
  /\ \/ UNCHANGED job
     \/ At(c, "create") /\ job = "absent" /\ job' = "on"
     \/ At(c, "resume") /\ job' = "on"
     \/ At(c, "suspend") /\ job' = "off"
  /\ UNCHANGED <<schedule, listVars, runVars>>

-----------------------------------------------------------------------------

\* addItem and removeItem change what runs are about.
ChangeLists(c) ==
  /\ pc[c] = Idle
  /\ \E i \in Items : items' = items \cup {i} \/ items' = items \ {i}
  /\ Becomes(c, Done)
  /\ UNCHANGED <<scheduleVars, bucket, runVars>>

NextBucket ==
  /\ bucket < LastBucket
  /\ bucket' = bucket + 1
  /\ UNCHANGED <<pc, scheduleVars, items, runVars>>

Goes(k, step) == run' = [run EXCEPT ![k] = step]

\* The scheduler calls, as often and as late as it likes.  A schedule that is paused, or whose uid
\* was never stored, is skipped.
Callback(k) ==
  /\ run[k] = Resting /\ job # "absent"
  /\ schedule.uid /\ schedule.enabled
  /\ Goes(k, [at |-> "gather"])
  /\ UNCHANGED <<pc, scheduleVars, listVars, findings, failed>>

\* The watchlist is read, beside the policy and the agents.
Gather(k) ==
  /\ run[k].at = "gather"
  /\ Goes(k, [at |-> "gathered", todo |-> items])
  /\ UNCHANGED <<pc, scheduleVars, listVars, findings, failed>>

\* When all three are there the bucket is taken, once for the whole run.
TakeBucket(k) ==
  /\ run[k].at = "gathered"
  /\ Goes(k, [at |-> "loop", todo |-> run[k].todo, bucket |-> bucket])
  /\ UNCHANGED <<pc, scheduleVars, listVars, findings, failed>>

\* Mutant: the finding's id does not have the bucket in it.
RecordedEver(i, b) == \E f \in findings : f.item = i

\* The finding's id is made of the schedule, the item and the bucket.
Recorded(i, b) == \E f \in findings : f.item = i /\ f.bucket = b

\* getDiscoveryFindingById: an item with a finding is passed over.
LookAt(k, i) ==
  /\ run[k].at = "loop" /\ i \in run[k].todo
  /\ LET rest == run[k].todo \ {i} IN
     Goes(k, IF Recorded(i, run[k].bucket) THEN [run[k] EXCEPT !.todo = rest]
             ELSE [at |-> "insert", item |-> i, todo |-> rest, bucket |-> run[k].bucket])
  /\ UNCHANGED <<pc, scheduleVars, listVars, findings, failed>>

\* The evidence is fetched, or is not to be had, and the finding is inserted,
\* whatever the policy says of the item.
\* Its id is unique: a second insert rejects, and the callback ends.
Insert(k) ==
  /\ run[k].at = "insert"
  /\ LET r == run[k] IN
     IF Recorded(r.item, r.bucket)
     THEN Goes(k, Resting) /\ UNCHANGED findings
     ELSE /\ findings' = findings \cup {[item |-> r.item, bucket |-> r.bucket]}
          /\ Goes(k, [at |-> "loop", todo |-> r.todo, bucket |-> r.bucket])
  /\ UNCHANGED <<pc, scheduleVars, listVars, failed>>

\* The run is marked and logged.
Finish(k) ==
  /\ run[k].at = "loop" /\ run[k].todo = {}
  /\ Goes(k, Resting)
  /\ UNCHANGED <<pc, scheduleVars, listVars, findings, failed>>

\* A callback that fails is answered 500, with what it has inserted kept, and
\* the scheduler gives it up.  Only a login service that is down is answered 503,
\* before anything is read: the retry is a Callback of its own.
CallbackFails(k) ==
  /\ run[k] # Resting
  /\ failed' = failed \cup {b \in 0..LastBucket : run[k].at \in {"loop", "insert"} /\ run[k].bucket = b}
  /\ Goes(k, Resting)
  /\ UNCHANGED <<pc, scheduleVars, listVars, findings>>

Advance(k) ==
  \/ Gather(k)
  \/ TakeBucket(k)
  \/ \E i \in Items : LookAt(k, i)
  \/ Insert(k)
  \/ Finish(k)

Next ==
  \/ \E c \in Calls :
       \/ Activate(c) \/ CreateJob(c) \/ ResumeJob(c) \/ StoreEnabled(c)
       \/ Pause(c) \/ SuspendJob(c) \/ StorePaused(c)
       \/ Breaks(c)
       \/ ChangeLists(c)
  \/ NextBucket
  \/ \E k \in Callbacks : Callback(k) \/ Advance(k) \/ CallbackFails(k)

=============================================================================
