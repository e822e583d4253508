-------------------------- MODULE MCOwnerServices ---------------------------
(***************************************************************************)
(* The owner's records and the services around them.  The components share *)
(* no row and no timer, so steps of one commute with steps of another: in  *)
(* each behaviour everything is about one component, chosen at the start.  *)
(* The calls are numbered in the order in which they are made.  Three      *)
(* components, whose properties are stated in their own modules, are       *)
(* extended; the others are instances.                                     *)
(***************************************************************************)
EXTENDS Connectors, Threads, StrategyLineage, AuthorityStates, Sequences, FiniteSets

CONSTANTS
  First, Second, Third, Fourth,  \* the calls, in the order in which they are made
  Providers, OptionalSubagentLimit, Items, NoPolicy, Callbacks, LastBucket,
  Window, UserMax, SensitiveMax, ExchangeMax, Capacity, TokenTicks, LastTick

ASSUME LimitAssumption == OptionalSubagentLimit \in Nat \ {0}

ASSUME CallsAssumption == IsFiniteSet(Calls)

ASSUME DiscoveryAssumption == LastBucket \in Nat

\* Every limiter lets something through, a sensitive path no more than the owner.
ASSUME RateAssumption ==
  /\ Window \in Nat \ {0} /\ LastTick \in Nat
  /\ UserMax \in Nat \ {0} /\ SensitiveMax \in 1..UserMax
  /\ ExchangeMax \in Nat \ {0}
  /\ Capacity \in Nat \ {0} /\ TokenTicks \in Nat \ {0}

VARIABLES
  about,  \* the component
  peak,   \* the most calls that have been in flight at once
  entry, actions, key, verified, request, announced, sessions, team, optional,
  mandate, policy, authority, usable, order, answers, sailor, due, transactions,
  schedule, job, items, bucket, run, findings, failed, spoilt,
  watched, universe, owner, account, issued, acted,
  limiter, now, windows, tokenBucket, stamps, passed

Memory    == INSTANCE AgentMemory
Keys      == INSTANCE PlatformKeys
Bindings  == INSTANCE BindingRequests
Sessions  == INSTANCE WalletSessions
Nodes     == INSTANCE AgentNodes
Settings  == INSTANCE OwnerSettings
Account   == INSTANCE LiveAccount
Sailors   == INSTANCE SailorMandates
Schedules == INSTANCE Discovery
Lists     == INSTANCE Watchlist
People    == INSTANCE SignIn
Limits    == INSTANCE RateLimits
Promises  == INSTANCE OwnerPromises

memoryVars    == <<entry, actions>>
keyVars       == <<key, verified>>
bindingVars   == <<request, announced>>
nodeVars      == <<team, optional>>
ownerVars     == <<mandate, authority>>
accountVars   == <<usable, order, answers>>
sailorVars    == <<sailor, due, transactions>>
scheduleVars  == <<schedule, job, items, bucket, run, findings, failed, spoilt>>
listVars      == <<watched, universe>>
threadRows    == <<messages, heard, events>>
personVars    == <<owner, account, issued, acted>>
limitVars     == <<limiter, now, windows, tokenBucket, stamps, passed>>

rows == <<memoryVars, keyVars, bindingVars, sessions, nodeVars, ownerVars, policy, sealed,
          accountVars, sailorVars, scheduleVars, listVars, threadRows, personVars, record>>

vars == <<about, peak, pc, rows, connectorVars, limitVars>>

Sealable == {"account", "sailors", "connectors"}

Components == {"memory", "keys", "bindings", "sessions", "nodes", "settings", "schedules",
               "lists", "threads", "people", "lineages", "limits"} \cup Sealable

\* What a component may start with, while it is not the one that is watched.
Only(component, starts, fixed) == IF about = component THEN starts ELSE {fixed}

Init ==
  /\ about \in Components
  /\ peak = 0
  /\ pc = Waiting
  /\ Memory!Init /\ Keys!Init /\ Bindings!Init /\ Sessions!Init /\ Nodes!Init
  /\ Lists!Init /\ ThreadInit /\ LineageInit /\ Schedules!Init
  /\ IF about = "account"
     THEN Account!Init /\ policy = [version |-> 1, values |-> First]
     ELSE /\ Settings!Init /\ authority \in Only("settings", AuthorityState, "disabled")
          /\ usable = TRUE /\ order = "open" /\ answers = {}
  /\ Sailors!Init /\ sealed \in (IF about \in Sealable THEN BOOLEAN ELSE {TRUE})
  /\ People!Init /\ owner \in Only("people", BOOLEAN, TRUE)
  /\ issued \in Only("people", {{}, {TRUE}}, {})
  /\ ServerInit /\ transport \in Only("connectors", {"stdio", "http"}, "stdio")
  /\ Limits!Init /\ limiter \in Only("limits", Limits!Limiters, "reads")

Steps ==
  \/ about = "memory" /\ Memory!Next
  \/ about = "keys" /\ Keys!Next
  \/ about = "bindings" /\ Bindings!Next
  \/ about = "sessions" /\ Sessions!Next
  \/ about = "nodes" /\ Nodes!Next
  \/ about = "settings" /\ Settings!Next
  \/ about = "account" /\ Account!Next
  \/ about = "sailors" /\ Sailors!Next
  \/ about = "schedules" /\ Schedules!Next
  \/ about = "lists" /\ Lists!Next
  \/ about = "threads" /\ ThreadNext
  \/ about = "people" /\ People!Next
  \/ about = "lineages" /\ LineageNext
  \/ about = "connectors" /\ ServerNext
  \/ about = "limits" /\ Limits!Next

Untouched(components, variables) ==
  IF about \in components THEN TRUE ELSE UNCHANGED variables

\* The calls in flight before, during or after the step.
InFlight == Cardinality({c \in Calls : c \in Busy \/ pc'[c] # pc[c]})

Turns == <<First, Second, Third, Fourth>>

\* Bound: the calls about a component.
CallsAbout ==
  CASE about \in {"schedules", "threads"} -> 2
    [] about \in {"people", "account"}    -> 3
    [] OTHER                              -> 4

\* What a step of the one component leaves alone, and the numbering of the calls.
Frame ==
  /\ UNCHANGED <<about, sealed>>
  /\ Untouched({"memory"}, memoryVars)
  /\ Untouched({"keys"}, keyVars)
  /\ Untouched({"bindings"}, bindingVars)
  /\ Untouched({"sessions"}, sessions)
  /\ Untouched({"nodes"}, nodeVars)
  /\ Untouched({"settings"}, policy)
  /\ Untouched({"settings", "account"}, ownerVars)
  /\ Untouched({"account"}, accountVars)
  /\ Untouched({"sailors"}, sailorVars)
  /\ Untouched({"schedules"}, scheduleVars)
  /\ Untouched({"lists"}, listVars)
  /\ Untouched({"threads"}, threadRows)
  /\ Untouched({"people"}, personVars)
  /\ Untouched({"lineages"}, record)
  /\ Untouched({"connectors"}, connectorVars)
  /\ Untouched({"limits"}, limitVars)
  /\ Untouched(Components \ {"connectors", "limits"}, pc)
  /\ \A i \in 1..Len(Turns) :
       pc'[Turns[i]] # Idle =>
         /\ i <= CallsAbout
         /\ \A j \in 1..i : pc'[Turns[j]] # Idle
  /\ peak' = IF InFlight > peak THEN InFlight ELSE peak

Next == Steps /\ Frame

\* The server goes on with a callback it has begun, and a timer fires when its
\* time has come.  That the scheduler calls, or calls again, is not assumed.
Fairness ==
  /\ \A k \in Callbacks : WF_run(about = "schedules" /\ Schedules!Advance(k))
  /\ \A k \in Children : WF_starting(about = "connectors" /\ TimerFires(k))

Spec == Init /\ [][Next]_vars /\ Fairness

-----------------------------------------------------------------------------

\* Every row of the component, and what its calls hold, is of its type.
ServicesTypeOK ==
  CASE about = "memory"     -> Memory!TypeOK
    [] about = "keys"       -> Keys!TypeOK
    [] about = "bindings"   -> Bindings!TypeOK
    [] about = "sessions"   -> Sessions!TypeOK
    [] about = "nodes"      -> Nodes!TypeOK
    [] about = "settings"   -> Settings!TypeOK
    [] about = "account"    -> Account!TypeOK
    [] about = "sailors"    -> Sailors!TypeOK
    [] about = "schedules"  -> Schedules!TypeOK
    [] about = "lists"      -> Lists!TypeOK
    [] about = "threads"    -> ThreadTypeOK
    [] about = "people"     -> People!TypeOK
    [] about = "lineages"   -> LineageTypeOK
    [] about = "connectors" -> ServerTypeOK
    [] about = "limits"     -> Limits!TypeOK

\* While no two calls have overlapped, every store of every handler, those of
\* calls that failed half way included, is a move its row promises.
PromisesKept == [][peak' > 1 \/ Promises!Next]_rows

\* However the calls overlap: a binding request is decided once, a memory that
\* is shared stays shared, a revoked Sailor mandate executes nothing, and a
\* procedure that reads the role again acts for an administrator.
DecisionsLast == [][Promises!Lasting]_rows

\* Each limit is exceeded by no more than the calls that overlapped: sessions of
\* a provider, and optional subagents beyond their capacity.
OverrunIsOverlap ==
  /\ \A p \in Providers : Cardinality(Sessions!Active(p)) <= peak
  /\ Cardinality(optional) + 1 <= OptionalSubagentLimit + (IF peak = 0 THEN 1 ELSE peak)

\* A key that no test raced with is active only for material the venue accepted,
\* and never without any test that passed.
ActiveWasTested ==
  key.state = "active" => /\ verified # {}
                          /\ peak > 1 \/ key.material \in verified

\* While nothing has failed and no two calls have overlapped, the schedule says
\* of the scheduler's job what is so, and an activation never meets a job whose
\* uid the schedule has lost.
ScheduleMatchesJob ==
  about = "schedules" /\ peak <= 1 /\ ~spoilt =>
    /\ Busy = {} => /\ schedule.enabled <=> job = "on"
                    /\ schedule.uid <=> job # "absent"
    /\ \A c \in Calls : Schedules!At(c, "create") => job = "absent"

\* A callback is at work on the bucket, or has inserted something of it.
Begun(b) ==
  \/ \E k \in Callbacks : run[k].at \in {"loop", "insert"} /\ run[k].bucket = b
  \/ \E f \in findings : f.bucket = b

\* An item that stays on the watchlist ends up with a finding of each bucket that
\* a callback has begun, although of callbacks side by side one ends at the
\* other's finding, and the next bucket or a pause may come meanwhile: all unless
\* a callback of that bucket fails for another reason.
GatheredItemsFound ==
  \A i \in Items :
    [](i \in items) =>
      <>[](\A b \in 0..LastBucket :
             Begun(b) => b \in failed \/ \E f \in findings : f.item = i /\ f.bucket = b)

\* A server does not connect for ever: each request is answered or timed out.
ConnectingEnds == status = "connecting" ~> status # "connecting"

\* In any window and a tick, a limiter with fixed windows lets at most twice its
\* maximum through, the one with timestamps its maximum, and the token bucket
\* its capacity and what was refilled meanwhile.
LimitsHold ==
  about = "limits" => \A s, t \in 0..LastTick :
    /\ s <= t /\ t - s <= Window =>
         /\ Limits!Between("user", s, t) <= 2 * UserMax
         /\ Limits!Between("sensitive", s, t) <= 2 * SensitiveMax
         /\ Limits!Between("exchange", s, t) <= ExchangeMax
    /\ s <= t =>
         TokenTicks * Limits!Between("reads", s, t) <= TokenTicks * Capacity + (t - s)

=============================================================================
