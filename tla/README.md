# Ledgerline: formal models

TLA+ models of the Ledgerline server: what its handlers do to the tables they
share when several calls are in flight, when one of them fails between two
database calls, and when the owner moves the authority state underneath them.
TLC checks small instances; TLAPS proves the central results for every instance.

The server is an Express/tRPC process over MySQL (Drizzle). Every database call
is awaited and there are no transactions, so a handler that reads, checks and
writes can be interleaved with any other handler at each `await`, and can stop at
each of them. A few statements of the database are conditional by themselves:
the daily risk update, the unique reservation of a live order, the consumption of
an approval, and the review of a binding request. Everything else is
read-check-write. This is what the models are about; the data that flows through
the handlers is abstracted to what the decisions tell apart.

## 1. Inventory

Paths are under `src/`. *State* is what survives a handler.

| Component | State | Operations | What is hard | What makes it correct |
|---|---|---|---|---|
| **Authority state machine** `shared/authorityState.ts`, `server/db.ts`, `server/authorityRouter.ts` | `authorityControls.state`, the `authority_changed` log | `changeAuthorityState`, reads by every sensitive path | read, validate, unconditional upsert, then the log: three awaits | only allowed edges; every rung climbed; revoked is terminal; pause never resumes to live; the log is truthful |
| **Paper executor** `server/paperExecutor.ts`, `shared/paperExecution.ts` | `executionLedger` (append-only), `paperOrders` (projection) | `submitPaperOrder`, `reconcilePaperOrder` | up to nine awaits per order; duplicates looked up long before the first row; failures in between | lifecycle without skips; one fill per key; projection follows ledger; reconciled is final; every call answered |
| **Live order pipeline** `server/liveAdapter.ts`, `server/liveExecutionBoundary.ts`, `server/db.ts` | `liveOrderApprovals`, `liveDailyRiskBuckets`, `liveOrderIntents`, `executionLedger`; the venue's order | `executeLiveOrder`, `recordLiveOrderApproval` | retries, lost answers, crash around the venue call, budget over midnight, approval used twice | one venue call per key, recorded before it is made; approvals single-use; budget kept; the seal touches nothing |
| **Proposal lifecycle** `server/routers.ts`, `server/runtime/executionOrchestrator.ts`, `server/backends/paper.backend.ts` | `agentProposals`, `agentRuns` | `analyzeToken`, `approveProposal`, `rejectProposal`, `settleSimulation` | status checked, then stored unconditionally several awaits later; a whole paper order in between | no order without a stored approval and a passed run; blocked stays blocked; settlements end |
| **Live cancellation and queries** `server/liveAdapter.ts`, `server/liveRouter.ts` | the order at the venue | cancel, balances, orders | authority, mandate and key read an await each before the venue is called | nothing sent under the seal; no call without what permits it |
| **Platform API keys** `server/securityRouter.ts` | `platformApiKeys` | add, test, rotate, disable, delete, limits | a test awaits the venue and then stores its verdict unconditionally | `active` only for material the venue accepted |
| **Agent memory** `server/agentMemoryRouter.ts`, `server/agentMemoryDb.ts`, `shared/agentMemory.ts` | `agentMemoryEntries`, `agentMemoryActions` | create, request promotion, review | concurrent requests and reviews, lost revisions | one verdict per request; a revision per transition; shared stays shared |
| **Binding change requests** `server/routers.ts`, `server/db.ts` | `bindingChangeRequests` | request, review | conditional update, unconditional announcement | decided once; without overlap, announced as decided |
| **Agent nodes and threads** `server/agentFabricDb.ts`, `server/routers.ts`, `server/agentMemoryRouter.ts` | `agentNodes`, `agentMessages`, `agentEvolutionEvents` | create, retire, two ways to send a message | count, then insert; a history read once and answered much later | the capacity of subagents; two answers do not ignore each other |
| **Scheduled discovery** `server/scheduledDiscovery.ts`, `server/routers.ts`, `server/_core/heartbeat.ts` | schedule, findings; the scheduler's job | activate, pause, callback | callbacks during a pause, delivered twice, failing half way; lost answers of the scheduler | schedule and job agree; each item gathered gets its finding of the day, unless a callback fails |
| **Investment policy, mandates** `server/db.ts`, `server/routers.ts`, `shared/ips.ts`, `shared/mandateAuthority.ts` | `investmentPolicies`, `walletMandates` | save, create mandate, set mode | version or authority read, then stored | a version names one policy; a real mandate only under an authority that allows it |
| **Watchlists and simulation runs** `server/db.ts`, `shared/ips.ts` | `watchlistItems` | add, remove, list | the policy is applied to the list afresh each time | what is admitted is what the policy admits |
| **Wallet sessions** `server/walletService.ts` | `walletSessions` | connect, disconnect | revoke, then insert | one active session per provider |
| **Sailor mandates** `server/sailorService.ts` | in-memory maps | create, activate, revoke, request, execute | time passes between request and execution; a restart forgets | revoked executes nothing |
| **Sign-in and roles** `server/_core/oauth.ts`, `server/_core/sdk.ts`, `server/_core/trpc.ts` | `users`, signed tokens | callback, authenticate, two checks for an administrator | the role a call came with grows old | acts as administrator only who is one |
| **Rate limits** `server/security.ts`, `server/_core/trpc.ts`, `server/liveData.ts`, `server/binance.ts` | in-memory counters | take, clean up | boundaries of the window, refill | a bound over every window |
| **MCP connectors** `shared/mcpServer.ts` | in-memory maps; child processes | start, stop, restart, child events, timers | start while running, exit of a child that was replaced, handshake without an answer | only a restart leaves orphans; connecting ends |
| **Strategy lineage** `shared/strategyLineage.ts` | the owner's records | `calculateLineageHealth`, `shouldPromote` | counts and rates at their thresholds | news moves a recommendation the right way |
| **Research gate, backends** `server/research.ts`, `server/backends/` | research runs | analyse, gate, execute | the gate reads the 30 latest runs | a blocked policy never passes |
| **Secrets, storage, external data and language model, configuration, metrics, client, CLI** | — | I/O | — | not modelled |

How they interact: the owner's *authority state* gates the paper executor, the
live pipeline, cancellation, the promotion gate, the paper backend and the modes
of mandates, each of which reads it once and acts on what it read. A *settlement* of a proposal calls the paper
executor with the proposal's id as idempotency key. Both executors append to one
ledger. The scheduler, the venue, the children of a connector and the model behind
an agent call back or answer late.

`PROJECT.json` lists the same components with their status, and the hazards
found in each at the line where they bite, the ones no property covers included.

## 2. Modules

| Module | What it is |
|---|---|
| `AuthorityStates` | the transition table and predicates of `shared/authorityState.ts` as operators |
| `AuthorityMachine` | **abstract**: one state, moved along allowed edges; also the owner's action in the other modules |
| `AuthorityControl` | `changeAuthorityState`, its read, write and log as separate steps of concurrent handlers |
| `PaperBook` | **abstract**: per key, none → proposed → filled → reconciled |
| `PaperOrders` | the paper executor over ledger and projection |
| `LiveIntent` | **abstract**: per key, reserved once, submitted, one venue call, one outcome |
| `LiveOrders` | the live pipeline over approvals, budget, reservation, ledger and venue |
| `ProposalLifecycle` | **abstract**: blocked stays blocked, no return to review, settled only if granted |
| `Proposals` | the proposal queue, composed with `PaperOrders`: a settlement's execution *is* that module's steps |
| `RacingCalls` | what the modules below share: calls made at most once, their `pc`, `Fail` |
| `AgentMemory` | one memory entry, its revision and its action log |
| `PlatformKeys` | one key's row, its material and the venue's late verdict |
| `BindingRequests` | one request, its conditional review and what is announced |
| `WalletSessions`, `AgentNodes` | an owner's sessions; the protected team and the optional subagents |
| `OwnerSettings` | mandate modes and policy versions under a moving authority |
| `LiveAccount` | cancellation, balances and open orders, sealed and not |
| `SailorMandates` | a mandate, its expiry and the transactions requested under it |
| `Discovery` | schedule, scheduler job and callbacks, over the items and the findings of the day |
| `Watchlist` | items and what the policy makes of them |
| `Threads` | one thread of messages, written from two routers |
| `SignIn` | a person's account, tokens, and the two ways to ask for an administrator |
| `StrategyLineage` | an owner's records and what the two functions recommend of them |
| `Connectors` | `McpServerManager`, the children of one server and the timers of their handshake |
| `RateLimits` | two fixed windows, a list of timestamps and a token bucket over one clock |
| `OwnerPromises` | **abstract**: the moves each row promises, and those that hold even when calls overlap |
| `MCOwnerServices` | the composition of the modules from `AgentMemory` to `RateLimits` |
| `MC…` | the definitions TLC's instances need |
| `AuthorityControlProofs`, `PaperOrdersProofs`, `LiveOrdersProofs`, `ProposalsProofs` | the theorems about the module they are named after |
| `FiniteSums` | facts about sums over finite sets, for budgets and rate limits |
| `ServicesProofs` | `Connectors`, `Threads` and `StrategyLineage`, each by itself |
| `RateLimitsProofs` | what each limiter's store tells of all it has let through |
| `OwnerServicesProofs` | the theorems about `MCOwnerServices` |

### Correspondence with the code

A handler is a process: its `pc` names the awaited call it is about to make, and
one action is what happens from one `await` to the next. Reads whose result is
used later are kept in a variable (`from`, `seen`, `picked`); those used at once
are folded into the step that uses them. Where two tables are read one after the
other and the second cannot change in a way that matters in between, the two
reads are one step: in `Proposals!Gate` the run's row never changes once it is
written, and in `PaperOrders!LookUp` the ticker is an input.

`Fail` (`Abandon` in `AuthorityControl`) covers both an exception from the
database, which none of the executors catches, and a stop of the server: in
either case the handler goes no further and nothing is undone. A handler's retry
is another call with the same key. In `Proposals` the paper backend does catch:
`Throw` turns a failure of the executor into a rejected result.

What the decisions depend on, but no property tells apart, is an input from a
small set: mandate, coverage, age of prices, ticker, caps (`Facts`), whether a
run is among the 30 latest, whether a key is usable. The venue decides an order's
fate and may lose its answer (`LiveOrders!Send`). `deriveOrderId` is taken to be
injective (a hazard says so), and an order's hash to be determined by its key.
Each model has one owner; rows of different owners are never touched together.
Inserts into the activity log are left out, except where a property is about
them (`AuthorityControl`).

`LiveOrders` has a constant `Sealed`, the calls served by a build with
`LIVE_VENUE_MUTATIONS_SEALED`. The released server is such a build, and for its
calls nothing happens at all (`SealHolds`, proved as `SealNeverBroken`). The other calls
are the same code without the seal, as the repository's tests run it and as a
later release would, over the same tables; the pipeline's other properties are
about them.

`Proposals` models the paper orders of settlements only; the owner's own paper
orders are in `PaperOrders`. A proposal's order has no limit price and its venue
is `evm`, so no reference price reaches the executor (`Unpriced`), and it never
fills. This is why `SimulatedOnlyByRetry` holds.

`MCOwnerServices` puts the owner's records side by side. They share no row and no
timer, so the steps of one commute with those of another, and a behaviour is
about one of them, chosen at the start (`about`). Its variable `peak` is the most
calls that have been in flight at once: the promises of `OwnerPromises` are those
a handler keeps as long as `peak` is one, and the properties that mention `peak`
say how far racing calls get beyond them. Mandates and cancellation take
`AuthorityMachine` for the owner, who may move the state at every await.

In these modules a few things are folded together or left out. A store and the read of the
row it stored are one step, and so is a delegated agent's note with its event in
`Threads`. The scheduler, the venue, a child process and a change of a role by
hand are external actions, modelled from what the code does with their answers. A
key's material, a memory's text and a policy's values are named by the call that
brought them. Connectors and Sailor mandates live in memory: their handlers are
modelled from one event of the process to the next, and a restart of the server
empties the maps. `StrategyLineage` is about functions no handler calls yet, over
the records an owner can add. `RateLimits` measures time in ticks; the limiters'
maxima are constants.

## 3. Runs

All instances are chosen so that every race needs no more actors than they have:
two handlers over one row show every lost update and every duplicate, a third
appears where a property adds up over calls. Every action of every module fires in
some passing run.

| Run | Instance | Question and answer |
|---|---|---|
| `authority_concurrent` | 2 requests, unlimited repetition, any may be abandoned | Can races skip a rung or make the log a fiction? No: `LadderClimbed`, `AuditTruthful`. |
| `authority_serial` | one request at a time | Does the handler implement `AuthorityMachine` and keep revoked terminal? Yes. |
| `authority_revoked_race` | 2 requests | **Violation** of `RevokedIsTerminal`: a request validated before a revocation overwrites it. |
| `paper_concurrent` | 2 submissions of a key, 2 disagreeing reconciliations, interleaved, failing | Can the ledger skip a stage, the projection run ahead, a rejected order fill? No. |
| `paper_serial` | the same, one call at a time, fair | One fill per key, settled projection, final reconciliation, `PaperBook` implemented, calls end. |
| `paper_double_fill` | concurrent | **Violation** of `OneFillPerKey`: both submissions find no row. |
| `live_concurrent` | 2 calls of a key, a sealed one, 2 approvals, failures, fair | One venue call, recorded first, one story per key, approvals used once, a fill was accepted, `LiveIntent` implemented, calls end. |
| `live_budget` | 3 calls, 2 keys, caps 3 and 2, values 2, 3 and 1, 2 days | Does a day stay within its budget? Yes. |
| `live_outcome` | 1 call | **Violation** of `OutcomeIsTheVenues`: a lost answer is recorded as a rejection of an accepted order; a resting order as a fill. |
| `proposals_concurrent` | 1 proposal, an approval, a rejection, 2 settlements, fair | Orders need a stored approval and a passed run, `ProposalLifecycle` implemented, settlements end. |
| `proposals_replay` | an approval, 2 settlements | **Violation** of `ApprovalUsedOnce`: both settlements put an order on the ledger. |
| `owner_services` | one component per behaviour, up to 4 calls, failures | What do the owner's records and services promise, and what is left of it when calls overlap? See below. |

`owner_services` checks, for whichever component the behaviour is about:

| Property | What it says |
|---|---|
| `PromisesKept` | while no two calls have overlapped, every store, also of a call that then fails, is a move of `OwnerPromises` |
| `DecisionsLast` | however calls overlap: a request is decided once, a shared memory stays shared, a revoked Sailor mandate executes nothing, who is asked again for the role is an administrator |
| `OverrunIsOverlap` | active sessions and optional subagents exceed their limit by no more than the calls that overlapped |
| `ActiveWasTested` | an active key has passed a test, and without overlap the test was of its present material |
| `ScheduleMatchesJob` | without overlap and failure, schedule and scheduler agree about the job |
| `GatheredItemsFound` | an item that stays watched gets a finding of each bucket a callback has begun, although callbacks run side by side and end at each other's findings: all unless one of that bucket fails for another reason |
| `OnlyRestartOrphans` | a child that runs unregistered comes from a start over a running server |
| `ConnectingEnds` | a server does not stay connecting |
| `LimitsHold` | over any window: twice the maximum for the fixed windows, the maximum for the timestamps, capacity and refill for the bucket |
| `SomeoneHears` | of two answered questions one was answered with the other in its history |
| `NewsIsHeard` | a good record never lowers what is recommended for its lineage nor the stage it is in next, a bad one never raises it |
| `ServicesTypeOK` | the types |

Its bounds: four calls (two for schedules and threads, three for people and the
account), numbered in the order in which they are made, so that no two behaviours
differ only in names; two of the calls can race over a row while a third changes
what they have read and a fourth meets the result. One optional subagent is
allowed and two providers exist, so that four calls can exceed both limits. Two
items, two callbacks and one change of the day (`LastBucket` = 1) are enough for
callbacks to pass each other and for a day to end under them; any number of
callbacks may come, and any of them fail half way.
Three children: one running, one replacing it, one after that. Windows are two
ticks and the clock ends at five (`LastTick`), so each window is left and entered
again; the maxima are one and two. About 250,000 states.

Bounds. Each call of `PaperOrders`, `LiveOrders` and `Proposals` is made at most
once, so the number of calls bounds the behaviours; `AuthorityControl` is finite
by itself. `MaxApprovals` and `Days` cap the only counters of those modules. The initial
authority is any state, so one call sees every authority and every move during
it. The theorems of section 5 lift the safety results of the concurrent runs to
any number of calls, keys, approvals and days. Deadlock is not checked: each
model may come to rest when all calls have ended.

`live_budget` runs without approvals, so that only `limited-live` places orders:
approvals do not touch the budget, and `live_concurrent` has them.

Every property of a passing run comes with a mutant, a change of the code's
model by a plausible bug (a dropped guard, a forgotten save, a swapped order),
kept beside the definition it changes and marked *Mutant*.

## 4. Fairness

Weak fairness on the steps of a handler in flight, and in `owner_services` on the
timers of connectors, below. Node resumes a
handler when the call it awaits has returned, and every awaited call returns or
throws: the database driver's calls do, and the venue's client has a timeout
(`AbortSignal.timeout`, `server/binance.ts:166`). No call has to be made, no
call has to fail, and the owner never has to act. `CallsEnd` and `SettlementsEnd`
are stated under exactly this. A sealed call is exempt because it ends in its
first step.

Of the scheduler nothing is assumed: the job is due once in a bucket, and the
handler's own comment (`server/scheduledDiscovery.ts:20-21`) says that it gives a
callback up that is answered 500. So `GatheredItemsFound` is about the buckets that
a callback has begun, and the fairness is on that callback's own steps, not on its
success: one that meets another's finding ends there, as in the code. A bucket of
which a callback has failed otherwise is exempt, because nothing makes up for it.
A callback that comes late, twice, or again because the login service was down
(503, before anything is read) is a `Callback` like any other. `ConnectingEnds` needs a timer to fire when its time has come, which Node does; the child need not
answer, exit, or do anything at all.

## 5. Theorems

Proved by TLAPS for every value of the constants, from the named assumptions of
each module only. They say that the constants have their types
(`PaperAssumption`, `MeetsAssumption`, `LiveAssumption`, `ProposalAssumption`,
`DiscoveryAssumption`, `SerialisedAssumption`), that the kinds of calls are
disjoint (`PaperAssumption`, `ProposalAssumption`), that the calls of the owner's
services are finitely many (`CallsAssumption`), and that limits, windows and
capacities are positive, the maximum of sensitive paths no larger than the owner's
(`LimitAssumption`, `RateAssumption`; `server/_core/trpc.ts:62` has 12 and
`server/security.ts:33` has 60). TLC evaluates them in every run. All
safety properties and refinements the passing runs check are proved.

**`AuthorityControlProofs`**: `TypeCorrect`; `LadderAlwaysClimbed`;
`AuditAlwaysTruthful`; `SerialImplementsMachine`; `SerialRevokedIsTerminal`. A
handler in flight has read a state that was really stored, and its edge was
allowed from there. That is the strengthening: it survives any overwriting by
others, because `visited` only grows. Under `Serialised` what a handler has read
is also what the row still holds when it writes, which makes its write an edge of
the abstract machine; that no edge leaves *revoked* then settles
`RevokedIsTerminal`.

**`PaperOrdersProofs`**: `TypeCorrect`; `StagesNeverSkipped`;
`ProjectionAlwaysBacked`; `RejectedStaysUnfilled`. None of them is inductive
alone. The inductive invariant adds what each place of a handler means for the
ledger (who is about to append *filled* has its *submitted* there, who is about
to save a row has its event there), and that rejected and executed events lie
under different kinds of order ids, because a refused submission never
leaves `refused`. With `Serialised`: `SerialOneFillPerKey`,
`SerialReconciledIsFinal`, `SerialImplementsBook`, `SerialSettledProjection`,
whatever fails. `SerialInv` adds that at most one call is in flight, what its
place says of the row (none before it is proposed, *proposed* up to the fill,
*filled* while it is reconciled), and that a key with a fill has a row: this is
what the lookup of a later submission meets.

**`LiveOrdersProofs`**: `TypeCorrect`; `OneVenueCall`; `RecordComesFirst`;
`OneStory`; `OrdersApproved`; `IntentImplemented`; `FillsAccepted`; `BudgetHeld`;
`SealNeverBroken`. `Core` says that at most one call per key is at or beyond its
reservation, and relates its place to the reservation's status and to the events
it has written; from it follow the venue properties and the refinement.
`ApprovalsKept` says that a call past its approval owns a row, and that no step
of another call takes it away: this is where `Consume`'s condition is used.
`FillsKept` adds that who is about to record a fill has an accepted order, and
`Core` that nobody sends for its key again. `BudgetKept` says that a day's bucket
is the sum and the number of the calls that have reserved on it, and that the last
of them found the whole within its cap; a sum over finitely many calls is taken
apart by the lemmas of `FiniteSums`. `Halted` follows a sealed call.

**`ProposalsProofs`**: `TypeCorrect`; `OrdersApproved`; `LifecycleImplemented`;
`SimulatedByRetry`. The invariant ties a settlement under way, and any event of
the paper executor, to a stored approval of the proposal, and a stored or pending
approval to a policy and a run that passed. The step of the paper executor is
treated once, as what it can do to the ledger, and not action by action.
`RetryInv` follows an order without a price: it is refused, or meets the row of
another settlement, which has proposed it; only the second becomes *simulated*.

**`FiniteSums`** proves what is needed of the community modules'
`SumFunctionOnSet`: that it is a natural number, that it splits over disjoint
sets, agrees where the functions agree, and counts members. The sum is a
recursive function on sets, and an induction over it is out of the provers'
reach. Instead a smallest set that contradicts the fact is picked from a finite
set of subsets.

**`ServicesProofs`** is about three components by themselves.
Connectors (`OrphansOfRestarts`), for any number of children: whenever a running
child is not the registered one, another child has been started, because every
action that takes the registered child out of the map ends it or is about one
that has gone. Threads (`OneKnowsTheOther`), for any number of calls and
specialists: a question is on the thread before its history is read, so of two
calls the one that reads later reads the other's question. Lineages
(`NewsHeard`), of any length: the rank of a recommendation and the credit of a
stage are shown to be decided by a few counts, and the counts to move one way with
each kind of news. `OwnerServicesProofs` carries the three over to the composition
(`OnlyRestartsOrphan`, `SomeoneAlwaysHears`, `NewsAlwaysHeard`).

**`RateLimitsProofs`**, for any clock, window, maxima and capacity. A limiter
keeps less than the property is about: a count and a start, some timestamps, or a
level. The invariants say what these tell of everything that has passed: a
window's count is what passed since its start, and in no window before it did more
than the maximum pass (`FixedWindow`); every passage of the last window has its
stamp (`Stamped`); and what passed since any tick, with what is left in the
bucket, is at most the bucket and the refill since (`Metered`).

**`OwnerServicesProofs`**, for any number of calls, providers, items, callbacks
and children:

- `ServicesTyped` and `LimitsKept`: `ServicesHeld` has the types of each component
  and what they rest on.
- `OverrunBounded`: who is about to insert has found room, and is in flight.
  `OverrunHeld` counts the rows together with the calls about to insert one. A
  step that adds to them has just revoked every active session, or has found room
  beside the subagents there are; what it leaves beyond those is in flight at
  once, so within `peak`.
- `ActiveKeysTested`: `KeysTested` adds the test whose verdict is on its way to
  the row. Without overlap it is of the row's material.
- `DecisionsLasting`: step by step, whatever overlaps; only the conditional update
  of a request, the check of a Sailor mandate before it executes, the statuses of a
  shared memory and the second reading of the role are used.
- `PromisesHold`: while no two calls have overlapped, every store is a move of its
  row. A call that takes a step is then the only one in flight (`OneAtATime`), so
  what it has read is what the row still holds: `MemoryCurrent`,
  `SettingsCurrent`, `AccountCurrent`, `ListsCurrent` and `PeopleCurrent` say what
  each has read and checked, and `SerialHeld` puts them together.
- `ScheduleMatches`: `JobHeld` says how far each place of an activation or a pause
  has brought the schedule and the job apart.

Only model-checked: liveness (`CallsEnd`, `SettlementsEnd`, `GatheredItemsFound`,
`ConnectingEnds`), which needs `ENABLED` and is out of the prover's reach; and
the four violations, which are counterexamples.

## 6. What the models found

The four violations of section 3 are listed as findings in `PROJECT.json`, each
with the sentence of the repository it contradicts. Others are recorded as
hazards, or only here:

- a retry of a paper order whose first call failed is answered as a duplicate of
  an order nothing will ever finish;
- an order decided before a pause is filled after it; a live order that has
  passed its gates is sent after it;
- approvals and budget taken by a call that then fails are not given back, and
  a reservation whose call failed before the venue is never released;
- two concurrent reconciliations append two verdicts;
- an approval can overwrite a rejection, and a late rejection a settled proposal;
- a proposal becomes `simulated` only if it is settled twice: its first order is
  always rejected for want of a price, and the second meets the first;
- `executeCexOrder` passes no idempotency key, so it is always refused;
- `recordLiveOrderApproval` has no caller among the routers.

- an activation whose answer from the scheduler is lost leaves a job the schedule
  does not know, and every later activation conflicts with its name;
- a discovery run that has started inserts findings after a pause, where
  `server/routers.ts:364` promises that none is created until reactivation;
- a callback of discovery that fails half way is answered 500 and not retried, so
  the items it has not come to get no finding of that bucket; an item added between
  two callbacks of one bucket is lost too when the first ends the second, which is
  why `GatheredItemsFound` is about items that stay on the watchlist;
- a test that overlaps a rotation stores `active` for material nobody tested, and
  a failure of the alert behind a successful test disables the key;
- a promotion request that read the entry before it was shared stores
  `pending_promotion` on the shared entry, which no review accepts any more;
- two saves of the policy store one version; of two reviews of a binding request
  the one that lost is announced as well;
- a revoked Sailor mandate's answer says its pending transactions are cancelled;
  they stay pending, and cannot be executed;
- the "sliding window" of `server/security.ts:8` and `server/_core/trpc.ts:32` is
  a fixed one: twice the maximum passes around its boundary;
- the callback issues a token in an empty name for a person without one, and no
  call with that token is authenticated, because the check asks for a name;
- starting a connector that runs leaves its first child without anyone to end it.

## 7. Plan

Done, the most important behaviour first: `AuthorityControl`, `PaperOrders`,
`LiveOrders`, `Proposals` with their abstract specifications; then the owner's
records and services, composed in `MCOwnerServices`; then the proofs of every
safety property and refinement the passing runs check.

Worth doing next:

1. The serial properties of `PaperOrders` with `Serialised` per key instead of
   over all calls: rows of different keys do not meet.
2. In `Proposals`, how often one proposal's order reaches the ledger: after the
   first, only by settlements that overlapped or failed, in the manner of
   `OverrunIsOverlap`.
3. Promises of calls that overlap but are about different rows, once a module has
   more than one row of a kind.

### Not modelled

About half of the implementation's lines are the web client (`client/`), and much
of the rest is calls to language, speech, image, map, storage and data services,
the text they exchange, the table definitions, and the import and export of
documents. They keep no state the modelled handlers decide on: where a result of
theirs decides something, it is an input of a model from a small set. The
encryption of keys, the metrics and the loading of the configuration are the same
kind. The partly modelled components lack what their notes in `PROJECT.json`
name: fields nothing decides on, single inserts nothing reads to decide, and
composition of text. The lines that remain hold no interleaving, no failure
between two steps and no bound that a model could say something about.
