\* The owner's records and services, one component in each behaviour: up to four
\* calls that race, each of which may fail.  All calls may end.
CONSTANTS
  First = c1
  Second = c2
  Third = c3
  Fourth = c4
  Calls = {c1, c2, c3, c4}
  Providers = {walletconnect, injected}
  OptionalSubagentLimit = 1
  Items = {i1, i2}
  NoPolicy = NoPolicy
  Callbacks = {k1, k2}
  LastBucket = 1
  Specialists = {technical}
  Children = {1, 2, 3}
  Window = 2
  UserMax = 2
  SensitiveMax = 1
  ExchangeMax = 2
  Capacity = 2
  TokenTicks = 2
  LastTick = 5
SPECIFICATION Spec
CHECK_DEADLOCK FALSE
INVARIANTS
  ServicesTypeOK
  OverrunIsOverlap
  ActiveWasTested
  ScheduleMatchesJob
  OnlyRestartOrphans
  LimitsHold
  SomeoneHears
PROPERTIES
  PromisesKept
  DecisionsLast
  NewsIsHeard
  GatheredItemsFound
  ConnectingEnds
