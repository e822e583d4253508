\* Two calls of one key and two approvals, and a call of the key that a sealed
\* build serves, in any interleaving, any of which may fail.  Each call is made once, so all may end.
CONSTANTS
  k1 = k1
  k2 = k2
  r2 = r2
  r3 = r3
  KeyOf <- MCKeyOf
  Notional <- MCNotional
  Cap <- MCWideCap
  Requests = {r1, r2, sealed}
  Keys = {k1}
  TradeLimit = 2
  Days = 1
  MaxApprovals = 2
  Sealed = {sealed}
SPECIFICATION FairSpec
CHECK_DEADLOCK FALSE
INVARIANTS
  TypeOK
  AtMostOneVenueCall
  SubmissionRecordedFirst
  OneStoryPerKey
  EveryOrderApproved
  FillsWereAccepted
PROPERTIES
  ImplementsIntent
  CallsEnd
