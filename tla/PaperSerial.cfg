\* Two submissions of one key and two reconciliations of its order, one call
\* at a time, any of which may fail.  Each call is made once, so all may end.
CONSTANTS
  key = key
  c1 = c1
  Requests = {r1, r2}
  Reconcilers = {c1, c2}
  Keys = {key}
  KeyOf <- MCKeyOf
  Target <- MCTarget
  Outcome <- MCOutcome
  Meets <- MCMeets
  Serialised = TRUE
SPECIFICATION FairSpec
CHECK_DEADLOCK FALSE
INVARIANTS
  OneFillPerKey
  SettledProjection
PROPERTIES
  ReconciledIsFinal
  ImplementsBook
  CallsEnd
