\* Concurrent calls about one key.
CONSTANTS
  key = key
  c1 = c1
  Requests = {r1, r2}
  Reconcilers = {c1, c2}
  Keys = {key}
  KeyOf <- MCKeyOf
  Target <- MCTarget
  Outcome <- MCOutcome
  Meets <- MCMeets
  Serialised = FALSE
SPECIFICATION Spec
CHECK_DEADLOCK FALSE
INVARIANTS
  OneFillPerKey
