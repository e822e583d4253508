\* Two submissions of one key and two reconciliations of its order, in any
\* interleaving, any of which may fail.  Each call is made once, so all may end.
CONSTANTS
  key = key
  c1 = c1
  Requests = {r1, r2}
  Reconcilers = {c1, c2}
  Keys = {key}
  KeyOf <- MCKeyOf
  Target <- MCTarget
  Outcome <- MCOutcome
  Meets <- MCMeets
  Serialised = FALSE
SPECIFICATION Spec
CHECK_DEADLOCK FALSE
INVARIANTS
  TypeOK
  NoStageSkipped
  ProjectionBackedByLedger
  RejectedNeverFills
