\* Two requests in flight, in any interleaving, each of which may be abandoned.
\* A revoked authority accepts no request, so the handlers may all stop.
CONSTANTS
  Callers = {c1, c2}
  Serialised = FALSE
SPECIFICATION Spec
SYMMETRY CallerSymmetry
CHECK_DEADLOCK FALSE
INVARIANTS
  TypeOK
  LadderClimbed
  AuditTruthful
