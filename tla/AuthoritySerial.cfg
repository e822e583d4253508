\* One request at a time, each of which may be abandoned at either write.
\* A revoked authority accepts no request, so the handlers may all stop.
CONSTANTS
  Callers = {c1, c2}
  Serialised = TRUE
SPECIFICATION Spec
CHECK_DEADLOCK FALSE
PROPERTIES
  RevokedIsTerminal
  ImplementsMachine
