\* Two concurrent requests: the later write wins over a stored revocation.
CONSTANTS
  Callers = {c1, c2}
  Serialised = FALSE
SPECIFICATION Spec
CHECK_DEADLOCK FALSE
PROPERTIES
  RevokedIsTerminal
