\* One call whose answer may be lost or may report a resting order.
CONSTANTS
  k1 = k1
  k2 = k2
  r2 = r2
  r3 = r3
  KeyOf <- MCKeyOf
  Notional <- MCNotional
  Cap <- MCWideCap
  Requests = {r1}
  Keys = {k1}
  TradeLimit = 2
  Days = 1
  MaxApprovals = 1
  Sealed = {}
SPECIFICATION Spec
CHECK_DEADLOCK FALSE
INVARIANTS
  OutcomeIsTheVenues
