\* Two calls of one key and one of another compete for the budget of two days.
\* Without approvals only limited-live places orders.
CONSTANTS
  k1 = k1
  k2 = k2
  r2 = r2
  r3 = r3
  KeyOf <- MCKeyOf
  Notional <- MCNotional
  Cap <- MCCap
  Requests = {r1, r2, r3}
  Keys = {k1, k2}
  TradeLimit = 2
  Days = 2
  MaxApprovals = 0
  Sealed = {}
SPECIFICATION Spec
CHECK_DEADLOCK FALSE
INVARIANTS
  DayWithinBudget
