\* One proposal: an approval, a rejection and two settlements of it, in any
\* interleaving, any of which may fail.  Each call is made once, so all may end.
CONSTANTS
  proposal = proposal
  ProposalIds = {proposal}
  Approvals = {a1}
  Rejections = {x1}
  Settlements = {s1, s2}
  Subject <- MCSubject
SPECIFICATION FairSpec
CHECK_DEADLOCK FALSE
INVARIANTS
  TypeOK
  OrdersAreApproved
  SimulatedOnlyByRetry
PROPERTIES
  ImplementsLifecycle
  SettlementsEnd
