\* Two settlements of one approved proposal.
CONSTANTS
  proposal = proposal
  ProposalIds = {proposal}
  Approvals = {a1}
  Rejections = {}
  Settlements = {s1, s2}
  Subject <- MCSubject
SPECIFICATION Spec
CHECK_DEADLOCK FALSE
INVARIANTS
  ApprovalUsedOnce
