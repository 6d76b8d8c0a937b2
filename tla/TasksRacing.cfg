SPECIFICATION Spec
CONSTANTS
  Roles <- MCRoles
  Limit <- MCLimit
  Reads <- MCReads
  Owns <- MCOwns
  NoEngine = "none"
  OversightOnly = {"quality"}
  AutonomyConfidence = 75
  MustBeReviewedBy <- NoReviewers
  CanReview <- NoReviewers
  UniversalApprovers = {}
  Threads = {t1, t2}
  Tasks = {"hold", "go"}
  Task <- MCTask
  Approvers <- MCApprovers
  NoApprover = NoApprover
  MaxCalls = 4
  MaxCuts = 1
CHECK_DEADLOCK FALSE
SYMMETRY Symmetry
INVARIANTS TypeOK ClearedToRun LeftInOrder
PROPERTIES LegalUnlessContested
