SPECIFICATION Spec
CONSTANTS
  Roles <- MCRoles
  Limit <- MCLimit
  Reads <- MCReads
  Owns <- MCOwns
  NoEngine = "none"
  OversightOnly = {"quality"}
  AutonomyConfidence = 75
  MustBeReviewedBy <- MCMustBeReviewedBy
  CanReview <- MCCanReview
  UniversalApprovers = {"quality"}
  Request <- MCRequest
  NoApprover = NoApprover
  Keys <- KeysLone
  Threads = {t1, t2}
  Approvers <- OneApprover
  MaxRetries = 0
  MaxCalls = 3
  MaxAuditFailures = 1
  MaxDeaths = 0
  MaxStoreFailures = 1
  MaxHalts = 1
CHECK_DEADLOCK FALSE
SYMMETRY Symmetry
INVARIANTS NoUnauditedCompletion
PROPERTIES HaltStopsNewWork
