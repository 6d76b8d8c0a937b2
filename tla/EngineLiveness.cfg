SPECIFICATION Spec
CONSTANTS
  Roles <- MCRoles
  Limit <- MCLimit
  Reads <- MCReads
  Owns <- MCOwns
  NoEngine = "none"
  OversightOnly = {"quality"}
  AutonomyConfidence = 75
  MustBeReviewedBy <- MCMustBeReviewedBy
  CanReview <- MCCanReview
  UniversalApprovers = {"quality"}
  Request <- MCRequest
  NoApprover = NoApprover
  Keys <- KeysLive
  Threads = {t1, t2}
  Approvers <- OneApprover
  MaxRetries = 0
  MaxCalls = 3
  MaxAuditFailures = 0
  MaxDeaths = 0
  MaxStoreFailures = 1
  MaxHalts = 0
CHECK_DEADLOCK FALSE
INVARIANTS RefusalsFinal
PROPERTIES CallsReturn
