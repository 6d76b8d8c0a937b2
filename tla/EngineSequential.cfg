SPECIFICATION Spec
CONSTANTS
  Roles <- MCRoles
  Limit <- MCLimit
  Reads <- MCReads
  Owns <- MCOwns
  NoEngine = "none"
  OversightOnly = {"quality"}
  AutonomyConfidence = 75
  MustBeReviewedBy <- MCMustBeReviewedBy
  CanReview <- MCCanReview
  UniversalApprovers = {"quality"}
  Request <- MCRequest
  NoApprover = NoApprover
  Keys <- KeysAll
  Threads = {t1}
  Approvers <- MCApprovers
  MaxRetries = 1
  MaxCalls = 4
  MaxAuditFailures = 1
  MaxDeaths = 1
  MaxStoreFailures = 1
  MaxHalts = 0
CONSTRAINT OneWorkflow
CHECK_DEADLOCK FALSE
INVARIANTS TypeOK LeftInOrder ExecutionBounded ClearedBeforeRun
PROPERTIES StoredTransitionsLegal KeepsPromise
