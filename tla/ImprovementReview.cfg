SPECIFICATION MCSpec
CONSTANTS
  Accounts = {"ravi", "layla"}
  Role <- MCRole
  Deciders = {"manager", "owner"}
  Org = "org"
  Processes = {app, other}
  Window = 1
  NoRow = NoRow
  MaxRecords = 9
  MaxRequests = 3
  MaxCrashes = 1
SYMMETRY Alike
CHECK_DEADLOCK FALSE
INVARIANTS TypeOK ProjectionFollowsUnlessShared ApprovalsEarned RulesStand
