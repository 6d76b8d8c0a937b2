SPECIFICATION Spec
CONSTANTS
  c1 = c1
  c2 = c2
  c3 = c3
  app = app
  other = other
  Callers = {c1, c2, c3}
  Home <- TwoProcesses
  Sessions = {s1, s2}
  NoSession = NoSession
  MaxFailed = 2
  MaxHits = 3
  MaxCalls = 5
  MaxCrashes = 1
CHECK_DEADLOCK FALSE
SYMMETRY Symmetry
INVARIANTS TypeOK SessionsEndWithTheirGrounds AutomaticLockEnds LimitsHold
PROPERTIES BarHolds
