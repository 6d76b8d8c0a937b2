SPECIFICATION Spec
CONSTANTS
  c1 = c1
  c2 = c2
  o1 = o1
  server = server
  t1 = t1
  t2 = t2
  Global = all
  Writers = {c1, c2, o1}
  Callers = {c1, c2}
  Operators = {o1}
  Hosts = {server}
  HostOf <- TwoThreads
  Scopes = {all, t1, t2}
  MaxFaults = 1
  MaxOps = 3
  MaxCrashes = 1
CHECK_DEADLOCK FALSE
SYMMETRY Symmetry
INVARIANTS TypeOK HaltAnswersTrue TrailKnowsHalts HarmedOnlyWhenOvertaken
