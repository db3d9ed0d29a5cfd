CONSTANTS
  k1 = k1
  k2 = k2
  None = None
  Call = {k1, k2}
  Styles = {"exec", "qaWait", "input"}
  MaxRuns = 2
  Budget = 2
  ReadyBudget = 1
  RampGrace = 1
  RunTimeout = 1
SPECIFICATION FairSpec
CHECK_DEADLOCK FALSE
INVARIANTS CorrelatedIsRight WaitNotStarved
PROPERTIES CallsEnd FirstLaunchGated
