SPECIFICATION FairSpec
CONSTANTS
  Conn = {c1, c2}
  NoConn = NoConn
  Addr = {a1}
  NoAddr = NoAddr
  RejectTicks = 0
  StaleTicks = 1
  QuitTicks = 2
  GraceTicks = 3
  MaxApplies = 1
  SteadyFrames = TRUE
INVARIANTS OnePlace UnservedIsBounded
PROPERTIES ServedIsLeftAlone ConnectionsEnd
