SPECIFICATION ServerSpec
CONSTANTS
  Sock = {s1, s2}
  Req = {r1}
  NoSock = NoSock
  NDelays = 3
  None = None
  Unset = Unset
  Platform = {"linux", "win32"}
  RouteTable <- MCRoutes
  ResolvConf <- MCNames
  Override <- MCOverrides
  Argument = {0, 1, 16, 17, 99, 100, 1000, 1199, 1200, 1201, 2999, 3000, 5000, 10000, 10001, 29999, 30000, 30001, 39999, 40000, 40001, 49999, 50000, 50001}
  FrameMs = 100
  QuickTimeoutMs = 90000
INVARIANTS OneLiveSocket NeverLatchedDead ClosedIsClean ToldIsDialled InnerAnswersFirst
PROPERTIES RejectionBackoff NothingWaitsForEver
