SPECIFICATION BridgeSpec
CONSTANTS
  jump = jump
  None = None
  Call <- MCCall
  Key <- MCKey
  ChunkMs = 2
  Input = {jump}
  Mouse = {}
  MaxStart = 0
  Target = {1}
  Horizon = 1
  WallBudget = 2
INVARIANTS FreezeHolds NoStuckHold IntentKept IgnoredIsSaid
PROPERTIES StepsAreHonest WindowsEnd TimelineExact
