CONSTANTS
  c1 = c1
  c2 = c2
  c3 = c3
  None = None
  Call = {c1, c2, c3}
  MaxClock = 3
  Burst = 2
  StaleMs = 1
  Poll = {p1}
  MaxBoots = 2
  MaxLines = 2
SPECIFICATION TellSpec
CHECK_DEADLOCK FALSE
INVARIANTS StaleIsHiddenByAdvance EvidenceIsOurs
PROPERTIES HeldGoesOn ExitIsSeen
