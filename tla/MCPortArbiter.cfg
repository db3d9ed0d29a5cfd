CONSTANTS
  p1 = p1
  p2 = p2
  p3 = p3
  p4 = p4
  ra = ra
  rb = rb
  None = None
  Launcher = {p1, p2, p3, p4}
  Runtime = {ra, rb}
  RuntimeOf <- TwoAndTwo
  NPorts = 2
  MaxWait = 1
SPECIFICATION Spec
CHECK_DEADLOCK FALSE
CONSTRAINT Calm
INVARIANTS ExclusiveUnlessBroken OneGrantPerRuntime
