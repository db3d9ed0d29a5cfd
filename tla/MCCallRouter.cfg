SPECIFICATION CallsSpec
CONSTANTS
    p = p
    r = r
    s = s
    u = u
    None = None
    Routed = {p, r, s, u}
    Kind <- MCKind
    MaxFaults = 1
INVARIANTS OnceEach HeldHasAReleaser
PROPERTIES EveryCallEnds
CHECK_DEADLOCK FALSE
