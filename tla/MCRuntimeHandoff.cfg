SPECIFICATION Spec
CONSTANTS
    a = a
    b = b
    c = c
    None = None
    Script = Script
    Proxy = {a, b}
    MaxFaults = 2
INVARIANTS OneOwnerUnlessRaced OwnerStands
SYMMETRY Symmetric
CHECK_DEADLOCK FALSE
