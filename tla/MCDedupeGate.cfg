SPECIFICATION Spec
CONSTANTS
    Keys = {k1, k2, k3}
    Blank = Blank
    Callers = {c1, c2}
    Ttl = 2
    CapacityArg = 2
    MaxTime = 4
SYMMETRY Symmetry
INVARIANTS OrderMatchesEntries
PROPERTIES EvictsOldest ImplementsMemory
