SPECIFICATION Spec
CONSTANTS
    Client = {c1, c2}
    Key = {k1, k2}
    Value = {v1}
    None = None
    Calls = {"set", "delete", "clear", "set_async", "flush", "snapshot"}
    Faults = {"torn", "unterminated", "write", "sync", "save"}
    MaxOps = 3
    MaxCrashes = 1
    MaxFaults = 1
INVARIANTS TypeOK DurableUnlessTainted SequencesIncrease
CONSTRAINT Untainted
SYMMETRY Symmetry
