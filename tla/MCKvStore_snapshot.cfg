SPECIFICATION Spec
CONSTANTS
    Client = {c1, c2}
    Key = {k1}
    Value = {v1}
    None = None
    Calls = {"set", "flush", "snapshot"}
    Faults = {}
    MaxOps = 2
    MaxCrashes = 1
    MaxFaults = 0
INVARIANT SettledIsDurable
