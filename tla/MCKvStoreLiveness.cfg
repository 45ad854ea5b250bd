SPECIFICATION FairSpec
CONSTANTS
    Client = {c1, c2}
    Key = {k1}
    Value = {v1}
    None = None
    Calls = {"set", "set_async", "flush", "snapshot"}
    Faults = {"save"}
    MaxOps = 2
    MaxCrashes = 1
    MaxFaults = 1
PROPERTIES QueueDrains LockIsReleased
