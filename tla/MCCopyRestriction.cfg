SPECIFICATION Spec
CONSTANTS
    Worlds <- MCRestrictionWorlds
    MaxLog = 2
    Args = {"org", "ann", "ben", "small", "large", "free", "bound", "unsellable", "floor", "Cancelled", "Finished",
            "cannotResale", "cannotTransfer", "pass"}
    PassLife = 1
    None = None
    Servers = {s1, s2}
    BatchSize = 2
    MaxFaults = 1
    MaxCalls = 2
    Attempts = 2
    RateLimit = 1
INVARIANTS
    CopyFollowsLedger
