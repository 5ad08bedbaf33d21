SPECIFICATION Spec
CONSTANTS
    MaxCalls = 3
    MaxFaults = 1
    PoolSize = 4
    Mixes <- MCDefineMixes
    None = None
INVARIANTS
    TermsHonoured
CHECK_DEADLOCK FALSE
