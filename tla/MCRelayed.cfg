SPECIFICATION Spec
CONSTANTS
    MaxCalls = 3
    MaxFaults = 1
    PoolSize = 4
    Mixes <- MCMixes
    None = None
INVARIANTS
    OpenIssuedNothing
    RecordedIsOnLedger
    AuditTellsTruth
    OneKey
    RaisedOnce
    TermsHonoured
PROPERTIES
    IssuesOneTicket
    CallsEnd
CHECK_DEADLOCK FALSE
