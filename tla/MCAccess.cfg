SPECIFICATION Spec
CONSTANTS
    MaxCalls = 3
    None = None
    MaxTime = 1
    CodeLife = 1
    CeremonyLife = 1
    SessionLife = 2
    ReportLife = 1
INVARIANTS
    RevokedMeansOut
    CodesSpentOnce
    AnsweredOnce
    OneAccountPerEmail
PROPERTIES
    EvidenceKept
    CallsEnd

CHECK_DEADLOCK FALSE
