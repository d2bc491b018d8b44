SPECIFICATION FairSpec
CONSTANTS
    Tablets = {t1, t2}
    MaxSessions = 3
INVARIANTS
    TypeOK
PROPERTIES
    ResizesOnlyExtended
    ReportsCarryToken
    SessionsInTurn
    OperationsEnd
    PageConcludes
