SPECIFICATION Spec
CONSTANTS
    Tablets = {t1}
    MaxSessions = 2
INVARIANTS
    OnlyCurrentReports
