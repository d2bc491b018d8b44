SPECIFICATION Spec
CONSTANTS
    Daemons = {unit, manual}
    Unit = unit
    Conns = {c1}
    Nobody = Nobody
    Stale = Stale
    MaxSessions = 1
    MaxEnds = 0
INVARIANTS
    SessionKept
