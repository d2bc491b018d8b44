SPECIFICATION FairSpec
CONSTANTS
    Daemons = {unit, manual}
    Unit = unit
    Conns = {c1}
    Nobody = Nobody
    Stale = Stale
    MaxSessions = 2
    MaxEnds = 2
INVARIANTS
    TypeOK
    ServesClean
    FoundAtPath
PROPERTIES
    ListensAgain
    RequestsEnd
