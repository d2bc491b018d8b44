SPECIFICATION FairSpec
CONSTANTS
    DisplayModes = {"extend"}
    Clicks = {"restart"}
    ClientOps = {"start"}
    MaxStarts = 2
    MaxRespawns = 1
    MaxLosses = 2
    MaxPolls = 1
    Buffer = 2
INVARIANTS
    TypeOK
    WholeLines
    NobodyStuck
PROPERTIES
    EventuallyCurrent
    OperationsEnd
