SPECIFICATION FairSpec
CONSTANTS
    DisplayModes = {"extend"}
    Clicks = {}
    ClientOps = {"start"}
    MaxStarts = 1
    MaxRespawns = 0
    MaxLosses = 1
    MaxPolls = 1
    Buffer = 2
PROPERTIES
    QrCurrent
