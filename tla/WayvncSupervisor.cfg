SPECIFICATION FairSpec
CONSTANTS
    MaxSpawns = 7
    SpawnMayFail = TRUE
INVARIANTS
    TypeOK
    NoSurvivor
    OneProcess
PROPERTIES
    BackoffOnlyGrows
    KeepsPromiseSafely
    KeepsPromise
    WatcherEnds
\* The supervisor's life ends when stop() has returned.
CHECK_DEADLOCK FALSE
