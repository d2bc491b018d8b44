SPECIFICATION FairSpec
CONSTANTS
    MaxSpawns = 3
    SpawnMayFail = TRUE
PROPERTIES
    RespawnedAfterDeath
CHECK_DEADLOCK FALSE
