SPECIFICATION FairSpec
CONSTANTS
    Physical = {eDP}
    NoOutput = NoOutput
    MaxOutputs = 3
    Modes = {"default"}
    ReportedModes = {"tablet"}
    Scales = {"2.0"}
    Positions = {"auto-right", "auto-left"}
    DefaultPosition = "auto-right"
    Usernames = {"remote"}
    DefaultUsername = "remote"
    Passwords = {"first", "second"}
    NoPassword = NoPassword
    Faults <- HandledFaults
    MaxSessions = 3
    MaxEnds = 2
    MaxReports = 1
INVARIANTS
    NoOrphan
    RunningIntact
    SettingsDurable
    PlacesOnlyOwn
PROPERTIES
    DisplayApplied
    OperationsEnd
    KillHeals
\* The daemon may be asked for nothing more once the bounds are reached.
CHECK_DEADLOCK FALSE
