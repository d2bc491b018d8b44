SPECIFICATION Spec
CONSTANTS
    Physical = {eDP}
    NoOutput = NoOutput
    MaxOutputs = 3
    Modes = {"default"}
    ReportedModes = {"tablet"}
    Scales = {"1.0"}
    Positions = {"auto-right"}
    DefaultPosition = "auto-right"
    Usernames = {"remote"}
    DefaultUsername = "remote"
    Passwords = {"first"}
    NoPassword = NoPassword
    Faults <- OneUptime
    MaxSessions = 2
    MaxEnds = 1
    MaxReports = 0
INVARIANTS
    TypeOK
    RunningServed
PROPERTIES
    RemovesOnlyOwn
    SessionsInTurn
\* The daemon may be asked for nothing more once the bounds are reached.
CHECK_DEADLOCK FALSE
