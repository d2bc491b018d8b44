SPECIFICATION Spec
CONSTANTS
    Physical = {eDP}
    NoOutput = NoOutput
    MaxOutputs = 2
    Modes = {"default"}
    ReportedModes = {"tablet"}
    Scales = {"2.0"}
    Positions = {"auto-right"}
    DefaultPosition = "auto-right"
    Usernames = {"remote"}
    DefaultUsername = "remote"
    Passwords = {"first", "second"}
    NoPassword = NoPassword
    Faults = {}
    MaxSessions = 2
    MaxEnds = 0
    MaxReports = 1
INVARIANTS
    ReportedModeIsScaled
\* The daemon may be asked for nothing more once the bounds are reached.
CHECK_DEADLOCK FALSE
