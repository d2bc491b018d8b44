SPECIFICATION Spec
CONSTANTS
    Physical = {eDP}
    NoOutput = NoOutput
    MaxOutputs = 1
    Modes = {"default"}
    ReportedModes = {"tablet"}
    Scales = {"2.0"}
    Positions = {"auto-right"}
    DefaultPosition = "auto-right"
    Usernames = {"remote"}
    DefaultUsername = "remote"
    Passwords = {"first"}
    NoPassword = NoPassword
    Faults = {"qr"}
    MaxSessions = 1
    MaxEnds = 0
    MaxReports = 1
INVARIANTS
    NoStrayOutput
\* The daemon may be asked for nothing more once the bounds are reached.
CHECK_DEADLOCK FALSE
