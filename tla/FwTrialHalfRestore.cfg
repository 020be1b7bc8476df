SPECIFICATION Spec
CONSTANTS
    Backend = "ufw"
    Files <- UFWFiles
    Direct = FALSE
    Foreign = {}
    Conns = {}
    Systemd = TRUE
    Kinds = {"restore"}
    MaxTrials = 1
    MaxFaults = 1
    MaxCrashes = 0
    MaxEdits = 0
    KeepSnaps = 1
INVARIANT RolledBack
CHECK_DEADLOCK FALSE
