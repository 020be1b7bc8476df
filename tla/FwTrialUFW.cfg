SPECIFICATION Spec
CONSTANTS
    Backend = "ufw"
    Files <- UFWFiles
    Direct = FALSE
    Foreign = {"ban"}
    Conns = {}
    Systemd = TRUE
    Kinds = {"snapshot", "save", "remove", "systemd", "stop", "lock", "command",
             "reload", "verify", "crash", "reboot"}
    MaxTrials = 2
    MaxFaults = 1
    MaxCrashes = 1
    MaxEdits = 1
    KeepSnaps = 1
INVARIANTS TypeOK TrialHasSnapshot RolledBack ForeignKept
PROPERTY KeepsPromise
CHECK_DEADLOCK FALSE
