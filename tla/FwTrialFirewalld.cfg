SPECIFICATION FairSpec
CONSTANTS
    Backend = "firewalld"
    Files <- Zone
    Direct = TRUE
    Foreign = {"ban"}
    Conns = {"c1"}
    Systemd = TRUE
    Kinds = {"save", "lock", "command", "verify", "undo", "restore",
             "commit", "crash", "reboot", "restoreCrash"}
    MaxTrials = 1
    MaxFaults = 1
    MaxCrashes = 1
    MaxEdits = 1
    KeepSnaps = 1
INVARIANT RolledBack
PROPERTIES KeepNeedsNewConn TrialEnds
CHECK_DEADLOCK FALSE
