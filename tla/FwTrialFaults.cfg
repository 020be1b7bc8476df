SPECIFICATION Spec
CONSTANTS
    Backend = "ufw"
    Files <- UFWFiles
    Direct = FALSE
    Foreign = {"ban"}
    Conns = {"c1"}
    Systemd = FALSE
    Kinds = {"save", "remove", "stop", "ss", "lock", "command", "reload",
             "verify", "hash", "revert", "restore", "crash", "reboot",
             "commitCrash", "restoreCrash"}
    MaxTrials = 1
    MaxFaults = 2
    MaxCrashes = 2
    MaxEdits = 1
    KeepSnaps = 1
INVARIANT NoLockout
PROPERTY ChangeUnderRecord
CHECK_DEADLOCK FALSE
