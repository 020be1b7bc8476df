SPECIFICATION Spec
CONSTANTS
    V4 = {"p"}
    V6 = {"x"}
    NoPeer = "none"
    Ufws <- BoundLists
    Zones <- NoZones
    Edits <- EditList
    Requests <- Ask1
    SSHPorts = {22}
    MaxRules = 5
    MaxPlans = 2
    TTL = 1
    MaxTime = 1
    MaxEdits = 1
    MaxAsked = 1
INVARIANT StaysReachable
CHECK_DEADLOCK FALSE
