SPECIFICATION Spec
CONSTANTS
    V4 = {"p"}
    V6 = {"x"}
    NoPeer = "none"
    Ufws <- UfwLists
    Zones <- ZoneList
    Edits <- EditList
    Requests <- Ask4
    SSHPorts = {22}
    MaxRules = 5
    MaxPlans = 2
    TTL = 1
    MaxTime = 1
    MaxEdits = 1
    MaxAsked = 2
INVARIANTS StaysReachable DenyHolds
PROPERTY AsShown
CHECK_DEADLOCK FALSE
