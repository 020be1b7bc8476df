SPECIFICATION Spec
CONSTANTS
    Actors = {ana, ben}
    Actions = {"ssh_kick", "fw_plan"}
    Doubles = {"ssh_kick"}
    Trials = {"fw_plan"}
    TTL <- Lifetimes
    MaxTokens = 2
    MaxMints = 3
    MaxMsgs = 2
    MaxTime = 1
    MaxBoots = 2
SYMMETRY ActorSymmetry
INVARIANT SeenYesWorks
PROPERTIES KeepsPromise EvictsOldestLast
CHECK_DEADLOCK FALSE
