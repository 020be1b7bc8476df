SPECIFICATION Spec
CONSTANTS
    MaxUpdates = 2
    MaxBoots = 3
    MaxFaults = 2
    MaxDays = 1
    RestartsWhileUp = FALSE
INVARIANTS NoReplay YesOnce NothingDropped
PROPERTY EverySeen
CHECK_DEADLOCK FALSE
