SPECIFICATION Spec
CONSTANTS
    MaxVersion = 2
    Window = 2
    MaxStarts = 2
    RestartDelay = 1
    AutoUpdate = TRUE
    MaxStops = 2
    MaxFaults = 1
    NoFile = NoFile
    Torn = Torn
INVARIANTS Runnable DismissedStaysOut WayBack
PROPERTY Recovers
