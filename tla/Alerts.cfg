SPECIFICATION Spec
CONSTANTS
    Metrics = {"cpu"}
    Checks = {"svc"}
    Sustain = 2
    Cooldown = 1
    Snoozes = {1}
    MaxFaults = 1
INVARIANTS OncePerFailure ChatAgrees
PROPERTY Told
