SPECIFICATION Spec
CONSTANTS
    Metrics = {"cpu"}
    Checks = {}
    Sustain = 2
    Cooldown = 1
    Snoozes = {1}
    MaxFaults = 1

PROPERTY SnoozeRefires
