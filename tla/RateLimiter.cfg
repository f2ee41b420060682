\* Two clients, a limit of two in a window of two ticks, seven ticks.
SPECIFICATION LimiterSpec
CONSTANTS
    Clients = {a, b}
    limit = 2
    window = 2
    Unknown = unknown
    MaxTime = 6
INVARIANTS
    LimiterTypeOK
    AtMostTwiceTheLimit
    RefusedOnlyAtLimit
SYMMETRY Symmetry
