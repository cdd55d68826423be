\* A poll and two commands at once; pages may come without their variables.
SPECIFICATION Spec
CONSTANTS
    poller = poller
    c1 = c1
    c2 = c2
    None = None
    Tasks = {poller, c1, c2}
    Poller = poller
    PollOrder <- OverlapPages
    Malformed = TRUE
    MaxCommands = 2
    MaxFaults = 1
SYMMETRY Symmetry
INVARIANTS
    TypeOK
    CacheCoherent
    MandatoryKept
PROPERTIES
    SupportKept
    OnlyMandatoryFailsPoll
