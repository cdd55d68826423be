\* Polls and one command after the other, each page with its own way of
\* learning what was written, and one call that goes wrong.
SPECIFICATION FairSpec
CONSTANTS
    poller = poller
    c1 = c1
    None = None
    Tasks = {poller, c1}
    Poller = poller
    PollOrder <- WrittenPages
    Malformed = FALSE
    MaxCommands = 2
    MaxFaults = 1
INVARIANTS
    NoLostUpdate
    CacheCoherent
    LatchedOnlyIfAbsent
PROPERTIES
    EventuallyInSync
