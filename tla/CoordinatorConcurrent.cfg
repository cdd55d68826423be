\* Two commands of entities that share a page, at once.
SPECIFICATION Spec
CONSTANTS
    poller = poller
    c1 = c1
    c2 = c2
    None = None
    Tasks = {poller, c1, c2}
    Poller = poller
    PollOrder <- IgmpPages
    Malformed = FALSE
    MaxCommands = 2
    MaxFaults = 0
INVARIANT
    NoLostUpdate
