\* The first refresh of a switch with PoE, one call of which goes wrong.
SPECIFICATION Spec
CONSTANTS
    poller = poller
    None = None
    Tasks = {poller}
    Poller = poller
    PollOrder <- PoePages
    Malformed = FALSE
    MaxCommands = 0
    MaxFaults = 1
INVARIANT
    EntitiesRemain
