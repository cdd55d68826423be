\* One client and two tasks: a poll and a command, or one task that logs on.
SPECIFICATION FairSpec
CONSTANTS
    t1 = t1
    t2 = t2
    NoTask = NoTask
    Tasks = {t1, t2}
INVARIANTS
    TypeOK
    OneOnTheWire
    RequestIsLoggedOn
    LoggedOnHasCookie
    BoundedRetry
PROPERTIES
    ImplementsSwitchCalls
    EveryCallEnds
