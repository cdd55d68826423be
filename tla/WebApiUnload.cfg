\* The entry is unloaded while a poll is under way.
SPECIFICATION Spec
CONSTANTS
    t1 = t1
    NoTask = NoTask
    Tasks = {t1}
INVARIANT
    DisconnectClosesSession
