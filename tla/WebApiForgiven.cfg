\* A write whose connection is closed before the switch carried it out.
SPECIFICATION Spec
CONSTANTS
    t1 = t1
    NoTask = NoTask
    Tasks = {t1}
INVARIANT
    SuccessMeansApplied
