\* Three entries and two of the platforms.  Entries that could not be unloaded
\* stay so until Home Assistant restarts.
SPECIFICATION Spec
CONSTANTS
    e1 = e1
    e2 = e2
    e3 = e3
    p1 = p1
    p2 = p2
    Entries = {e1, e2, e3}
    PLATFORMS = {p1, p2}
SYMMETRY Symmetry
CHECK_DEADLOCK FALSE
INVARIANTS
    TypeOK
    ServicesWhileUsed
    CoordinatorFound
    NothingLeftBehind
