\* Two flows at once, two switches one of which changes its address, and at
\* most one entry at the start.  A switch may move while its answer is on the
\* way.
SPECIFICATION StartSpec
CONSTANTS
    f1 = f1
    f2 = f2
    s1 = s1
    s2 = s2
    h1 = h1
    h2 = h2
    e1 = e1
    e2 = e2
    n1 = n1
    n2 = n2
    None = None
    Offline = Offline
    Clients = {f1, f2}
    Switches = {s1, s2}
    Hosts = {h1, h2}
    Entries = {e1, e2}
    Names = {n1, n2}
    Initial <- InitialEntries
    MaxQueue = 1
    MaxResponses = 2
    MaxMoves = 1
    MaxFlows = 2
    MaxSubmits = 2
CHECK_DEADLOCK FALSE
INVARIANTS
    TypeOK
    FoundIsFresh
    OneEntryPerSwitch
    HostVouched
PROPERTIES
    PickedIsConfigured
    NamesApart
    ImplementsRegistry
    Released
