\* Two tasks give any three commands, one write of which goes wrong.
SPECIFICATION Spec
CONSTANTS
    t1 = t1
    t2 = t2
    None = None
    Tasks = {t1, t2}
    PortCount = 4
    PortsPerGroup = 2
    MaxGroups = 2
    VlanIds = {1, 2, 3}
    MaxVlans = 2
    Commands <- AllCommands
    MaxCommands = 3
    MaxFaults = 1
SYMMETRY Symmetry
CHECK_DEADLOCK FALSE
INVARIANTS
    TypeOK
    LagsApart
    VlansWellFormed
    VlansFit
    MirrorReplaced
    MtuSettled
PROPERTIES
    LagTreatedAsOne
    VlanPortsChecked
