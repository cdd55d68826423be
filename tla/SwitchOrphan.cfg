\* VLANs changed one after the other.
SPECIFICATION Spec
CONSTANTS
    t1 = t1
    None = None
    Tasks = {t1}
    PortCount = 4
    PortsPerGroup = 2
    MaxGroups = 2
    VlanIds = {1, 2, 3}
    MaxVlans = 2
    Commands <- FewVlanCommands
    MaxCommands = 3
    MaxFaults = 0
CHECK_DEADLOCK FALSE
INVARIANT
    NoOrphan
