SPECIFICATION Spec
CONSTANTS
    Hosts = {plain, ported}
    Resolved = {x, y}
    WithPort = {ported}
    MaxList = 3
CHECK_DEADLOCK FALSE
INVARIANTS TypeOK EveryHostServed ClustersTogether SplitNodesAnswer
