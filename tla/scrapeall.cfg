SPECIFICATION Spec
CONSTANTS
    Names = {"host1", "host2"}
    Instances <- NamedTargets
    Unnamed = "none"
    Versions = {"old", "new"}
INVARIANTS TypeOK EveryTargetReports  PoolsBalanced
PROPERTIES  ImplementsRegistration
