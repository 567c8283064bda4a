SPECIFICATION Spec
CONSTANTS
    Modes = {"shards"}
    Roles = {"mongos"}
    Databases = {"app", "app2"}
    Sharded <- ClusterSharded
    Extends <- ClusterExtends
CHECK_DEADLOCK FALSE
INVARIANT RowsBelong
