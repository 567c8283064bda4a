SPECIFICATION FairSpec
CONSTANTS
    Modes = {"general", "fcv", "topmetrics", "currentopmetrics", "replicasetstatus",
             "replicasetconfig", "diagnosticdata", "shards", "pbm", "topology"}
    Roles = {"mongod", "mongos", "arbiter"}
    Databases = {"app", "app2"}
    Sharded <- ClusterSharded
    Extends <- ClusterExtends
CHECK_DEADLOCK FALSE
INVARIANTS TypeOK RefusalsEarned ShardedServed ArbiterServed
PROPERTY EndsByDeadline
