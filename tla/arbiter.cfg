SPECIFICATION Spec
CONSTANTS
    Scrapes = {s1, s2}
    Boot = boot
    None = none
    Collectors = {"collstats", "shards", "replicasetconfig"}
    Configured = {"collstats", "shards", "replicasetconfig"}
    Listed = {}
    Fragile = {"shards"}
    DiscoveringMode = TRUE
    CollectAll = FALSE
    GlobalConnPool = FALSE
    CollStatsLimit = 2
    ProfileTimeTS = 30
    Filters = {}
    Endpoints = {"metrics"}
    NodeTypes = {"mongos", "arbiter"}
    CollectionCounts = {3}
SYMMETRY ScrapeSymmetry
INVARIANTS PoolsAccounted ArbiterAskedOnlyItsOwn
PROPERTIES ImplementsRegistration
