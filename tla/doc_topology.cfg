SPECIFICATION Spec
CONSTANTS
    Scrapes = {s1, s2}
    Boot = boot
    None = none
    Collectors = {"replicasetstatus"}
    Configured = {"replicasetstatus"}
    Listed = {}
    Fragile = {}
    DiscoveringMode = FALSE
    CollectAll = FALSE
    GlobalConnPool = TRUE
    CollStatsLimit = 0
    ProfileTimeTS = 30
    Filters = {}
    Endpoints = {"metrics", "scrapeall"}
    NodeTypes = {"mongod", "arbiter"}
    CollectionCounts = {1}
INVARIANT TopologyFollowed
