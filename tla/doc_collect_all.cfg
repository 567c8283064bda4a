SPECIFICATION Spec
CONSTANTS
    Scrapes = {s1, s2}
    Boot = boot
    None = none
    Collectors = {"diagnosticdata", "fcv"}
    Configured = {}
    Listed = {}
    Fragile = {}
    DiscoveringMode = FALSE
    CollectAll = TRUE
    GlobalConnPool = TRUE
    CollStatsLimit = 0
    ProfileTimeTS = 30
    Filters = {}
    Endpoints = {"metrics", "scrapeall"}
    NodeTypes = {"mongod"}
    CollectionCounts = {1}
INVARIANT CollectAllIsAll
