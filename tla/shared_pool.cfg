SPECIFICATION FairSpec
CONSTANTS
    Scrapes = {s1, s2}
    Boot = boot
    None = none
    Collectors = {"fcv"}
    Configured = {"fcv"}
    Listed = {}
    Fragile = {"fcv"}
    DiscoveringMode = FALSE
    CollectAll = FALSE
    GlobalConnPool = TRUE
    CollStatsLimit = 0
    ProfileTimeTS = 30
    Filters = {}
    Endpoints = {"metrics", "scrapeall"}
    NodeTypes = {"mongod"}
    CollectionCounts = {1}
INVARIANTS OneSharedPool LeasedIsOpen
PROPERTIES ImplementsClientPool AllEnd
