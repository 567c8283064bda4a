SPECIFICATION Spec
CONSTANTS
    Scrapes = {s1, s2}
    Boot = boot
    None = none
    Collectors = {"collstats", "fcv"}
    Configured = {"fcv"}
    Listed = {}
    Fragile = {}
    DiscoveringMode = FALSE
    CollectAll = TRUE
    GlobalConnPool = TRUE
    CollStatsLimit = 2
    ProfileTimeTS = 30
    Filters <- OneFilter
    Endpoints = {"metrics"}
    NodeTypes = {"mongod"}
    CollectionCounts = {2, 3}
SYMMETRY ScrapeSymmetry
INVARIANTS TypeOK MeantServed
PROPERTIES CountSettles
