SPECIFICATION FairSpec
CONSTANTS
    Collectors = {c1, c2}
    None = none
    Metrics = {good, bad}
    Refused = {bad}
    Time = time
    MaxMetrics = 2
    DescBuffer = 1
INVARIANTS TypeOK ServedIsCollected
PROPERTIES ScrapeEnds ImplementsRegistration
