SPECIFICATION Spec
CONSTANTS
    Namespaces <- ServerNamespaces
    SystemDBs = {"admin"}
    SystemNames = {"system.x"}
    Found <- Substrings
    Whole = "*"
    Modes = {"collstats", "indexstats", "dbstats", "profile", "count"}
    Filters <- FilterLists
    Answers <- Documents
    NoShard = ""
    MaxChanges = 1
CHECK_DEADLOCK FALSE
INVARIANTS TypeOK CalmServesAsked OneFailureLosesOne SeriesDistinct LabelsAgree
