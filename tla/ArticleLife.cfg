SPECIFICATION LifeSpec
CONSTANTS
    f1 = f1  f2 = f2  e1 = e1  e2 = e2  
    link = link  page = page  v1 = v1  v2 = v2
    None = None
    Feeds = {f1, f2}
    Entries = {e1, e2}
    Urls = {link, page}
    Events = {v1, v2}
    SourceOf <- Sources
    ListedFrom <- Versions
    LinkOf <- Links
    PageOf <- Pages
    GuidOf <- Guids
    TextOf <- Texts
    PublishedAt <- Dates
    FullText = {e2}
    Unusable = {}
    Irrelevant = {}
    Retention = 1
    StaleAfter = 2
    ArchiveAfter = 5
    StepSize = 2
    Overlap = 1
    MaxRetries = 1
    MaxNow = 6
    MaxVersion <- Changes
    MaxFaults = 1
CHECK_DEADLOCK FALSE
INVARIANTS EventsLinked ListedMeansStored OneCallPerText TextKept
PROPERTIES PlanCovers PendingEnds
