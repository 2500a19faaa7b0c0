SPECIFICATION QuietSpec
CONSTANTS
    t1 = t1
    g1 = g1
    None = None
    Tokens = {g1}
    GroupRetention = 3
    t2 = t2
    phone = phone
    laptop = laptop
    Tabs = {t1, t2}
    BrowserOf <- TwoBrowsers
    Stories = {1, 2}
    Holdable = {1}
    Retention = 1
    MaxReads = 1
    MaxNow = 3
    MaxStray = 0
CHECK_DEADLOCK FALSE
INVARIANTS RevisionMeansApplied NeverHiddenUnread
PROPERTIES RevisionNamesContent ForgetsOnlyOldest
SYMMETRY Swapped
