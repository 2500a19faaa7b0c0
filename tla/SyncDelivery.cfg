SPECIFICATION SessionSpec
CONSTANTS
    t1 = t1
    phone = phone
    g1 = g1  g2 = g2
    None = None
    Tokens = {g1, g2}
    Tabs = {t1}
    BrowserOf <- OneTab
    Stories = {1}
    Holdable = {}
    Retention = 1
    GroupRetention = 2
    MaxReads = 1
    MaxNow = 3
    MaxStray = 1
    MaxGroups = 2
    MaxDaily = 1
    DayLength = 4
    MaxTurns = 2
CHECK_DEADLOCK FALSE
INVARIANTS RevisionMeansApplied
PROPERTY ReadsReachServer
