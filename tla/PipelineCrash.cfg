SPECIFICATION FairSpec
CONSTANTS
    e1 = e1
    e2 = e2
    None = None
    Articles = {1, 2}
    Events = {e1, e2}
    Incremental = FALSE
    MaxFailures = 1
    MaxFaults = 1
    MaxMerges = 1
INVARIANTS VisibleStoryIsClean CheckpointSawMembers
PROPERTIES NoImplicitMerge BacklogFirst EveryArticleSettles
