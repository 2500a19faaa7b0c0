SPECIFICATION Spec
CONSTANTS
    e1 = e1  e2 = e2  e3 = e3  e4 = e4
    None = None
    Events = {e1, e2, e3, e4}
    Articles = {1, 2, 3, 4}
    First <- FirstOwner
    Alike <- AlikeArticles
    Akin <- AkinArticles
    Hash <- HashBits
    Batch = 3
    Anchors = 1
    MaxPairs = 2
    MaxPasses = 2
    MaxFaults = 1
INVARIANT ApprovalsApplied
PROPERTIES MergedAsReviewed PairsReviewed
