SPECIFICATION Spec
CONSTANTS
    e1 = e1
    e2 = e2
    None = None
    Articles = {1, 2}
    Events = {e1, e2}
    Incremental = TRUE
    MaxFailures = 1
    MaxFaults = 0
    MaxMerges = 0
INVARIANT HiddenAwaitsEditorial
