SPECIFICATION Spec
CONSTANTS
    p1 = p1  p2 = p2  p3 = p3  p4 = p4  h1 = h1  h2 = h2
    NoFile = NoFile
    Procs <- FourProcs
    Hosts <- OneHost
    HostOf <- FourOnOneHost
    PidOf <- FourPids
    TicksOf <- FourTicks
    Patient <- BriefOnly
    MaxBoot = 2
PROPERTIES KillsAsVerified AcquireEnds
CHECK_DEADLOCK FALSE
