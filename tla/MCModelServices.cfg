SPECIFICATION FairSpec
CONSTANTS
    Threads = {t1, t2, t3}
    Servers <- AllServers
    MaxRequests = 4
    Free = Free
INVARIANTS ServicesInv OneAtATime ServedWell
PROPERTIES Answered KeepsContract
