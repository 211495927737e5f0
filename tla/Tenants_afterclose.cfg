SPECIFICATION MCSpec
CONSTANTS
    t1 = t1
    t2 = t2
    c1 = c1
    c2 = c2
    r1 = r1
    r2 = r2
    NoPool = NoPool
    MaxPools = 3
    Revals = {"x", "y"}
    Managers <- MCManagers
    DSNs = {"a", "b"}
    Asks <- MCAsks
    Timeouts = {"5s"}
    Defaults = {0, 1}
    PackageDefault = 4
    Cap = 2
    Listener = Listener
    Loops = {l1, l2, l3}
    Locks = {k1, k2, k3, k4}
    Nobody = Nobody
    None = None
    MaxVersion = 1
    MaxEvents = 1
    MaxFailures = 1
    cbThreshold = 1
    cbLimit = 2
    MaxTroubles = 3
    p1 = p1
    p2 = p2
    Clients = {p1, p2}
    Errands <- MCErrands
    Foci = {"pools"}
    Cases <- MCCases
INVARIANT ClosedMeansClosed
CHECK_DEADLOCK FALSE
