CONSTANTS
    t1 = t1
    t2 = t2
    ip1 = ip1
    ip2 = ip2
    x1 = x1
    x2 = x2
    x3 = x3
    a1 = a1
    Tracker = {t1, t2}
    m1 = m1
    Ip = {ip1, ip2}
    MallocIp = {m1}
    Addr = {a1}
    Access = {x1, x2}
    BatchSize = 0
    CacheEntries = 2
    RecycleIds = TRUE
    NoIp = NoIp
    NoSite = NoSite
    OTHERS = OTHERS
    Kind = {"firstTouch", "localAccess"}
    Classes <- MCClasses
    Cutoffs <- MCCutoffs
    FloatBits = 2
SPECIFICATION Spec
INVARIANT ReportComplete
SYMMETRY Symmetry
