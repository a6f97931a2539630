CONSTANTS
    t1 = t1
    t2 = t2
    m1 = m1
    m2 = m2
    m3 = m3
    Thread = {t1, t2}
    Map = {m1, m2, m3}
    Block <- MCBlock
    PageCnt = 3
    Grains = 2
    MutexCnt = 2
    InPlaceRemap = FALSE
    QuickReuse = FALSE
    NULL = NULL
SPECIFICATION Spec
INVARIANTS TypeOK LookupExact NoWildPointer MapsAccounted ReportsFollowRace
SYMMETRY Symmetry
