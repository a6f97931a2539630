CONSTANTS
    t1 = t1
    t2 = t2
    n1 = n1
    n2 = n2
    Thread = {t1, t2}
    Node = {n1, n2}
    PageCnt = 2
    HugeSize = 2
    File = {"anon"}
    BindTouched = FALSE
    UnmapAnytime = FALSE
    CountBound = 2
    NoNode = NoNode
    NoFile = NoFile
SPECIFICATION Spec
INVARIANTS TypeOK NodeIsKernels CountersCover NoUnderflow
SYMMETRY Symmetry
