CONSTANTS
    t1 = t1
    t2 = t2
    t3 = t3
    cpus = 4
    numaMap <- MCnumaMap
    isMcdram <- MCisMcdram
    distance <- MCdistance
    Thread = {t1, t2, t3}
    Main = t1
    Id = {1, 2}
    Mask <- MCMask
    StartMask <- MCStartMask
    Policy <- MCPolicy
    Page <- MCPage
    BatchSize = 0
    RetryLimit = 2
    RecycleIds = TRUE
    CallLimit = 2
    NoThread = NoThread
    NoId = NoId
SPECIFICATION Spec
INVARIANTS TypeOK BindingIsKernels LogEndsWithBinding AccessClassified
PROPERTY EveryHookReturns
