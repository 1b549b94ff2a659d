CONSTANTS
    c0 = c0
    c1 = c1
    main = main
    t1 = t1
    t2 = t2
    q1 = q1
    Thread = {main, t1, t2}
    MainThread = main
    Core = {c0, c1}
    MainCore = c1
    WaitQueue = {}
    Priority = {0}
    DefaultPriority = 0
    Mask <- OneCoreMasks
    MaxSuspend = 1
    Joinable = {t1}
    Detachable = {t1}
    Cancellable = {}
    NoThread = NoThread
SPECIFICATION Spec
INVARIANTS JoinedThreadIsMoribund
