CONSTANTS
    c0 = c0
    c1 = c1
    main = main
    t1 = t1
    t2 = t2
    q1 = q1
    Thread = {main, t1}
    MainThread = main
    Core = {c0, c1}
    MainCore = c1
    WaitQueue = {q1}
    Priority = {0, 1}
    DefaultPriority = 0
    Mask <- AllMasks
    MaxSuspend = 2
    Joinable = {}
    Detachable = {}
    Cancellable = {main}
    NoThread = NoThread
SPECIFICATION Spec
INVARIANTS RunQueuesExact RunningOnOneCore WaitingInOneQueue
