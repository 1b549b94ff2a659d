CONSTANTS
    Thread = {t1, t2, t3}
    Mutex = {m1}
    Cond = {c1}
    NoThread = NoThread
    MaxLockCount = 2
SPECIFICATION Spec
INVARIANTS ReleasedWhileWaiting
CHECK_DEADLOCK FALSE
