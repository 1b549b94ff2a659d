CONSTANTS
    Thread = {t1, t2, t3, t4}
    Mutex = {m1}
    Cond = {c1}
    NoThread = NoThread
    MaxLockCount = 3
    SlowThread = {s1, s2, s3}
    SlowMutex = {o1, o2}
    SlowCond = {d1}
    SlowCount = 2
SPECIFICATION AnyFairSpec
INVARIANTS TypeOK NoLockerForgotten OwnersAreCounted OwnersAndQueuesAgree NoMutexLockerForgotten
PROPERTIES MonitorSpec FreeMutexIsTaken MutexMonitorSpec FreeMutexIsTakenAgain
CHECK_DEADLOCK FALSE
