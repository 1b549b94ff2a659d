CONSTANTS
    Thread = {t1, t2, t3}
    Event = {auto, manual}
    Manual = {manual}
    NoEvent = NoEvent
    LinkThread = {l1, l2, l3, l4}
    Queue = {q1, q2}
    Priority = {0, 1}
    Null = Null
    SemaphoreThread = {s1, s2, s3, s4}
    MaxCount = 3
    Owed = 1
    Alarm = {a1, a2}
    AlarmThread = alarmThread
    AlarmEvent = alarmEvent
    Delay = {1, 2}
    Period = {1, 2}
    MaxTime = 2
    Width = 6
    NoHost = NoHost
    NoTime = NoTime
SPECIFICATION AnyFairSpec
INVARIANTS NobodyWaitsForASetEvent LinksAgree NobodySleepsBesideUnits ExpiredAlarmsAreSeen
PROPERTIES GateSpec TimedWaitsReturn ListsSpec ClockSpec
CHECK_DEADLOCK FALSE
