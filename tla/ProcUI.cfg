CONSTANTS
    Core = {c0, c1, c2}
    Core0 = c0
    Core2 = c2
    Modes = {TRUE, FALSE}
    ResizeInBackground = FALSE
SPECIFICATION FairSpec
INVARIANTS NobodySleepsWhenMet NobodySleepsOnASignal AlarmsOnlyInBackground OneBackgroundThread
PROPERTIES InitMeetsNobody CommandsSpec CommandsReturn
CHECK_DEADLOCK FALSE
