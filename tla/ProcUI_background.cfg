CONSTANTS
    Core = {c0, c1, c2}
    Core0 = c0
    Core2 = c2
    Modes = {TRUE, FALSE}
    ResizeInBackground = FALSE
SPECIFICATION Spec
INVARIANT WaitsForTheBackgroundThread
CHECK_DEADLOCK FALSE
