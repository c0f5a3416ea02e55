\* Three frames, one fault, one tick; two wakes a window.
CONSTANTS
    Said <- MCSaid
    MaxLog = 3
    MaxTime = 1
    MaxFaults = 1
    Compacts = TRUE
    Cap = 2
    Window = 2
    Cooldown = 1
SPECIFICATION Spec
INVARIANTS WokenOnce Accounted LimitsHold 
PROPERTIES ContextKept CallsAreHeeded
CHECK_DEADLOCK FALSE
