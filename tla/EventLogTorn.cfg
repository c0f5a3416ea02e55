\* A failed append may leave part of its record behind (a full disk).
CONSTANTS
    Keep = 2
    MaxCalls = 3
    AppendFaults = {"torn"}
SPECIFICATION Spec
INVARIANT AckedSurvives
CHECK_DEADLOCK FALSE
