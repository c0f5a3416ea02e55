\* A failed append leaves nothing on disk; a crash may cut it anywhere.
CONSTANTS
    Keep = 2
    MaxCalls = 5
    AppendFaults = {}
SPECIFICATION Spec
INVARIANTS AckedSurvives SeqNeverReused LiveIsRecoverable NoPartialReplay TalkWindow
PROPERTY ImplementsRoom
