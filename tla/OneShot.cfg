\* One command of any kind and then a chat, with and without tokens; one fault.
CONSTANTS
    MaxCommands = 2
    Kinds <- MCKinds
    OpenModes = {TRUE, FALSE}
    Talk = 1
    MaxOthers = 1
    MaxFaults = 1
SPECIFICATION Spec
INVARIANTS VerdictHolds NoFalseSuccess LoggedIsPublished LookSettles
CHECK_DEADLOCK FALSE
