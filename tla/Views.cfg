\* Two hellos of each, three frames, one fault.
CONSTANTS
    MaxLog = 3
    MaxHellos = 2
    MaxUnread = 1
    MaxFaults = 1
SPECIFICATION Spec
INVARIANTS NoGhosts GroupsFollow 
CHECK_DEADLOCK FALSE
