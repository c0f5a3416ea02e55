\* Two commands from two terminals on two rooms, with every other program's move.
CONSTANTS
    r1 = r1
    r2 = r2
    h1 = h1
    h2 = h2
    c1 = c1
    c2 = c2
    None = None
    Rooms = {r1, r2}
    Ports <- MCPorts
    Pids = {h1, h2}
    Cmds = {c1, c2}
    Ops = {"start", "stop", "restart", "delete", "kill"}
    Args = {0, 2}
    Alien = {1}
    MaxCommands = 2
    Standalone = TRUE
    Slow = TRUE
    Recycles = TRUE
SYMMETRY MCSymmetry
SPECIFICATION Spec
INVARIANTS SplitOnlyIfMisled  HubAtItsAddress
CHECK_DEADLOCK FALSE
