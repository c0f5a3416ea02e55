\* Two listeners and the one-shot commands under one nick, two starts; a purge spares a lock that is being opened.
CONSTANTS
    p1 = p1
    p2 = p2
    a = a
    b = b
    w = w
    None = None
    Procs = {p1, p2}
    Nicks = {a, b}
    Acts = {w}
    Ids <- MCIds
    LegacyId = 1
    Stale <- MCStale
    MaxActs = 1
    Script <- MCScript
    Every = 2
    Named = {a}
    Modes <- MCModes
    MaxStarts = 2
    Raced = FALSE
    LiveReset = FALSE
SYMMETRY MCSymmetry
SPECIFICATION Spec
INVARIANTS OneListener CursorIsEarned OneIdentity
PROPERTIES FileIsTheHolders OnceIsDurable
CHECK_DEADLOCK FALSE
