\* Two mentions; any send may suspend its handler.
CONSTANTS
    boss = boss
    ann = ann
    b = b
    a1 = a1
    a2 = a2
    Nicks = {boss, ann}
    Humans = {boss}
    Agents = {ann}
    FileGroups <- MCFileGroups
    Instances = {b, a1, a2}
    NickOf <- MCNickOf
    Addrs = {}
    Groups = {}
    None = None
    MaxSockets = 3
    OpenMode = FALSE
    SendsYield = TRUE
    Compaction = "never"
    Talkers = {boss}
    FrameTypes = {"chat"}
    MentionSets = {{ann}}
    Misspells = {FALSE}
    Listened = {ann}
    MaxFrames = 2
SPECIFICATION DSpec
INVARIANT NothingSkipped
CHECK_DEADLOCK FALSE
