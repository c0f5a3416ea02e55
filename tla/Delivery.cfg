\* Two mentions, no send suspends, no snapshot falls between a hello and its catch-up; the
\* listener that has the name stays connected, so that a mention must arrive.
CONSTANTS
    boss = boss
    ann = ann
    b = b
    a1 = a1
    a2 = a2
    Nicks = {boss, ann}
    Humans = {boss}
    Agents = {ann}
    FileGroups <- MCFileGroups
    Instances = {b, a1, a2}
    NickOf <- MCNickOf
    Addrs = {}
    Groups = {}
    None = None
    MaxSockets = 3
    OpenMode = FALSE
    SendsYield = FALSE
    Compaction = "calm"
    Talkers = {boss}
    FrameTypes = {"chat"}
    MentionSets = {{ann}}
    Misspells = {FALSE}
    Listened = {ann}
    MaxFrames = 2
SPECIFICATION DSpec
INVARIANTS NothingSkipped EmittedOnce
PROPERTY MentionsArrive
CHECK_DEADLOCK FALSE
