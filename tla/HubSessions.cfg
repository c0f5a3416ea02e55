\* A moderator, an agent with a token and a guest without; three connections, any send may suspend.
CONSTANTS
    boss = boss
    crew = crew
    ann = ann
    guest = guest
    Nicks = {boss, ann, guest}
    Humans = {boss}
    Agents = {ann}
    FileGroups <- MCFileGroups
    Instances = {i1, i2}
    Addrs = {}
    Groups = {crew}
    None = None
    MaxSockets = 3
    OpenMode = TRUE
    SendsYield = TRUE
    Compaction = "never"
    Talkers = {boss}
    FrameTypes = {"chat", "fyi", "kick", "membership_set"}
    MentionSets = {{crew}}
    Misspells = {TRUE}
    Listened = {}
    MaxFrames = 1
SYMMETRY MCSymmetry
SPECIFICATION Spec
INVARIANTS NothingAfterTakeover TakeoverTrail KickLands
CHECK_DEADLOCK FALSE
