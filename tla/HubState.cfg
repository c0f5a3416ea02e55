\* One hub on a tailnet, open mode: a human with a group and a guest.  Every second event a
\* snapshot is due.
CONSTANTS
    human = human
    guest = guest
    admin = "admin"
    Nicks = {human, guest}
    Humans = {human}
    Agents = {}
    FileGroups <- MCFileGroups
    Instances = {i1, i2}
    Addrs = {home, away}
    Groups = {"admin"}
    None = None
    Texts = {busy}
    OpenMode = TRUE
    Tailnet = TRUE
    SnapshotEvery = 2
    MaxSeq = 4
SYMMETRY MCSymmetry
SPECIFICATION Spec
INVARIANTS LiveIsRecovered
PROPERTIES BindingHeld ImplementsRoster
CHECK_DEADLOCK FALSE
