\* Two processes that install or remove, an owner who edits once, one fault.
CONSTANTS
    r1 = r1
    r2 = r2
    Runs = {r1, r2}
    OwnerWords = {"w1", "w2", "w3"}
    Found <- MCFound
    MaxStarts = 3
    MaxEdits = 1
    MaxFaults = 1
SYMMETRY MCSymmetry
SPECIFICATION Spec
INVARIANTS OwnerKept Converges 
PROPERTY WritesAreSound
CHECK_DEADLOCK FALSE
