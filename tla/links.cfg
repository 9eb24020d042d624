SPECIFICATION Spec
CONSTANTS
    None = None
    p1 = p1 p2 = p2
    Proc = {p1, p2}
    N = 3
    Collected = {1, 2}
    Chosen = {"applied", "offer", "rejected"}
    MaxEdits = 3
    MaxLinks = 2
    MaxStops = 1
CHECK_DEADLOCK FALSE
INVARIANTS LinkedOnce
PROPERTIES Progress Together
SYMMETRY Symmetry
