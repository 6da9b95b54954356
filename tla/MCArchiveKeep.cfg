SPECIFICATION Spec
CONSTANTS
    p1 = p1
    p2 = p2
    p3 = p3
    k1 = k1
    k2 = k2
    Plain = Plain
    None = None
    Paths = {p1, p2, p3}
    Passwords = {k1, k2}
    CoarseNames = FALSE
    ImportDuringBackup = FALSE
    MaxIds = 3
    MaxEvents = 2
INVARIANTS
    Recoverable
    MissingExplained
SYMMETRY MCSymmetry
