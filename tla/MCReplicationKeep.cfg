SPECIFICATION Spec
CONSTANTS
    sweep = sweep
    k1 = k1
    k2 = k2
    rp = rp
    Plain = Plain
    None = None
    Sweeps = {sweep}
    Silent = {}
    Passwords = {k1, k2}
    Configs <- MCConfigs
    MaxAttempts = 2
    AlertAfter = 1
    MaxIds = 1
    MaxEvents = 1
INVARIANTS
    NoPlaintextOffsite
    OffsiteOnlyHasObject
    RetrievedOpens
    AlertOnce
PROPERTIES
    KeepsPromise
SYMMETRY MCSymmetry
