SPECIFICATION Spec
CONSTANTS
    None = None
    i1 = i1
    i2 = i2
    s1 = s1
    s2 = s2
    Instances = {i1, i2}
    Names = {n1, n2, n3}
    Hooks = {h1, h2}
    HookRows <- MCBrokenRows
    Saves = {}
    Secrets = {s1, s2}
    Editors = {e1}
    Budgets <- OnlyRuns
INVARIANTS
    NoneSilenced
