SPECIFICATION Spec
CONSTANTS
    None = None
    i1 = i1
    i2 = i2
    s1 = s1
    s2 = s2
    Instances = {i1, i2}
    Names = {n1, n2, n3}
    Hooks = {h1, h2}
    HookRows <- MCHookRows
    Saves <- MCSaves
    Secrets = {s1, s2}
    Editors = {e1, e2}
    Budgets <- MCBudgets
SYMMETRY Symmetry
INVARIANTS
    Routed
    StartsAreEnded
    ProvisionedHasCheck
PROPERTIES
    SecretKept
CHECK_DEADLOCK FALSE
