\* Two daemons started on one data directory, one workspace.
SPECIFICATION Spec
CONSTANTS
    p1 = p1
    p2 = p2
    w1 = w1
    i1 = i1
    i2 = i2
    i3 = i3
    Processes = {p1, p2}
    Workspaces = {w1}
    Ids = {i1, i2, i3}
    None = None
SYMMETRY LifecycleSymmetry
INVARIANTS OneWriter OneIdentity SecretsAgree MemoryIsDisk PreparingIsOwn
