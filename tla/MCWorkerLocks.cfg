SPECIFICATION Spec
CONSTANTS
    A = A
    B = B
    a1 = a1
    a2 = a2
    b1 = b1
    c1 = c1
    fw = fw
    None = None
    Procs = {A, B}
    Threads = {a1, a2, b1}
    ProcOf <- MCProcOf
    SweepPool = {}
    Instances = {1, 2}
    Hosts = {fw}
    HostOf <- MCHostOf
    HostConcurrency = 1
    Jobs = {j1, j2, j3}
    Requests = {"run_backup", "reencrypt_all_backups", "retrieve_replica", "test_connection"}
    Handlers = {"run_backup", "reencrypt_all_backups", "test_connection"}
    Encrypted = {1, 2}
    MaxCrashes = 1
    MarkRaises = FALSE
INVARIANTS
    TypeOK
    BackupExclusion
    LockRegionsDisjoint
    HostCap
    NoLockLeak
    BlockedIsNotRunning
SYMMETRY MCSymmetry
