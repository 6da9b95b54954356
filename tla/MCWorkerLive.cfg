SPECIFICATION FairSpec
CONSTANTS
    A = A
    B = B
    a1 = a1
    a2 = a2
    b1 = b1
    c1 = c1
    fw = fw
    None = None
    Procs = {A}
    Threads = {a1, a2, c1}
    ProcOf <- MCProcOf
    SweepPool = {c1}
    Instances = {1, 2}
    Hosts = {fw}
    HostOf <- MCHostOf
    HostConcurrency = 1
    Jobs = {j1, j2}
    Requests = {"run_backup", "run_backup_all", "test_connection", "reencrypt_backups", "reencrypt_all_backups", "retrieve_replica"}
    Handlers = {"run_backup", "run_backup_all", "test_connection", "reencrypt_backups", "reencrypt_all_backups", "retrieve_replica"}
    Encrypted = {1}
    MaxCrashes = 0
    MarkRaises = TRUE
PROPERTIES
    SettledStaysSettled
    ThreadsReturn
    HandledJobsSettle
