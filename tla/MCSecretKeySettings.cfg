SPECIFICATION KeySpec
CONSTANTS
    web = web
    worker = worker
    ipw = ipw
    rpw = rpw
    Empty = Empty
    Services = {web, worker}
    InstanceCts = {ipw}
    BackupCts = {1, 2, 3}
    SettingsCts = {rpw}
    Chunk = 2
    Creators = {}
    MaxKeys = 2
INVARIANT
    EveryCredentialReadable
CHECK_DEADLOCK FALSE
