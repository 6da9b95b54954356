SPECIFICATION FairKeySpec
CONSTANTS
    web = web
    worker = worker
    ipw = ipw
    rpw = rpw
    Empty = Empty
    Services = {web, worker}
    InstanceCts = {ipw}
    BackupCts = {1, 2, 3}
    SettingsCts = {rpw}
    Chunk = 2
    Creators = {web}
    MaxKeys = 4
INVARIANTS
    CredentialsReadable
    ServicesAgree
PROPERTY
    RotationEnds
CHECK_DEADLOCK FALSE
