SPECIFICATION FairSpec
CONSTANTS
    None = None
    i1 = i1
    c1 = c1
    t1 = t1
    t2 = t2
    Insts = {i1}
    Clients = {c1}
    Threads = {t1, t2}
    QueueCap = 1
    LogQueueCap = 1
    RingCap = 1
    MaxInputs = 4
INVARIANTS
    StreamHasNoHoles
    AnswerIsWaitedFor
    LinesReachViewer
PROPERTY
    StaleTimelineGoes
CHECK_DEADLOCK FALSE
