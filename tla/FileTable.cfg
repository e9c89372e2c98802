SPECIFICATION Spec
CONSTANTS
    Threads = {t1, t2}
    MaxFds = 5
    MaxFiles = 3
INVARIANTS  LeaksOnlyByFault
CHECK_DEADLOCK FALSE
