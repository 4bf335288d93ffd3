\* The gate as written, without spurious wake-ups.
CONSTANTS
    Threads = {t1, t2, t3, t4}
    NoThread = NoThread
    MaxCalls = 3
SPECIFICATION Spec
INVARIANTS TypeOK Synchronised LastOutReleases
PROPERTIES AllPass PromiseKept
CHECK_DEADLOCK FALSE
