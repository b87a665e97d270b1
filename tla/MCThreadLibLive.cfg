CONSTANTS
    Threads = {t1, t2, t3}
    CPUs = {c1, c2}
    Mutexes = {m1}
    CVs = {}
    MainThread = t1
    BootCpu = c1
    Idle = Idle
    None = None
SPECIFICATION FairSpec
PROPERTIES ReadyRuns
CHECK_DEADLOCK FALSE
