CONSTANTS
    Threads = {t1, t2, t3}
    CPUs = {c1, c2, c3}
    Mutexes = {m1}
    CVs = {v1}
    MainThread = t1
    BootCpu = c1
    Idle = Idle
    None = None
SPECIFICATION Spec
SYMMETRY Symmetry
INVARIANTS TypeOK NoThreadTwice NoThreadLost StackExclusive MutualExclusion NobodyWaitsForFinished NoLostWakeup
PROPERTIES LockFIFO ImplementsMonitor
CHECK_DEADLOCK FALSE
