SPECIFICATION MCFairSpec
CONSTANTS
    Owner = owner
    Callers = {t1, t2}
    wakeChan = wakeChan
    c1 = c1
    c2 = c2
    c3 = c3
    c4 = c4
    Channels <- MCChannels
    Wake <- wakeChan
    Listeners = {}
    Fds = {0, 2, 5}
    FdOf <- MCFdOf
    InitialEntries = 4
    Doublings = 1
    WakeCap = 2
    NoThread = NoThread
    NoChannel = NoChannel
INVARIANT TypeOK
INVARIANT MutexProtectsList
INVARIANT NoLostWakeup
INVARIANT WakeupHasByte
INVARIANT NoCrash
INVARIANT EpollMatchesMap
PROPERTY OnlyClosedLeave
PROPERTY CallersReturn
PROPERTY LoopComesBack
PROPERTY ImplementsQueue
\* The loop waits for ever once no connection is left to hand over.
CHECK_DEADLOCK FALSE
