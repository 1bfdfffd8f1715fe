SPECIFICATION FairSpec
CONSTANTS
    Threads = {t1, t2}
    Fds = {f1, f2, f3, f4, f5}
    Number = 3
    MaxBacklog = 2
    Main = main
    Nobody = nobody
INVARIANT TypeOK
INVARIANT NoSleeperBesideWork
INVARIANT NoDescriptorLost
PROPERTY ImplementsHandOff
PROPERTY FreeThreadServes
\* The process may end, and clients may stop coming.
CHECK_DEADLOCK FALSE
