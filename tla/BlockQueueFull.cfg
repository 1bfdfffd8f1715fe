SPECIFICATION Spec
CONSTANTS
    Threads = {t1, t2}
    Fds = {f1, f2, f3, f4, f5}
    Number = 3
    MaxBacklog = 3
    Main = main
    Nobody = nobody
INVARIANT NoDescriptorLost
\* The process may end, and clients may stop coming.
CHECK_DEADLOCK FALSE
