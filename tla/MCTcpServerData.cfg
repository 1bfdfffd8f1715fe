SPECIFICATION Spec
CONSTANTS
    ThreadNumber = 2
    wakeChan = wakeChan
    c1 = c1
    c2 = c2
    c3 = c3
    c4 = c4
    Connections <- MCConnections
    Wake <- wakeChan
    Fds = {7, 8}
    FdOf <- MCFdOf
    NoChannel = NoChannel
INVARIANT DataReadyForCallback
\* The server waits for ever once no connection is left to accept.
CHECK_DEADLOCK FALSE
