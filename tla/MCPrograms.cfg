SPECIFICATION FairSpec
CONSTANTS
    Text <- MCText
    Fds = {4, 5, 6, 7}
    Stallers = {1}
    Aborters = {2}
    INIT_SIZE = 3
    MAXLINE = 2
    BUFSIZE = 2
    BufferSize = 2
    FD_INIT_SIZE = 6
    LineSize = 1
    INIT_POLL_SIZE = 4
    Scripts <- MCScripts
    FIELD = 2
    BUFFER = 2
    Inputs <- MCInputs
    Commands <- MCCommands
    Typed <- MCTyped
    MaxLost = 1
    MaxCopied = 1
    SECOND = 2
    KEEP_ALIVE_TIME = 10
    KEEP_ALIVE_INTERVAL = 3
    KEEP_ALIVE_PROBETIMES = 3
    Sleeps = {0, 2, 5, 8, 9, 14}
    LongSilence = 40
\* A server waits for ever once its clients have nothing more to do.
CHECK_DEADLOCK FALSE
INVARIANT TypeOK
INVARIANT ClientsKeptApart
INVARIANT TablesMatch
INVARIANT OrderlyClientsHarmless
INVARIANT ShutdownGetsAnswers
INVARIANT MessagesWhole
INVARIANT NoFalseAlarm
INVARIANT SilenceBounded
PROPERTY EchoImplemented
PROPERTY Answered
PROPERTY ZombiesReaped
