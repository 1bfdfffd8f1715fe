SPECIFICATION FairSpec
CONSTANTS
    INIT_BUFFER_SIZE = 3
    SendRoom = 4
    MaxBytes = 5
PROPERTY FrameworkTakesOver
\* The client may stop sending and reading.
CHECK_DEADLOCK FALSE
