SPECIFICATION Spec
CONSTANTS
    INIT_BUFFER_SIZE = 3
    SendRoom = 4
    MaxBytes = 9
INVARIANT TypeOK
INVARIANT EveryByteOnce
\* The client may stop sending and reading.
CHECK_DEADLOCK FALSE
