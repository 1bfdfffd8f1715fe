SPECIFICATION FairSpec
CONSTANT Streams <- MCStreams
PROPERTY CallbackReturns
\* The connection may end, and so may the process.
CHECK_DEADLOCK FALSE
