SPECIFICATION Spec
CONSTANT Streams <- MCStreams
INVARIANT AllRequestsProcessed
\* The connection may end, and so may the process.
CHECK_DEADLOCK FALSE
