SPECIFICATION FairSpec
CONSTANT Streams <- MCStreams
INVARIANT TypeOK
INVARIANT ParserInStep
INVARIANT CloseHonoured
INVARIANT CrashCauses
PROPERTY NextRequestAnswered
\* The connection may end, and so may the process.
CHECK_DEADLOCK FALSE
