SPECIFICATION FairSpec
CONSTANT MaxSpawns = 3
INVARIANTS OneTunnel EndpointIsLive
PROPERTIES StopWins CallsEnd
CHECK_DEADLOCK FALSE
