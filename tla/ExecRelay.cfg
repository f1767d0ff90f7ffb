SPECIFICATION RelayFairSpec
CONSTANTS
    MaxOutputBytes = 3
    ChunkSize = 2
    CharLen = 2
    MaxWrite = 2
INVARIANTS InOrder CapKept EndsOnce TruncationAnnounced ExitIsGenuine
PROPERTIES StepsRunOut CallReturns
CHECK_DEADLOCK FALSE
