SPECIFICATION OutputSpec
CONSTANTS
    MaxOutputBytes = 5
    MaxLen = 8
    MaxChunk = 3
INVARIANTS CutsAreNoticed TextStaysText
CHECK_DEADLOCK FALSE
