SPECIFICATION Spec
CONSTANTS
    ChunkSize = 64
    Slack = 3
    Requests <- MCRequests
    Texts <- MCTexts
    MaxChunks = 3
    MaxBlocks = 5
    MaxUsed = 7
INVARIANTS
    BlocksAreApart
    StringIsWhole
CHECK_DEADLOCK FALSE
