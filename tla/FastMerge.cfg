\* Every table of up to four merges of runs and three of words.
CONSTANTS
    MaxRun = 4
    RunMerges = 4
    MaxRunChunk = 6
    MaxWord = 3
    WordMerges = 3
    MaxWordChunk = 4
    NoRank <- Unranked
    Tables <- AllTables
    Token <- AllTokens
    Chunks <- AllChunks
    MaxOut = 0
SPECIFICATION MCSpec
INVARIANTS
    BothTypeOK
    CacheFresh
    MonotonicNeverBails
    BatchIsCanonical
    StackDescends
    TextKept
    MonotonicIsCanonical
PROPERTIES
    BothTerminate
