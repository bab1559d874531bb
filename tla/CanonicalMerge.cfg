\* Every table of up to four merges of runs and up to three of words; the heap
\* path over chunks of two tokens and more.
CONSTANTS
    MaxRun = 4
    RunMerges = 4
    MaxRunChunk = 6
    MaxWord = 3
    WordMerges = 3
    MaxWordChunk = 4
    NoRank <- Unranked
    Tables <- AllTables
    Token <- AllTokens
    Chunks <- AllChunks
    SmallCanon = 6
    AnyLength = 1
SPECIFICATION MCSpec
INVARIANTS
    TypeOK
    CacheFresh
    FullyMerged
    HeapTypeOK
    ListLinked
    QueueComplete
PROPERTIES
    ImplementsCanonical
    HeapImplementsCanonical
    BothTerminate
