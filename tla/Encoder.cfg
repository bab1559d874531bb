\* Texts of two chunks on every table of up to three merges of runs, with both
\* thresholds at 3 so that chunks of 1 to 5 tokens lie on either side of them.
CONSTANTS
    MaxRun = 4
    RunMerges = 3
    MaxRunChunk = 0
    MaxWord = 1
    WordMerges = 0
    MaxWordChunk = 0
    NoRank <- Unranked
    Tables <- AllTables
    Token <- AllTokens
    Chars <- MCChars
    Initial <- MCInitial
    Lookups <- MCLookups
    Texts <- MCTexts
    StreamThreshold = 3
    SmallCanon = 3
SPECIFICATION MCSpec
INVARIANTS
    OutputIsCanonical
    IdsMatchEncode
    SpansTileText
    SpansHoldTokens
PROPERTIES
    BothTerminate
CHECK_DEADLOCK FALSE
