\* Every rank file of up to three tokens of two to four bytes or up to four of
\* two or three, in every order of rank, on all pieces of up to six bytes.
CONSTANTS
    Token <- MCToken
    NoRank = 99
    NotGiven = NotGiven
    LongToken = 4
    FewTokens = 3
    ShortToken = 3
    ManyTokens = 4
    MaxPiece = 6
    Patterns = {"kimi", "cl100k"}
    RankFiles <- MCRankFiles
    Calls <- MCCalls
    Configured <- MCConfigured
    Pieces <- MCPieces
SPECIFICATION Spec
INVARIANTS
    ConversionExact
    ConversionMonotonic
