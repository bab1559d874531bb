\* Two calls for one model, the first without the configured special tokens.
CONSTANTS
    Token <- MCToken
    NoRank = 99
    NotGiven = NotGiven
    LongToken = 2
    FewTokens = 1
    ShortToken = 2
    ManyTokens = 0
    MaxPiece = 1
    Patterns = {"kimi", "cl100k"}
    RankFiles <- MCRankFiles
    Calls <- MCCalls
    Configured <- MCConfigured
    Pieces <- MCPieces
SPECIFICATION Spec
INVARIANT SpecialsDefault
