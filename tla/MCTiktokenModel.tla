--------------------------- MODULE MCTiktokenModel ---------------------------
EXTENDS TiktokenModel

CONSTANTS
    LongToken, FewTokens,   \* all files of so many tokens of at most this length,
    ShortToken, ManyTokens, \* and these
    MaxPiece,               \* longest piece to compare on
    Patterns                \* split patterns a caller may pass

Strings(n) == UNION {[1 .. k -> {"a", "b"}] : k \in 1 .. n}

(* Tokens in any order of rank; as swapping the letters changes nothing,    *)
(* the first one starts with an "a".                                        *)
Files(length, count) ==
    {f \in UNION {[1 .. k -> Strings(length) \ Strings(1)] : k \in 0 .. count} :
        IsInjective(f) /\ (f # <<>> => f[1][1] = "a")}

MCRankFiles == Files(LongToken, FewTokens) \cup Files(ShortToken, ManyTokens)

MCToken == Strings(LongToken) \cup Strings(ShortToken)

MCPieces == Strings(MaxPiece)

Called(sources, patterns, given) ==
    [source : sources, pattern : patterns, specials : given]

(* Every way to call for the files of one token; for the others, what       *)
(* matters is the conversion.                                               *)
MCCalls(f) ==
    IF Len(f) = 1
    THEN Called({"repo", "local"}, Patterns, {NotGiven, {}, {"given"}})
    ELSE Called({"local"}, {CHOOSE p \in Patterns : TRUE}, {NotGiven})

MCConfigured == {"configured"}
=============================================================================
