\* Ids 0 and 1 and, for the sentinel, four id values: all tables of up to
\* three merges, listed twice or not, under every hash into three home slots
\* of which two are adjacent across the wrap-around.
CONSTANTS
    IdValues = 4
    Ids = {0, 1}
    HashValues = {0, 6, 15}
    InitialCap = 2
    NoRank = 9
    Tables <- AllTables
SPECIFICATION Spec
INVARIANTS
    TypeOK
    ChainsIntact
PROPERTIES
    AnswerIsFirstMerge
    Terminates
