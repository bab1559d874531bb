\* Texts of up to four characters split at added tokens that overlap or take
\* whitespace; batches of one or two rows and pairs of texts with every way to
\* pad and truncate, max_length on both sides of what the rows need.
CONSTANTS
    MaxText = 4
    MaxRow = 3
    MaxPair = 3
    MaxLength = 6
    Families = {"split", "batch", "pair"}
    NoMax = NoMax
    Tokenizers <- MCTokenizers
    Requests <- MCRequests
SPECIFICATION Spec
INVARIANTS
    RowsAgree
    KeepsWhatFits
    SplitCoversText
    DecodesBack
