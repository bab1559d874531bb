\* A tokenizer whose core has been unpickled encodes a text with an added token.
CONSTANTS
    MaxText = 2
    MaxRow = 0
    MaxPair = 0
    MaxLength = 0
    Families = {"split"}
    NoMax = NoMax
    Tokenizers <- MCTokenizers
    Requests <- MCRequests
SPECIFICATION Spec
INVARIANT WorkerEncodesAlike
