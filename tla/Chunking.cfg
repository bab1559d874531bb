\* Published models on every text of up to five characters, seven or eight of
\* them per machine; any pipeline of one or two cutting stages, and any behavior of a
\* Split, on texts of up to four; metaspace models on texts of up to four characters of all widths.
CONSTANTS
    MaxText = 5
    MaxPipeText = 4
    MaxMetaText = 4
    MaxPatience = 1
    Models = {"word", "generic", "camel", "cjk", "pipelines", "metaspace"}
    Inputs <- MCInputs
SPECIFICATION Spec
INVARIANTS
    Tiles
    CutsAsDeclared
    MetaspaceKeepsMerges
CHECK_DEADLOCK FALSE
