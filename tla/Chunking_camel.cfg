\* The camel-case machine on texts that mix letters of all kinds.
CONSTANTS
    MaxText = 4
    MaxPipeText = 0
    MaxMetaText = 0
    MaxPatience = 0
    Models = {"camel"}
    Inputs <- MCInputs
SPECIFICATION Spec
INVARIANT CamelCutsLikePattern
CHECK_DEADLOCK FALSE
