SPECIFICATION Spec
CONSTANTS
    Values = {1, 2}
    MaxNodes = 3
    Indices <- MCIndices
    Serialised = TRUE
INVARIANTS WellFormed WalkSafe
PROPERTY ListSpec
