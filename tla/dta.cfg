SPECIFICATION Spec
CONSTANTS
    Addresses = {"default", "other"}
    Default = "default"
    Unmapped = "unmapped"
    Names = {1, 2, 3}
    glob <- Sorted
    NoName = 0
    Patterns <- Overlapping
    MaxSearches = 2
    MaxIndex = 4
INVARIANT TypeOK
PROPERTY ImplementsSearches
CHECK_DEADLOCK FALSE
