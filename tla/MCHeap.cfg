SPECIFICATION Spec
CONSTANTS
    PageSize = 8
    HeaderSize = 2
    PagesModulus = 4
    Sizes <- MCSizes
    MaxPages = 3
INVARIANTS
    TypeOK
    Tiled
    NodesAreHeld
PROPERTIES
    RangesSpec
CHECK_DEADLOCK FALSE
