SPECIFICATION Spec
CONSTANTS
    MaxText = 4
    MaxLoaded = 2
    U32Modulus = 64
INVARIANTS
    TypeOK
    InStep
PROPERTIES
    BufferSpec
    MarkFollowsText
CHECK_DEADLOCK FALSE
