SPECIFICATION Spec
CONSTANTS
    StartTimes <- MCStartTimes
    MaxSeconds = 2
    MaxInterrupts = 1
    ByteModulus = 256
INVARIANTS
    TypeOK
    StoredWasShown
PROPERTY HandlerReturns
CHECK_DEADLOCK FALSE
