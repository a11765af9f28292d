SPECIFICATION Spec
CONSTANTS
    RingSlots = 4
    SleepTicks = 2
    InitialSlots = 3
    MaxTyped = 5
INVARIANTS
    TypeOK
PROPERTIES
    InOrderUntilFull
    TimelyKeyIsReturned
