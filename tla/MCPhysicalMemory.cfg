SPECIFICATION Spec
CONSTANTS
    WordBits = 3
    BlocksPerByte = 2
    BlockSize = 3
    CountModulus = 64
    MaxBlocks = 17
    LastBit = 20
    BiosMaps <- MCBiosMaps
    OSBlocks = 2
    MapBase = 4
    KernelArea <- MCKernelArea
    FontArea <- MCFontArea
    Framebuffer <- MCFramebuffer
    FramebufferTables = 1
    Requests <- MCRequests
INVARIANTS
    TypeOK
    NoBlockTwice
    SystemAreasKept
PROPERTIES
    AccountingConserved
    PoolSpec
