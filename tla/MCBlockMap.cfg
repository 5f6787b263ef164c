CONSTANTS
    Long = 14
    Short = 8
    File <- Files
    SizeLimit <- Limits
    BlockLimit = 30
    NUM_OF_DIRECT_BLOCKS = 1
    NUM_OF_ADDRESSES_PER_BLOCK = 2
SPECIFICATION SpecContained
INVARIANTS TypeOK MappingCorrect NoSharing NoBlockLost RootsMatchSize
VIEW Visible
