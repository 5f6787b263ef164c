CONSTANTS
    Long = 11
    Short = 0
    File <- Files
    SizeLimit <- Limits
    BlockLimit = 18
    NUM_OF_DIRECT_BLOCKS = 1
    NUM_OF_ADDRESSES_PER_BLOCK = 3
SPECIFICATION Spec
INVARIANTS NoSharing
