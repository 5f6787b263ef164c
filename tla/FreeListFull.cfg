CONSTANTS
    INODE_BLOCK_COUNT = 1
    BLOCK_COUNT = 7
    NUM_OF_ADDRESSES_PER_BLOCK = 3
    UserWords = {4}
    MayCrash = FALSE
SPECIFICATION Spec
INVARIANTS NoDoubleAllocation
