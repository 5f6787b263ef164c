CONSTANTS
    INODE_BLOCK_COUNT = 1
    BLOCK_COUNT = 8
    NUM_OF_ADDRESSES_PER_BLOCK = 4
    UserWords = {4}
    MayCrash = TRUE
SPECIFICATION SpecNeverFull
INVARIANTS TypeOK FreeListSound
PROPERTIES ImplementsPool NothingLost
CHECK_DEADLOCK FALSE
