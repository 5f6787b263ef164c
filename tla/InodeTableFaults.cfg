CONSTANTS
    INODE_BLOCK_COUNT = 3
    s_num_of_inodes_per_block = 3
    Faults = {"crash", "ioerr"}
SPECIFICATION Spec
INVARIANT NeverReissued
