CONSTANTS
    INODE_BLOCK_COUNT = 3
    s_num_of_inodes_per_block = 3
    Faults = {}
SPECIFICATION Spec
INVARIANTS TypeOK FirstInoIsLeastFree NoInodeLeaked
PROPERTY CallsReturn
