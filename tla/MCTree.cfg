CONSTANTS
    BLOCK_SIZE = 10
    RECORD_FIXED_LEN = 1
    Name <- Names
    NameLength <- Lengths
    Inum = {2, 3, 4, 5}
    Block = {1, 2, 3}
    MAX_COUNT = 15
    MaxCrashes = 1
SPECIFICATION Spec
INVARIANTS TypeOK DirectoryReadable NamesSound BlocksSound NothingStranded RenameAllOrNothing DotsLeadUp
PROPERTY ImplementsNameSpace
CHECK_DEADLOCK FALSE
VIEW Visible
