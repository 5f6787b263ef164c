CONSTANTS
    BLOCK_SIZE = 2
    File = {"f", "g"}
    Block = {1, 2, 3, 4}
    MaxBlocks = 3
    Byte = {0, 1, 2}
    Data <- Writes
    Offset <- Offsets
    Orders <- LowestFirst
    MaxOffset = 4
    OpenTruncates = FALSE
SPECIFICATION Spec
INVARIANTS TypeOK OnlyOwnBlocks SizeMatchesBlocks BlocksAccounted TailsClearUnlessCrashed ReadReturnsContents
PROPERTY ImplementsFiles
VIEW Visible
