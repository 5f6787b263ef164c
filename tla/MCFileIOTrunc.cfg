CONSTANTS
    BLOCK_SIZE = 2
    File = {"f", "g"}
    Block = {1, 2, 3, 4}
    MaxBlocks = 3
    Byte = {0, 1, 2}
    Data <- Writes
    Offset <- Offsets
    Orders <- LowestFirst
    MaxOffset = 4
    OpenTruncates = TRUE
SPECIFICATION Spec
INVARIANT OpenTruncatesFile
VIEW Visible
