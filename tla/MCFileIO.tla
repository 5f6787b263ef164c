------------------------------ MODULE MCFileIO ------------------------------
(***************************************************************************)
(* Files of a few small blocks.                                            *)
(***************************************************************************)
EXTENDS FileIO, FiniteSets, SequencesExt

CONSTANT MaxOffset

\* Within a block, and, at an odd offset, a whole block and parts of two others.
Writes == {<<1>>, <<1, 2, 1, 2>>}

Offsets == 0..MaxOffset

\* One order is enough: see Visible.
LowestFirst(free) == {SetToSortSeq(free, <)}

\* Blocks that no file has are cleared before they are read, which number a
\* block has does not matter as long as it is in one place, and neither does
\* which of the two files is which.
Visible ==
    <<{<<[disk.inode[f] EXCEPT !.i_blocks = << >>],
         [l \in DOMAIN disk.inode[f].i_blocks |-> disk.block[disk.inode[f].i_blocks[l]]]>> :
            f \in File},
      Cardinality(disk.free), OnlyOwnBlocks, history>>
=============================================================================
