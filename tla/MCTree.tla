------------------------------- MODULE MCTree -------------------------------
(***************************************************************************)
(* Small trees.                                                            *)
(***************************************************************************)
EXTENDS Tree

\* A short and a long name.
Names == {"a", "bb"}
Lengths == [n \in Names |-> IF n = "a" THEN 1 ELSE 2]

\* States that differ only in what no name leads to behave alike: of a stranded
\* inode or block and of a free block the contents are never read again.
Visible ==
    LET blocks == UNION {Range(disk.inode[i].i_blocks) : i \in Reached}
    IN <<[i \in Reached |-> disk.inode[i]], [b \in blocks |-> disk.block[b]],
         {i \in Inum : disk.inode[i].i_allocated}, disk.free,
         crashes, history>>
=============================================================================
