----------------------------- MODULE InodeTable -----------------------------
(***************************************************************************)
(* Allocation of inode numbers (inode_ops.c): allocate_inode takes the     *)
(* number that the superblock remembers as the lowest free one, marks the  *)
(* inode on disk, searches the inode blocks for the next free number and   *)
(* writes the superblock; free_inode marks the inode free and lowers the   *)
(* remembered number.                                                      *)
(*                                                                         *)
(* Each disk write and each turn of the search loops is a step, because    *)
(* the process may die, or a block transfer fail, between any two of them. *)
(* Calls are sequential: the file system is mounted single threaded.       *)
(***************************************************************************)
EXTENDS Integers

CONSTANTS
    INODE_BLOCK_COUNT,
    s_num_of_inodes_per_block,
    Faults                       \* which of "crash" and "ioerr" may happen

s_inodes_count == INODE_BLOCK_COUNT * s_num_of_inodes_per_block

ROOT_INODE_NUM == 2

\* mkfs starts numbering here.
FIRST_INO == 3

Inode == 0..(s_inodes_count - 1)

ASSUME TableAssumption ==
    /\ INODE_BLOCK_COUNT \in Nat
    /\ s_num_of_inodes_per_block \in Nat \ {0}
    /\ s_inodes_count > FIRST_INO
    /\ Faults \subseteq {"crash", "ioerr"}

VARIABLES
    i_allocated,       \* the flag of every inode, on disk
    s_first_ino,       \* altfs_superblock->s_first_ino
    disk_first_ino,    \* the same field of the superblock on disk
    pc,                \* where the running call stands
    inum,              \* the inode number it works on
    block_num,         \* position of the search: inode block,
    offset,            \*   inode in that block,
    visited,           \*   inodes looked at
    held               \* inodes that callers hold: the files that exist

cursor == <<inum, block_num, offset, visited>>

vars == <<i_allocated, s_first_ino, disk_first_ino, pc, cursor, held>>

TypeOK ==
    /\ i_allocated \in [Inode -> BOOLEAN]
    /\ s_first_ino \in FIRST_INO..s_inodes_count
    /\ disk_first_ino \in FIRST_INO..s_inodes_count
    /\ pc \in {"idle", "search", "allocated", "freed"}
    /\ inum \in Inode
    /\ block_num \in 1..INODE_BLOCK_COUNT
    /\ offset \in 0..s_num_of_inodes_per_block
    /\ visited \in 0..s_inodes_count
    /\ held \subseteq Inode

\* After mkfs and the first mount, which creates the root directory.
Init ==
    /\ i_allocated = [i \in Inode |-> i = ROOT_INODE_NUM]
    /\ s_first_ino = FIRST_INO
    /\ disk_first_ino = FIRST_INO
    /\ pc = "idle"
    /\ inum = 0
    /\ block_num = 1
    /\ offset = 0
    /\ visited = 0
    /\ held = {ROOT_INODE_NUM}

-----------------------------------------------------------------------------
(* allocate_inode *)

is_valid_inode_number(i) == i >= 0 /\ i < s_inodes_count

BlockOf(i) == 1 + i \div s_num_of_inodes_per_block

OffsetOf(i) == i % s_num_of_inodes_per_block

\* Mutant: the remembered number is trusted, the mark is not looked at.
MarkAllocated_trusting ==
    /\ pc = "idle"
    /\ is_valid_inode_number(s_first_ino)
    /\ i_allocated' = [i_allocated EXCEPT ![s_first_ino] = TRUE]
    /\ pc' = "search"
    /\ inum' = s_first_ino
    /\ block_num' = BlockOf(s_first_ino)
    /\ offset' = OffsetOf(s_first_ino) + 1
    /\ visited' = 0
    /\ UNCHANGED <<s_first_ino, disk_first_ino, held>>

\* The remembered inode is marked on disk; the search starts behind it.  A
\* number equal to s_inodes_count, or an inode that is already marked, makes
\* the call fail without a trace.
MarkAllocated ==
    /\ pc = "idle"
    /\ is_valid_inode_number(s_first_ino)
    /\ ~ i_allocated[s_first_ino]
    /\ i_allocated' = [i_allocated EXCEPT ![s_first_ino] = TRUE]
    /\ pc' = "search"
    /\ inum' = s_first_ino
    /\ block_num' = BlockOf(s_first_ino)
    /\ offset' = OffsetOf(s_first_ino) + 1
    /\ visited' = 0
    /\ UNCHANGED <<s_first_ino, disk_first_ino, held>>

\* The inode that nodes_in_block + offset points to.
Scanned == (block_num - 1) * s_num_of_inodes_per_block + offset

\* Mutant: the number is computed before the inode is counted.
LookAtInode_one_behind ==
    /\ pc = "search"
    /\ offset < s_num_of_inodes_per_block
    /\ visited' = visited + 1
    /\ IF i_allocated[Scanned]
       THEN /\ offset' = offset + 1
            /\ UNCHANGED <<pc, s_first_ino>>
       ELSE /\ s_first_ino' = inum + visited
            /\ pc' = "allocated"
            /\ UNCHANGED offset
    /\ UNCHANGED <<i_allocated, disk_first_ino, inum, block_num, held>>

\* One turn of the inner loop.
LookAtInode ==
    /\ pc = "search"
    /\ offset < s_num_of_inodes_per_block
    /\ visited' = visited + 1
    /\ IF i_allocated[Scanned]
       THEN /\ offset' = offset + 1
            /\ UNCHANGED <<pc, s_first_ino>>
       ELSE /\ s_first_ino' = inum + visited + 1
            /\ pc' = "allocated"
            /\ UNCHANGED offset
    /\ UNCHANGED <<i_allocated, disk_first_ino, inum, block_num, held>>

inodes_left == s_inodes_count - inum + 1

\* Mutant: the test for the last inode block is missing.
LookAtNextBlock_unchecked ==
    /\ pc = "search"
    /\ offset = s_num_of_inodes_per_block
    /\ visited # inodes_left
    /\ block_num' = block_num + 1
    /\ offset' = 0
    /\ UNCHANGED <<i_allocated, s_first_ino, disk_first_ino, pc, inum, visited, held>>

\* One turn of the outer loop: the next inode block is read ...
LookAtNextBlock ==
    /\ pc = "search"
    /\ offset = s_num_of_inodes_per_block
    /\ block_num < INODE_BLOCK_COUNT /\ visited # inodes_left
    /\ block_num' = block_num + 1
    /\ offset' = 0
    /\ UNCHANGED <<i_allocated, s_first_ino, disk_first_ino, pc, inum, visited, held>>

\* Mutant: the search waits for inodes_left, which is too large by two.
SearchEnds_by_count ==
    /\ pc = "search"
    /\ offset = s_num_of_inodes_per_block
    /\ visited = inodes_left
    /\ s_first_ino' = s_inodes_count
    /\ pc' = "allocated"
    /\ UNCHANGED <<i_allocated, disk_first_ino, cursor, held>>

\* ... or there is none, or it cannot be read, and the table counts as full.
SearchEnds ==
    /\ pc = "search"
    /\ offset = s_num_of_inodes_per_block
    /\ "ioerr" \in Faults \/ ~ (block_num < INODE_BLOCK_COUNT /\ visited # inodes_left)
    /\ s_first_ino' = s_inodes_count
    /\ pc' = "allocated"
    /\ UNCHANGED <<i_allocated, disk_first_ino, cursor, held>>

\* altfs_write_superblock, its result ignored.
altfs_write_superblock(first) ==
    disk_first_ino' \in {first} \cup
                        (IF "ioerr" \in Faults THEN {disk_first_ino} ELSE {})

\* The superblock is written and the caller gets the number.
ReturnInode ==
    /\ pc = "allocated"
    /\ altfs_write_superblock(s_first_ino)
    /\ pc' = "idle"
    /\ held' = held \cup {inum}
    /\ UNCHANGED <<i_allocated, s_first_ino, cursor>>

-----------------------------------------------------------------------------
(* free_inode, for an inode whose last directory entry was removed *)

\* Mutant: the inode is cleared except for its mark.
MarkFree_keeps_mark(i) ==
    /\ pc = "idle"
    /\ i \in held \ {ROOT_INODE_NUM}
    /\ held' = held \ {i}
    /\ pc' = "freed"
    /\ inum' = i
    /\ UNCHANGED <<i_allocated, s_first_ino, disk_first_ino, block_num, offset, visited>>

MarkFree(i) ==
    /\ pc = "idle"
    /\ i \in held \ {ROOT_INODE_NUM}
    /\ is_valid_inode_number(i)
    /\ i_allocated' = [i_allocated EXCEPT ![i] = FALSE]
    /\ held' = held \ {i}
    /\ pc' = "freed"
    /\ inum' = i
    /\ UNCHANGED <<s_first_ino, disk_first_ino, block_num, offset, visited>>

\* An inode or data block cannot be transferred: free_inode gives up before the
\* mark is cleared, its result is ignored and the file is gone all the same.
FreeFails(i) ==
    /\ pc = "idle"
    /\ "ioerr" \in Faults
    /\ i \in held \ {ROOT_INODE_NUM}
    /\ held' = held \ {i}
    /\ UNCHANGED <<i_allocated, s_first_ino, disk_first_ino, pc, cursor>>

ReturnFreed ==
    /\ pc = "freed"
    /\ s_first_ino' = IF inum < s_first_ino THEN inum ELSE s_first_ino
    /\ altfs_write_superblock(s_first_ino')
    /\ pc' = "idle"
    /\ UNCHANGED <<i_allocated, cursor, held>>

-----------------------------------------------------------------------------
(* load_superblock, at the mount that follows a crash *)

CrashAndMount ==
    /\ "crash" \in Faults
    /\ s_first_ino' = disk_first_ino
    /\ pc' = "idle"
    /\ UNCHANGED <<i_allocated, disk_first_ino, cursor, held>>

-----------------------------------------------------------------------------

\* The steps of a call that is under way.
Step ==
    \/ LookAtInode
    \/ LookAtNextBlock
    \/ SearchEnds
    \/ ReturnInode
    \/ ReturnFreed

Next ==
    \/ MarkAllocated
    \/ \E i \in Inode : MarkFree(i)
    \/ \E i \in Inode : FreeFails(i)
    \/ Step
    \/ CrashAndMount

\* A call that was started runs to its end, unless the process dies.
Spec == Init /\ [][Next]_vars /\ WF_vars(Step)

-----------------------------------------------------------------------------
(* Properties *)

\* allocate_inode never works on an inode that belongs to an existing file,
\* whatever crashed or failed before: the flag on disk, not the remembered
\* number, decides.
NeverReissued == pc \in {"search", "allocated"} => inum \notin held

FreeInodes == {i \in Inode : i >= FIRST_INO /\ ~ i_allocated[i]}

\* Between calls the superblock remembers the lowest free inode, or that there
\* is none; so allocate_inode finds a number as long as there is one.
FirstInoIsLeastFree ==
    pc = "idle" =>
        /\ \A i \in FreeInodes : s_first_ino <= i
        /\ s_first_ino = s_inodes_count \/ s_first_ino \in FreeInodes
        /\ disk_first_ino = s_first_ino

\* Between calls every marked inode belongs to an existing file: none leaks.
NoInodeLeaked == pc = "idle" => held = {i \in Inode : i_allocated[i]}

\* Both search loops end: every call comes back.
CallsReturn == (pc # "idle") ~> (pc = "idle")
=============================================================================
