------------------------------- MODULE FileIO -------------------------------
(***************************************************************************)
(* Reading, writing and truncating files (interface_layer.c): the          *)
(* arithmetic from byte offsets to parts of blocks, blocks that are        *)
(* appended until there are none left or the file has its limit, and the   *)
(* inode that a call reads first and writes back last.                     *)
(*                                                                         *)
(* As in Tree, a call is a function of the disk: its result is the disk it *)
(* leaves, what it returns, and the cuts a crash can leave.                *)
(*                                                                         *)
(* A file is named by its inode; Tree has the names.  The map from a       *)
(* file's blocks to disk blocks is a sequence; BlockMap has the index      *)
(* blocks and InodeTable the inodes.  In which order the free list hands   *)
(* its blocks out is left open; FreeList has it.  Files have write         *)
(* permission: altfs_write does not ask for it and the other calls change  *)
(* nothing without it.                                                     *)
(***************************************************************************)
EXTENDS Integers, Sequences, Functions

CONSTANTS
    BLOCK_SIZE,
    File,           \* inodes
    Block,          \* data blocks
    MaxBlocks,      \* the blocks an inode can have, add_datablock_to_inode's limit
    Byte,           \* the values of a byte
    Data,           \* what callers write
    Offset,         \* where they read and write, and the lengths they truncate to
    Orders(_),      \* the orders in which a set of free blocks may be handed out
    OpenTruncates   \* whether a file with contents is opened with O_TRUNC

ASSUME FileAssumption ==
    /\ BLOCK_SIZE \in Nat \ {0} /\ MaxBlocks \in Nat
    /\ Block \subseteq Nat \ {0}
    /\ 0 \in Byte /\ Data \subseteq Seq(Byte) \ {<< >>}
    /\ Offset \subseteq Nat
    /\ OpenTruncates \in BOOLEAN

\* allocate_data_block hands out free blocks, each once, until there is none.
ASSUME OrdersAssumption ==
    \A free \in SUBSET Block :
        \A order \in Orders(free) :
            order \in Seq(free) /\ IsInjective(order) /\ Range(order) = free

VARIABLES
    disk,       \* inodes, the bytes of data blocks, and the free data blocks
    returned,   \* what the last call returned
    history     \* what happened so far that the guarantees depend on

vars == <<disk, returned, history>>

Zeros == [o \in 0..(BLOCK_SIZE - 1) |-> 0]

Unused == [i_allocated |-> FALSE, i_file_size |-> 0, i_blocks |-> << >>]

\* What create_new_file writes.
New == [Unused EXCEPT !.i_allocated = TRUE]

Inode == [i_allocated : BOOLEAN, i_file_size : Nat, i_blocks : Seq(Block)]

Disk == [inode : [File -> Inode],
         block : [Block -> [0..(BLOCK_SIZE - 1) -> Byte]],
         free : SUBSET Block]

TypeOK ==
    /\ disk \in Disk
    /\ returned \in Int
    /\ history \subseteq {"crash", "hole", "limit"}

-----------------------------------------------------------------------------
(* Reading *)

LastBlock(offset, n) == (offset + n - 1) \div BLOCK_SIZE    \* the last block of n bytes at offset

\* The bytes of block l that n bytes from offset on cover, as first and last byte.
FirstIn(l, offset) == IF l = offset \div BLOCK_SIZE THEN offset % BLOCK_SIZE ELSE 0
LastIn(l, offset, n) ==
    IF l = LastBlock(offset, n) THEN (offset + n - 1) % BLOCK_SIZE ELSE BLOCK_SIZE - 1

\* The bytes that are copied before block l.
CopiedBefore(offset, n) ==
    LET first == offset \div BLOCK_SIZE
        sum[l \in first..(LastBlock(offset, n) + 1)] ==
            IF l = first
            THEN 0
            ELSE sum[l - 1] + LastIn(l - 1, offset, n) - FirstIn(l - 1, offset) + 1
    IN sum

\* Mutant: a read goes on behind the end.
Available_always(node, offset, nbytes) == nbytes

\* How many of nbytes from offset on the file has.
Available(node, offset, nbytes) ==
    IF offset + nbytes > node.i_file_size THEN node.i_file_size - offset ELSE nbytes

\* altfs_read: block by block.  Reading at or behind the end, or where the file
\* has no block, is an error.
altfs_read(d, f, offset, nbytes) ==
    LET node == d.inode[f]
        n == Available(node, offset, nbytes)
        blocks == (offset \div BLOCK_SIZE)..LastBlock(offset, n)
        before == CopiedBefore(offset, n)
        part(l) == [k \in 1..(LastIn(l, offset, n) - FirstIn(l, offset) + 1) |->
                        d.block[node.i_blocks[l + 1]][FirstIn(l, offset) + k - 1]]
        block_of(k) == CHOOSE l \in blocks : before[l] < k /\ k <= before[l] + Len(part(l))
    IN IF nbytes = 0 \/ node.i_file_size = 0
       THEN << >>
       ELSE IF offset >= node.i_file_size \/ LastBlock(offset, n) >= Len(node.i_blocks)
       THEN <<-1>>
       ELSE [k \in 1..before[LastBlock(offset, n) + 1] |-> part(block_of(k))[k - before[block_of(k)]]]

-----------------------------------------------------------------------------
(* Writing *)

\* The disk after data was copied to the blocks up to last of those given.
Copied(d, blocks, offset, data, last) ==
    LET n == Len(data)
        first == offset \div BLOCK_SIZE
        before == CopiedBefore(offset, n)
        index(b) == CHOOSE l \in first..last : blocks[l + 1] = b
        copied(l, old) ==
            [o \in DOMAIN old |->
                IF o >= FirstIn(l, offset) /\ o <= LastIn(l, offset, n)
                THEN data[before[l] + o - FirstIn(l, offset) + 1]
                ELSE old[o]]
        touched == {blocks[l + 1] : l \in first..last}
    IN [d EXCEPT !.block = [b \in Block |->
            IF b \in touched THEN copied(index(b), d.block[b]) ELSE d.block[b]]]

\* Mutant: blocks are handed out with what they held.
Allocated_uncleared(d, order, k) == [d EXCEPT !.free = @ \ Range(SubSeq(order, 1, k))]

\* The disk after k calls of allocate_data_block, which clears what it hands out.
Allocated(d, order, k) ==
    LET taken == Range(SubSeq(order, 1, k))
    IN [d EXCEPT !.free = @ \ taken,
                 !.block = [b \in Block |-> IF b \in taken THEN Zeros ELSE d.block[b]]]

LeastOf(a, b) == IF a < b THEN a ELSE b

\* altfs_write, for a file that exists, when the free blocks are handed out in
\* the given order.  First the blocks the file has are
\* written, then blocks are appended up to the last one the data needs, those in
\* front of the data too.  The inode is written at the end.
altfs_write(d, order, f, offset, data) ==
    LET node == d.inode[f]
        last == LastBlock(offset, Len(data))
        have == Len(node.i_blocks)
        new == IF last >= have THEN last - have + 1 ELSE 0      \* new_blocks_to_be_added
        allocated == LeastOf(LeastOf(new, Len(order)), MaxBlocks - have + 1)
        added == LeastOf(allocated, MaxBlocks - have)
        blocks == node.i_blocks \o SubSeq(order, 1, added)
        reached == LeastOf(last, have + added - 1)
        bytes_written == IF reached < offset \div BLOCK_SIZE THEN 0
                         ELSE CopiedBefore(offset, Len(data))[reached + 1]
        inplace(l) == Copied(d, node.i_blocks, offset, data, l)
        written == Copied(Allocated(d, order, allocated), blocks, offset, data, reached)
        end == offset + bytes_written
        size == IF end > node.i_file_size THEN end ELSE node.i_file_size
    IN [returned |-> bytes_written,
        lost |-> allocated > added,
        hole |-> bytes_written = 0 /\ offset > node.i_file_size,
        disk |-> [written EXCEPT !.inode[f] = [node EXCEPT !.i_blocks = blocks,
                                                           !.i_file_size = size]],
        cuts |-> {inplace(l) : l \in (offset \div BLOCK_SIZE)..LeastOf(last, have - 1)}
                 \cup {Allocated(inplace(LeastOf(last, have - 1)), order, k) : k \in 1..allocated}]

-----------------------------------------------------------------------------
(* Truncating *)

Result(d, value) == [disk |-> d, returned |-> value, lost |-> FALSE, hole |-> FALSE]

\* Mutants: the rest is left as it is; a byte too many is cleared.
Cleared_not(bytes, from) == bytes
Cleared_past(bytes, from) ==
    [o \in 0..BLOCK_SIZE |-> IF o >= from THEN 0 ELSE bytes[o]]

\* The bytes of a block with those from a byte on cleared.
Cleared(bytes, from) == [o \in DOMAIN bytes |-> IF o >= from THEN 0 ELSE bytes[o]]

\* The blocks that a truncation keeps.
Kept(length) == IF length = 0 THEN 0 ELSE LastBlock(0, length) + 1

Behind(node, length) == Range(SubSeq(node.i_blocks, Kept(length) + 1, Len(node.i_blocks)))

\* Mutants: no block is removed; the inode keeps what was freed.
Shrunk_size_only(d, f, length) == [d EXCEPT !.inode[f].i_file_size = length]
Shrunk_keeps_blocks(d, f, length) ==
    [d EXCEPT !.inode[f].i_file_size = length, !.free = @ \cup Behind(d.inode[f], length)]

\* The disk after a file was cut to a length it has: the blocks behind are freed
\* and the rest of the last one is cleared.
Shrunk(d, f, length) ==
    LET node == d.inode[f]
        last == node.i_blocks[Kept(length)]
    IN [inode |-> [d.inode EXCEPT ![f] = [node EXCEPT !.i_blocks = SubSeq(@, 1, Kept(length)),
                                                      !.i_file_size = length]],
        block |-> IF length = 0 THEN d.block
                  ELSE [d.block EXCEPT ![last] = Cleared(@, ((length - 1) % BLOCK_SIZE) + 1)],
        free |-> d.free \cup Behind(node, length)]

\* altfs_truncate of a file with write permission.  A longer file is one that
\* zeros were written to.
altfs_truncate(d, order, f, length) ==
    LET node == d.inode[f]
        missing == length - node.i_file_size
        extended == altfs_write(d, order, f, node.i_file_size, [i \in 1..missing |-> 0])
    IN IF length = 0 /\ node.i_file_size = 0
       THEN Result(d, 0)
       ELSE IF length > node.i_file_size
       THEN [extended EXCEPT !.returned = IF @ = missing THEN 0 ELSE -1]
       ELSE IF length > 0 /\ LastBlock(0, length) >= Len(node.i_blocks)
       THEN Result(d, -1)
       ELSE Result(Shrunk(d, f, length), 0)

\* altfs_open of an existing file with write permission and O_TRUNC: the inode read before the
\* truncation is written back after it.  This truncation needs no block.
altfs_open(d, f) ==
    LET node == d.inode[f]
        truncated == altfs_truncate(d, << >>, f, 0)
    IN Result([truncated.disk EXCEPT !.inode[f] = node], 0)

-----------------------------------------------------------------------------
(* The calls as steps *)

Init ==
    /\ disk = [inode |-> [f \in File |-> Unused], block |-> [b \in Block |-> Zeros],
               free |-> Block]
    /\ returned = 0
    /\ history = {}

Exists(f) == disk.inode[f].i_allocated

\* A hole that cannot be filled leaves a file that is longer although nothing
\* was written, and that may not have the blocks for its size; a block that the
\* inode has no room for is lost.
Does(call) ==
    /\ disk' = call.disk
    /\ returned' = call.returned
    /\ history' = history \cup {label \in {"hole", "limit"} :
                                   \/ label = "hole" /\ call.hole
                                   \/ label = "limit" /\ call.lost}

Create(f) ==
    /\ ~ Exists(f)
    /\ disk' = [disk EXCEPT !.inode[f] = New]
    /\ returned' = 0
    /\ UNCHANGED history

\* Mutant: the data blocks are forgotten.
Unlink_inode_only(f) ==
    /\ Exists(f)
    /\ disk' = [disk EXCEPT !.inode[f] = Unused]
    /\ returned' = 0
    /\ UNCHANGED history

\* free_inode, when the only name goes.
Unlink(f) ==
    /\ Exists(f)
    /\ disk' = [disk EXCEPT !.free = @ \cup Range(disk.inode[f].i_blocks), !.inode[f] = Unused]
    /\ returned' = 0
    /\ UNCHANGED history

Write(f, offset, data) ==
    /\ Exists(f)
    /\ \E order \in Orders(disk.free) : Does(altfs_write(disk, order, f, offset, data))

Truncate(f, length) ==
    /\ Exists(f)
    /\ \E order \in Orders(disk.free) : Does(altfs_truncate(disk, order, f, length))

OpenAndTruncate(f) ==
    /\ Exists(f)
    /\ OpenTruncates \/ disk.inode[f].i_file_size = 0
    /\ Does(altfs_open(disk, f))

CrashInWrite(f, offset, data) ==
    /\ Exists(f)
    /\ \E order \in Orders(disk.free) :
          disk' \in altfs_write(disk, order, f, offset, data).cuts
    /\ history' = history \cup {"crash"}
    /\ UNCHANGED returned

Next ==
    \E f \in File :
        \/ Create(f)
        \/ Unlink(f)
        \/ OpenAndTruncate(f)
        \/ \E length \in Offset : Truncate(f, length)
        \/ \E offset \in Offset, data \in Data :
              \/ Write(f, offset, data)
              \/ CrashInWrite(f, offset, data)

Spec == Init /\ [][Next]_vars

-----------------------------------------------------------------------------
(* Properties *)

Owned(f) == Range(disk.inode[f].i_blocks)

\* No data block is in two files, twice in one, or in a file and free, however
\* writes fail, truncations shrink and crashes cut.
OnlyOwnBlocks ==
    \A f \in File :
        /\ Owned(f) \cap disk.free = {}
        /\ IsInjective(disk.inode[f].i_blocks)
        /\ \A g \in File \ {f} : Owned(f) \cap Owned(g) = {}

\* A file has exactly the blocks its size needs, unless a write behind the end
\* ran out of blocks before it came to its data.
SizeMatchesBlocks ==
    "hole" \notin history =>
        \A f \in File :
            LET size == disk.inode[f].i_file_size
            IN Len(disk.inode[f].i_blocks) = IF size = 0 THEN 0 ELSE LastBlock(0, size) + 1

\* Blocks are lost only by crashes and by a write beyond what an inode can hold.
BlocksAccounted ==
    history \subseteq {"hole"} => Block = disk.free \cup UNION {Owned(f) : f \in File}

\* "Truncate if required": a file opened with O_TRUNC is empty afterwards, and no
\* block it has is free.
OpenTruncatesFile ==
    \A f \in File :
        Exists(f) => LET d == altfs_open(disk, f).disk
                     IN /\ d.inode[f].i_file_size = 0
                        /\ Range(d.inode[f].i_blocks) \cap d.free = {}

\* The byte at place i of a file, counted from 1.
ByteAt(f, i) == disk.block[disk.inode[f].i_blocks[LastBlock(0, i) + 1]][(i - 1) % BLOCK_SIZE]

\* Behind the end of a file its last blocks hold zeros, which is what a later
\* write behind the end relies on when it leaves a hole.
TailsClear ==
    \A f \in File :
        \A i \in (disk.inode[f].i_file_size + 1)..(BLOCK_SIZE * Len(disk.inode[f].i_blocks)) :
            ByteAt(f, i) = 0

\* Only a crash can spoil that.
TailsClearUnlessCrashed == "crash" \notin history => TailsClear

Contents == [f \in File |-> [i \in 1..disk.inode[f].i_file_size |-> ByteAt(f, i)]]

\* altfs_read, copying block by block, returns the bytes of the file from the
\* offset on, as many as asked for or as there are.
ReadReturnsContents ==
    "hole" \notin history =>
        \A f \in File, offset \in Offset, nbytes \in Offset :
            LET size == disk.inode[f].i_file_size
            IN offset < size =>
                  altfs_read(disk, f, offset, nbytes)
                    = SubSeq(Contents[f], offset + 1, LeastOf(offset + nbytes, size))

FS == INSTANCE FileSpec WITH content <- Contents

FSNext ==
    \E f \in File :
        \/ FS!Remove(f)
        \/ \E length \in Offset : FS!Truncate(f, length)
        \/ \E offset \in Offset, data \in Data :
              FS!Write(f, offset, data) \/ FS!Torn(f, offset, data)

\* The calls implement files as byte sequences: a write, split into blocks, puts
\* down exactly the bytes it says it wrote and nothing else, a truncation cuts or
\* fills up with zeros, and a crash changes nothing but what was being written.
\* Excepted are files whose hole was not filled or whose tail a crash has spoilt.
ImplementsFiles ==
    /\ FS!Init
    /\ [][TailsClear /\ "hole" \notin history' => [FSNext]_<<Contents, returned>>]_vars
=============================================================================
