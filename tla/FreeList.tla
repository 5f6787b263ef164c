------------------------------ MODULE FreeList ------------------------------
(***************************************************************************)
(* The data-block allocator: the free list that mkfs lays out on disk      *)
(* (superblock_layer.c) and the operations that hand blocks out and take   *)
(* them back (data_block_ops.c).                                           *)
(*                                                                         *)
(* The free list is a chain of index blocks that are free themselves.      *)
(* Word 0 of an index block is the next index block, every other word is   *)
(* a free block or 0.  The superblock holds the first index block.  A      *)
(* block is a function from word positions to words, because the list is   *)
(* read back from blocks whose content is whatever was last written there. *)
(*                                                                         *)
(* The program is single threaded, so an operation is one step; the steps  *)
(* that a crash cuts short are the Crash actions.  Each operation that     *)
(* moves the list head writes the superblock before it returns, so the     *)
(* superblock in memory and the one on disk are a single variable.         *)
(* Early returns that change nothing are stuttering steps.                 *)
(***************************************************************************)
EXTENDS Integers

CONSTANTS
    INODE_BLOCK_COUNT,            \* blocks 1..INODE_BLOCK_COUNT hold inodes
    BLOCK_COUNT,                  \* blocks on the device; block 0: superblock
    NUM_OF_ADDRESSES_PER_BLOCK,   \* words per block
    UserWords,                    \* words clients store in their blocks
    MayCrash                      \* whether the process may die in an allocation

NUM_OF_DATA_BLOCKS == BLOCK_COUNT - INODE_BLOCK_COUNT - 1

NUM_OF_FREE_LIST_BLOCKS ==
    NUM_OF_DATA_BLOCKS \div NUM_OF_ADDRESSES_PER_BLOCK + 1

DataBlock == (INODE_BLOCK_COUNT + 1)..(BLOCK_COUNT - 1)

Position == 0..(NUM_OF_ADDRESSES_PER_BLOCK - 1)

Slot == Position \ {0}

Word == 0..BLOCK_COUNT

\* The layout mkfs accepts.  It writes NUM_OF_FREE_LIST_BLOCKS index blocks,
\* NUM_OF_ADDRESSES_PER_BLOCK apart; when that distance divides the data area
\* the last one lies beyond the device and mkfs fails.
ASSUME LayoutAssumption ==
    /\ INODE_BLOCK_COUNT \in Nat
    /\ BLOCK_COUNT \in Nat
    /\ NUM_OF_ADDRESSES_PER_BLOCK \in Nat
    /\ NUM_OF_ADDRESSES_PER_BLOCK >= 2
    /\ NUM_OF_DATA_BLOCKS > 0
    /\ NUM_OF_DATA_BLOCKS % NUM_OF_ADDRESSES_PER_BLOCK # 0

\* What a client stores can look like any number; those that name an inode block
\* are left out, because the contents of inode blocks are not part of this model.
ASSUME ClientAssumption ==
    /\ UserWords \subseteq DataBlock \cup {0, BLOCK_COUNT}
    /\ MayCrash \in BOOLEAN

VARIABLES
    s_freelist_head,   \* altfs_superblock->s_freelist_head, in memory and on disk
    block,             \* contents of the data blocks
    uses               \* how many times a block number is held by clients

vars == <<s_freelist_head, block, uses>>

TypeOK ==
    /\ s_freelist_head \in Word
    /\ block \in [DataBlock -> [Position -> Word]]
    /\ uses \in [Word -> Nat]

-----------------------------------------------------------------------------
(* mkfs *)

Filled(w) == [i \in Position |-> w]

\* The block the i-th turn of the layout loop turns into an index block.
IndexBlock(i) == INODE_BLOCK_COUNT + 1 + i * NUM_OF_ADDRESSES_PER_BLOCK

InitialIndex == {IndexBlock(i) : i \in 0..(NUM_OF_FREE_LIST_BLOCKS - 1)}

\* Mutant: no test for the end of the device.
OnDevice_unchecked(b) == b

OnDevice(b) == IF b >= BLOCK_COUNT THEN 0 ELSE b

\* Word j of index block b points j blocks further, word 0 to the next index
\* block; a pointer past the end of the device is stored as 0.
altfs_create_freelist(b) ==
    [j \in Position |-> IF j = 0
                        THEN OnDevice(b + NUM_OF_ADDRESSES_PER_BLOCK)
                        ELSE OnDevice(b + j)]

\* Formatting without erasing leaves old data in the blocks it does not write.
Init ==
    /\ s_freelist_head = INODE_BLOCK_COUNT + 1
    /\ \E w \in UserWords \cup {0} :
          block = [b \in DataBlock |-> IF b \in InitialIndex
                                       THEN altfs_create_freelist(b)
                                       ELSE Filled(w)]
    /\ uses = [b \in Word |-> 0]

-----------------------------------------------------------------------------
(* allocate_data_block *)

\* altfs_read_block refuses a head outside the device; 0 means "no free block".
HeadReadable == s_freelist_head \in DataBlock

HeadWords == block[s_freelist_head]

\* The loop takes the first slot that holds a block number.
FirstUsed(w, i) == w[i] # 0 /\ \A j \in Slot : j < i => w[j] = 0

NoneUsed(w) == \A i \in Slot : w[i] = 0

\* altfs_write_block of zeros; a number outside the device is refused and the
\* refusal is ignored.
Zeroed(blk, b) == [c \in DOMAIN blk |-> IF c = b THEN Filled(0) ELSE blk[c]]

HandOut(b) == uses' = [uses EXCEPT ![b] = @ + 1]

\* allocate_data_block finds a free block number in a slot of the head block.
AllocateFromSlot(i) ==
    /\ HeadReadable
    /\ FirstUsed(HeadWords, i)
    /\ block' = Zeroed([block EXCEPT ![s_freelist_head][i] = 0], HeadWords[i])
    /\ HandOut(HeadWords[i])
    /\ UNCHANGED s_freelist_head

\* Mutant: the superblock keeps the head block that was handed out.
AllocateHead_keeps_head ==
    /\ HeadReadable
    /\ NoneUsed(HeadWords)
    /\ block' = Zeroed(block, s_freelist_head)
    /\ HandOut(s_freelist_head)
    /\ UNCHANGED s_freelist_head

\* allocate_data_block finds no slot in use and hands out the head block.
AllocateHead ==
    /\ HeadReadable
    /\ NoneUsed(HeadWords)
    /\ s_freelist_head' = HeadWords[0]
    /\ block' = Zeroed(block, s_freelist_head)
    /\ HandOut(s_freelist_head)

\* The process dies after the head block was written and before the caller
\* has the block number; the file system is mounted again.
CrashInAllocateFromSlot(i) ==
    /\ MayCrash
    /\ HeadReadable
    /\ FirstUsed(HeadWords, i)
    /\ block' = [block EXCEPT ![s_freelist_head][i] = 0]
    /\ UNCHANGED <<s_freelist_head, uses>>

\* The process dies after the superblock was written, before or after the old
\* head block was.
CrashInAllocateHead ==
    /\ MayCrash
    /\ HeadReadable
    /\ NoneUsed(HeadWords)
    /\ s_freelist_head' = HeadWords[0]
    /\ block' \in {block, [block EXCEPT ![s_freelist_head][0] = 0]}
    /\ UNCHANGED uses

-----------------------------------------------------------------------------
(* free_data_block *)

FirstEmpty(w, i) == w[i] = 0 /\ \A j \in Slot : j < i => w[j] # 0

NoneEmpty(w) == \A i \in Slot : w[i] # 0

\* With no free block left, the freed block becomes the head, its content as
\* the client left it.
HeadForFree(b) == IF s_freelist_head = 0 THEN b ELSE s_freelist_head

TakeBack(b) == uses' = [uses EXCEPT ![b] = @ - 1]

\* free_data_block records the block in the first empty slot of the head block.
FreeIntoSlot(b, i) ==
    /\ uses[b] > 0
    /\ HeadForFree(b) \in DataBlock
    /\ FirstEmpty(block[HeadForFree(b)], i)
    /\ s_freelist_head' = HeadForFree(b)
    /\ block' = [block EXCEPT ![HeadForFree(b)][i] = b]
    /\ TakeBack(b)

\* Mutant: the new head does not point to the old one.
FreeAsHead_drops_rest(b) ==
    /\ uses[b] > 0
    /\ HeadForFree(b) \in DataBlock
    /\ NoneEmpty(block[HeadForFree(b)])
    /\ s_freelist_head' = b
    /\ block' = [block EXCEPT ![b] = Filled(0)]
    /\ TakeBack(b)

\* Mutant: the new head keeps what the client stored in it.
FreeAsHead_keeps_content(b) ==
    /\ uses[b] > 0
    /\ HeadForFree(b) \in DataBlock
    /\ NoneEmpty(block[HeadForFree(b)])
    /\ s_freelist_head' = b
    /\ block' = [block EXCEPT ![b][0] = HeadForFree(b)]
    /\ TakeBack(b)

\* free_data_block finds the head block full: the freed block becomes the new
\* head and points to the old one.
FreeAsHead(b) ==
    /\ uses[b] > 0
    /\ HeadForFree(b) \in DataBlock
    /\ NoneEmpty(block[HeadForFree(b)])
    /\ s_freelist_head' = b
    /\ block' = [block EXCEPT ![b] = [Filled(0) EXCEPT ![0] = HeadForFree(b)]]
    /\ TakeBack(b)

-----------------------------------------------------------------------------
(* write_data_block, by a client that holds the block *)

write_data_block(b, w) ==
    /\ uses[b] > 0
    /\ block' = [block EXCEPT ![b] = Filled(w)]
    /\ UNCHANGED <<s_freelist_head, uses>>

-----------------------------------------------------------------------------

Next ==
    \/ \E i \in Slot : AllocateFromSlot(i)
    \/ AllocateHead
    \/ \E i \in Slot : CrashInAllocateFromSlot(i)
    \/ CrashInAllocateHead
    \/ \E b \in DataBlock, i \in Slot : FreeIntoSlot(b, i)
    \/ \E b \in DataBlock : FreeAsHead(b)
    \/ \E b \in DataBlock, w \in UserWords : write_data_block(b, w)

\* The allocator under every workload.
Spec == Init /\ [][Next]_vars

\* The allocator under the workloads that never take the last free block.
NextNeverFull == Next /\ s_freelist_head' # 0

SpecNeverFull == Init /\ [][NextNeverFull]_vars

-----------------------------------------------------------------------------
(* Properties *)

\* The numbers the free list holds when idx are its index blocks: no block is
\* listed twice, none is held by a client, none lies outside the data area.
ListedOnce(idx) ==
    /\ s_freelist_head \in idx
    /\ \A h \in idx : uses[h] = 0
    /\ \A h \in idx : block[h][0] # 0 => block[h][0] \in idx \ {s_freelist_head}
    /\ \A g, h \in idx : block[g][0] = block[h][0] /\ block[g][0] # 0 => g = h
    /\ \A h \in idx, i \in Slot :
          block[h][i] # 0 => /\ block[h][i] \in DataBlock \ idx
                             /\ uses[block[h][i]] = 0
    /\ \A g, h \in idx, i, j \in Slot :
          block[g][i] = block[h][j] /\ block[g][i] # 0 => g = h /\ i = j

\* Whatever clients wrote into blocks before they freed them, the list that
\* allocate_data_block will walk from the superblock holds only data blocks that
\* nobody uses, each in one place.
FreeListSound == \E idx \in SUBSET DataBlock : ListedOnce(idx)

\* allocate_data_block never hands out a block that a client still holds.
NoDoubleAllocation == \A b \in Word : uses[b] <= 1

\* Q holds the head of the list and the next index block of each of its members.
HoldsChain(Q) ==
    /\ s_freelist_head \in DataBlock => s_freelist_head \in Q
    /\ \A h \in Q : block[h][0] \in DataBlock => block[h][0] \in Q

\* The index blocks that can be reached from the superblock.
Chain ==
    LET candidates == {Q \in SUBSET DataBlock : HoldsChain(Q)}
    IN {h \in DataBlock : \A Q \in candidates : h \in Q}

Listed ==
    LET chain == Chain
    IN chain \cup {block[h][i] : h \in chain, i \in Slot}

Accounted == DataBlock \cap (Listed \cup {b \in DataBlock : uses[b] > 0})

Crash == CrashInAllocateHead \/ \E i \in Slot : CrashInAllocateFromSlot(i)

\* Only a crash can lose a block: every data block is held by a client or can be
\* reached from the superblock, and stays so in every step of allocate_data_block
\* and free_data_block that is not cut short; so clients can fill the device
\* after any history of the two.
NothingLost ==
    /\ Accounted = DataBlock
    /\ [][Crash \/ Accounted \subseteq Accounted']_vars

\* The allocator implements the pool that the layers above rely on.
Pool == INSTANCE BlockPool WITH Blocks <- Word
ImplementsPool == Pool!Spec
=============================================================================
