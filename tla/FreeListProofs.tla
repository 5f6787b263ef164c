--------------------------- MODULE FreeListProofs ---------------------------
(***************************************************************************)
(* The allocator is sound for every device layout: the free list holds     *)
(* unused data blocks only, each once, so no block is handed out twice, as *)
(* long as the device never fills up completely; crashes in the middle of  *)
(* an allocation included.                                                 *)
(***************************************************************************)
EXTENDS FreeList, NaturalFacts

A == NUM_OF_ADDRESSES_PER_BLOCK

Base == INODE_BLOCK_COUNT + 1

Last == NUM_OF_DATA_BLOCKS \div A

-----------------------------------------------------------------------------
(* The layout that mkfs writes *)

\* NUM_OF_FREE_LIST_BLOCKS counts the index blocks that lie on the device: the
\* last one is Last * A blocks into the data area.
LEMMA LastIndexBlock ==
    /\ A \in Nat /\ A >= 2
    /\ Base \in Nat /\ Base >= 1
    /\ Last \in Nat
    /\ NUM_OF_DATA_BLOCKS \in Nat
    /\ BLOCK_COUNT = Base + NUM_OF_DATA_BLOCKS
    /\ Last * A < NUM_OF_DATA_BLOCKS
    /\ NUM_OF_DATA_BLOCKS < Last * A + A
<1>1. /\ A \in Nat /\ A >= 2
      /\ NUM_OF_DATA_BLOCKS \in Nat
      /\ NUM_OF_DATA_BLOCKS % A # 0
  BY LayoutAssumption DEF A, NUM_OF_DATA_BLOCKS
<1>2. /\ Last \in Nat
      /\ NUM_OF_DATA_BLOCKS % A \in 0..(A - 1)
      /\ NUM_OF_DATA_BLOCKS = Last * A + (NUM_OF_DATA_BLOCKS % A)
  BY <1>1, DivMod DEF Last
<1>3. Last * A \in Nat
  BY <1>1, <1>2
<1>4. Base \in Nat /\ Base >= 1 /\ BLOCK_COUNT = Base + NUM_OF_DATA_BLOCKS
  BY LayoutAssumption DEF Base, NUM_OF_DATA_BLOCKS
<1> QED
  BY <1>1, <1>2, <1>3, <1>4

\* The index blocks are data blocks, and Base is the first of them.
LEMMA IndexBlocksOnDevice ==
    /\ InitialIndex \subseteq DataBlock
    /\ Base \in InitialIndex
    /\ \A h \in InitialIndex : \E i \in 0..Last : h = Base + i * A
    /\ \A i \in 0..Last : Base + i * A \in InitialIndex
<1> USE LastIndexBlock
<1>1. InitialIndex = {Base + i * A : i \in 0..Last}
  BY DEF InitialIndex, IndexBlock, Base, A, Last, NUM_OF_FREE_LIST_BLOCKS
<1>2. \A i \in 0..Last : i * A \in Nat /\ i * A <= Last * A
  <2>1. TAKE i \in 0..Last
  <2>2. CASE i = Last
    BY <2>2
  <2>3. CASE i < Last
    BY <2>3, MultiplesApart
  <2> QED
    BY <2>2, <2>3
<1>3. DataBlock = Base..(BLOCK_COUNT - 1)
  BY DEF DataBlock, Base
<1>4. InitialIndex \subseteq DataBlock
  BY <1>1, <1>2, <1>3
<1>5. Base + 0 * A = Base /\ 0 \in 0..Last
  OBVIOUS
<1> QED
  BY <1>1, <1>4, <1>5

\* The distance between two index blocks is a multiple of A.
LEMMA IndexBlocksApart ==
    ASSUME NEW g \in InitialIndex, NEW h \in InitialIndex
    PROVE  /\ g \in Int /\ h \in Int
           /\ g < h => g + A <= h
<1> USE LastIndexBlock
<1>1. PICK i \in 0..Last : g = Base + i * A
  BY IndexBlocksOnDevice
<1>2. PICK k \in 0..Last : h = Base + k * A
  BY IndexBlocksOnDevice
<1>3. CASE i < k
  BY <1>1, <1>2, <1>3, MultiplesApart
<1>4. CASE k < i
  BY <1>1, <1>2, <1>4, MultiplesApart
<1>5. CASE i = k
  <2>1. g = h
    BY <1>1, <1>2, <1>5
  <2>2. i * A \in Nat
    OBVIOUS
  <2> QED
    BY <1>1, <2>1, <2>2
<1> QED
  BY <1>3, <1>4, <1>5

\* An index block that has a successor on the device points to an index block.
LEMMA NextIndexBlock ==
    ASSUME NEW h \in InitialIndex, h + A < BLOCK_COUNT
    PROVE  h + A \in InitialIndex
<1> USE LastIndexBlock
<1>1. PICK i \in 0..Last : h = Base + i * A
  BY IndexBlocksOnDevice
<1>2. i * A \in Nat
  OBVIOUS
<1>3. (i + 1) * A = i * A + A
  BY <1>2
<1>4. i + 1 \in 0..Last
  <2>1. SUFFICES ASSUME i = Last PROVE FALSE
    OBVIOUS
  <2> QED
    BY <1>1, <1>2, <2>1
<1>5. h + A = Base + (i + 1) * A
  BY <1>1, <1>2, <1>3
<1> QED
  BY <1>4, <1>5, IndexBlocksOnDevice

-----------------------------------------------------------------------------
(* The inductive invariant *)

\* ListedOnce talks about the words of the index blocks only; it is inductive
\* together with the types and with the fact that nobody holds a block twice.
IInv ==
    /\ TypeOK
    /\ NoDoubleAllocation
    /\ FreeListSound

\* Layout facts that the steps use.
LEMMA Layout ==
    /\ DataBlock \subseteq Word
    /\ 0 \notin DataBlock
    /\ 0 \in Word
    /\ 0 \in Position
    /\ Slot \subseteq Position
    /\ 0 \notin Slot
    /\ Position \subseteq Int
    /\ Word \subseteq Nat
    /\ UserWords \subseteq Word
BY LayoutAssumption, ClientAssumption
   DEF DataBlock, Word, Position, Slot, NUM_OF_DATA_BLOCKS

\* mkfs establishes the invariant.
LEMMA InitIInv == Init => IInv
<1> SUFFICES ASSUME Init PROVE IInv
  OBVIOUS
<1> USE LastIndexBlock
<1>1. PICK w \in UserWords \cup {0} :
        block = [b \in DataBlock |-> IF b \in InitialIndex
                                     THEN altfs_create_freelist(b)
                                     ELSE Filled(w)]
  BY DEF Init
<1>2. Position = 0..(A - 1) /\ Slot = 1..(A - 1)
  BY DEF Position, Slot, A
<1>3. DataBlock = Base..(BLOCK_COUNT - 1) /\ Word = 0..BLOCK_COUNT
  BY DEF DataBlock, Word, Base
<1>4. \A h \in InitialIndex, j \in Slot :
        block[h][j] = IF h + j >= BLOCK_COUNT THEN 0 ELSE h + j
  BY <1>1, IndexBlocksOnDevice, Layout DEF altfs_create_freelist, OnDevice
<1>5. \A h \in InitialIndex :
        block[h][0] = IF h + A >= BLOCK_COUNT THEN 0 ELSE h + A
  BY <1>1, IndexBlocksOnDevice, Layout DEF altfs_create_freelist, OnDevice, A
<1>6. s_freelist_head = Base /\ uses = [b \in Word |-> 0]
  BY DEF Init, Base
<1>7. TypeOK
  <2>1. \A h \in InitialIndex : altfs_create_freelist(h) \in [Position -> Word]
    BY <1>2, <1>3, IndexBlocksOnDevice DEF altfs_create_freelist, OnDevice, A
  <2>2. Filled(w) \in [Position -> Word]
    BY Layout DEF Filled
  <2>3. block \in [DataBlock -> [Position -> Word]]
    BY <1>1, <2>1, <2>2
  <2> QED
    BY <1>3, <1>6, <2>3 DEF TypeOK
<1>8. NoDoubleAllocation
  BY <1>6 DEF NoDoubleAllocation
<1>9. ListedOnce(InitialIndex)
  <2>1. s_freelist_head \in InitialIndex
    BY <1>6, IndexBlocksOnDevice
  <2>2. \A b \in DataBlock : uses[b] = 0
    BY <1>6, Layout
  <2>3. \A h \in InitialIndex :
          block[h][0] # 0 => block[h][0] \in InitialIndex \ {s_freelist_head}
    BY <1>3, <1>5, <1>6, IndexBlocksOnDevice, NextIndexBlock
  <2>4. \A g, h \in InitialIndex :
          block[g][0] = block[h][0] /\ block[g][0] # 0 => g = h
    <3>1. \A h \in InitialIndex : h \in Int
      BY <1>3, IndexBlocksOnDevice
    <3> QED
      BY <1>5, <3>1
  <2>5. \A h \in InitialIndex, i \in Slot :
          block[h][i] # 0 => block[h][i] \in DataBlock \ InitialIndex
    <3> SUFFICES ASSUME NEW h \in InitialIndex, NEW i \in Slot, block[h][i] # 0
                 PROVE  block[h][i] \in DataBlock \ InitialIndex
      OBVIOUS
    <3>1. h \in DataBlock /\ block[h][i] = h + i /\ h + i < BLOCK_COUNT
      BY <1>2, <1>3, <1>4, IndexBlocksOnDevice
    <3>2. h + i \notin InitialIndex
      BY <1>2, <1>3, <3>1, IndexBlocksApart
    <3> QED
      BY <1>2, <1>3, <3>1, <3>2
  <2>6. \A g, h \in InitialIndex, i, j \in Slot :
          block[g][i] = block[h][j] /\ block[g][i] # 0 => g = h /\ i = j
    <3> SUFFICES ASSUME NEW g \in InitialIndex, NEW h \in InitialIndex,
                        NEW i \in Slot, NEW j \in Slot,
                        block[g][i] = block[h][j], block[g][i] # 0
                 PROVE  g = h /\ i = j
      OBVIOUS
    <3>1. g \in Int /\ h \in Int /\ g + i = h + j
      BY <1>3, <1>4, IndexBlocksOnDevice
    <3>2. (g < h => g + A <= h) /\ (h < g => h + A <= g)
      BY IndexBlocksApart
    <3> QED
      BY <1>2, <3>1, <3>2
  <2> QED
    BY <2>1, <2>2, <2>3, <2>4, <2>5, <2>6, IndexBlocksOnDevice DEF ListedOnce
<1> QED
  BY <1>7, <1>8, <1>9, IndexBlocksOnDevice DEF IInv, FreeListSound

-----------------------------------------------------------------------------
(* Every step keeps the invariant *)

\* With a well-formed list, HeadForFree is the head that is already there.
LEMMA HeadIsFree ==
    ASSUME TypeOK, NEW idx \in SUBSET DataBlock, ListedOnce(idx)
    PROVE  /\ s_freelist_head \in idx
           /\ s_freelist_head \in DataBlock
           /\ uses[s_freelist_head] = 0
           /\ \A b : HeadForFree(b) = s_freelist_head
BY Layout DEF ListedOnce, HeadForFree

\* allocate_data_block takes a block out of a slot of the head block.
LEMMA AllocateFromSlotStep ==
    ASSUME IInv, NEW i \in Slot, AllocateFromSlot(i)
    PROVE  IInv'
<1> USE Layout
<1>0. TypeOK /\ NoDoubleAllocation
  BY DEF IInv
<1>1. PICK idx \in SUBSET DataBlock : ListedOnce(idx)
  BY DEF IInv, FreeListSound
<1> DEFINE h == s_freelist_head
           b == block[h][i]
<1>2. /\ h \in idx /\ h \in DataBlock
      /\ b \in DataBlock \ idx
      /\ uses[b] = 0
  BY <1>1, <1>0, HeadIsFree DEF ListedOnce, AllocateFromSlot, FirstUsed, HeadWords
<1>3. /\ s_freelist_head' = h
      /\ uses' = [uses EXCEPT ![b] = uses[b] + 1]
      /\ block' = [c \in DataBlock |->
                     IF c = b THEN Filled(0)
                     ELSE IF c = h THEN [block[h] EXCEPT ![i] = 0] ELSE block[c]]
  BY <1>0, <1>2 DEF AllocateFromSlot, HandOut, HeadWords, Zeroed, TypeOK
<1>4. TypeOK'
  BY <1>0, <1>2, <1>3 DEF TypeOK, Filled
<1>5. NoDoubleAllocation'
  BY <1>0, <1>2, <1>3 DEF NoDoubleAllocation, TypeOK
<1>6. /\ \A g \in idx : block'[g][0] = block[g][0]
      /\ \A g \in idx, j \in Slot :
            block'[g][j] = IF g = h /\ j = i THEN 0 ELSE block[g][j]
  BY <1>0, <1>2, <1>3 DEF TypeOK
<1>7. \A c \in Word : c # b => uses'[c] = uses[c]
  BY <1>0, <1>3 DEF TypeOK
<1>8. ListedOnce(idx)'
  <2>1. s_freelist_head' \in idx /\ \A g \in idx : uses'[g] = 0
    BY <1>1, <1>2, <1>3, <1>7 DEF ListedOnce
  <2>2. \A g \in idx : block'[g][0] # 0 => block'[g][0] \in idx \ {s_freelist_head'}
    BY <1>1, <1>3, <1>6 DEF ListedOnce
  <2>3. \A f, g \in idx : block'[f][0] = block'[g][0] /\ block'[f][0] # 0 => f = g
    BY <1>1, <1>6 DEF ListedOnce
  <2>4. \A g \in idx, j \in Slot :
          block'[g][j] # 0 => block'[g][j] \in DataBlock \ idx /\ uses'[block'[g][j]] = 0
    <3> SUFFICES ASSUME NEW g \in idx, NEW j \in Slot, block'[g][j] # 0
                 PROVE  block'[g][j] \in DataBlock \ idx /\ uses'[block'[g][j]] = 0
      OBVIOUS
    <3>1. block'[g][j] = block[g][j] /\ ~(g = h /\ j = i)
      BY <1>6
    <3>2. block[g][j] # b
      BY <1>1, <1>2, <3>1 DEF ListedOnce
    <3> QED
      BY <1>1, <1>7, <3>1, <3>2 DEF ListedOnce
  <2>5. \A f, g \in idx, j, k \in Slot :
          block'[f][j] = block'[g][k] /\ block'[f][j] # 0 => f = g /\ j = k
    BY <1>1, <1>6 DEF ListedOnce
  <2> QED
    BY <2>1, <2>2, <2>3, <2>4, <2>5 DEF ListedOnce
<1> QED
  BY <1>4, <1>5, <1>8 DEF IInv, FreeListSound

\* allocate_data_block hands out the head block; the list goes on at its link.
LEMMA AllocateHeadStep ==
    ASSUME IInv, AllocateHead, s_freelist_head' # 0
    PROVE  IInv'
<1> USE Layout
<1>0. TypeOK /\ NoDoubleAllocation
  BY DEF IInv
<1>1. PICK idx \in SUBSET DataBlock : ListedOnce(idx)
  BY DEF IInv, FreeListSound
<1> DEFINE h == s_freelist_head
<1>rest. PICK rest \in SUBSET DataBlock : rest = idx \ {h}
  OBVIOUS
<1>2. h \in idx /\ h \in DataBlock /\ uses[h] = 0
  BY <1>1, <1>0, HeadIsFree
<1>3. /\ s_freelist_head' = block[h][0]
      /\ uses' = [uses EXCEPT ![h] = uses[h] + 1]
      /\ block' = [c \in DataBlock |-> IF c = h THEN Filled(0) ELSE block[c]]
  BY <1>0 DEF AllocateHead, HandOut, HeadWords, Zeroed, TypeOK
<1>4. block[h][0] \in rest
  BY <1>1, <1>2, <1>3, <1>rest DEF ListedOnce
<1>5. TypeOK'
  BY <1>0, <1>2, <1>3, <1>4 DEF TypeOK, Filled
<1>6. NoDoubleAllocation'
  BY <1>0, <1>2, <1>3 DEF NoDoubleAllocation, TypeOK
<1>7. \A g \in rest : block'[g] = block[g]
  BY <1>3, <1>rest
<1>8. \A c \in Word : c # h => uses'[c] = uses[c]
  BY <1>0, <1>3 DEF TypeOK
<1>9. ListedOnce(rest)'
  <2>1. s_freelist_head' \in rest /\ \A g \in rest : uses'[g] = 0
    BY <1>1, <1>3, <1>4, <1>8, <1>rest DEF ListedOnce
  <2>2. \A g \in rest : block'[g][0] # 0 => block'[g][0] \in rest \ {s_freelist_head'}
    BY <1>1, <1>2, <1>3, <1>4, <1>7, <1>rest DEF ListedOnce
  <2>3. \A f, g \in rest : block'[f][0] = block'[g][0] /\ block'[f][0] # 0 => f = g
    BY <1>1, <1>7, <1>rest DEF ListedOnce
  <2>4. \A g \in rest, j \in Slot :
          block'[g][j] # 0 => block'[g][j] \in DataBlock \ rest /\ uses'[block'[g][j]] = 0
    <3> SUFFICES ASSUME NEW g \in rest, NEW j \in Slot, block'[g][j] # 0
                 PROVE  block'[g][j] \in DataBlock \ rest /\ uses'[block'[g][j]] = 0
      OBVIOUS
    <3>1. /\ block'[g][j] = block[g][j]
          /\ block[g][j] \in DataBlock \ idx
          /\ uses[block[g][j]] = 0
      BY <1>1, <1>7, <1>rest DEF ListedOnce
    <3> QED
      BY <1>2, <1>8, <1>rest, <3>1
  <2>5. \A f, g \in rest, j, k \in Slot :
          block'[f][j] = block'[g][k] /\ block'[f][j] # 0 => f = g /\ j = k
    BY <1>1, <1>7, <1>rest DEF ListedOnce
  <2> QED
    BY <2>1, <2>2, <2>3, <2>4, <2>5 DEF ListedOnce
<1> QED
  BY <1>5, <1>6, <1>9 DEF IInv, FreeListSound

\* A crash after a slot was cleared: the block is in no list, the list is sound.
LEMMA CrashInAllocateFromSlotStep ==
    ASSUME IInv, NEW i \in Slot, CrashInAllocateFromSlot(i)
    PROVE  IInv'
<1> USE Layout
<1>0. TypeOK /\ NoDoubleAllocation
  BY DEF IInv
<1>1. PICK idx \in SUBSET DataBlock : ListedOnce(idx)
  BY DEF IInv, FreeListSound
<1> DEFINE h == s_freelist_head
<1>2. h \in idx /\ h \in DataBlock
  BY <1>1, <1>0, HeadIsFree
<1>3. /\ s_freelist_head' = h
      /\ uses' = uses
      /\ block' = [block EXCEPT ![h][i] = 0]
  BY DEF CrashInAllocateFromSlot
<1>4. TypeOK'
  BY <1>0, <1>2, <1>3 DEF TypeOK
<1>5. NoDoubleAllocation'
  BY <1>0, <1>3 DEF NoDoubleAllocation
<1>6. /\ \A g \in idx : block'[g][0] = block[g][0]
      /\ \A g \in idx, j \in Slot :
            block'[g][j] = IF g = h /\ j = i THEN 0 ELSE block[g][j]
  BY <1>0, <1>2, <1>3 DEF TypeOK
<1>7. ListedOnce(idx)'
  BY <1>1, <1>3, <1>6 DEF ListedOnce
<1> QED
  BY <1>4, <1>5, <1>7 DEF IInv, FreeListSound

\* A crash after the head moved on: the old head is in no list.
LEMMA CrashInAllocateHeadStep ==
    ASSUME IInv, CrashInAllocateHead, s_freelist_head' # 0
    PROVE  IInv'
<1> USE Layout
<1>0. TypeOK /\ NoDoubleAllocation
  BY DEF IInv
<1>1. PICK idx \in SUBSET DataBlock : ListedOnce(idx)
  BY DEF IInv, FreeListSound
<1> DEFINE h == s_freelist_head
<1>rest. PICK rest \in SUBSET DataBlock : rest = idx \ {h}
  OBVIOUS
<1>2. h \in idx /\ h \in DataBlock
  BY <1>1, <1>0, HeadIsFree
<1>3. /\ s_freelist_head' = block[h][0]
      /\ uses' = uses
      /\ block' \in {block, [block EXCEPT ![h][0] = 0]}
  BY DEF CrashInAllocateHead, HeadWords
<1>4. block[h][0] \in rest
  BY <1>1, <1>2, <1>3, <1>rest DEF ListedOnce
<1>5. TypeOK'
  BY <1>0, <1>2, <1>3, <1>4 DEF TypeOK
<1>6. NoDoubleAllocation'
  BY <1>0, <1>3 DEF NoDoubleAllocation
<1>7. \A g \in rest : block'[g] = block[g]
  BY <1>0, <1>3, <1>rest DEF TypeOK
<1>8. ListedOnce(rest)'
  <2>1. s_freelist_head' \in rest /\ \A g \in rest : uses'[g] = 0
    BY <1>1, <1>3, <1>4, <1>rest DEF ListedOnce
  <2>2. \A g \in rest : block'[g][0] # 0 => block'[g][0] \in rest \ {s_freelist_head'}
    BY <1>1, <1>2, <1>3, <1>4, <1>7, <1>rest DEF ListedOnce
  <2>3. \A f, g \in rest : block'[f][0] = block'[g][0] /\ block'[f][0] # 0 => f = g
    BY <1>1, <1>7, <1>rest DEF ListedOnce
  <2>4. \A g \in rest, j \in Slot :
          block'[g][j] # 0 => block'[g][j] \in DataBlock \ rest /\ uses'[block'[g][j]] = 0
    BY <1>1, <1>3, <1>7, <1>rest DEF ListedOnce
  <2>5. \A f, g \in rest, j, k \in Slot :
          block'[f][j] = block'[g][k] /\ block'[f][j] # 0 => f = g /\ j = k
    BY <1>1, <1>7, <1>rest DEF ListedOnce
  <2> QED
    BY <2>1, <2>2, <2>3, <2>4, <2>5 DEF ListedOnce
<1> QED
  BY <1>5, <1>6, <1>8 DEF IInv, FreeListSound

\* free_data_block puts the block into an empty slot of the head block.
LEMMA FreeIntoSlotStep ==
    ASSUME IInv, NEW b \in DataBlock, NEW i \in Slot, FreeIntoSlot(b, i)
    PROVE  IInv'
<1> USE Layout
<1>0. TypeOK /\ NoDoubleAllocation
  BY DEF IInv
<1>1. PICK idx \in SUBSET DataBlock : ListedOnce(idx)
  BY DEF IInv, FreeListSound
<1> DEFINE h == s_freelist_head
<1>2. /\ h \in idx /\ h \in DataBlock
      /\ uses[b] = 1
      /\ b \notin idx
  BY <1>1, <1>0, HeadIsFree DEF ListedOnce, FreeIntoSlot, NoDoubleAllocation, TypeOK
<1>3. /\ s_freelist_head' = h
      /\ uses' = [uses EXCEPT ![b] = uses[b] - 1]
      /\ block' = [block EXCEPT ![h][i] = b]
      /\ block[h][i] = 0
  BY <1>0, <1>1, HeadIsFree DEF FreeIntoSlot, TakeBack, FirstEmpty
<1>4. TypeOK'
  BY <1>0, <1>2, <1>3 DEF TypeOK
<1>5. NoDoubleAllocation'
  BY <1>0, <1>2, <1>3 DEF NoDoubleAllocation, TypeOK
<1>6. /\ \A g \in idx : block'[g][0] = block[g][0]
      /\ \A g \in idx, j \in Slot :
            block'[g][j] = IF g = h /\ j = i THEN b ELSE block[g][j]
  BY <1>0, <1>2, <1>3 DEF TypeOK
<1>7. uses'[b] = 0 /\ \A c \in Word : c # b => uses'[c] = uses[c]
  BY <1>0, <1>2, <1>3 DEF TypeOK
<1>8. \A g \in idx, j \in Slot : block[g][j] # b
  BY <1>1, <1>2 DEF ListedOnce
<1>9. ListedOnce(idx)'
  <2>1. s_freelist_head' \in idx /\ \A g \in idx : uses'[g] = 0
    BY <1>1, <1>2, <1>3, <1>7 DEF ListedOnce
  <2>2. \A g \in idx : block'[g][0] # 0 => block'[g][0] \in idx \ {s_freelist_head'}
    BY <1>1, <1>3, <1>6 DEF ListedOnce
  <2>3. \A f, g \in idx : block'[f][0] = block'[g][0] /\ block'[f][0] # 0 => f = g
    BY <1>1, <1>6 DEF ListedOnce
  <2>4. \A g \in idx, j \in Slot :
          block'[g][j] # 0 => block'[g][j] \in DataBlock \ idx /\ uses'[block'[g][j]] = 0
    <3> SUFFICES ASSUME NEW g \in idx, NEW j \in Slot, block'[g][j] # 0
                 PROVE  block'[g][j] \in DataBlock \ idx /\ uses'[block'[g][j]] = 0
      OBVIOUS
    <3>1. CASE g = h /\ j = i
      BY <1>2, <1>6, <1>7, <3>1
    <3>2. CASE ~(g = h /\ j = i)
      <4>1. block'[g][j] = block[g][j]
        BY <1>6, <3>2
      <4>2. block[g][j] \in DataBlock \ idx /\ uses[block[g][j]] = 0
        BY <1>1, <4>1 DEF ListedOnce
      <4>3. block[g][j] \in Word /\ block[g][j] # b
        BY <1>8, <4>2
      <4>4. uses'[block[g][j]] = 0
        BY <1>7, <4>2, <4>3
      <4> QED
        BY <4>1, <4>2, <4>4
    <3> QED
      BY <3>1, <3>2
  <2>5. \A f, g \in idx, j, k \in Slot :
          block'[f][j] = block'[g][k] /\ block'[f][j] # 0 => f = g /\ j = k
    BY <1>1, <1>6, <1>8 DEF ListedOnce
  <2> QED
    BY <2>1, <2>2, <2>3, <2>4, <2>5 DEF ListedOnce
<1> QED
  BY <1>4, <1>5, <1>9 DEF IInv, FreeListSound

\* free_data_block makes the block the head, linked to the full old head.
LEMMA FreeAsHeadStep ==
    ASSUME IInv, NEW b \in DataBlock, FreeAsHead(b)
    PROVE  IInv'
<1> USE Layout
<1>0. TypeOK /\ NoDoubleAllocation
  BY DEF IInv
<1>1. PICK idx \in SUBSET DataBlock : ListedOnce(idx)
  BY DEF IInv, FreeListSound
<1> DEFINE h == s_freelist_head
<1>more. PICK more \in SUBSET DataBlock : more = idx \cup {b}
  OBVIOUS
<1>2. /\ h \in idx /\ h \in DataBlock
      /\ uses[b] = 1
      /\ b \notin idx
  BY <1>1, <1>0, HeadIsFree DEF ListedOnce, FreeAsHead, NoDoubleAllocation, TypeOK
<1>3. /\ s_freelist_head' = b
      /\ uses' = [uses EXCEPT ![b] = uses[b] - 1]
      /\ block' = [block EXCEPT ![b] = [Filled(0) EXCEPT ![0] = h]]
  BY <1>0, <1>1, HeadIsFree DEF FreeAsHead, TakeBack
<1>4. TypeOK'
  BY <1>0, <1>2, <1>3 DEF TypeOK, Filled
<1>5. NoDoubleAllocation'
  BY <1>0, <1>2, <1>3 DEF NoDoubleAllocation, TypeOK
<1>6. /\ \A g \in idx : block'[g] = block[g]
      /\ block'[b][0] = h
      /\ \A j \in Slot : block'[b][j] = 0
  BY <1>0, <1>2, <1>3 DEF TypeOK, Filled
<1>7. uses'[b] = 0 /\ \A c \in Word : c # b => uses'[c] = uses[c]
  BY <1>0, <1>2, <1>3 DEF TypeOK
<1>8. ListedOnce(more)'
  <2>1. s_freelist_head' \in more /\ \A g \in more : uses'[g] = 0
    BY <1>1, <1>2, <1>3, <1>7, <1>more DEF ListedOnce
  <2>2. \A g \in more : block'[g][0] # 0 => block'[g][0] \in more \ {s_freelist_head'}
    BY <1>1, <1>2, <1>3, <1>6, <1>more DEF ListedOnce
  <2>3. \A f, g \in more : block'[f][0] = block'[g][0] /\ block'[f][0] # 0 => f = g
    BY <1>1, <1>2, <1>6, <1>more DEF ListedOnce
  <2>4. \A g \in more, j \in Slot :
          block'[g][j] # 0 => block'[g][j] \in DataBlock \ more /\ uses'[block'[g][j]] = 0
    <3> SUFFICES ASSUME NEW g \in more, NEW j \in Slot, block'[g][j] # 0
                 PROVE  block'[g][j] \in DataBlock \ more /\ uses'[block'[g][j]] = 0
      OBVIOUS
    <3>1. g \in idx /\ block'[g][j] = block[g][j]
      BY <1>6, <1>more
    <3>2. /\ block[g][j] \in DataBlock \ idx
          /\ uses[block[g][j]] = 0
      BY <1>1, <3>1 DEF ListedOnce
    <3>3. block[g][j] \in Word /\ block[g][j] # b
      BY <1>2, <3>2
    <3>4. uses'[block[g][j]] = 0
      BY <1>7, <3>2, <3>3
    <3> QED
      BY <1>more, <3>1, <3>2, <3>3, <3>4
  <2>5. \A f, g \in more, j, k \in Slot :
          block'[f][j] = block'[g][k] /\ block'[f][j] # 0 => f = g /\ j = k
    <3> SUFFICES ASSUME NEW f \in more, NEW g \in more, NEW j \in Slot, NEW k \in Slot,
                        block'[f][j] = block'[g][k], block'[f][j] # 0
                 PROVE  f = g /\ j = k
      OBVIOUS
    <3>1. f \in idx /\ g \in idx
      BY <1>6, <1>more
    <3>2. block'[f][j] = block[f][j] /\ block'[g][k] = block[g][k]
      BY <1>6, <3>1
    <3>3. block[f][j] = block[g][k] /\ block[f][j] # 0
      BY <3>2
    <3>4. \A e, d \in idx, l, m \in Slot :
            block[e][l] = block[d][m] /\ block[e][l] # 0 => e = d /\ l = m
      BY <1>1 DEF ListedOnce
    <3> QED
      BY <3>1, <3>3, <3>4
  <2> QED
    BY <2>1, <2>2, <2>3, <2>4, <2>5 DEF ListedOnce
<1> QED
  BY <1>4, <1>5, <1>8 DEF IInv, FreeListSound

\* A client writes into a block it holds, which is no index block.
LEMMA WriteStep ==
    ASSUME IInv, NEW b \in DataBlock, NEW w \in UserWords, write_data_block(b, w)
    PROVE  IInv'
<1> USE Layout
<1>0. TypeOK /\ NoDoubleAllocation
  BY DEF IInv
<1>1. PICK idx \in SUBSET DataBlock : ListedOnce(idx)
  BY DEF IInv, FreeListSound
<1>2. /\ s_freelist_head' = s_freelist_head
      /\ uses' = uses
      /\ block' = [block EXCEPT ![b] = Filled(w)]
  BY DEF write_data_block
<1>3. TypeOK'
  BY <1>0, <1>2 DEF TypeOK, Filled
<1>4. NoDoubleAllocation'
  BY <1>0, <1>2 DEF NoDoubleAllocation
<1>5. \A g \in idx : block'[g] = block[g]
  BY <1>0, <1>1, <1>2 DEF TypeOK, ListedOnce, write_data_block
<1>6. ListedOnce(idx)'
  BY <1>1, <1>2, <1>5 DEF ListedOnce
<1> QED
  BY <1>3, <1>4, <1>6 DEF IInv, FreeListSound

LEMMA NextIInv == IInv /\ [NextNeverFull]_vars => IInv'
<1> SUFFICES ASSUME IInv, [NextNeverFull]_vars PROVE IInv'
  OBVIOUS
<1>1. ASSUME NEW i \in Slot, AllocateFromSlot(i) PROVE IInv'
  BY <1>1, AllocateFromSlotStep
<1>2. CASE NextNeverFull /\ AllocateHead
  BY <1>2, AllocateHeadStep DEF NextNeverFull
<1>3. ASSUME NEW i \in Slot, CrashInAllocateFromSlot(i) PROVE IInv'
  BY <1>3, CrashInAllocateFromSlotStep
<1>4. CASE NextNeverFull /\ CrashInAllocateHead
  BY <1>4, CrashInAllocateHeadStep DEF NextNeverFull
<1>5. ASSUME NEW b \in DataBlock, NEW i \in Slot, FreeIntoSlot(b, i) PROVE IInv'
  BY <1>5, FreeIntoSlotStep
<1>6. ASSUME NEW b \in DataBlock, FreeAsHead(b) PROVE IInv'
  BY <1>6, FreeAsHeadStep
<1>7. ASSUME NEW b \in DataBlock, NEW w \in UserWords, write_data_block(b, w)
      PROVE  IInv'
  BY <1>7, WriteStep
<1>8. CASE UNCHANGED vars
  BY <1>8 DEF vars, IInv, TypeOK, NoDoubleAllocation, FreeListSound, ListedOnce
<1> QED
  BY <1>1, <1>2, <1>3, <1>4, <1>5, <1>6, <1>7, <1>8 DEF NextNeverFull, Next

-----------------------------------------------------------------------------
(* Theorems *)

\* On every device, until it is completely full: no word of the list leads off the
\* device, and no block is taken back more often than it was handed out.
THEOREM FreeListTypes == SpecNeverFull => []TypeOK
<1>1. IInv => TypeOK
  BY DEF IInv
<1> QED
  BY InitIInv, NextIInv, <1>1, PTL DEF SpecNeverFull

\* On every device, until it is completely full: the list that
\* allocate_data_block walks holds unused data blocks only, each once.
THEOREM FreeListIsSound == SpecNeverFull => []FreeListSound
<1>1. IInv => FreeListSound
  BY DEF IInv
<1> QED
  BY InitIInv, NextIInv, <1>1, PTL DEF SpecNeverFull

\* On every device, until it is completely full: no two clients hold one block.
THEOREM BlocksAreExclusive == SpecNeverFull => []NoDoubleAllocation
<1>1. IInv => NoDoubleAllocation
  BY DEF IInv
<1> QED
  BY InitIInv, NextIInv, <1>1, PTL DEF SpecNeverFull

\* Each step of the allocator is a step of the pool, or changes no hand-out.
LEMMA StepsRefine == IInv /\ [NextNeverFull]_vars => [Pool!Next]_uses
<1> SUFFICES ASSUME IInv, [NextNeverFull]_vars PROVE [Pool!Next]_uses
  OBVIOUS
<1> USE Layout
<1>0. TypeOK /\ NoDoubleAllocation
  BY DEF IInv
<1>idx. PICK idx \in SUBSET DataBlock : ListedOnce(idx)
  BY DEF IInv, FreeListSound
<1>hold. \A b \in DataBlock : uses[b] > 0 => uses[b] = 1
  BY <1>0 DEF TypeOK, NoDoubleAllocation
<1>1. ASSUME NEW i \in Slot, AllocateFromSlot(i) PROVE Pool!Next
  <2> DEFINE b == block[s_freelist_head][i]
  <2>1. b \in Word /\ uses[b] = 0
    BY <1>1, <1>0, <1>idx, HeadIsFree
       DEF ListedOnce, AllocateFromSlot, FirstUsed, HeadWords
  <2>2. uses' = [uses EXCEPT ![b] = 1]
    BY <1>1, <2>1 DEF AllocateFromSlot, HandOut, HeadWords
  <2> QED
    BY <2>1, <2>2 DEF Pool!Next, Pool!Acquire
<1>2. CASE AllocateHead
  <2>1. s_freelist_head \in Word /\ uses[s_freelist_head] = 0
    BY <1>0, <1>idx, HeadIsFree
  <2>2. uses' = [uses EXCEPT ![s_freelist_head] = 1]
    BY <1>2, <2>1 DEF AllocateHead, HandOut
  <2> QED
    BY <2>1, <2>2 DEF Pool!Next, Pool!Acquire
<1>3. ASSUME NEW b \in DataBlock, NEW i \in Slot, FreeIntoSlot(b, i) PROVE Pool!Next
  <2>1. uses[b] = 1 /\ uses[b] - 1 = 0
    BY <1>3, <1>hold DEF FreeIntoSlot
  <2>2. uses' = [uses EXCEPT ![b] = 0]
    BY <1>3, <2>1 DEF FreeIntoSlot, TakeBack
  <2> QED
    BY <2>1, <2>2 DEF Pool!Next, Pool!Release
<1>4. ASSUME NEW b \in DataBlock, FreeAsHead(b) PROVE Pool!Next
  <2>1. uses[b] = 1 /\ uses[b] - 1 = 0
    BY <1>4, <1>hold DEF FreeAsHead
  <2>2. uses' = [uses EXCEPT ![b] = 0]
    BY <1>4, <2>1 DEF FreeAsHead, TakeBack
  <2> QED
    BY <2>1, <2>2 DEF Pool!Next, Pool!Release
<1> QED
  BY <1>1, <1>2, <1>3, <1>4
     DEF NextNeverFull, Next, vars, CrashInAllocateFromSlot, CrashInAllocateHead,
         write_data_block

\* On every device, until it is completely full: the allocator implements the
\* pool of exclusive blocks, crashes in the middle of an allocation included.
THEOREM AllocatorImplementsPool == SpecNeverFull => ImplementsPool
<1>1. Init => Pool!Init
  BY DEF Init, Pool!Init
<1> QED
  BY <1>1, InitIInv, NextIInv, StepsRefine, PTL
     DEF SpecNeverFull, ImplementsPool, Pool!Spec
-----------------------------------------------------------------------------
(* Nothing is lost *)

\* mkfs lists every data block: each is an index block or lies less than A
\* behind one.
LEMMA InitAccounts == Init => Accounted = DataBlock
<1> SUFFICES ASSUME Init PROVE DataBlock \subseteq Accounted
  BY DEF Accounted
<1> USE LastIndexBlock
<1>1. PICK w \in UserWords \cup {0} :
        block = [b \in DataBlock |-> IF b \in InitialIndex
                                     THEN altfs_create_freelist(b)
                                     ELSE Filled(w)]
  BY DEF Init
<1>2. Position = 0..(A - 1) /\ Slot = 1..(A - 1) /\ DataBlock = Base..(BLOCK_COUNT - 1)
  BY DEF Position, Slot, A, DataBlock, Base
<1>3. \A h \in InitialIndex, j \in Slot : h + j < BLOCK_COUNT => block[h][j] = h + j
  BY <1>1, <1>2, IndexBlocksOnDevice, Layout DEF altfs_create_freelist, OnDevice
<1>4. \A h \in InitialIndex : h + A < BLOCK_COUNT => block[h][0] = h + A
  BY <1>1, <1>2, IndexBlocksOnDevice, Layout DEF altfs_create_freelist, OnDevice, A
<1>5. s_freelist_head = Base /\ Base \in DataBlock
  BY <1>2, IndexBlocksOnDevice DEF Init, Base
<1>6. ASSUME NEW Q \in SUBSET DataBlock, HoldsChain(Q) PROVE InitialIndex \subseteq Q
  <2> DEFINE S == {i \in Nat : i <= Last => Base + i * A \in Q}
  <2>1. 0 \in S
    BY <1>5, <1>6 DEF HoldsChain
  <2>2. ASSUME NEW i \in Nat, i \in S PROVE i + 1 \in S
    <3> SUFFICES ASSUME i + 1 <= Last PROVE Base + (i + 1) * A \in Q
      OBVIOUS
    <3> DEFINE h == Base + i * A
    <3>1. h \in Q /\ h \in InitialIndex /\ i * A \in Nat /\ h \in Nat
      BY <2>2, IndexBlocksOnDevice
    <3>2. h + A = Base + (i + 1) * A
      <4>1. (i + 1) * A = i * A + A
        BY <3>1
      <4> QED
        BY <3>1, <4>1
    <3>3. Base + (i + 1) * A \in DataBlock
      <4>1. i + 1 \in 0..Last
        OBVIOUS
      <4>2. Base + (i + 1) * A \in InitialIndex
        BY <4>1, IndexBlocksOnDevice
      <4> QED
        BY <4>2, IndexBlocksOnDevice
    <3>4. h + A \in DataBlock
      BY <3>2, <3>3
    <3> HIDE DEF h
    <3>5. block[h][0] = h + A
      BY <1>2, <1>4, <3>1, <3>4
    <3> QED
      BY <1>6, <3>1, <3>2, <3>4, <3>5 DEF HoldsChain
  <2>3. Nat \subseteq S
    <3> HIDE DEF S
    <3> QED
      BY <2>1, <2>2, SetInduction
  <2>4. \A i \in 0..Last : Base + i * A \in Q
    BY <2>3
  <2> QED
    BY <2>4, IndexBlocksOnDevice
<1>7. InitialIndex \subseteq Chain
  BY <1>6, IndexBlocksOnDevice DEF Chain
<1>8. ASSUME NEW b \in DataBlock PROVE b \in Listed
  <2> DEFINE n == b - Base
             i == n \div A
             j == n % A
  <2>1. n \in Nat /\ A \in Nat \ {0} /\ b = Base + n /\ n < NUM_OF_DATA_BLOCKS
    BY <1>2
  <2>2. i \in Nat /\ j \in 0..(A - 1) /\ i * A \in Nat /\ n = i * A + j
    <3> HIDE DEF n
    <3> QED
      BY <2>1, DivMod
  <2>3. i \in 0..Last
    <3> HIDE DEF n, i, j
    <3>1. SUFFICES ASSUME Last < i PROVE FALSE
      BY <2>2
    <3>2. Last * A + A <= i * A
      BY <2>2, <3>1, MultiplesApart
    <3> QED
      BY <2>1, <2>2, <3>2
  <2> DEFINE h == Base + i * A
  <2>4. h \in InitialIndex /\ h \in Chain
    BY <1>7, <2>3, IndexBlocksOnDevice
  <2> HIDE DEF n, i, j
  <2>5. b = h + j /\ h \in Nat
    BY <2>1, <2>2
  <2> HIDE DEF h
  <2>6. CASE j = 0
    BY <2>4, <2>5, <2>6 DEF Listed
  <2>7. CASE j # 0
    <3>1. j \in Slot /\ h + j < BLOCK_COUNT
      BY <1>2, <2>2, <2>5, <2>7
    <3>2. block[h][j] = b
      BY <1>3, <2>4, <2>5, <3>1
    <3> QED
      BY <2>4, <3>1, <3>2 DEF Listed
  <2> QED
    BY <2>6, <2>7
<1> QED
  BY <1>8 DEF Accounted

\* The head of the list is in the chain.
LEMMA HeadInChain ==
    ASSUME s_freelist_head \in DataBlock
    PROVE  s_freelist_head \in Chain
BY DEF Chain, HoldsChain

\* The chain is part of every sound list.
LEMMA ChainInList ==
    ASSUME NEW idx \in SUBSET DataBlock, ListedOnce(idx)
    PROVE  Chain \subseteq idx
<1>1. HoldsChain(idx)
  BY Layout DEF ListedOnce, HoldsChain
<1> QED
  BY <1>1 DEF Chain

\* If no link between index blocks changes and the old head can still be reached,
\* so can all of the chain.
LEMMA ChainKept ==
    ASSUME NEW idx \in SUBSET DataBlock, ListedOnce(idx), s_freelist_head \in Chain',
           \A g \in idx : block'[g][0] = block[g][0]
    PROVE  Chain \subseteq Chain'
<1> SUFFICES ASSUME NEW h \in Chain, NEW P \in SUBSET DataBlock, HoldsChain(P)'
             PROVE  h \in P
  BY DEF Chain
<1> DEFINE Q == P \cap idx
<1>1. s_freelist_head \in P
  BY DEF Chain
<1>2. HoldsChain(Q)
  BY <1>1, Layout DEF ListedOnce, HoldsChain
<1> HIDE DEF Q
<1>3. h \in Q
  BY <1>2 DEF Chain, Q
<1> QED
  BY <1>3 DEF Q

\* Handing out the head leaves the rest of the chain.
LEMMA ChainWithoutHead ==
    ASSUME NEW idx \in SUBSET DataBlock, ListedOnce(idx),
           s_freelist_head' = block[s_freelist_head][0], s_freelist_head' # 0,
           \A g \in idx : g # s_freelist_head => block'[g][0] = block[g][0]
    PROVE  Chain \subseteq Chain' \cup {s_freelist_head}
<1> SUFFICES ASSUME NEW h \in Chain, h # s_freelist_head,
                    NEW P \in SUBSET DataBlock, HoldsChain(P)'
             PROVE  h \in P
  BY DEF Chain
<1> DEFINE Q == (P \cap idx) \cup {s_freelist_head}
<1>1. s_freelist_head \in idx /\ s_freelist_head' \in idx
  BY DEF ListedOnce
<1>2. s_freelist_head' \in P
  BY <1>1 DEF HoldsChain
<1>3. Q \subseteq DataBlock
  BY <1>1
<1>4. ASSUME NEW g \in Q, block[g][0] \in DataBlock PROVE block[g][0] \in Q
  <2>1. CASE g = s_freelist_head
    BY <1>1, <1>2, <2>1
  <2>2. CASE g # s_freelist_head
    <3>1. block[g][0] # 0 /\ g \in idx /\ g \in P
      BY <1>4, <2>2, Layout
    <3>2. block[g][0] \in idx
      BY <3>1 DEF ListedOnce
    <3>3. block'[g][0] \in P
      BY <1>4, <2>2, <3>1 DEF HoldsChain
    <3> QED
      BY <2>2, <3>1, <3>2, <3>3
  <2> QED
    BY <2>1, <2>2
<1>5. HoldsChain(Q)
  BY <1>4 DEF HoldsChain
<1> HIDE DEF Q
<1>6. h \in Q
  BY <1>3, <1>5 DEF Chain
<1> QED
  BY <1>6 DEF Q

\* A block is accounted for if it is held, in the chain, or in a slot of the chain.
LEMMA AccountedMeans ==
    ASSUME NEW b \in DataBlock
    PROVE  b \in Accounted <=> \/ uses[b] > 0
                               \/ b \in Chain
                               \/ \E h \in Chain, i \in Slot : block[h][i] = b
BY DEF Accounted, Listed

\* The same of the next state.
LEMMA AccountedThenMeans ==
    ASSUME NEW b \in DataBlock
    PROVE  b \in Accounted' <=> \/ uses'[b] > 0
                                \/ b \in Chain'
                                \/ \E h \in Chain', i \in Slot : block'[h][i] = b
BY DEF Accounted, Listed

\* allocate_data_block and free_data_block lose no block.
LEMMA StepAccounts == IInv /\ [NextNeverFull]_vars => [Crash \/ Accounted \subseteq Accounted']_vars
<1> SUFFICES ASSUME IInv, NextNeverFull, ~ Crash, NEW c \in DataBlock, c \in Accounted
             PROVE  c \in Accounted'
  BY DEF Accounted
<1> USE Layout
<1>0. TypeOK /\ NoDoubleAllocation
  BY DEF IInv
<1>1. PICK idx \in SUBSET DataBlock : ListedOnce(idx)
  BY DEF IInv, FreeListSound
<1> DEFINE h == s_freelist_head
<1>2. /\ h \in idx /\ h \in DataBlock /\ h \in Chain /\ Chain \subseteq idx /\ Chain \subseteq DataBlock
      /\ \A b : HeadForFree(b) = h
  BY <1>0, <1>1, HeadIsFree, HeadInChain, ChainInList
<1>3. \A b \in DataBlock : uses[b] > 0 => b \notin idx
  BY <1>1 DEF ListedOnce
<1>4. \/ uses[c] > 0
      \/ c \in Chain
      \/ \E g \in Chain, i \in Slot : block[g][i] = c
  BY AccountedMeans
<1>5. ASSUME NEW i \in Slot, AllocateFromSlot(i) PROVE c \in Accounted'
  <2> DEFINE b == block[h][i]
  <2>1. b \in DataBlock \ idx
    BY <1>1, <1>2, <1>5 DEF ListedOnce, AllocateFromSlot, FirstUsed, HeadWords
  <2>2. /\ h' = h
        /\ uses' = [uses EXCEPT ![b] = uses[b] + 1]
        /\ block' = [a \in DataBlock |->
                       IF a = b THEN Filled(0)
                       ELSE IF a = h THEN [block[h] EXCEPT ![i] = 0] ELSE block[a]]
    BY <1>0, <1>2, <1>5, <2>1 DEF AllocateFromSlot, HandOut, HeadWords, Zeroed, TypeOK
  <2>3. \A g \in idx, j \in Position : block'[g][j] = IF g = h /\ j = i THEN 0 ELSE block[g][j]
    BY <1>0, <1>2, <2>1, <2>2 DEF TypeOK
  <2> HIDE DEF b
  <2>4. uses'[b] > 0 /\ \A a \in Word : uses[a] > 0 => uses'[a] > 0
    <3>1. uses \in [Word -> Nat] /\ b \in Word
      BY <1>0, <2>1 DEF TypeOK
    <3> QED
      BY <2>2, <3>1
  <2>5. h \in Chain'
    BY <1>2, <2>2 DEF Chain, HoldsChain
  <2>6. Chain \subseteq Chain'
    BY <1>1, <2>3, <2>5, ChainKept
  <2>7. ASSUME NEW g \in Chain, NEW j \in Slot, block[g][j] = c, c # b
        PROVE  block'[g][j] = c
    BY <1>2, <2>3, <2>7 DEF b
  <2>8. CASE c = b
    BY <2>4, <2>8, AccountedThenMeans
  <2>9. CASE c # b
    BY <1>4, <2>4, <2>6, <2>7, <2>9, AccountedThenMeans
  <2> QED
    BY <2>8, <2>9
<1>6. CASE AllocateHead
  <2>1. /\ h' = block[h][0] /\ h' # 0
        /\ uses' = [uses EXCEPT ![h] = uses[h] + 1]
        /\ block' = [a \in DataBlock |-> IF a = h THEN Filled(0) ELSE block[a]]
        /\ \A j \in Slot : block[h][j] = 0
    BY <1>0, <1>6 DEF AllocateHead, HandOut, HeadWords, Zeroed, TypeOK, NextNeverFull, NoneUsed
  <2>2. \A g \in idx : g # h => block'[g] = block[g]
    BY <2>1
  <2>3. uses'[h] > 0 /\ \A a \in Word : uses[a] > 0 => uses'[a] > 0
    BY <1>0, <1>2, <2>1 DEF TypeOK
  <2>4. Chain \subseteq Chain' \cup {h}
    BY <1>1, <2>1, <2>2, ChainWithoutHead
  <2>5. ASSUME NEW g \in Chain, NEW j \in Slot, block[g][j] = c
        PROVE  c \in Accounted'
    <3>1. g # h
      BY <2>1, <2>5
    <3>2. g \in Chain' /\ block'[g][j] = c
      BY <1>2, <2>2, <2>4, <2>5, <3>1
    <3> QED
      BY <3>2, AccountedThenMeans
  <2>6. CASE uses[c] > 0 \/ c = h
    BY <2>3, <2>6, AccountedThenMeans
  <2>7. CASE c \in Chain /\ c # h
    BY <2>4, <2>7, AccountedThenMeans
  <2> QED
    BY <1>4, <2>5, <2>6, <2>7
<1>7. ASSUME NEW b \in DataBlock, NEW i \in Slot, FreeIntoSlot(b, i) PROVE c \in Accounted'
  <2>1. /\ h' = h
        /\ uses' = [uses EXCEPT ![b] = uses[b] - 1]
        /\ block' = [block EXCEPT ![h][i] = b]
        /\ block[h][i] = 0
    BY <1>2, <1>7 DEF FreeIntoSlot, TakeBack, FirstEmpty
  <2>2. \A g \in idx, j \in Position : block'[g][j] = IF g = h /\ j = i THEN b ELSE block[g][j]
    BY <1>0, <1>2, <2>1 DEF TypeOK
  <2>3. \A a \in Word : a # b => uses'[a] = uses[a]
    BY <1>0, <2>1 DEF TypeOK
  <2>4. h \in Chain'
    BY <1>2, <2>1 DEF Chain, HoldsChain
  <2>5. Chain \subseteq Chain'
    BY <1>1, <2>2, <2>4, ChainKept
  <2>6. CASE c = b
    BY <1>2, <2>2, <2>4, <2>6, AccountedThenMeans
  <2>7. CASE c # b
    <3>1. ASSUME NEW g \in Chain, NEW j \in Slot, block[g][j] = c PROVE block'[g][j] = c
      BY <1>2, <2>1, <2>2, <3>1
    <3> QED
      BY <1>4, <2>3, <2>5, <2>7, <3>1, AccountedThenMeans
  <2> QED
    BY <2>6, <2>7
<1>8. ASSUME NEW b \in DataBlock, FreeAsHead(b) PROVE c \in Accounted'
  <2>1. /\ h' = b /\ b \notin idx
        /\ uses' = [uses EXCEPT ![b] = uses[b] - 1]
        /\ block' = [block EXCEPT ![b] = [Filled(0) EXCEPT ![0] = h]]
    BY <1>2, <1>3, <1>8 DEF FreeAsHead, TakeBack
  <2>2. block'[b][0] = h /\ \A g \in idx : block'[g] = block[g]
    BY <1>0, <2>1 DEF TypeOK, Filled
  <2>3. \A a \in Word : a # b => uses'[a] = uses[a]
    BY <1>0, <2>1 DEF TypeOK
  <2>4. b \in Chain' /\ h \in Chain'
    BY <1>2, <2>1, <2>2 DEF Chain, HoldsChain
  <2>5. Chain \subseteq Chain'
    BY <1>1, <2>2, <2>4, ChainKept
  <2>6. ASSUME NEW g \in Chain, NEW j \in Slot, block[g][j] = c PROVE block'[g][j] = c
    BY <1>2, <2>2, <2>6
  <2> QED
    BY <1>4, <2>3, <2>4, <2>5, <2>6, AccountedThenMeans
<1>9. ASSUME NEW b \in DataBlock, NEW w \in UserWords, write_data_block(b, w)
      PROVE  c \in Accounted'
  <2>1. h' = h /\ uses' = uses /\ b \notin idx /\ block' = [block EXCEPT ![b] = Filled(w)]
    BY <1>3, <1>9 DEF write_data_block
  <2>2. \A g \in idx : block'[g] = block[g]
    BY <1>0, <2>1 DEF TypeOK
  <2>3. h \in Chain'
    BY <1>2, <2>1 DEF Chain, HoldsChain
  <2>4. Chain \subseteq Chain'
    BY <1>1, <2>2, <2>3, ChainKept
  <2>5. ASSUME NEW g \in Chain, NEW j \in Slot, block[g][j] = c PROVE block'[g][j] = c
    BY <1>2, <2>2, <2>5
  <2> QED
    BY <1>4, <2>1, <2>4, <2>5, AccountedThenMeans
<1> QED
  BY <1>5, <1>6, <1>7, <1>8, <1>9 DEF NextNeverFull, Next, Crash

\* On every device, until it is completely full: mkfs lists every data block, and
\* no step of allocate_data_block or free_data_block that is not cut short by a
\* crash makes a block unreachable that was held or listed.
THEOREM NoBlockIsLost == SpecNeverFull => NothingLost
BY InitAccounts, InitIInv, NextIInv, StepAccounts, PTL DEF SpecNeverFull, NothingLost
=============================================================================
