------------------------------ MODULE BlockMap ------------------------------
(***************************************************************************)
(* The block map of an inode: direct blocks, then one tree of index blocks *)
(* for each of the levels 1 (single), 2 (double) and 3 (triple indirect).  *)
(* Appending (add_datablock_to_inode), truncation                          *)
(* (remove_datablocks_from_inode), deletion (free_data_blocks_in_inode) of *)
(* inode_data_block_ops.c and inode_ops.c, for several files that share    *)
(* the data blocks, and translation (get_disk_block_from_inode_block).     *)
(*                                                                         *)
(* The allocator is its abstract view: which blocks are listed as free,    *)
(* and how often; any order of handing them out will do, the lowest number *)
(* first is the one used.  Callers keep the inode as the call left it,     *)
(* whether or not the call reports success, and so does the model.         *)
(***************************************************************************)
EXTENDS Integers, Sequences, FiniteSets, FiniteSetsExt

CONSTANTS
    File,
    BlockLimit,            \* data blocks are 1..BlockLimit, 0 is no block
    NUM_OF_DIRECT_BLOCKS,
    NUM_OF_ADDRESSES_PER_BLOCK,
    SizeLimit              \* bound on the blocks of each file

D == NUM_OF_DIRECT_BLOCKS
A == NUM_OF_ADDRESSES_PER_BLOCK

Block == 1..BlockLimit
Word == 0..BlockLimit
Position == 0..(A - 1)
Level == 1..3

\* How many data blocks lie below an index block of level k, and below a data block.
Span(k) == CASE k = 0 -> 1
             [] k = 1 -> A
             [] k = 2 -> A * A
             [] k = 3 -> A * A * A

\* The first logical block that level k serves.
Base(k) == CASE k = 1 -> D
             [] k = 2 -> D + A
             [] k = 3 -> D + A + A * A

ASSUME MapAssumption ==
    /\ BlockLimit \in Nat
    /\ D \in Nat \ {0}
    /\ A \in Nat \ {0, 1}
    /\ SizeLimit \in [File -> 0..(Base(3) + Span(3) - 1)]

\* The level that serves logical block l, from D on.
LevelOf(l) == IF l < Base(2) THEN 1 ELSE IF l < Base(3) THEN 2 ELSE 3

\* The slot that leads to entry r of a tree, in the index block of a level.
Digit(r, level) == (r \div Span(level - 1)) % A

EmptyNode == [i_blocks_num |-> 0,
              i_direct_blocks |-> [i \in 0..(D - 1) |-> 0],
              i_indirect |-> [k \in Level |-> 0]]

VARIABLES
    node,     \* the inode of each file: i_indirect[k] is i_single_indirect ...
    mem,      \* the words of the data blocks
    listed,   \* how often the free list holds a block
    data,     \* the blocks each file should have, in order
    failed    \* whether an append failed

vars == <<node, mem, listed, data, failed>>

Node == [i_blocks_num : Nat,
         i_direct_blocks : [0..(D - 1) -> Word],
         i_indirect : [Level -> Word]]

TypeOK ==
    /\ node \in [File -> Node]
    /\ mem \in [Block -> [Position -> Word]]
    /\ listed \in [Block -> Nat]
    /\ data \in [File -> Seq(Block)]
    /\ failed \in BOOLEAN

Init ==
    /\ node = [f \in File |-> EmptyNode]
    /\ mem = [b \in Block |-> [i \in Position |-> 0]]
    /\ listed = [b \in Block |-> 1]
    /\ data = [f \in File |-> << >>]
    /\ failed = FALSE

-----------------------------------------------------------------------------
(* The allocator *)

\* Mutant: every entry of the list counts as a free block.
Available_any(free) == {b \in Block : free[b] >= 0}

Available(free) == {b \in Block : free[b] > 0}

\* allocate_data_block on a disk [mem, free]: the block and the disk after it;
\* block 0 stands for failure.
allocate_data_block(disk) ==
    IF Available(disk.free) = {}
    THEN [block |-> 0, disk |-> disk]
    ELSE LET b == Min(Available(disk.free))
         IN [block |-> b,
             disk |-> [mem |-> [disk.mem EXCEPT ![b] = [i \in Position |-> 0]],
                       free |-> [disk.free EXCEPT ![b] = @ - 1]]]

\* free_data_block for each value of a function; a freed block keeps its words.
Freed(free, blocks) ==
    [b \in Block |-> free[b] + Cardinality({i \in DOMAIN blocks : blocks[i] = b})]

-----------------------------------------------------------------------------
(* add_datablock_to_inode *)

\* One step down, from an index block of the given level towards entry r.  A way
\* says whether it goes on, the disk, and the index block it has come to; an index
\* block one level down is allocated with its first entry.
Descend(way, level, r) ==
    LET slot == Digit(r, level)
        next == way.disk.mem[way.block][slot]
        first == r % Span(level - 1) = 0
        new == allocate_data_block(way.disk)
    IN CASE ~ way.ok -> way
         [] way.ok /\ first /\ new.block # 0 ->
              [ok |-> TRUE, disk |-> [new.disk EXCEPT !.mem[way.block][slot] = new.block],
               block |-> new.block]
         [] way.ok /\ ~ first /\ next # 0 -> [way EXCEPT !.block = next]
         [] OTHER -> [way EXCEPT !.ok = FALSE]

\* Stores block d as entry r of the tree of level k below index block root.
Insert(disk, root, k, r, d) ==
    LET top == [ok |-> TRUE, disk |-> disk, block |-> root]
        leaf == CASE k = 1 -> top
                  [] k = 2 -> Descend(top, 2, r)
                  [] k = 3 -> Descend(Descend(top, 3, r), 2, r)
    IN IF leaf.ok
       THEN [ok |-> TRUE, disk |-> [leaf.disk EXCEPT !.mem[leaf.block][Digit(r, 1)] = d]]
       ELSE [ok |-> FALSE, disk |-> leaf.disk]

\* The block counts only if its entry was stored; a new root stays either way.
Counted(n, res) ==
    [node |-> IF res.ok THEN [n EXCEPT !.i_blocks_num = @ + 1] ELSE n,
     disk |-> res.disk, ok |-> res.ok]

\* The inode and the disk after data block d was added, or could not be.
add_datablock_to_inode(n, disk, d) ==
    LET l == n.i_blocks_num
        k == LevelOf(l)
        r == l - Base(k)
        new == allocate_data_block(disk)
        rooted == [n EXCEPT !.i_indirect[k] = new.block]
    IN CASE l < D ->
              [node |-> [n EXCEPT !.i_direct_blocks[l] = d, !.i_blocks_num = l + 1],
               disk |-> disk, ok |-> TRUE]
         [] l >= D /\ r = 0 /\ new.block = 0 ->
              [node |-> n, disk |-> disk, ok |-> FALSE]
         [] l >= D /\ r = 0 /\ new.block # 0 ->
              Counted(rooted, Insert(new.disk, new.block, k, r, d))
         [] l >= D /\ r # 0 ->
              Counted(n, Insert(disk, n.i_indirect[k], k, r, d))

\* A writer extends the file by one block: allocate_data_block, then
\* add_datablock_to_inode; if that fails the new block stays allocated.
Append_(f) ==
    LET new == allocate_data_block([mem |-> mem, free |-> listed])
        res == add_datablock_to_inode(node[f], new.disk, new.block)
    IN /\ node[f].i_blocks_num < SizeLimit[f]
       /\ new.block # 0
       /\ node' = [node EXCEPT ![f] = res.node]
       /\ mem' = res.disk.mem
       /\ listed' = res.disk.free
       /\ data' = IF res.ok THEN [data EXCEPT ![f] = Append(@, new.block)] ELSE data
       /\ failed' = (failed \/ ~ res.ok)

-----------------------------------------------------------------------------
(* free_indirect_blocks, remove_datablocks_utility *)

\* Where entry i of index block b leads, 0 if nowhere.
Entry(m, b, i) == IF b = 0 THEN 0 ELSE m[b][i]

\* The q-th of the blocks that lie d steps below block b, 0 if it is missing.
Below(m, b, d, q) ==
    CASE d = 0 -> b
      [] d = 1 -> Entry(m, b, q % A)
      [] d = 2 -> Entry(m, Entry(m, b, (q \div A) % A), q % A)
      [] d = 3 -> Entry(m, Entry(m, Entry(m, b, ((q \div A) \div A) % A), (q \div A) % A), q % A)

\* The loop over an index block stops at its first unused entry: it comes to the
\* q-th block d steps below b if that entry and those before it are used.
InUse(m, b, d, q) == \A i \in (A * (q \div A))..q : Below(m, b, d, i) # 0

\* The blocks freed with index block b of the given level: itself and what the
\* loops come to below it, each by its depth and its number there.
Tree(m, b, level) ==
    LET found == {x \in (0..level) \X (0..(Span(level) - 1)) :
                     /\ x[2] < Span(x[1])
                     /\ \A e \in 1..x[1] : InUse(m, b, e, x[2] \div Span(x[1] - e))}
    IN [x \in found |-> Below(m, b, x[1], x[2])]

\* The blocks freed with an inode (free_data_blocks_in_inode), by the level of the
\* tree they are in, 0 for direct blocks, their depth there and their number.
Footprint(n, m) ==
    LET direct == {i \in 0..(D - 1) : \A j \in 0..i : n.i_direct_blocks[j] # 0}
        tree(k) == IF n.i_indirect[k] = 0 THEN << >> ELSE Tree(m, n.i_indirect[k], k)
        places == {<<0, 0, i>> : i \in direct}
                     \cup UNION {{<<k, x[1], x[2]>> : x \in DOMAIN tree(k)} : k \in Level}
    IN [x \in places |-> IF x[1] = 0 THEN n.i_direct_blocks[x[3]]
                                     ELSE tree(x[1])[<<x[2], x[3]>>]]

\* free_inode, as far as it concerns the block map.
free_inode(f) ==
    /\ node[f] # EmptyNode
    /\ listed' = Freed(listed, Footprint(node[f], mem))
    /\ node' = [node EXCEPT ![f] = EmptyNode]
    /\ data' = [data EXCEPT ![f] = << >>]
    /\ UNCHANGED <<mem, failed>>

-----------------------------------------------------------------------------
(* remove_datablocks_from_inode *)

\* A call under way: inode, words and free list so far, whether it goes on, what
\* remains of ending_block_num and whether the end was reached.
Start(n, disk) == [node |-> n, mem |-> disk.mem, free |-> disk.free, ok |-> TRUE,
                   left |-> 0, done |-> FALSE]

Fail(st) == [st EXCEPT !.ok = FALSE]

FreeOne(st, b) == [st EXCEPT !.free = Freed(@, <<b>>)]

\* The data blocks in entries from..to-1 of index block b are freed and the
\* entries cleared; at an entry without block the call fails.
ClearLeaf(st, b, from, to) ==
    LET unused == {i \in from..(to - 1) : st.mem[b][i] = 0}
        end == IF unused = {} THEN to ELSE Min(unused)
    IN [st EXCEPT !.free = Freed(@, [i \in from..(end - 1) |-> st.mem[b][i]]),
                  !.ok = unused = {},
                  !.mem[b] = IF unused = {}
                             THEN [i \in Position |-> IF i \in from..(to - 1) THEN 0 ELSE @[i]]
                             ELSE @]

\* Mutants: the inode keeps its pointer; only the root of the tree is freed.
DropTree_keeps_root(st, k) ==
    [st EXCEPT !.free = Freed(@, Tree(st.mem, st.node.i_indirect[k], k))]

DropTree_root_only(st, k) ==
    [st EXCEPT !.free = Freed(@, <<st.node.i_indirect[k]>>), !.node.i_indirect[k] = 0]

DropTree(st, k) ==
    LET root == st.node.i_indirect[k]
    IN IF root = 0
       THEN Fail(st)
       ELSE [st EXCEPT !.free = Freed(@, Tree(st.mem, root, k)), !.node.i_indirect[k] = 0]

\* Drops the tree of level k if a file of end blocks has one.
DropLevel(st, k, end) == IF ~ st.ok \/ end <= Base(k) THEN st ELSE DropTree(st, k)

RemoveFromDirect(st, start, end) ==
    LET gone == start..(Min({D, end}) - 1)
        direct == st.node.i_direct_blocks
        cleared == [st EXCEPT !.free = Freed(@, [i \in gone |-> direct[i]]),
                              !.node.i_direct_blocks =
                                  [i \in DOMAIN direct |-> IF i \in gone THEN 0 ELSE direct[i]]]
    IN DropLevel(DropLevel(DropLevel(cleared, 1, end), 2, end), 3, end)

\* Mutant: the double indirect tree is forgotten.
RemoveFromSingle_skips_double(st, start, end) ==
    IF st.node.i_indirect[1] = 0
    THEN Fail(st)
    ELSE DropLevel(ClearLeaf(st, st.node.i_indirect[1], start - D, Min({end - D, A})), 3, end)

RemoveFromSingle(st, start, end) ==
    LET cleared == ClearLeaf(st, st.node.i_indirect[1], start - D, Min({end - D, A}))
    IN IF st.node.i_indirect[1] = 0
       THEN Fail(st)
       ELSE DropLevel(DropLevel(cleared, 2, end), 3, end)

\* Whether the index block in slot i is kept after its entries from..j-1 are
\* gone; the double and the triple indirect code decide differently.
KeepSingle(level, i, slot, from, entry, j) ==
    IF level = 2 THEN i = slot /\ j > 0 ELSE from = entry

\* One turn of the loop over the single indirect blocks of a double indirect
\* block, whose words were read once; deletion starts at the given slot and entry.
SinglesTurn(st, words, i, slot, entry, level) ==
    LET from == IF i = slot THEN entry ELSE 0
        j == Max({from, Min({st.left, A})})
        cleared == ClearLeaf(st, words[i], from, j)
        kept == IF KeepSingle(level, i, slot, from, entry, j)
                THEN cleared ELSE FreeOne(cleared, words[i])
    IN CASE ~ st.ok \/ st.done -> st
         [] st.ok /\ ~ st.done /\ words[i] = 0 -> Fail(st)
         [] st.ok /\ ~ st.done /\ words[i] # 0 ->
              IF ~ cleared.ok
              THEN cleared
              ELSE IF j = st.left
                   THEN [cleared EXCEPT !.done = TRUE]
                   ELSE [kept EXCEPT !.left = @ - A]

RemoveSingles(st, words, first, slot, entry, level) ==
    LET turn[i \in 0..A] ==
          IF i <= first
          THEN st
          ELSE SinglesTurn(turn[i - 1], words, i - 1, slot, entry, level)
    IN turn[A]

RemoveFromDouble(st, start, end) ==
    LET r == start - Base(2)
        slot == r \div A
        after == RemoveSingles([st EXCEPT !.left = end - Base(2) - A * slot],
                               st.mem[st.node.i_indirect[2]], slot, slot, r % A, 2)
    IN IF st.node.i_indirect[2] = 0
       THEN Fail(st)
       ELSE IF ~ after.ok \/ after.left <= Span(2) THEN after ELSE DropTree(after, 3)

\* One turn of the loop over the double indirect blocks of the triple indirect
\* block.
DoublesTurn(st, words, i, top, slot, entry) ==
    LET first == IF i = top THEN slot ELSE 0
        after == RemoveSingles(st, st.mem[words[i]], first, slot, entry, 3)
    IN CASE ~ st.ok \/ st.done -> st
         [] st.ok /\ ~ st.done /\ words[i] = 0 -> Fail(st)
         [] st.ok /\ ~ st.done /\ words[i] # 0 ->
              IF ~ after.ok \/ after.done \/ first = slot THEN after ELSE FreeOne(after, words[i])

RemoveDoubles(st, words, top, slot, entry) ==
    LET turn[i \in 0..A] ==
          IF i <= top THEN st ELSE DoublesTurn(turn[i - 1], words, i - 1, top, slot, entry)
    IN turn[A]

RemoveFromTriple(st, start, end) ==
    LET r == start - Base(3)
        top == r \div Span(2)
        slot == Digit(r, 2)
    IN IF st.node.i_indirect[3] = 0
       THEN Fail(st)
       ELSE RemoveDoubles([st EXCEPT !.left = end - Base(3) - Span(2) * top - A * slot],
                          st.mem[st.node.i_indirect[3]], top, slot, r % A)

\* A start on the border of two levels belongs to the lower one, which clears
\* the root of the upper one.
remove_datablocks_from_inode(n, disk, start) ==
    LET end == n.i_blocks_num
        st == Start(n, disk)
        after == CASE start <= D -> RemoveFromDirect(st, start, end)
                   [] start > D /\ start <= Base(2) -> RemoveFromSingle(st, start, end)
                   [] start > Base(2) /\ start <= Base(3) -> RemoveFromDouble(st, start, end)
                   [] start > Base(3) -> RemoveFromTriple(st, start, end)
    IN IF after.ok THEN [after EXCEPT !.node.i_blocks_num = start] ELSE after

\* altfs_truncate cuts the file down to its first blocks; it stores the inode
\* whatever the call returned.
Truncate(f, start) ==
    LET res == remove_datablocks_from_inode(node[f], [mem |-> mem, free |-> listed], start)
    IN /\ start < node[f].i_blocks_num
       /\ node' = [node EXCEPT ![f] = res.node]
       /\ mem' = res.mem
       /\ listed' = res.free
       /\ data' = [data EXCEPT ![f] = SubSeq(@, 1, start)]
       /\ UNCHANGED failed

-----------------------------------------------------------------------------
(* get_disk_block_from_inode_block *)

Follow(b, level, r) == IF b = 0 THEN 0 ELSE mem[b][Digit(r, level)]

\* Mutant: the slot of the triple indirect block is computed like that of the
\* double indirect block.
Leaf_one_divisor(b, k, r) == CASE k = 1 -> b
                               [] k = 2 -> Follow(b, 2, r)
                               [] k = 3 -> Follow(Follow(b, 2, r), 2, r)

\* The index block that holds entry r of the tree of level k below b; 0 if it is
\* missing.
Leaf(b, k, r) == CASE k = 1 -> b
                   [] k = 2 -> Follow(b, 2, r)
                   [] k = 3 -> Follow(Follow(b, 3, r), 2, r)

\* The physical block of logical block l, and the index block remembered for
\* the next call; prev is the one remembered by the call before.
get_disk_block_from_inode_block(n, l, prev) ==
    LET k == LevelOf(l)
        r == l - Base(k)
        leaf == Leaf(n.i_indirect[k], k, r)
    IN CASE l > n.i_blocks_num -> [block |-> -1, prev |-> prev]
         [] l <= n.i_blocks_num /\ l < D ->
              [block |-> n.i_direct_blocks[l], prev |-> prev]
         [] l <= n.i_blocks_num /\ l >= D /\ k > 1 /\ n.i_indirect[k] # 0
              /\ r % A # 0 /\ prev # 0 ->
              [block |-> mem[prev][r % A], prev |-> prev]
         [] OTHER ->
              IF leaf = 0
              THEN [block |-> -1, prev |-> prev]
              ELSE [block |-> mem[leaf][r % A], prev |-> IF k > 1 THEN leaf ELSE prev]

-----------------------------------------------------------------------------

\* The truncations for which remove_datablocks_from_inode is expected to work:
\* they start at or below the first double indirect block, or they stay inside
\* one index block without emptying it.
Contained(start, end) ==
    \/ start <= Base(2)
    \/ \E k \in {2, 3} : /\ start > Base(k) /\ (start - Base(k)) % A # 0
                         /\ end <= Base(k) + A * ((start - Base(k)) \div A + 1)

NextWith(start_ok(_, _)) ==
    \E f \in File :
        \/ Append_(f)
        \/ free_inode(f)
        \/ \E start \in 0..(SizeLimit[f] - 1) :
              start_ok(start, node[f].i_blocks_num) /\ Truncate(f, start)

\* Files that grow, shrink by contained truncations and are deleted.
SpecContained == Init /\ [][NextWith(Contained)]_vars

\* Files that grow, shrink by any truncation and are deleted.
Anywhere(start, end) == TRUE
Spec == Init /\ [][NextWith(Anywhere)]_vars

-----------------------------------------------------------------------------
(* Properties *)

\* What altfs_read remembers before each block when it starts at block l and walks
\* to the end, handing the remembered index block from call to call.
Remembered(n, l) ==
    LET prev[x \in l..n.i_blocks_num] ==
          IF x = l THEN 0 ELSE get_disk_block_from_inode_block(n, x - 1, prev[x - 1]).prev
    IN prev

\* get_disk_block_from_inode_block finds every block of a file where it was
\* appended, for readers that start anywhere, after any history of appends and
\* truncations; and finds none behind the end.
MappingCorrect ==
    \A f \in File :
        /\ node[f].i_blocks_num = Len(data[f])
        /\ \A l \in 0..(Len(data[f]) - 1) : \A x \in l..(Len(data[f]) - 1) :
              get_disk_block_from_inode_block(node[f], x, Remembered(node[f], l)[x]).block
                 = data[f][x + 1]
        /\ get_disk_block_from_inode_block(node[f], Len(data[f]), 0).block <= 0

\* The blocks that file f would free when deleted, index blocks included.
Held(f) == Range(Footprint(node[f], mem))

\* No block belongs to two places: two files, two entries of one file, a file
\* and the free list, or twice to the free list.
NoSharing ==
    /\ \A f \in File : IsInjective(Footprint(node[f], mem))
    /\ \A f, g \in File : f # g => Held(f) \cap Held(g) = {}
    /\ \A f \in File : \A b \in Held(f) : listed[b] = 0
    /\ \A b \in Block : listed[b] <= 1

\* Unless an append failed, no block is lost: what no file can reach is on the
\* free list.
NoBlockLost == ~ failed => \A b \in Block : listed[b] > 0 \/ \E f \in File : b \in Held(f)

\* Unless an append failed, a level has a tree exactly when the file is long
\* enough to use it: truncation to the first block of a level clears the root of
\* that level too.
RootsMatchSize ==
    ~ failed => \A f \in File, k \in Level :
        node[f].i_indirect[k] # 0 <=> node[f].i_blocks_num > Base(k)
=============================================================================
