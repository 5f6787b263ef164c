----------------------------- MODULE InodeCache -----------------------------
(***************************************************************************)
(* The cache from paths to inode numbers (inode_cache.c), and the          *)
(* operations that consult and maintain it: name_i (directory_ops.c), and  *)
(* altfs_mknod, altfs_unlink and altfs_rename (interface_layer.c).         *)
(*                                                                         *)
(* The cache is a doubly linked list in order of last use, and an array    *)
(* that maps a hash to an entry.  Entries with the same hash are found by  *)
(* walking the list from that entry on.  Pointers and malloc are modelled: *)
(* an entry is a node of a heap, a freed node may be handed out again.     *)
(* When the code follows a pointer to no live node, the cache is "faulty"  *)
(* and nothing is said about what happens next.                            *)
(*                                                                         *)
(* The name space is flat: every path is a name in the root directory.     *)
(***************************************************************************)
EXTENDS Integers, FiniteSets, FiniteSetsExt

CONSTANTS
    Path,
    Node,          \* addresses malloc can return
    NULL,
    capacity,      \* CACHE_CAPACITY
    hash_index     \* hash_func(path) % capacity

Bucket == 0..(capacity - 1)

ASSUME CacheAssumption ==
    /\ capacity \in Nat \ {0}
    /\ IsFiniteSet(Path)
    /\ IsFiniteSet(Node)
    /\ NULL \notin Node
    /\ Cardinality(Node) > capacity
    /\ hash_index \in [Path -> Bucket]

\* Inode numbers of files; allocate_inode takes the lowest free one.
Inum == 3..(2 + Cardinality(Path))

VARIABLES
    inum_of,   \* the directory: the inode number of a path, -1 if there is none
    cache

vars == <<inum_of, cache>>

Pointer == Node \cup {NULL}

\* create_inode_cache
EmptyCache == [head |-> NULL, tail |-> NULL, size |-> 0, live |-> {},
               map |-> [h \in Bucket |-> NULL], heap |-> << >>, fault |-> FALSE]

Entry == [key : Path, value : Inum, prev : Pointer, next : Pointer]

TypeOK ==
    /\ inum_of \in [Path -> Inum \cup {-1}]
    /\ cache.head \in Pointer /\ cache.tail \in Pointer
    /\ cache.size \in 0..capacity
    /\ cache.live \subseteq Node
    /\ cache.map \in [Bucket -> Pointer]
    /\ cache.heap \in [cache.live -> Entry]

Init ==
    /\ inum_of = [p \in Path |-> -1]
    /\ cache = EmptyCache

Fault(c) == [c EXCEPT !.fault = TRUE]

-----------------------------------------------------------------------------
(* The list *)

\* The nodes met when walking from n along the next pointers.
Walk(c, n) ==
    LET at[i \in 0..Cardinality(Node)] ==
          IF i = 0 THEN n
          ELSE IF at[i - 1] \in c.live THEN c.heap[at[i - 1]].next ELSE at[i - 1]
    IN at

\* The first node from n on that has the key, NULL if there is none; the walk
\* fails when it leaves the live nodes or never ends.
Find(c, n, key) ==
    LET at == Walk(c, n)
        stops == {i \in DOMAIN at : at[i] \in c.live => c.heap[at[i]].key = key}
    IN IF stops = {} THEN [ok |-> FALSE, node |-> NULL]
       ELSE [ok |-> at[Min(stops)] \in c.live \cup {NULL}, node |-> at[Min(stops)]]

\* Mutant: the successor keeps pointing back to the node, the tail stays.
Detach_one_way(c, n) == [c EXCEPT !.heap[c.heap[n].prev].next = c.heap[n].next]

\* A node with a predecessor is taken out of the list.
Detach(c, n) ==
    LET prev == c.heap[n].prev
        next == c.heap[n].next
        cut == [c.heap EXCEPT ![prev].next = next]
    IN IF n = c.tail
       THEN [c EXCEPT !.heap = cut, !.tail = prev]
       ELSE [c EXCEPT !.heap = [cut EXCEPT ![next].prev = prev]]

\* The found node becomes the first of the list.
MoveToFront(c, n) ==
    LET out == Detach(c, n)
    IN IF n = c.head
       THEN c
       ELSE IF \/ c.heap[n].prev \notin c.live
               \/ c.head \notin c.live
               \/ n # c.tail /\ c.heap[n].next \notin c.live
       THEN Fault(c)
       ELSE [out EXCEPT !.heap = [@ EXCEPT ![n].prev = NULL, ![n].next = c.head,
                                           ![c.head].prev = n],
                        !.head = n]

\* A node that is head and tail at once moves only the head pointer.
delete_node(c, n) ==
    LET prev == c.heap[n].prev
        next == c.heap[n].next
        heap == [m \in c.live \ {n} |->
                    [c.heap[m] EXCEPT !.next = IF m = prev THEN next ELSE @,
                                      !.prev = IF m = next THEN prev ELSE @]]
    IN IF n \notin c.live
       THEN Fault(c)
       ELSE IF {prev, next} \subseteq c.live \cup {NULL}
       THEN [c EXCEPT !.heap = heap, !.live = @ \ {n},
                      !.head = IF n = c.head THEN next ELSE @,
                      !.tail = IF n # c.head /\ n = c.tail THEN prev ELSE @]
       ELSE Fault(c)

-----------------------------------------------------------------------------
(* The operations of the cache *)

\* The number is -1 if the key is not found.
get_cache_entry(c, key) ==
    LET found == Find(c, c.map[hash_index[key]], key)
    IN IF ~ found.ok THEN [cache |-> Fault(c), value |-> -1]
       ELSE IF found.node = NULL THEN [cache |-> c, value |-> -1]
       ELSE [cache |-> MoveToFront(c, found.node), value |-> c.heap[found.node].value]

\* Mutants: the counter is not lowered; the newest entry is deleted.
Trim_keeps_size(c) == IF c.size > capacity THEN delete_node(c, c.tail) ELSE c

Trim_evicts_newest(c) ==
    IF c.size > capacity THEN [delete_node(c, c.head) EXCEPT !.size = @ - 1] ELSE c

\* Above the capacity the least recently used entry is deleted; a bucket that
\* points to it is not changed.
Trim(c) ==
    IF c.size > capacity THEN [delete_node(c, c.tail) EXCEPT !.size = @ - 1] ELSE c

\* A new node id at the front of the list.
PushFront(c, key, value, id) ==
    [c EXCEPT !.heap = [m \in c.live \cup {id} |->
                           IF m = id
                           THEN [key |-> key, value |-> value, prev |-> NULL, next |-> c.head]
                           ELSE [c.heap[m] EXCEPT !.prev = IF m = c.head THEN id ELSE @]],
              !.live = @ \cup {id},
              !.head = id,
              !.tail = IF @ = NULL THEN id ELSE @,
              !.size = @ + 1]

\* Mutant: the bucket is not set.
Insert_unmapped(c, key, value, id) == Trim(PushFront(c, key, value, id))

Insert(c, key, value, id) ==
    IF c.head \in c.live \cup {NULL}
    THEN [Trim(PushFront(c, key, value, id)) EXCEPT !.map[hash_index[key]] = id]
    ELSE Fault(c)

set_cache_entry(c, key, value, id) ==
    LET found == Find(c, c.map[hash_index[key]], key)
    IN IF ~ found.ok THEN Fault(c)
       ELSE IF found.node = NULL THEN Insert(c, key, value, id)
       ELSE MoveToFront([c EXCEPT !.heap[found.node].value = value], found.node)

\* Mutant: the bucket keeps pointing to the deleted entry.
remove_cache_entry_keeps_bucket(c, key) ==
    LET found == Find(c, c.map[hash_index[key]], key)
    IN IF found.node \notin c.live THEN [cache |-> c, removed |-> FALSE]
       ELSE [cache |-> delete_node(c, found.node), removed |-> TRUE]

\* The size is not decreased, and the bucket is emptied whatever it held.
remove_cache_entry(c, key) ==
    LET found == Find(c, c.map[hash_index[key]], key)
    IN IF ~ found.ok THEN [cache |-> Fault(c), removed |-> FALSE]
       ELSE IF found.node = NULL THEN [cache |-> c, removed |-> FALSE]
       ELSE [cache |-> [delete_node(c, found.node) EXCEPT !.map[hash_index[key]] = NULL],
             removed |-> TRUE]

\* Mutant: a rename leaves the cache alone.
flush_inode_cache_never(c) == c

\* free_inode_cache, then create_inode_cache.
flush_inode_cache(c) ==
    LET at == Walk(c, c.head)
    IN IF at[Cardinality(Node)] = NULL /\ ~ c.fault THEN EmptyCache ELSE Fault(c)

-----------------------------------------------------------------------------
(* The operations that use it *)

\* The directory is read, and its answer cached, when the cache has none.  The
\* possible outcomes: they differ in the address malloc returns.
name_i(c, dir, p) ==
    LET got == get_cache_entry(c, p)
    IN IF c.fault
       THEN {[cache |-> c, inum |-> -1]}
       ELSE IF got.value > 0 \/ got.cache.fault \/ dir[p] = -1
       THEN {[cache |-> got.cache, inum |-> got.value]}
       ELSE {[cache |-> set_cache_entry(c, p, dir[p], id), inum |-> dir[p]] :
                id \in Node \ c.live}

\* Any operation that only needs the inode number of a path.
Lookup(p) ==
    /\ ~ cache.fault
    /\ \E found \in name_i(cache, inum_of, p) : cache' = found.cache
    /\ UNCHANGED inum_of

\* altfs_mknod; the new path is not cached.
Create(p) ==
    /\ ~ cache.fault
    /\ inum_of[p] = -1
    /\ \E found \in name_i(cache, inum_of, p) :
          /\ found.inum = -1
          /\ cache' = found.cache
    /\ inum_of' = [inum_of EXCEPT ![p] = Min(Inum \ {inum_of[q] : q \in Path})]

\* Mutant: an unlinked path stays in the cache.
Forget_nothing(c, p) == c

\* remove_from_inode_cache at the end of altfs_unlink, and the flush if the path
\* was not cached.
Forget(c, p) ==
    LET res == remove_cache_entry(c, p)
    IN IF c.fault \/ res.cache.fault THEN Fault(c)
       ELSE IF res.removed THEN res.cache ELSE flush_inode_cache(c)

\* altfs_unlink
Unlink(p) ==
    /\ ~ cache.fault
    /\ inum_of[p] # -1
    /\ \E found \in name_i(cache, inum_of, p) : cache' = Forget(found.cache, p)
    /\ inum_of' = [inum_of EXCEPT ![p] = -1]

\* altfs_rename to a path that does not exist; the cache is flushed at the end.
Rename(from, to) ==
    /\ ~ cache.fault
    /\ from # to
    /\ inum_of[from] # -1 /\ inum_of[to] = -1
    /\ \E first \in name_i(cache, inum_of, from) :
       \E second \in name_i(first.cache, inum_of, to) :
       \E third \in name_i(second.cache, inum_of, from) :
          /\ second.inum = -1
          /\ cache' = flush_inode_cache(third.cache)
          /\ inum_of' = [inum_of EXCEPT ![to] = third.inum, ![from] = -1]

\* altfs_rename to a path that exists: that one is unlinked first.
RenameOver(from, to) ==
    /\ ~ cache.fault
    /\ from # to
    /\ inum_of[from] # -1 /\ inum_of[to] # -1
    /\ \E first \in name_i(cache, inum_of, from) :
       \E second \in name_i(first.cache, inum_of, to) :
       \E third \in name_i(second.cache, inum_of, to) :
       \E fourth \in name_i(Forget(third.cache, to), inum_of, from) :
          /\ cache' = flush_inode_cache(fourth.cache)
          /\ inum_of' = [inum_of EXCEPT ![to] = fourth.inum, ![from] = -1]

-----------------------------------------------------------------------------

\* Files are created, looked up and renamed, never deleted.
NextNoUnlink ==
    \/ \E p \in Path : Lookup(p)
    \/ \E p \in Path : Create(p)
    \/ \E from, to \in Path : Rename(from, to)
    \/ \E from, to \in Path : RenameOver(from, to)
SpecNoUnlink == Init /\ [][NextNoUnlink]_vars

\* A file is deleted only while another path is cached and the counter, which
\* deletions do not lower, leaves room for all paths.
Careful(p) ==
    /\ \E n \in cache.live : cache.heap[n].key # p
    /\ cache.size + Cardinality(Path) <= capacity
NextCareful == NextNoUnlink \/ \E p \in Path : Careful(p) /\ Unlink(p)
SpecCareful == Init /\ [][NextCareful]_vars

\* Every workload.
Next == NextNoUnlink \/ \E p \in Path : Unlink(p)
Spec == Init /\ [][Next]_vars

-----------------------------------------------------------------------------
(* Properties *)

\* name_i gives the number that the directory holds for the path, -1 for a path
\* that does not exist, whatever the cache has been through.
Coherent ==
    \A p \in Path : \A found \in name_i(cache, inum_of, p) :
        found.cache.fault \/ found.inum = inum_of[p]

\* The cache never follows a NULL pointer or a pointer to a freed entry.
NoFault == ~ cache.fault

\* The list from head along next ends at tail and holds every entry in use, and
\* prev runs the other way; so eviction deletes the least recently used entry.
ListSound ==
    LET at == Walk(cache, cache.head)
        n == Cardinality(cache.live)
    IN cache.fault \/
       /\ {at[i] : i \in 0..(n - 1)} = cache.live
       /\ at[n] = NULL
       /\ cache.tail = IF n = 0 THEN NULL ELSE at[n - 1]
       /\ \A i \in 0..(n - 1) :
             cache.heap[at[i]].prev = IF i = 0 THEN NULL ELSE at[i - 1]

\* Every cached entry is found from its bucket, so that no path is cached twice
\* and remove_cache_entry leaves nothing of the path behind.
Findable ==
    cache.fault \/
    \A n \in cache.live :
        LET key == cache.heap[n].key
        IN Find(cache, cache.map[hash_index[key]], key) = [ok |-> TRUE, node |-> n]
=============================================================================
