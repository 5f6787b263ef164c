# AltFileSystem: TLA+ models, checks and proofs

AltFileSystem is a file system in user space. A FUSE layer passes each request
to an interface layer, which works on files and directories through inodes;
inodes and data blocks live in fixed-size blocks of one device (a file or, in
tests, memory). This directory models the parts that decide whether two files
can ever share a block or an inode, whether a block of a file can be found
again, whether a path leads to the right inode, whether what is read is what was
written, and what a crash between two disk writes leaves behind.

All sources are compiled as one unit (`src/fuse_layer.c` includes the others),
and the documentation mounts the system with `-s`: requests are handled one at a
time. So there are no threads. What makes the code hard is

- long sequences of legal calls that reach rare layouts (free-list heads that
  fill up or empty, files at the border of two indirection levels, cache entries
  that overtake each other);
- limits: the last free block, the last inode, the capacity of the cache;
- data that is read back from blocks whose content was written for another use;
- a crash or a failing transfer between two writes that belong together.

Paths below are relative to the repository.

## Components

| Component | State | Operations | Used by |
|---|---|---|---|
| Disk layer (`src/disk_layer.c`) | the blocks | read, write one block | everything |
| Superblock layer (`src/superblock_layer.c`) | `s_first_ino`, `s_freelist_head`, sizes; in memory and in block 0 | format, write, load | allocators, mount |
| Data block allocator (`src/data_block_ops.c`) | free list threaded through free blocks | allocate, free, read, write | block map, directories, file I/O |
| Inode table (`src/inode_ops.c`) | inode blocks, `i_allocated` of each inode | allocate, free, get, write | interface layer |
| Block map (`src/inode_data_block_ops.c`, end of `src/inode_ops.c`) | direct blocks and three index trees per inode | append, truncate, free all, translate | file I/O, directories |
| Inode cache (`src/inode_cache.c`) | LRU list, hash array, size | get, set, remove, flush | `name_i`, unlink, rename |
| Directories (`src/directory_ops.c`) | records in data blocks, `i_child_num` | add, find, remove entry, `name_i`, set up root | interface layer |
| Interface layer (`src/interface_layer.c`) | none of its own | mknod, mkdir, unlink, rename, open, read, write, truncate, chmod, readdir | FUSE layer |
| FUSE layer (`src/fuse_layer.c`), `src/mkfs.c` | none | wrappers, command line | kernel, user |

What makes each of them correct:

- *Allocator*: a block is never given to two clients; the list on disk, whatever
  clients wrote into its blocks earlier, names only free blocks, each once; no
  block is lost while nothing fails.
- *Inode table*: an inode of an existing file is never allocated again; the
  remembered number is the lowest free one; calls end.
- *Block map*: logical block `l` of a file is the `l`-th block appended to it,
  across all levels and truncations; index and data blocks belong to one place;
  dropping a range frees exactly its blocks.
- *Cache*: it answers like the directory; it follows no dangling pointer.
- *Directories*: every record that was added and not removed can be found and
  listed, whatever its block went through; a directory counts its records.
- *Interface layer, names*: a name leads to an inode in use, and only one name
  does, also after a crash in a creation or removal; a rename is all or nothing;
  without faults the calls are the operations of a name space.
- *Interface layer, contents*: files behave as sequences of bytes, for every
  alignment of offsets and lengths, full disks included; sizes match blocks; no
  block is in two files.

## Modules

| Module | Models | Abstractions |
|---|---|---|
| `BlockPool` | what clients expect of an allocator: acquire a block nobody holds, release it | |
| `FreeList` | `altfs_create_freelist`, `allocate_data_block`, `free_data_block`, `write_data_block` | a block is a function from word positions to numbers; a client fills its block with one word |
| `NaturalFacts` | facts about natural numbers, multiples and sets of numbers that the proofs share | |
| `FreeListProofs` | proofs | |
| `InodeTable` | `allocate_inode` and `free_inode`, one step per disk write and loop turn, mount after a crash | of an inode only the mark `i_allocated` is kept |
| `InodeTableProofs` | proofs | |
| `BlockMap` | `add_datablock_to_inode`, `remove_datablocks_from_inode`, `free_data_blocks_in_inode`, `get_disk_block_from_inode_block` | the allocator is a multiset of free blocks, lowest number first |
| `MCBlockMap` | two files of different size limits | |
| `BlockMapProofs` | proofs: the places of block maps, what each call does to them, the invariant | |
| `InodeCache` | `inode_cache.c` on a heap with malloc and free; `name_i`, `altfs_mknod`, `altfs_unlink`, `altfs_rename` as its users | paths are names in one directory; hash values are given |
| `MCInodeCache` | three paths in one bucket or in a bucket each | |
| `InodeCacheProofs` | proofs | |
| `NameSpace` | what callers expect of the tree: create, remove, move in one step each | |
| `Directory` | the records of a directory in its blocks (`directory_ops.c`): where they start, what fits, which are found and listed | a block is the sequence of its records; their lengths give byte positions |
| `Tree` (extends `Directory`) | `altfs_mknod`, `altfs_mkdir`, `altfs_unlink`, `altfs_rename`, `setup_filesystem` at each mount, with a crash between any two writes | names without the cache; inodes and blocks lowest first; no index blocks; permissions granted |
| `MCTree` | two names of different length | |
| `TreeLemmas`, `TreeProofs` | proofs: what the writes of a call do to records, names and blocks, cut short or not; the invariants, and what the calls do to a tree that is whole | |
| `FileSpec` | what callers expect of files: byte sequences, short writes that say so, torn writes after a crash | |
| `FileIO` | `altfs_read`, `altfs_write`, `altfs_truncate`, `altfs_open`, with crashes inside a write | a file is an inode; its block map is a sequence; free blocks come in an order the constants give |
| `MCFileIO` | two files, two kinds of writes; free blocks lowest first | |
| `FileIOProofs` | proofs: what the loops compute; what the calls do | |

The modules compose along the calls: `BlockMap`, `Tree` and `FileIO` use an
allocator that hands out a free block, which is what `FreeList` is shown to
implement (`BlockPool`); `Tree` uses inodes as `InodeTable` hands them out (the
lowest free one, never one in use) and the records of `Directory`; `FileIO` uses the
translation of `BlockMap` (block `l` is the `l`-th appended); `InodeCache` answers
for the lookups of `Tree`.

Correspondence of the state:

- `FreeList`: `s_freelist_head` is the superblock field. Every operation that
  moves the head writes the superblock before it returns, so memory and disk are
  one variable. `block` is the content of the data blocks. `uses` counts how
  often clients hold a number; it is a history variable, the code has none.
- `InodeTable`: `s_first_ino` and `disk_first_ino` are the field in memory and on
  disk; `pc`, `inum`, `block_num`, `offset`, `visited` are the locals of the
  running call; `held` is the set of inodes that files have.
- `BlockMap`: `node[f]` holds the fields of `struct inode` that locate blocks,
  `i_indirect[k]` being the single, double and triple indirect field; `mem` the
  words of index blocks; `listed` how often the free list holds a block; `data`
  the blocks appended to each file and not cut off, which the properties compare
  with; `failed` whether an append ran out of blocks (a history variable).
- `InodeCache`: `cache` is `struct inode_cache` with its heap. `fault` becomes
  TRUE when the code follows NULL or a freed node, and nothing happens afterwards.
  malloc returns any address that is not in use, so freed addresses come back.
  `inum_of` is the directory.
- `Tree`: `disk` holds the inodes, the records in data blocks and the set of free
  blocks. A call is a function of it; the inodes a call holds in memory are values
  in its LETs. The result names the disk the call leaves and its *cuts*, the disks
  between two of its writes: after a crash the next mount starts from one of them.
  `crashes` counts crashes, `history` remembers a mkdir that stayed half made, a
  directory that was moved, and a rename that a crash cut.
- `FileIO`: `disk` likewise, with the bytes of data blocks; `returned` is what the
  last call returned; `history` remembers a crash, a hole that could not be filled,
  and a write beyond what an inode can hold. `altfs_read` is a function that the
  property `ReadReturnsContents` evaluates in every state.

An action is a whole call, because calls do not overlap, except in `InodeTable`,
where each write and each loop turn is a step so that crashes and errors can fall
between them, and where crashes cut calls short, which are actions of their own
(`CrashIn...` in `FreeList`, `Tree` and `FileIO`). Early returns that change nothing are stuttering steps.

Operators named `X_...` and marked *Mutant* are variants of `X` with one plausible
mistake. They are used by no specification; substituted for `X`, each makes a
property fail, which shows that the property depends on the code.

## Runs

| Run | Bounds | Result |
|---|---|---|
| `freelist` | 6 data blocks, 4 words per block, 2 index blocks; crashes in allocations | list sound, implements `BlockPool`, only a crash loses a block |
| `freelist_full` | 5 data blocks, 3 words per block; the last block may be taken | **violation**: a block is handed out twice |
| `inodes` | 3 inode blocks of 3 inodes | lowest free number known, no leak, calls return |
| `inodes_faults` | the same, crashes and transfer errors | no inode of a file is allocated again |
| `blockmap` | 1 direct block, 2 addresses per block; files of up to 14 blocks (triple level) and 8 blocks (triple level just begun), 30 blocks in all with index blocks | translation right, nothing shared; until an append fails nothing lost and roots match sizes |
| `blockmap_double` | 3 addresses per block, any truncation | **violation**: freed index block still referenced |
| `cache` | 3 paths in one bucket, capacity 4, 5 addresses | coherent, list sound, no fault |
| `cache_unlink` | 3 paths in 3 buckets, capacity 5, 6 addresses | coherent, list sound, every entry found, no fault |
| `cache_stale` | one bucket, capacity 4 | **violation**: answer for a deleted path |
| `tree` | inodes 2 to 5 (the root is 2), 3 blocks of 10 bytes, names of 1 and 2 bytes, 1 crash, any number of remounts | directories readable; names and blocks sound after the crash; rename all or nothing; implements `NameSpace` without crashes |
| `fileio` | 2 files, 4 blocks of 2 bytes, 3 blocks per file at most, writes of 1 and 4 bytes, offsets and lengths 0 to 4, crashes in writes | implements `FileSpec`; blocks unshared and accounted for; sizes match; reads right |
| `fileio_trunc` | the same, with O_TRUNC | **violation**: the file is not truncated and refers to free blocks |

### Why the bounds suffice

The allocator distinguishes an index block that has a used slot or none, an empty
slot or none, a successor or none, and the head from the rest. Two index blocks
of three slots give all combinations, with a last index block that is cut off by the
end of the device; longer chains are covered by the proofs, which hold for every
layout. One client word that equals a block number is enough to
make old data look like an address; a word 0 comes from blocks never written.
Three inode blocks give the search a first, a middle and a last block. With two
addresses per block the trees of the block map have all border cases (first and
last entry of an index block, of a double indirect block, start of the triple
tree) within fourteen blocks; the one mistake that needs an index block with a
middle entry shows with three. Thirty blocks are too few for both files, so an
append fails at its data block and at each of its index blocks. In the cache, three paths and a capacity of four
allow duplicates of an entry, eviction, and moves from the head, the middle and
the tail.

In `tree` a block takes three records at most, so directories get a second block,
removals leave gaps that only a short name fits, and with three blocks a mkdir finds
one for the record, for its own records, or for neither. Three inodes besides the
root give a directory in a directory with an entry in it. One crash can put one
count off by one; the remount that follows is the case where the root is created
again. In `fileio` blocks of two bytes have a first and a last byte, and four bytes
at an odd offset are a part of a block, a whole one, and a part; five offsets put
them inside, at and behind the end; four blocks for two files of up to three run
out at every point, and a file reaches its limit first when it is alone.

`VIEW Visible` in the `BlockMap` runs merges states whose trees differ only in
block numbers; in `tree` it leaves out the contents of what no name leads to, which
is never read again; in `fileio` also the numbers of blocks and which file is which.
Addresses of cache nodes are interchangeable (`SYMMETRY`).

`freelist` does not check for deadlock: every crash may lose a block, and
when all are lost or held nothing can happen any more. Neither does `tree`, whose
behaviours end after a crash inside a rename.

### Workloads that are excluded, and why

Some of the components work only for a part of the calls their callers can
make. The passing runs (and the proofs) are about that part; the runs with a
violation and the remarks below them show what happens outside it.

- `SpecNeverFull`: no client takes the last free block.
- `Contained`: truncations that start at or before the first double indirect
  block, or stay inside one index block without emptying it. The comment at
  `src/inode_data_block_ops.c:637` says that the triple indirect code "definitely
  has bugs".
- `SpecNoUnlink`, `SpecCareful`: no deletion; or, for paths with buckets of their
  own, deletion only while another path is cached and the size counter, which
  removal does not lower, leaves room. `hash_func` adds up upper-case letters
  only, so paths have buckets of their own only when their upper-case letters differ;
  all paths without one share a bucket. This is the narrowest exclusion: a deletion from
  a bucket of several paths, the usual case for lower-case names, is looked at by
  `cache_stale` alone, which fails.
- `Renamable`: the kernel passes on no rename of a name to itself, of a directory
  into itself, or over one of its own ancestors.
- `"rename cut"`: `Tree` ends after a crash inside `altfs_rename`, which can leave two
  names of an inode whose link count is 1; deleting one makes the other lead to a
  free inode.
- `OpenTruncates`: off in `fileio`, because `altfs_open` with O_TRUNC spoils files
  with contents (`fileio_trunc`).

Guarantees that hold only until something happens say so: `NothingStranded`,
`DotsLeadUp` and `ImplementsNameSpace` without a crash and without a mkdir that ran
out of blocks, `DotsLeadUp` also before a directory is moved, `SizeMatchesBlocks` and
`ImplementsFiles` before a hole could not be filled, `TailsClearUnlessCrashed` before a
crash, `BlocksAccounted` before a crash and before a file reached its limit,
`NoBlockLost` and `RootsMatchSize` before an append ran out of blocks.

### Fairness

Only `InodeTable` has a liveness property, `CallsReturn`: every call comes back.
It assumes weak fairness of `Step`, the steps of a call that is under way: the
process executes its own instructions until the call ends. Starting calls and
crashes are not fair.

## Disagreements found

Each is a run that ends with a violation, with the line it contradicts in
`PROJECT.json`.

1. `free_data_block` on an empty free list (`src/data_block_ops.c:99`): the freed
   block becomes the head with its old content and is then entered into itself.
   Fill the disk, delete a file, and later files share blocks.
2. `remove_datablocks_from_inode` frees index blocks and leaves their numbers in
   the double indirect block (`src/inode_data_block_ops.c:608`); deleting the file
   frees them a second time.
3. A path can be cached twice and survive `remove_cache_entry`; `create a, stat a,
   create b, stat b, stat a, unlink a, stat b, stat a` finds a deleted file.
4. `altfs_open` with O_TRUNC on a file with contents writes the inode from before the
   truncation back (`src/interface_layer.c:457`): the file keeps its size, and its
   blocks are free.

What follows has no run of its own, because no document contradicts it or because
it is part of a passing run, and is listed as a hazard:

- `allocate_inode` treats a read error in its search as a full table
  (`src/inode_ops.c:102`).
- `delete_node` leaves `tail` dangling when the only entry is removed
  (`src/inode_cache.c:66`; check `NoFault` under `Spec` with the constants of
  `MCInodeCacheUnlink.cfg`).
- Eviction leaves a bucket pointing to the freed entry (`src/inode_cache.c:149`; check
  `NoFault` under `SpecNoUnlink` with a capacity of 2 and three paths in two buckets).
- `remove_datablocks_from_inode` keeps the triple indirect tree when it starts in the
  double indirect range (`src/inode_data_block_ops.c:617`; check `RootsMatchSize`
  under `Spec` with the constants of `MCBlockMap.cfg`).
- `altfs_mkdir` without a block for `.` leaves a directory that has a name and no
  records, and reports failure.
- `i_child_num` is written after the record it counts. After a crash in between a
  directory with an entry can be removed, and a root with one count too few is
  created anew at the next mount, which strands everything in it.
- A moved directory keeps the `..` of its old parent.
- A write that finds no block for the hole in front of it returns 0 and makes the
  file longer; a read there is an error.
- After a crash in a write, bytes behind the end of a file can show up later as the
  contents of a hole.

## Proofs

The theorems hold for every value of the constants that satisfies the named
assumptions: any number of blocks, inodes, files and names, any block size, and
calls in any order. Each run extends the module it is about, so TLC evaluates the
assumptions on its constants.

`NaturalFacts` holds what the others share: multiples and remainders, and induction
in terms of sets (`SetInduction`: a set of numbers that contains 0 and with each
number its successor is all of them; `LeastElement`). A statement about a recursive function is proved by applying
`SetInduction` to the set of the numbers it holds for; this is how the loops below
are dealt with.

### The data block allocator

`FreeListProofs`, from `LayoutAssumption` (the layout is one that formatting
accepts) and `ClientAssumption` (words of clients that are used as addresses are not
those of inode blocks, whose content the model leaves out):

- `FreeListTypes`: `SpecNeverFull => []TypeOK`;
- `FreeListIsSound`: `SpecNeverFull => []FreeListSound`;
- `BlocksAreExclusive`: `SpecNeverFull => []NoDoubleAllocation`;
- `AllocatorImplementsPool`: `SpecNeverFull => ImplementsPool`;
- `NoBlockIsLost`: `SpecNeverFull => NothingLost`.

The list is a chain, and what is on it is a matter of reachability, which would
need induction. `FreeListSound` avoids it: *there is* a set of index blocks, closed
under the links of word 0, such that every number in a slot is a data block outside
the set, nothing is named twice, and nothing named is in use. The witness after
formatting is `InitialIndex`; allocation of the head removes one block from the set,
freeing with a full head adds one, all other steps keep it. That formatting names
no block twice is arithmetic. The inductive invariant adds
the type invariant and that no block is held twice; with it each allocation hands
out a block that nobody holds, which is both the third theorem and the step
simulation of the fourth.

The set of `FreeListSound` may hold more than the list does, so `NothingLost` needs the
chain itself: `Chain` is what is in *every* set that holds the head and the links of
its members. A step keeps all of it (`ChainKept`), or all but the head that is handed
out (`ChainWithoutHead`): from a set that holds the new chain one gets a set that
holds the old one. After formatting every such set holds all index blocks, by
induction on their number, and every data block is less than one index block's
distance behind one of them (`InitAccounts`).

### The inode table

`InodeTableProofs`, from `TableAssumption`:

- `InodeTableTypes`: `Spec => []TypeOK`;
- `InodesAreExclusive`: `Spec => []NeverReissued`, with all faults. The
  invariant `IInv` says that files have marked inodes, and that during a search the
  position in the table equals the number computed from `visited`;
- `LowestFreeInodeIsKnown`: without faults `Spec => []FirstInoIsLeastFree`;
- `NoInodeIsLeaked`: without faults `Spec => []NoInodeLeaked`. The invariants `Least`
  and `Accounted` say what holds in the
  middle of a call: no free inode below the position of the search, and a freed
  inode is the only one that may lie below the remembered number.

### The block map

`BlockMapProofs`, from `MapAssumption` (at least one direct block, at least two
addresses per index block, size limits within what three levels can hold), for
truncations that are `Contained`; the others break `NoSharing`, see the violation of
`blockmap_double`:

- `MapTypeOK`: `SpecContained => []TypeOK`;
- `MapNoSharing`: `SpecContained => []NoSharing`;
- `MapMappingCorrect`: `SpecContained => []MappingCorrect`;
- `MapNoBlockLost`: `SpecContained => []NoBlockLost`;
- `MapRootsMatchSize`: `SpecContained => []RootsMatchSize`;
- `MapInvariant`: `SpecContained => []IInv`, on which the others rest.

The properties speak of what calls compute: what a deletion would free, where a
translation leads. The invariant speaks of *places*. A place is a pointer of a
block map, named by file, tree, depth in the tree and number at that depth (the
direct blocks are tree 0); `Val` is what is there, and `First` is the first logical
block at or below it. `IInv` says of every file that the blocks appended to it are
at the places of its logical blocks (`Mapped`) and that nothing is at a place whose
first block is behind its end (`Ends`), and of all files together that places hold
different blocks (`Apart`), that none of these is free (`Taken`), and that every block
is free or at a place (`Full`). An append that fails leaves index blocks without
entries and a data block that is nowhere, so once one has failed, `Full` is not
promised and `Ends` is about data blocks only (`strict` tells the two apart). That is
enough for the next append: it replaces such an index block instead of using it.

That every index block of a file exists needs no part of its own in the invariant:
the pointers on the way to a used place are used (`AboveUsed`), so a place whose first
block is before the end of the file is in use (`NonZero`).

Each call is described by what happens to places. `Gets`: one step of an append puts a
fresh block at one place and empties what is below, all else stays. `Dropped`: the
places in a set are emptied, and their blocks become free, each once (after a failed
append possibly not all of them). `Cut` is the same for a truncation under way. The
work is to show that the loops empty the right set: what the loops of
`remove_datablocks_utility` come to is everything below the root, because the used
places of a tree are the first ones at each depth (`Dense`, from `Mapped` and `Ends`); for a cut inside the double or triple indirect level the two loops
stop after one turn (`RemoveDouble`, `RemoveTriple`), which is what `Contained` asks
for. Then `CutSettled`: if the emptied places are those from the cut to the end, the file that
is left is settled again.

For `MappingCorrect` a reader may start at any block and hand the index block it
remembers from call to call. `Memory` says without recursion which one that is: none
before the first block behind the single indirect level, then the index block above the
previous logical block. By induction on the position (`WalkMemory`) the walk computes
it, and it is the right one whenever the position is not the first in its index block.

### File contents

`FileIOProofs`, from `FileAssumption` and `OrdersAssumption` (free blocks are handed
out in some order, each once), for files that are not opened with O_TRUNC
(`~ OpenTruncates`, see the violation of `fileio_trunc`):

- `FileTypes`: `Spec => []TypeOK`;
- `FileBlocksOwned`: `Spec => []OnlyOwnBlocks`;
- `FileSizes`: `Spec => []SizeMatchesBlocks`;
- `FileBlocksAccounted`: `Spec => []BlocksAccounted`;
- `FileTails`: `Spec => []TailsClearUnlessCrashed`;
- `FileReads`: `Spec => []ReadReturnsContents`;
- `FilesImplemented`: `Spec => ImplementsFiles`, the refinement of `FileSpec`.

The inductive invariant is the conjunction of the invariants among them with two
more: `WithinLimit`, no file has more blocks than an inode can name (without it a
write could start behind the limit, and `BlocksAccounted` would not say which blocks
are lost), and `UnusedEmpty`, an inode that is not in use has no blocks (without it
a new file could begin with the blocks of an old one).

The calls are loops over blocks. The first half of `FileIOProofs` says what each loop leaves without
mentioning the loop: `CopiedTo` for the copying of bytes into one block after
another, `Wrote` for a write, including the one that stops when blocks run out,
`Cut` for its crashes, `ShrunkTo` for a truncation. The proofs about calls use only
these. For a write they come to this: the bytes from the offset on are the ones
written, those before it are the old ones, or zeros if the file was shorter; the
latter is where `TailsClearUnlessCrashed` is needed, and why the refinement is
promised only while the tails are clear. For reads, the number computed from the first
and last byte in each block adds up to the length that was asked for.

### The directory tree

`TreeProofs`, from `RecordAssumption` (a block takes any one name, and `.` and `..`)
and `TreeAssumption`, with a crash between any two writes:

- `TreeTypes`: `Spec => []TypeOK`;
- `DirectoriesReadable`: `Spec => []DirectoryReadable`;
- `NamesLeadToInodes`: `Spec => []NamesSound`;
- `DirectoryBlocksOwned`: `Spec => []BlocksSound`;
- `RenameIsAtomic`: `Spec => []RenameAllOrNothing`.

The properties speak of what can be reached from the root, a recursive function of
the disk. The invariant does with less: *there is* a set `R` of inodes that contains
the root and is closed under the records in the blocks of its members, on which the
disk is `Sane`: the inodes in `R` are in use, no block is free and in one of them or in two, every record
can be found and no name is in a directory twice. What can be reached is part of
every such `R`. `Unique` adds that no two records lead to one inode, except for the
records at given places. The inductive invariant `IInv` is that the disk is `Sane`
for some `R` (`Sound`), and, until a crash hits a rename, `Unique` for it too (`Safe`).

A call holds an inode in memory while it writes records. Between two writes the disk
is judged by `Virtual`, the disk as it will be when the held inode is written: adding
a record (`Added`) or removing one (`RecordGone`) leads from a sane virtual disk to a sane virtual disk,
and the real disk at each point, which is what a crash leaves, is sane for the same
`R`, for `R` without the new inode, or for `R` without the inode that goes. For an
unlink, `R` without it is closed because no other record leads there
(`Unique`). A rename is the exception in the middle: the inode has two names, so only
`Sound` can be shown of its cuts, and `Safe` returns with the removal of the
old record. That the old record is still there when it is to be removed uses
`Renamable`: the directory `from` is not below the target, hence not the inode
that was freed (`NotInItself`).

`RenameAllOrNothing` speaks of every rename that could be called in a state. If
there is no target, a rename that fails has changed nothing. If there is one, it is
already unlinked when the new record is added, so the addition must not fail. That is an
argument about bytes: the record of the target leaves room for one with the same
name (`WithoutRoom`, `FindsRoom`). That the inode keeps a name at every cut is
tracked by `Points` (this name in this directory leads to this inode) through each
write of the unlink (`KeepsNames`) and of the addition (`EntryPlaced`).

With `CountAssumption` in addition (a count does not wrap around below the number
of inodes plus 2; `nlink_t` has 64 bits, and a directory cannot hold more names than
there are inodes):

- `NothingIsStranded`: `Spec => []NothingStranded`;
- `DotsAlwaysLeadUp`: `Spec => []DotsLeadUp`;
- `NameSpaceImplemented`: `Spec => ImplementsNameSpace`.

These need that what is in use *is* reached, the converse of what a set `R` gives.
`Whole(d, R, X)` says that `R` is exactly the inodes in use, that it is sane and
unique, that no block is lost, that every directory outside `X` counts its records
and has its dots, and that `R` is `Connected`: a subset of `R` that holds the root
and that names do not lead out of (`Shut`) is all of `R`. This is reachability
without paths, and each call preserves it by an argument about one set: for a set that is shut after the
call, name one that was shut before it. For a rename the set is what lies below the
moved inode, and `Renamable` says that the target directory is not in it; this is where
a tree could otherwise fall apart into a cycle. That the reachable inodes
of the properties, a recursive function with one stage per inode, are closed
(`BelowClosed`) holds because a stage that is not closed yet adds an inode, and
there are not more than that.

`WInv`, which is inductive together with `IInv` (`TreeStaysWhole`), is that the tree is whole until a crash or
a mkdir without space, and until a directory moves that its dots are right (`Dotted`).
`CreateDoes`, `MkdirEnters`, `UnlinkLeaves` and `RenameShifts` say of each call what it does to a whole tree,
in terms of the records only: an inode has `Entered`, has `Left` or was
`Shifted`, and a rename over an existing name is a `Left` and a `Shifted`.
`NextIsTreeStep` sums them up; `StepIsWhole` and `NextRefines` go from there to the
invariant and to the steps `Create`, `Remove` and `Move` of `NameSpace`. A mount without a
crash before it finds the root and changes nothing (`MountKeeps`), and the first one,
on a disk without inodes, makes it (`FirstIsWhole`).

### The inode cache

`InodeCacheProofs`, from `CacheAssumption`. For paths that share one bucket
(`SharedBucket`) and a capacity above 1:

- `CacheTypes`: `SpecNoUnlink => []TypeOK`;
- `CacheCoherent`: `SpecNoUnlink => []Coherent`;
- `CacheFaultless`: `SpecNoUnlink => []NoFault`;
- `CacheOrdered`: `SpecNoUnlink => []ListSound`.

For paths with buckets of their own (`SeparateBuckets`) and a capacity that is
enough for all of them:

- `CarefulCoherent`: `SpecCareful => []Coherent`;
- `CarefulFaultless`: `SpecCareful => []NoFault`;
- `CarefulOrdered`: `SpecCareful => []ListSound`;
- `EntriesFound`: `SpecCareful => []Findable`.

`Chain(c, n, f)` says that the list of the cache `c` is `f[0], ..., f[n - 1]`: these
are the live entries, each once, and `head`, `tail`, `next` and `prev` agree with
the order. From it follow where a walk leads (`WalkIs`, by induction), that a
search ends (`FindIs`) and that freeing the list reaches its end (`FlushIs`).
`Moved`, `PushedFront` and `Deleted` give the sequence after each change of the pointers.
`Deleted` needs a second entry: without one, `delete_node` leaves `tail`
pointing to what it freed. `Good` adds that buckets lead to live entries and that
entries hold what the directory holds, which is all that a look-up needs to
be right (`NameIs`).

`Good` is not inductive, because an insertion at the capacity evicts the last entry
without looking at the buckets. With one bucket the insertion overwrites the only pointer
that could be left, provided that the last entry is not the new one itself; so
`IInvShared` adds that the counter is the number of entries. A rename over an
existing path breaks that for a moment, and this is where the capacity above 1 is
needed: both paths are cached by then, so one entry stays. With separate
buckets nothing must be evicted at all. A deletion does not lower
the counter, so `IInvSeparate` says that the counter leaves room for
every path that is not cached, and (`Own`) that entries and buckets match one
to one.

### What is only model-checked

- `CallsReturn` of the inode table: liveness under fairness is out of the prover's
  reach. It is the only property of a passing run without a theorem.

## Not modelled

- The disk layer (whole-block copies), the FUSE wrappers and the mkfs command line:
  they keep no state of their own, and calls are sequential.
- `overwrite_datablock_to_inode`, which nothing calls.
- Times, owners and permission bits, and with them `altfs_chmod`; `altfs_getattr` and
  `altfs_access`, which change nothing. A call refused for lack of permission changes
  nothing.
- Crashes inside `free_data_block`, where the superblock is written before the link
  and the list is lost, and inside a truncation, where blocks are freed before the
  inode is written: what they leave is known to be unsound and no text promises
  otherwise.
- In `Tree`, `BlockMap` and `FileIO`, transfer errors: the disk layer fails on an
  invalid index or when the host's file does, and then most callers give up with the
  state as it is.
- In `FreeList`, transfer errors too. When the head block cannot be read or written, the
  list stays as it was, and a block that was being freed is on no list. When the head is
  handed out, a failed write of the old head after the superblock leaves what
  `CrashInAllocateHead` leaves; in `free_data_block` a failed write of the link leaves
  client data at the head, like the crash above. A superblock that cannot be written
  leaves different heads in memory and on disk. A new block that cannot be cleared is
  handed out with its old contents, because the result of that write is ignored. No
  property is claimed for behaviours with such an error.
- In `Tree`, the steps inside `free_data_blocks_in_inode`: a deletion frees the blocks
  of the inode in one write. No name leads to the inode by then, so a crash among
  them can lose blocks but shows in no name; which blocks are freed is the subject of
  `BlockMap`.
- The flags of a rename (exchange, no replace), which `my_rename` ignores.
- A crash inside the mount itself, which can strand a block.

## Plan

1. Crashes inside `free_data_block` and inside a truncation, once there is a text that says
   what a mount after them may expect: today's order of writes makes the free list unsound.
2. The checks of `altfs_access` and `altfs_chmod`, composed with `Tree`, so that permission
   bits decide which calls are refused.
