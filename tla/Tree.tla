-------------------------------- MODULE Tree --------------------------------
(***************************************************************************)
(* The directory tree: altfs_mknod, altfs_mkdir, altfs_unlink and          *)
(* altfs_rename of interface_layer.c, add_directory_entry and              *)
(* remove_directory_entry of directory_ops.c, and the mount, which creates *)
(* the root directory if it does not find one.                             *)
(*                                                                         *)
(* A call is a function of the disk.  Its result holds the disk it leaves, *)
(* what it returns, and the cuts: the disks between two of its writes,     *)
(* which is what the next mount finds if the process dies in between.      *)
(* Inodes that a call has read and not yet written are local values.       *)
(*                                                                         *)
(* Names are resolved without the inode cache, which InodeCache models.    *)
(* Inodes and data blocks are handed out lowest first, as InodeTable and   *)
(* FreeList show they can be; a call that finds no free inode changes      *)
(* nothing and is no step.  A directory has no index blocks; BlockMap has  *)
(* them.  Files are created and removed, FileIO fills them.  Callers have  *)
(* the permissions they need; a call that is refused changes nothing.      *)
(***************************************************************************)
EXTENDS Directory

CONSTANTS
    Inum,       \* inode numbers, from the root's on
    Block,      \* data blocks
    MAX_COUNT,  \* the largest nlink_t, the unsigned type of the counts
    MaxCrashes  \* bound on crashes, each of which can put a count off by one

ROOT_INODE_NUM == 2

ASSUME TreeAssumption ==
    /\ IsFiniteSet(Inum) /\ ROOT_INODE_NUM \in Inum
    /\ \A i \in Inum : i \in Nat /\ i >= ROOT_INODE_NUM
    /\ Block \subseteq Nat /\ Block # {}
    /\ MAX_COUNT \in Nat /\ MAX_COUNT > 2
    /\ MaxCrashes \in Nat

\* A count holds more than there are inodes: nlink_t has 64 bits.
ASSUME CountAssumption == Cardinality(Inum) + 2 <= MAX_COUNT

VARIABLES
    disk,      \* inodes, the records in data blocks, and the free data blocks
    crashes,   \* how often the process died
    history    \* what else happened that the guarantees depend on

vars == <<disk, crashes, history>>

Unused == [i_allocated |-> FALSE, i_mode |-> "none", i_links_count |-> 0,
           i_child_num |-> 0, i_blocks |-> << >>]

Inode == [i_allocated : BOOLEAN, i_mode : {"none", "dir", "file"},
          i_links_count : 0..MAX_COUNT, i_child_num : 0..MAX_COUNT, i_blocks : Seq(Block)]

Record == [inum : Inum, name : Name \cup {".", ".."}]

Disk == [inode : [Inum -> Inode], block : [Block -> Seq(Record)], free : SUBSET Block]

TypeOK ==
    /\ disk \in Disk
    /\ history \subseteq {"half made", "moved", "rename cut"}
    /\ crashes \in 0..MaxCrashes

-----------------------------------------------------------------------------
(* Looking up *)

\* The data blocks of a directory, from the inode a call holds.
BlocksOf(d, node) == [l \in DOMAIN node.i_blocks |-> d.block[node.i_blocks[l]]]

\* The inode number that a name has in directory dir, 0 for none.
Lookup(d, dir, n) ==
    LET blocks == BlocksOf(d, d.inode[dir])
        p == get_file_position_in_dir(blocks, n)
    IN IF d.inode[dir].i_mode # "dir" \/ p = <<0, 0>> THEN 0 ELSE blocks[p[1]][p[2]].inum

\* Everything that name_i can reach from inode i.
Below(d, i) ==
    LET steps == Cardinality(Inum) - 1
        reach[k \in 0..steps] ==
            IF k = 0
            THEN {i}
            ELSE LET near == reach[k - 1]
                 IN near \cup ({Lookup(d, dir, n) : dir \in near, n \in Name} \ {0})
    IN reach[steps]

Dirs(d) == {i \in Below(d, ROOT_INODE_NUM) : d.inode[i].i_mode = "dir"}

-----------------------------------------------------------------------------
(* The writes of a call *)

\* Counts wrap around: one that a crash left too low can go below 0.
Incremented(count) == (count + 1) % (MAX_COUNT + 1)
Decremented(count) == (count - 1) % (MAX_COUNT + 1)

\* A call that has written nothing yet, and one that has read the inode of dir.
Begin(d) == [ok |-> TRUE, disk |-> d, node |-> Unused, cuts |-> {}]
Hold(c, dir) == [c EXCEPT !.node = c.disk.inode[dir]]

Fail(c) == [c EXCEPT !.ok = FALSE]

\* A write replaces the disk and leaves the one before as a cut.
Write(c, d) == [c EXCEPT !.disk = d, !.cuts = @ \cup {c.disk}]

write_inode(c, i, node) == Write(c, [c.disk EXCEPT !.inode[i] = node])

\* The inode the call holds is written, unless the call has failed before.
Save(c, i) == IF c.ok THEN write_inode(c, i, c.node) ELSE c

-----------------------------------------------------------------------------
(* Records *)

AddToBlock(c, b, record) == Write(c, [c.disk EXCEPT !.block[b] = Append(@, record)])

\* allocate_data_block, which clears the block.
AddNewBlock(c, b) ==
    [Write(c, [c.disk EXCEPT !.free = @ \ {b}, !.block[b] = << >>])
        EXCEPT !.node.i_blocks = Append(@, b)]

Counted(c) == [c EXCEPT !.node.i_child_num = Incremented(@)]

\* Adds a record to the directory whose inode the caller holds and will write,
\* in a new block if none has room.
add_directory_entry(c, inum, name) ==
    LET l == BlockWithRoom(BlocksOf(c.disk, c.node), name)
        record == [inum |-> inum, name |-> name]
        new == Min(c.disk.free)
    IN IF ~ c.ok \/ c.node.i_mode # "dir" \/ (l = 0 /\ c.disk.free = {})
       THEN Fail(c)
       ELSE Counted(IF l # 0
                    THEN AddToBlock(c, c.node.i_blocks[l], record)
                    ELSE AddToBlock(AddNewBlock(c, new), new, record))

\* The record at p goes from its block.
RemoveFromBlock(c, p) ==
    Write(c, [c.disk EXCEPT !.block[c.node.i_blocks[p[1]]] = Without(@, p[2])])

\* Mutant: the records are not counted down.
remove_directory_entry_uncounted(c, name) ==
    IF c.ok
    THEN RemoveFromBlock(c, get_file_position_in_dir(BlocksOf(c.disk, c.node), name))
    ELSE c

\* Removes a record that exists; the caller will write the inode.
remove_directory_entry(c, name) ==
    IF c.ok
    THEN [RemoveFromBlock(c, get_file_position_in_dir(BlocksOf(c.disk, c.node), name))
             EXCEPT !.node.i_child_num = Decremented(@)]
    ELSE c

-----------------------------------------------------------------------------
(* Calls *)

\* free_data_blocks_in_inode, the first part of free_inode.
BlocksFreed(c, i) == Write(c, [c.disk EXCEPT !.free = @ \cup Range(c.disk.inode[i].i_blocks)])

free_inode(c, i) == write_inode(BlocksFreed(c, i), i, Unused)

\* What allocate_inode returns, and its mark.
NextInode(d) == Min({j \in Inum : ~ d.inode[j].i_allocated})
allocate_inode(c, i) == Write(c, [c.disk EXCEPT !.inode[i].i_allocated = TRUE])

\* The end of create_new_file: the parent's inode and the new one are written, or
\* the new one is given back.
Created(c, dir, i, child) ==
    IF c.ok
    THEN [write_inode(Save(c, dir), i, child) EXCEPT !.node = child]
    ELSE free_inode(c, i)

\* create_new_file, for a name that the directory does not have.
create_new_file(d, dir, n, mode) ==
    LET i == NextInode(d)
        added == add_directory_entry(allocate_inode(Hold(Begin(d), dir), i), i, n)
    IN Created(added, dir, i, [Unused EXCEPT !.i_allocated = TRUE, !.i_mode = mode,
                                             !.i_links_count = 1])

\* Mutants: the parent's number is not passed on; it is the directory's own.
mkdir_to(d, dir, n, up) ==
    LET i == NextInode(d)
        dotted == add_directory_entry(create_new_file(d, dir, n, "dir"), i, ".")
    IN Save(add_directory_entry(dotted, up, ".."), i)

mkdir_no_parent(d, dir, n) == mkdir_to(d, dir, n, 0)
mkdir_own_parent(d, dir, n) == mkdir_to(d, dir, n, NextInode(d))

\* A new directory gets its records "." and ".."; if one cannot be added the
\* directory stays as it is.
mkdir(d, dir, n) ==
    LET i == NextInode(d)
        dotted == add_directory_entry(create_new_file(d, dir, n, "dir"), i, ".")
    IN Save(add_directory_entry(dotted, dir, ".."), i)

\* Mutant: directories with one entry count as empty.
is_empty_dir_one_more(node) == node.i_child_num <= 3

is_empty_dir(node) == node.i_child_num <= 2

\* One name less for inode i.  An inode whose link count was not 1, the remains of
\* a creation cut short, is kept.
Unlinked(c, i, node) ==
    IF node.i_links_count = 1
    THEN free_inode(c, i)
    ELSE write_inode(c, i, [node EXCEPT !.i_links_count = Decremented(@)])

\* Mutant: the inode goes before the record that leads to it.
unlink_inode_first(d, dir, n) ==
    LET i == Lookup(d, dir, n)
        node == d.inode[i]
        gone == free_inode(Begin(d), i)
    IN IF node.i_mode = "dir" /\ ~ is_empty_dir(node)
       THEN Fail(Begin(d))
       ELSE Save(remove_directory_entry(Hold(gone, dir), n), dir)

\* altfs_unlink of a name that exists.
unlink(d, dir, n) ==
    LET i == Lookup(d, dir, n)
        node == d.inode[i]
        removed == remove_directory_entry(Hold(Begin(d), dir), n)
    IN IF node.i_mode = "dir" /\ ~ is_empty_dir(node)
       THEN Fail(Begin(d))
       ELSE Save(Unlinked(removed, i, node), dir)

\* The start of altfs_rename: what has the new name is unlinked.
Cleared(d, to, tn) == IF Lookup(d, to, tn) = 0 THEN Begin(d) ELSE unlink(d, to, tn)

\* Mutant: the old record is removed before the new one is added.
rename_old_first(d, from, fn, to, tn) ==
    LET removed == remove_directory_entry(Hold(Cleared(d, to, tn), from), fn)
        saved == Save(removed, from)
        added == add_directory_entry(Hold(saved, to), Lookup(d, from, fn), tn)
    IN Save(added, to)

\* altfs_rename of a name that exists: a record is added under the new name, then
\* the old record is removed.
rename(d, from, fn, to, tn) ==
    LET cleared == Cleared(d, to, tn)
        added == add_directory_entry(Hold(cleared, to), Lookup(cleared.disk, from, fn), tn)
        removed == remove_directory_entry(Hold(Save(added, to), from), fn)
    IN Save(removed, from)

-----------------------------------------------------------------------------
(* Mounting *)

NewRoot(node) == [node EXCEPT !.i_allocated = TRUE, !.i_links_count = Incremented(@),
                              !.i_mode = "dir", !.i_blocks = << >>, !.i_child_num = 0]

\* setup_filesystem: a root directory with fewer than two records, by its count,
\* is created anew.
setup_filesystem(d) ==
    LET root == d.inode[ROOT_INODE_NUM]
        new == [Begin(d) EXCEPT !.node = NewRoot(root)]
        dotted == add_directory_entry(new, ROOT_INODE_NUM, ".")
    IN IF root.i_allocated /\ root.i_child_num >= 2
       THEN Begin(d)
       ELSE Save(add_directory_entry(dotted, ROOT_INODE_NUM, ".."), ROOT_INODE_NUM)

\* What mkfs leaves: inodes below the root are never handed out.
Formatted == [inode |-> [i \in Inum |-> Unused], block |-> [b \in Block |-> << >>],
              free |-> Block]

Init ==
    /\ disk = setup_filesystem(Formatted).disk
    /\ crashes = 0
    /\ history = {}

-----------------------------------------------------------------------------
(* The calls as steps *)

Creatable(dir, n) ==
    /\ Lookup(disk, dir, n) = 0
    /\ \E j \in Inum : ~ disk.inode[j].i_allocated

\* What the kernel lets through as a rename: another name, neither of the two
\* names below the other.
Renamable(from, fn, to, tn) ==
    /\ <<from, fn>> # <<to, tn>>
    /\ Lookup(disk, from, fn) # 0
    /\ to \notin Below(disk, Lookup(disk, from, fn))
    /\ Lookup(disk, to, tn) # 0 => from \notin Below(disk, Lookup(disk, to, tn))

altfs_mknod(dir, n) ==
    /\ Creatable(dir, n)
    /\ disk' = create_new_file(disk, dir, n, "file").disk
    /\ UNCHANGED <<crashes, history>>

altfs_mkdir(dir, n) ==
    LET call == mkdir(disk, dir, n)
    IN /\ Creatable(dir, n)
       /\ disk' = call.disk
       /\ history' = IF call.ok \/ Lookup(disk', dir, n) = 0
                     THEN history ELSE history \cup {"half made"}
       /\ UNCHANGED crashes

altfs_unlink(dir, n) ==
    /\ Lookup(disk, dir, n) # 0
    /\ disk' = unlink(disk, dir, n).disk
    /\ UNCHANGED <<crashes, history>>

altfs_rename(from, fn, to, tn) ==
    LET call == rename(disk, from, fn, to, tn)
        moved == from # to /\ disk.inode[Lookup(disk, from, fn)].i_mode = "dir"
    IN /\ Renamable(from, fn, to, tn)
       /\ disk' = call.disk
       /\ history' = IF call.ok /\ moved THEN history \cup {"moved"} ELSE history
       /\ UNCHANGED crashes

\* altfs_destroy and the next mount.
Remount ==
    /\ setup_filesystem(disk).ok
    /\ disk' = setup_filesystem(disk).disk
    /\ UNCHANGED <<crashes, history>>

\* The process dies after some of the writes of a call; the next mount succeeds.
CrashIn(call) ==
    /\ crashes < MaxCrashes
    /\ crashes' = crashes + 1
    /\ \E cut \in call.cuts :
          LET mounted == setup_filesystem(cut)
          IN mounted.ok /\ disk' = mounted.disk

CrashInCreate(dir, n) ==
    /\ Creatable(dir, n)
    /\ \/ CrashIn(create_new_file(disk, dir, n, "file"))
       \/ CrashIn(mkdir(disk, dir, n))
    /\ UNCHANGED history

CrashInUnlink(dir, n) ==
    /\ Lookup(disk, dir, n) # 0
    /\ CrashIn(unlink(disk, dir, n))
    /\ UNCHANGED history

CrashInRename(from, fn, to, tn) ==
    /\ Renamable(from, fn, to, tn)
    /\ CrashIn(rename(disk, from, fn, to, tn))
    /\ history' = history \cup {"rename cut"}

\* Behaviours end with a crash inside a rename: the file may have two names and
\* a link count of 1 from then on.
Next ==
    /\ "rename cut" \notin history
    /\ \/ Remount
       \/ LET dirs == Dirs(disk)
          IN \E dir \in dirs, n \in Name :
                \/ altfs_mknod(dir, n)
                \/ altfs_mkdir(dir, n)
                \/ altfs_unlink(dir, n)
                \/ CrashInCreate(dir, n)
                \/ CrashInUnlink(dir, n)
                \/ \E to \in dirs, tn \in Name :
                      \/ altfs_rename(dir, n, to, tn)
                      \/ CrashInRename(dir, n, to, tn)

Spec == Init /\ [][Next]_vars

-----------------------------------------------------------------------------
(* Properties *)

Reached == Below(disk, ROOT_INODE_NUM)

Records(dir) == {r \in UNION {Range(block) : block \in Range(BlocksOf(disk, disk.inode[dir]))} :
                    r.name \in Name}

\* Every directory that can be reached is readable: its blocks hold what fits,
\* each name once, get_file_position_in_dir finds every record and altfs_readdir
\* lists it, whatever was added, removed or cut short before.
DirectoryReadable ==
    \A dir \in Dirs(disk) :
        LET blocks == BlocksOf(disk, disk.inode[dir])
        IN \A l \in DOMAIN blocks :
              /\ Offset(blocks[l], Len(blocks[l]) + 1) <= BLOCK_SIZE
              /\ Listed(blocks[l]) = Range(blocks[l])
              /\ \A i \in DOMAIN blocks[l] :
                    get_file_position_in_dir(blocks, blocks[l][i].name) = <<l, i>>

\* Unless a crash hit a rename, a name leads to an inode in use that no other
\* name leads to: creation and removal order their writes so that a crash at any
\* point can strand inodes but never leaves a name to a freed one.
NamesSound ==
    "rename cut" \notin history =>
        LET named == UNION {{dir} \X Records(dir) : dir \in Dirs(disk)}
        IN /\ \A e \in named : disk.inode[e[2].inum].i_allocated /\ e[2].inum # ROOT_INODE_NUM
           /\ \A e1, e2 \in named : e1[2].inum = e2[2].inum => e1 = e2

\* Under the same condition no directory that can be reached has a data block
\* that is free or that another one has too.
BlocksSound ==
    "rename cut" \notin history =>
        \A i, j \in Reached :
            /\ Range(disk.inode[i].i_blocks) \cap disk.free = {}
            /\ i # j => Range(disk.inode[i].i_blocks) \cap Range(disk.inode[j].i_blocks) = {}

\* Without crashes and without a mkdir that ran out of space, nothing is lost:
\* the inodes in use are the ones that names lead to, blocks are free or in one
\* of them, and each directory counts its records, so that altfs_unlink knows
\* which directories are empty and the mount knows the root.
NothingStranded ==
    crashes = 0 /\ history \subseteq {"moved"} =>
        /\ Reached = {i \in Inum : disk.inode[i].i_allocated}
        /\ Block = disk.free \cup UNION {Range(disk.inode[i].i_blocks) : i \in Reached}
        /\ \A dir \in Dirs(disk) :
              disk.inode[dir].i_child_num = Cardinality(Records(dir)) + 2

\* altfs_rename is all or nothing although it unlinks the target first: the
\* record that goes leaves room for the one that comes.  If the process dies in
\* the middle, what is renamed still has its old or its new name.
RenameAllOrNothing ==
    "rename cut" \notin history =>
        \A from, to \in Dirs(disk), fn, tn \in Name :
            Renamable(from, fn, to, tn) =>
                LET call == rename(disk, from, fn, to, tn)
                    i == Lookup(disk, from, fn)
                IN /\ IF call.ok
                      THEN Lookup(call.disk, to, tn) = i /\ Lookup(call.disk, from, fn) = 0
                      ELSE call.disk = disk
                   /\ \A cut \in call.cuts :
                         Lookup(cut, from, fn) = i \/ Lookup(cut, to, tn) = i

\* Until a directory is moved, or its creation is cut short, "." leads to itself
\* and ".." to the directory that holds it.
DotsLeadUp ==
    crashes = 0 /\ history = {} =>
        \A dir \in Dirs(disk), n \in Name :
            LET i == Lookup(disk, dir, n)
            IN i \in Dirs(disk) => Lookup(disk, i, ".") = i /\ Lookup(disk, i, "..") = dir

Entries ==
    {e \in {[dir |-> dir, name |-> n, inum |-> Lookup(disk, dir, n)] : dir \in Dirs(disk), n \in Name} :
        e.inum # 0}

Directories == Dirs(disk)

NS == INSTANCE NameSpace
    WITH Root <- ROOT_INODE_NUM, entries <- Entries, dirs <- Directories

\* Without crashes and without a mkdir that ran out of space the calls implement
\* the abstract name space.
ImplementsNameSpace ==
    /\ NS!Init
    /\ [][crashes' = 0 /\ history' \subseteq {"moved"} => [NS!Next]_<<Entries, Directories>>]_vars
=============================================================================
