----------------------------- MODULE TreeProofs -----------------------------
(***************************************************************************)
(* The directory tree stays sound, whatever is cut short; until then       *)
(* nothing is lost from it, and it implements the abstract name space.     *)
(*                                                                         *)
(* Whole(d, R, X) says more than Sane: R is exactly the inodes in use, all *)
(* of them can be reached, all blocks are in their place, and every        *)
(* directory counts its records. That all of R can be reached is stated as *)
(* Connected, without paths: a set that holds the root, and that names do  *)
(* not lead out of, is all of R.                                           *)
(***************************************************************************)
EXTENDS TreeLemmas, TLAPS

-----------------------------------------------------------------------------
(* What sound disks mean for the properties *)

Sound(d) == \E R : Sane(d, R)

\* A safe disk is sound.
LEMMA SafeIsSound ==
    ASSUME NEW d, Safe(d)
    PROVE  Sound(d) /\ d \in Disk
BY DEF Safe, Sound, Sane

\* A record of a directory that can be reached is in one of its blocks.
LEMMA RecordIsIn ==
    ASSUME NEW R, Sane(disk, R), NEW dir \in R, NEW r \in Records(dir)
    PROVE  \E b \in OwnedBy(disk, dir) : \E k \in DOMAIN disk.block[b] :
               disk.block[b][k] = r /\ r.name \in Name
<1> DEFINE node == disk.inode[dir]
           blocks == BlocksOf(disk, node)
<1>1. disk \in Disk /\ node \in Inode
  BY SaneTypes DEF Sane
<1>2. /\ DOMAIN blocks = DOMAIN node.i_blocks
      /\ \A l \in DOMAIN blocks : blocks[l] = disk.block[node.i_blocks[l]]
  BY <1>1, BlocksOfType
<1>3. r.name \in Name /\ \E block \in Range(blocks) : r \in Range(block)
  BY DEF Records
<1> HIDE DEF blocks
<1>4. PICK l \in DOMAIN blocks : r \in Range(blocks[l])
  BY <1>3 DEF Range
<1>5. PICK k \in DOMAIN blocks[l] : blocks[l][k] = r
  BY <1>4 DEF Range
<1>6. node.i_blocks[l] \in OwnedBy(disk, dir)
  BY <1>2 DEF OwnedBy, Range
<1> QED
  BY <1>2, <1>3, <1>5, <1>6

\* On a sound disk every directory that can be reached is readable.
LEMMA SoundIsReadable ==
    ASSUME Sound(disk)
    PROVE  DirectoryReadable
<1> SUFFICES ASSUME NEW dir \in Dirs(disk), NEW l \in DOMAIN BlocksOf(disk, disk.inode[dir])
             PROVE  LET blocks == BlocksOf(disk, disk.inode[dir])
                    IN /\ Offset(blocks[l], Len(blocks[l]) + 1) <= BLOCK_SIZE
                       /\ Listed(blocks[l]) = Range(blocks[l])
                       /\ \A i \in DOMAIN blocks[l] :
                             get_file_position_in_dir(blocks, blocks[l][i].name) = <<l, i>>
  BY DEF DirectoryReadable
<1> DEFINE node == disk.inode[dir]
           blocks == BlocksOf(disk, node)
           s == blocks[l]
           b == node.i_blocks[l]
<1>1. PICK R : Sane(disk, R)
  BY DEF Sound
<1>2. dir \in R
  <2>1. ROOT_INODE_NUM \in R
    BY <1>1 DEF Sane
  <2> QED
    BY <1>1, <2>1, BelowIsIn DEF Dirs
<1>3. disk \in Disk /\ node \in Inode
  BY <1>1, <1>2, SaneTypes DEF Sane
<1>4. /\ blocks \in Seq(Seq(Record)) /\ DOMAIN blocks = DOMAIN node.i_blocks
      /\ \A m \in DOMAIN blocks : blocks[m] = disk.block[node.i_blocks[m]]
  BY <1>3, BlocksOfType
<1>5. b \in OwnedBy(disk, dir) /\ s = disk.block[b] /\ s \in Seq(Record) /\ l \in Nat
  BY <1>4 DEF OwnedBy, Range
<1>6. Fits(s)
  BY <1>1, <1>2, <1>5 DEF Sane, Readable
<1> HIDE DEF blocks, s
<1>7. Listed(s) = Range(s)
  <2>1. \A j \in DOMAIN s : Offset(s, j) < LAST_POSSIBLE_RECORD
    BY <1>5, <1>6, FitsAll
  <2> QED
    BY <2>1 DEF Listed, Range
<1>8. ASSUME NEW i \in DOMAIN s
      PROVE  get_file_position_in_dir(blocks, s[i].name) = <<l, i>>
  <2> DEFINE n == s[i].name
             p == Position(disk, node, n)
  <2>1. Has(disk, node, n)
    BY <1>5, <1>8 DEF Has, OwnedBy
  <2>2. \A x \in Range(node.i_blocks) : Fits(disk.block[x])
    BY <1>1, <1>2 DEF Sane, Readable, OwnedBy
  <2>3. IsAt(disk, node, n, p)
    BY <1>3, <2>1, <2>2, PositionIs
  <2>4. p = <<p[1], p[2]>>
    <3> HIDE DEF n
    <3>1. p = get_file_position_in_dir(blocks, n)
      BY DEF Position, blocks
    <3>2. Matches(blocks, n) # {}
      <4> SUFFICES ASSUME Matches(blocks, n) = {} PROVE FALSE
        OBVIOUS
      <4>1. p = <<0, 0>>
        BY <3>1 DEF get_file_position_in_dir
      <4>2. p[1] = 0 /\ 0 \notin DOMAIN blocks
        BY <1>4, <4>1
      <4> QED
        BY <1>4, <2>3, <4>2 DEF IsAt
    <3>3. p \in Matches(blocks, n)
      BY <1>4, <3>1, <3>2, SearchFinds
    <3>4. PICK m \in DOMAIN blocks : p \in {m} \X DOMAIN blocks[m]
      BY <3>3 DEF Matches
    <3> QED
      BY <3>4
  <2> HIDE DEF p
  <2> DEFINE a == node.i_blocks[p[1]]
  <2>5. /\ p[1] \in DOMAIN node.i_blocks
        /\ a \in OwnedBy(disk, dir) /\ p[2] \in DOMAIN disk.block[a] /\ disk.block[a][p[2]].name = n
    BY <2>3 DEF IsAt, OwnedBy, Range
  <2>6. a = b /\ p[2] = i
    <3>1. i \in DOMAIN disk.block[b] /\ disk.block[b][i].name = n
      BY <1>5, <1>8
    <3> HIDE DEF a, b, n
    <3> QED
      BY <1>1, <1>2, <1>5, <2>5, <3>1 DEF Sane, Readable
  <2>7. p[1] = l
    <3>1. IsInjective(node.i_blocks)
      BY <1>1, <1>2 DEF Sane, Exclusive
    <3>2. l \in DOMAIN node.i_blocks
      BY <1>4 DEF blocks
    <3> QED
      BY <2>5, <2>6, <3>1, <3>2 DEF IsInjective
  <2> QED
    BY <2>4, <2>6, <2>7 DEF p, Position, blocks
<1> QED
  BY <1>6, <1>7, <1>8 DEF Fits, s, blocks

\* On a safe disk names and blocks are sound.
LEMMA SafeNames ==
    ASSUME Safe(disk)
    PROVE  NamesSound /\ BlocksSound
<1> DEFINE named == UNION {{dir} \X Records(dir) : dir \in Dirs(disk)}
<1>1. PICK R : Sane(disk, R) /\ Unique(disk, R, {})
  BY DEF Safe
<1>2. Reached \subseteq R /\ Dirs(disk) \subseteq R
  <2>1. ROOT_INODE_NUM \in R
    BY <1>1 DEF Sane
  <2>2. Below(disk, ROOT_INODE_NUM) \subseteq R
    BY <1>1, <2>1, BelowIsIn
  <2> QED
    BY <2>2 DEF Dirs, Reached
<1>3. ASSUME NEW e \in named
      PROVE  \E dir \in R : \E b \in OwnedBy(disk, dir) : \E k \in DOMAIN disk.block[b] :
                e = <<dir, disk.block[b][k]>> /\ disk.block[b][k].name \in Name
  <2>1. PICK dir \in Dirs(disk) : e \in {dir} \X Records(dir)
    OBVIOUS
  <2>2. PICK r \in Records(dir) : e = <<dir, r>>
    BY <2>1
  <2> QED
    BY <1>1, <1>2, <2>2, RecordIsIn
<1>4. ASSUME NEW e \in named
      PROVE  disk.inode[e[2].inum].i_allocated /\ e[2].inum # ROOT_INODE_NUM
  <2>1. PICK dir \in R : \E b \in OwnedBy(disk, dir) : \E k \in DOMAIN disk.block[b] :
            e = <<dir, disk.block[b][k]>> /\ disk.block[b][k].name \in Name
    BY <1>3, <1>4
  <2>2. e[2].inum \in R \ {ROOT_INODE_NUM}
    BY <1>1, <2>1 DEF Sane, Closed
  <2> QED
    BY <1>1, <2>2 DEF Sane, InUse
<1>5. ASSUME NEW e1 \in named, NEW e2 \in named, e1[2].inum = e2[2].inum
      PROVE  e1 = e2
  <2>1. PICK i \in R : \E b1 \in OwnedBy(disk, i) : \E k1 \in DOMAIN disk.block[b1] :
            e1 = <<i, disk.block[b1][k1]>> /\ disk.block[b1][k1].name \in Name
    BY <1>3, <1>5
  <2>2. PICK j \in R : \E b2 \in OwnedBy(disk, j) : \E k2 \in DOMAIN disk.block[b2] :
            e2 = <<j, disk.block[b2][k2]>> /\ disk.block[b2][k2].name \in Name
    BY <1>3, <1>5
  <2>3. PICK b1 \in OwnedBy(disk, i) : \E k1 \in DOMAIN disk.block[b1] :
            e1 = <<i, disk.block[b1][k1]>> /\ disk.block[b1][k1].name \in Name
    BY <2>1
  <2>4. PICK b2 \in OwnedBy(disk, j) : \E k2 \in DOMAIN disk.block[b2] :
            e2 = <<j, disk.block[b2][k2]>> /\ disk.block[b2][k2].name \in Name
    BY <2>2
  <2>5. PICK k1 \in DOMAIN disk.block[b1] :
            e1 = <<i, disk.block[b1][k1]>> /\ disk.block[b1][k1].name \in Name
    BY <2>3
  <2>6. PICK k2 \in DOMAIN disk.block[b2] :
            e2 = <<j, disk.block[b2][k2]>> /\ disk.block[b2][k2].name \in Name
    BY <2>4
  <2>7. disk.block[b1][k1].inum = disk.block[b2][k2].inum
    BY <1>5, <2>5, <2>6
  <2>8. b1 = b2 /\ k1 = k2
    BY <1>1, <2>5, <2>6, <2>7 DEF Unique
  <2>9. i = j
    BY <1>1, <2>8 DEF Sane, Exclusive
  <2> QED
    BY <2>5, <2>6, <2>8, <2>9
<1>6. NamesSound
  <2> HIDE DEF named
  <2>1. /\ \A e \in named : disk.inode[e[2].inum].i_allocated /\ e[2].inum # ROOT_INODE_NUM
        /\ \A e1, e2 \in named : e1[2].inum = e2[2].inum => e1 = e2
    BY <1>4, <1>5
  <2> QED
    BY <2>1 DEF NamesSound, named
<1>7. BlocksSound
  BY <1>1, <1>2 DEF BlocksSound, Sane, Exclusive, OwnedBy
<1> QED
  BY <1>6, <1>7

-----------------------------------------------------------------------------
(* The invariant *)

\* Sound always; safe until a crash hits a rename.  The set R of Sane is not the
\* set of inodes that names lead to but any that holds it: no step has to be
\* followed along the paths of the tree.
IInv ==
    /\ history \subseteq {"half made", "moved", "rename cut"}
    /\ crashes \in 0..MaxCrashes
    /\ Sound(disk)
    /\ "rename cut" \notin history => Safe(disk)

\* The inductive invariant implies what the run checks.
LEMMA IInvMeans == IInv => TypeOK /\ DirectoryReadable /\ NamesSound /\ BlocksSound
<1> SUFFICES ASSUME IInv PROVE TypeOK /\ DirectoryReadable /\ NamesSound /\ BlocksSound
  OBVIOUS
<1>1. TypeOK
  BY DEF IInv, TypeOK, Sound, Sane
<1>2. DirectoryReadable
  BY SoundIsReadable DEF IInv
<1>3. NamesSound /\ BlocksSound
  BY SafeNames DEF IInv, NamesSound, BlocksSound
<1> QED
  BY <1>1, <1>2, <1>3

\* The first mount establishes it.
LEMMA InitIInv == Init => IInv
<1> SUFFICES ASSUME Init PROVE IInv
  OBVIOUS
<1> DEFINE d == Formatted
           R == {ROOT_INODE_NUM}
           v == Virtual(NewRootCall(d), ROOT_INODE_NUM)
<1>1. d \in Disk /\ Sane(v, R) /\ Unique(v, R, {})
  BY FirstRootIs DEF FirstRoot
<1>2. Safe(RootDir(d).disk)
  BY <1>1, FormattedMounts, RootDirIs DEF Safe
<1>3. Safe(disk)
  BY <1>2, FormattedMounts DEF Init
<1> QED
  BY <1>3, SafeIsSound, TreeAssumption DEF Init, IInv

\* A mount after a cut.
LEMMA CrashIsSound ==
    ASSUME NEW call, CrashIn(call), IInv
    PROVE  /\ crashes' \in 0..MaxCrashes
           /\ (\A cut \in call.cuts : \E Q : Sane(cut, Q)) => Sound(disk')
           /\ SafeCuts(call) => Safe(disk')
<1>1. PICK cut \in call.cuts : setup_filesystem(cut).ok /\ disk' = setup_filesystem(cut).disk
  BY DEF CrashIn
<1>2. crashes' \in 0..MaxCrashes
  <2>1. crashes < MaxCrashes /\ crashes' = crashes + 1
    BY DEF CrashIn
  <2>2. crashes \in 0..MaxCrashes
    BY DEF IInv
  <2> QED
    BY <2>1, <2>2, TreeAssumption
<1>3. ASSUME \A x \in call.cuts : \E Q : Sane(x, Q) PROVE Sound(disk')
  BY <1>1, <1>3, SetupIs DEF Sound
<1>4. ASSUME SafeCuts(call) PROVE Safe(disk')
  <2>1. PICK Q : Sane(cut, Q) /\ Unique(cut, Q, {})
    BY <1>1, <1>4 DEF SafeCuts, Safe
  <2> QED
    BY <1>1, <2>1, SetupIs DEF Safe
<1> QED
  BY <1>2, <1>3, <1>4

\* A step that leaves the disk safe.
LEMMA SafeStep ==
    ASSUME IInv, Safe(disk'), crashes' \in 0..MaxCrashes,
           history' \subseteq {"half made", "moved", "rename cut"}
    PROVE  IInv'
BY SafeIsSound DEF IInv

\* Every call keeps it, and so does every crash in a call.
LEMMA NextIInv == IInv /\ [Next]_vars => IInv'
<1> SUFFICES ASSUME IInv, [Next]_vars PROVE IInv'
  OBVIOUS
<1>1. CASE UNCHANGED vars
  BY <1>1 DEF IInv, vars, Sound, Safe
<1>2. CASE Next
  <2>1. "rename cut" \notin history
    BY <1>2 DEF Next
  <2>2. PICK R : Sane(disk, R) /\ Unique(disk, R, {})
    BY <2>1 DEF IInv, Safe
  <2>3. crashes \in 0..MaxCrashes /\ history \subseteq {"half made", "moved", "rename cut"}
    BY DEF IInv
  <2>4. ASSUME NEW dir \in Dirs(disk)
        PROVE  dir \in R /\ dir \in Below(disk, ROOT_INODE_NUM) /\ disk.inode[dir].i_mode = "dir"
    <3>1. ROOT_INODE_NUM \in R
      BY <2>2 DEF Sane
    <3> QED
      BY <2>2, <2>4, <3>1, BelowIsIn DEF Dirs
  <2>5. CASE Remount
    <3>1. Safe(disk')
      BY <2>2, <2>5, SetupIs DEF Remount, Safe
    <3> QED
      BY <2>3, <2>5, <3>1, SafeStep DEF Remount
  <2>6. ASSUME NEW dir \in Dirs(disk), NEW n \in Name, Creatable(dir, n)
        PROVE  /\ dir \in R /\ ~ Has(disk, disk.inode[dir], n)
               /\ \E j \in Inum : ~ disk.inode[j].i_allocated
    BY <2>2, <2>4, <2>6, NoName DEF Creatable
  <2>7. ASSUME NEW dir \in Dirs(disk), NEW n \in Name, Creatable(dir, n)
        PROVE  /\ SafeCuts(create_new_file(disk, dir, n, "file"))
               /\ Safe(create_new_file(disk, dir, n, "file").disk)
    <3>1. CreatedFile(disk, create_new_file(disk, dir, n, "file"), NextInode(disk), R, "file")
      BY <2>2, <2>6, <2>7, CreateIs
    <3> QED
      BY <3>1 DEF CreatedFile, Safe
  <2>8. ASSUME NEW dir \in Dirs(disk), NEW n \in Name, Creatable(dir, n)
        PROVE  SafeCuts(mkdir(disk, dir, n)) /\ Safe(mkdir(disk, dir, n).disk)
    BY <2>2, <2>6, <2>8, MkdirIs
  <2>9. ASSUME NEW dir \in Dirs(disk), NEW n \in Name, Lookup(disk, dir, n) # 0
        PROVE  SafeCuts(unlink(disk, dir, n)) /\ Safe(unlink(disk, dir, n).disk)
    <3>1. Lookup(disk, dir, n) # dir
      BY <2>2, <2>4, <2>9, NotInItself
    <3>2. UnlinkedName(disk, unlink(disk, dir, n), R, dir, n, Lookup(disk, dir, n))
      BY <2>2, <2>4, <2>9, <3>1, UnlinkIs
    <3> QED
      BY <2>2, <3>2 DEF UnlinkedName, KeepsNames, Safe
  <2>10. ASSUME NEW from \in Dirs(disk), NEW fn \in Name, NEW to \in Dirs(disk), NEW tn \in Name,
                Renamable(from, fn, to, tn)
         PROVE  Renamed(disk, rename(disk, from, fn, to, tn), from, fn, to, tn, Lookup(disk, from, fn))
    BY <2>2, <2>10, RenameIs DEF Renamable
  <2>11. ASSUME NEW dir \in Dirs(disk), NEW n \in Name, altfs_mknod(dir, n) PROVE IInv'
    BY <2>3, <2>7, <2>11, SafeStep DEF altfs_mknod
  <2>12. ASSUME NEW dir \in Dirs(disk), NEW n \in Name, altfs_mkdir(dir, n) PROVE IInv'
    <3>1. Safe(disk')
      BY <2>8, <2>12 DEF altfs_mkdir
    <3>2. /\ crashes' \in 0..MaxCrashes
          /\ history' \subseteq {"half made", "moved", "rename cut"}
      BY <2>3, <2>12 DEF altfs_mkdir
    <3> QED
      BY <3>1, <3>2, SafeStep
  <2>13. ASSUME NEW dir \in Dirs(disk), NEW n \in Name, altfs_unlink(dir, n) PROVE IInv'
    BY <2>3, <2>9, <2>13, SafeStep DEF altfs_unlink
  <2>14. ASSUME NEW dir \in Dirs(disk), NEW n \in Name, CrashInCreate(dir, n) PROVE IInv'
    <3>1. CASE CrashIn(create_new_file(disk, dir, n, "file"))
      BY <2>3, <2>7, <2>14, <3>1, CrashIsSound, SafeStep DEF CrashInCreate
    <3>2. CASE CrashIn(mkdir(disk, dir, n))
      BY <2>3, <2>8, <2>14, <3>2, CrashIsSound, SafeStep DEF CrashInCreate
    <3> QED
      BY <2>14, <3>1, <3>2 DEF CrashInCreate
  <2>15. ASSUME NEW dir \in Dirs(disk), NEW n \in Name, CrashInUnlink(dir, n) PROVE IInv'
    BY <2>3, <2>9, <2>15, CrashIsSound, SafeStep DEF CrashInUnlink
  <2>16. ASSUME NEW from \in Dirs(disk), NEW fn \in Name, NEW to \in Dirs(disk), NEW tn \in Name,
                altfs_rename(from, fn, to, tn)
         PROVE  IInv'
    <3>1. Safe(disk')
      BY <2>10, <2>16 DEF altfs_rename, Renamed
    <3>2. /\ crashes' \in 0..MaxCrashes
          /\ history' \subseteq {"half made", "moved", "rename cut"}
      BY <2>3, <2>16 DEF altfs_rename
    <3> QED
      BY <3>1, <3>2, SafeStep
  <2>17. ASSUME NEW from \in Dirs(disk), NEW fn \in Name, NEW to \in Dirs(disk), NEW tn \in Name,
                CrashInRename(from, fn, to, tn)
         PROVE  IInv'
    <3>1. Renamed(disk, rename(disk, from, fn, to, tn), from, fn, to, tn, Lookup(disk, from, fn))
      BY <2>10, <2>17 DEF CrashInRename
    <3>2. CrashIn(rename(disk, from, fn, to, tn)) /\ history' = history \cup {"rename cut"}
      BY <2>17 DEF CrashInRename
    <3>3. crashes' \in 0..MaxCrashes /\ Sound(disk')
      BY <3>1, <3>2, CrashIsSound DEF Renamed
    <3> QED
      BY <2>3, <3>2, <3>3 DEF IInv
  <2> QED
    BY <1>2, <2>5, <2>11, <2>12, <2>13, <2>14, <2>15, <2>16, <2>17 DEF Next
<1> QED
  BY <1>1, <1>2

\* altfs_mknod, altfs_mkdir, altfs_unlink, altfs_rename and the mount keep the
\* directory tree sound, and so does a crash between any two of their writes.
THEOREM TreeIsSound == Spec => []IInv
BY InitIInv, NextIInv, PTL DEF Spec

\* The types of the inodes, records and counts hold at every step of the calls
\* of interface_layer.c that change the tree.
THEOREM TreeTypes == Spec => []TypeOK
BY TreeIsSound, IInvMeans, PTL

\* Whatever add_directory_entry and remove_directory_entry did, and wherever they
\* were cut short, get_file_position_in_dir and altfs_readdir find every record.
THEOREM DirectoriesReadable == Spec => []DirectoryReadable
BY TreeIsSound, IInvMeans, PTL

\* create_new_file, altfs_unlink and altfs_rename never leave a name that leads to
\* a freed inode or to one that another name leads to; a crash can do so only
\* inside a rename.
THEOREM NamesLeadToInodes == Spec => []NamesSound
BY TreeIsSound, IInvMeans, PTL

\* Under the same condition free_inode and allocate_data_block never leave a
\* directory with a block that is free or that another one has too.
THEOREM DirectoryBlocksOwned == Spec => []BlocksSound
BY TreeIsSound, IInvMeans, PTL

\* While the disk is safe, a rename is all or nothing.
LEMMA IInvRename == IInv => RenameAllOrNothing
<1> SUFFICES ASSUME IInv, "rename cut" \notin history,
                    NEW from \in Dirs(disk), NEW to \in Dirs(disk), NEW fn \in Name, NEW tn \in Name,
                    Renamable(from, fn, to, tn)
             PROVE  LET call == rename(disk, from, fn, to, tn)
                        i == Lookup(disk, from, fn)
                    IN /\ IF call.ok
                          THEN Lookup(call.disk, to, tn) = i /\ Lookup(call.disk, from, fn) = 0
                          ELSE call.disk = disk
                       /\ \A cut \in call.cuts : Lookup(cut, from, fn) = i \/ Lookup(cut, to, tn) = i
  BY Zenon DEF RenameAllOrNothing
<1> DEFINE call == rename(disk, from, fn, to, tn)
           i == Lookup(disk, from, fn)
<1>1. PICK R : Sane(disk, R) /\ Unique(disk, R, {})
  BY DEF IInv, Safe
<1>2. /\ <<from, fn>> # <<to, tn>> /\ Lookup(disk, from, fn) # 0
      /\ Lookup(disk, to, tn) # 0 => from \notin Below(disk, Lookup(disk, to, tn))
  BY DEF Renamable
<1>3. Renamed(disk, call, from, fn, to, tn, i)
  BY <1>1, <1>2, RenameIs
<1> HIDE DEF call, i
<1>4. /\ IF call.ok
         THEN Lookup(call.disk, to, tn) = i /\ Lookup(call.disk, from, fn) = 0
         ELSE call.disk = disk
      /\ \A cut \in call.cuts : Lookup(cut, from, fn) = i \/ Lookup(cut, to, tn) = i
  BY <1>3 DEF Renamed
<1> QED
  BY <1>4 DEF call, i

\* altfs_rename, which unlinks the target before it adds the new record, either
\* moves the name or leaves the disk as it was, and a crash leaves what is renamed
\* under its old or its new name.
THEOREM RenameIsAtomic == Spec => []RenameAllOrNothing
BY TreeIsSound, IInvRename, PTL

-----------------------------------------------------------------------------
(* What directories hold *)

Rec(x, n) == [inum |-> x, name |-> n]

\* The records of inode i, wherever they are in its blocks.
Contents(d, i) ==
    {r \in Record : \E b \in OwnedBy(d, i) : \E k \in DOMAIN d.block[b] : d.block[b][k] = r}

\* What is in a directory on a sound disk.
Ordered(d, R, i) ==
    /\ \A b \in OwnedBy(d, i) : \A k \in DOMAIN d.block[b] : d.block[b][k] \in Contents(d, i)
    /\ \A r \in Contents(d, i) : r = Rec(r.inum, r.name) /\ r.inum \in Inum /\ r.name \in AnyName
    /\ \A r, s \in Contents(d, i) : r.name = s.name => r = s
    /\ \A r \in Contents(d, i) : r.name \in Name => r.inum \in R \ {ROOT_INODE_NUM}
    /\ \A n : Has(d, d.inode[i], n) <=> \E r \in Contents(d, i) : r.name = n

\* Each name is there once and leads to an inode in R.
LEMMA ContentsOrdered ==
    ASSUME NEW d, NEW R, Sane(d, R), NEW i \in R
    PROVE  Ordered(d, R, i)
<1>1. \A b \in OwnedBy(d, i) : \A k \in DOMAIN d.block[b] : d.block[b][k] \in Record
  <2> SUFFICES ASSUME NEW b \in OwnedBy(d, i), NEW k \in DOMAIN d.block[b]
               PROVE  d.block[b][k] \in Record
    OBVIOUS
  <2>1. d.block[b] \in Seq(Record)
    BY SaneTypes
  <2> QED
    BY <2>1
<1>2. \A b \in OwnedBy(d, i) : \A k \in DOMAIN d.block[b] : d.block[b][k] \in Contents(d, i)
  BY <1>1 DEF Contents
<1>3. \A r \in Contents(d, i) : r \in Record
  BY DEF Contents
<1>4. \A r \in Contents(d, i) : r = Rec(r.inum, r.name) /\ r.inum \in Inum /\ r.name \in AnyName
  BY <1>3 DEF Record, Rec, AnyName
<1>5. \A r, s \in Contents(d, i) : r.name = s.name => r = s
  <2> SUFFICES ASSUME NEW r \in Contents(d, i), NEW s \in Contents(d, i), r.name = s.name PROVE r = s
    OBVIOUS
  <2>1. PICK b1 \in OwnedBy(d, i) : \E k \in DOMAIN d.block[b1] : d.block[b1][k] = r
    BY DEF Contents
  <2>2. PICK k1 \in DOMAIN d.block[b1] : d.block[b1][k1] = r
    BY <2>1
  <2>3. PICK b2 \in OwnedBy(d, i) : \E k \in DOMAIN d.block[b2] : d.block[b2][k] = s
    BY DEF Contents
  <2>4. PICK k2 \in DOMAIN d.block[b2] : d.block[b2][k2] = s
    BY <2>3
  <2>5. b1 = b2 /\ k1 = k2
    BY <2>2, <2>4 DEF Sane, Readable
  <2> QED
    BY <2>2, <2>4, <2>5
<1>6. \A r \in Contents(d, i) : r.name \in Name => r.inum \in R \ {ROOT_INODE_NUM}
  BY DEF Contents, Sane, Closed
<1>7. \A n : Has(d, d.inode[i], n) <=> \E r \in Contents(d, i) : r.name = n
  <2> TAKE n
  <2>1. ASSUME Has(d, d.inode[i], n) PROVE \E r \in Contents(d, i) : r.name = n
    BY <1>2, <2>1 DEF Has, OwnedBy
  <2>2. ASSUME NEW r \in Contents(d, i), r.name = n PROVE Has(d, d.inode[i], n)
    BY <2>2 DEF Contents, Has, OwnedBy
  <2> QED
    BY <2>1, <2>2
<1> QED
  BY <1>2, <1>4, <1>5, <1>6, <1>7 DEF Ordered

\* On a safe disk no inode has two names.
LEMMA OneName ==
    ASSUME NEW d, NEW R, Sane(d, R), Unique(d, R, {}), NEW i \in R, NEW j \in R,
           NEW r \in Contents(d, i), NEW s \in Contents(d, j),
           r.name \in Name, s.name \in Name, r.inum = s.inum
    PROVE  i = j /\ r = s
<1>1. PICK b1 \in OwnedBy(d, i) : \E k \in DOMAIN d.block[b1] : d.block[b1][k] = r
  BY DEF Contents
<1>2. PICK k1 \in DOMAIN d.block[b1] : d.block[b1][k1] = r
  BY <1>1
<1>3. PICK b2 \in OwnedBy(d, j) : \E k \in DOMAIN d.block[b2] : d.block[b2][k] = s
  BY DEF Contents
<1>4. PICK k2 \in DOMAIN d.block[b2] : d.block[b2][k2] = s
  BY <1>3
<1>5. b1 = b2 /\ k1 = k2
  BY <1>2, <1>4 DEF Unique
<1>6. i = j
  BY <1>5 DEF Sane, Exclusive
<1> QED
  BY <1>2, <1>4, <1>5, <1>6

\* Lookup answers with what the directory holds.
LEMMA LookupTells ==
    ASSUME NEW d, NEW R, Sane(d, R), NEW i \in R
    PROVE  /\ \A n : Lookup(d, i, n) # 0
                     => d.inode[i].i_mode = "dir" /\ Rec(Lookup(d, i, n), n) \in Contents(d, i)
           /\ d.inode[i].i_mode = "dir"
              => \A r \in Contents(d, i) : Lookup(d, i, r.name) = r.inum /\ r.inum # 0
<1>1. d \in Disk /\ i \in Inum /\ \A b \in Range(d.inode[i].i_blocks) : Fits(d.block[b])
  BY DEF Sane, Readable, OwnedBy
<1>2. Ordered(d, R, i)
  BY ContentsOrdered
<1>3. ASSUME NEW n, Lookup(d, i, n) # 0
      PROVE  d.inode[i].i_mode = "dir" /\ Rec(Lookup(d, i, n), n) \in Contents(d, i)
  <2> DEFINE node == d.inode[i]
             p == Position(d, node, n)
             b == node.i_blocks[p[1]]
             r == d.block[b][p[2]]
  <2>1. node.i_mode = "dir" /\ IsAt(d, node, n, p) /\ r \in Record /\ Lookup(d, i, n) = r.inum
    BY <1>1, <1>3, LookupIs
  <2>2. b \in OwnedBy(d, i) /\ p[2] \in DOMAIN d.block[b] /\ r.name = n
    BY <2>1 DEF IsAt, OwnedBy, Range
  <2> HIDE DEF p, b
  <2>3. r \in Contents(d, i)
    BY <1>2, <2>2 DEF Ordered
  <2>4. r = Rec(r.inum, r.name)
    BY <2>1 DEF Record, Rec
  <2> QED
    BY <2>1, <2>2, <2>3, <2>4
<1>4. ASSUME d.inode[i].i_mode = "dir", NEW r \in Contents(d, i)
      PROVE  Lookup(d, i, r.name) = r.inum /\ r.inum # 0
  <2>1. Has(d, d.inode[i], r.name)
    BY <1>2 DEF Ordered
  <2>2. Lookup(d, i, r.name) # 0
    BY <1>1, <1>4, <2>1, LookupIs
  <2> DEFINE x == Lookup(d, i, r.name)
  <2>3. Rec(x, r.name) \in Contents(d, i)
    BY <1>3, <2>2
  <2> HIDE DEF x
  <2>4. Rec(x, r.name).name = r.name /\ Rec(x, r.name).inum = x
    BY DEF Rec
  <2>5. Rec(x, r.name) = r
    BY <1>2, <2>3, <2>4 DEF Ordered
  <2>6. x = r.inum
    BY <2>4, <2>5
  <2> QED
    BY <2>2, <2>6 DEF x
<1> QED
  BY <1>3, <1>4

\* A directory that gets a record in one of its blocks.
LEMMA AppendContents ==
    ASSUME NEW d, NEW R, Sane(d, R), NEW i \in R, NEW b \in OwnedBy(d, i), NEW r \in Record,
           NEW e, e.block[b] = Append(d.block[b], r),
           \A a \in Block \ {b} : e.block[a] = d.block[a],
           \A j \in R : e.inode[j].i_blocks = d.inode[j].i_blocks
    PROVE  /\ Contents(e, i) = Contents(d, i) \cup {r}
           /\ \A j \in R \ {i} : Contents(e, j) = Contents(d, j)
<1> DEFINE s == d.block[b]
           t == e.block[b]
<1>1. \A j \in R : OwnedBy(e, j) = OwnedBy(d, j) /\ OwnedBy(d, j) \subseteq Block
  BY SaneTypes DEF OwnedBy
<1>2. s \in Seq(Record) /\ DOMAIN s = 1..Len(s) /\ Len(s) \in Nat
  BY SaneTypes
<1>3. /\ t \in Seq(Record) /\ Len(t) = Len(s) + 1 /\ t[Len(s) + 1] = r
      /\ \A k \in 1..Len(s) : t[k] = s[k]
  BY <1>2, AppendIs
<1> HIDE DEF s, t
<1>4. /\ DOMAIN t = 1..(Len(s) + 1) /\ Len(s) + 1 \in DOMAIN t /\ DOMAIN s \subseteq DOMAIN t
  BY <1>2, <1>3
<1>5. \A k \in DOMAIN t : k \in DOMAIN s \/ t[k] = r
  BY <1>2, <1>3, <1>4
<1>6. \A k \in DOMAIN s : t[k] = s[k]
  BY <1>2, <1>3
<1>7. Contents(e, i) = Contents(d, i) \cup {r}
  <2>1. ASSUME NEW x \in Contents(e, i) PROVE x \in Contents(d, i) \cup {r}
    <3>1. x \in Record
      BY DEF Contents
    <3>2. PICK a \in OwnedBy(d, i) : \E k \in DOMAIN e.block[a] : e.block[a][k] = x
      BY <1>1 DEF Contents
    <3>3. CASE a = b
      BY <1>5, <1>6, <3>1, <3>2, <3>3 DEF Contents, s, t
    <3>4. CASE a # b
      <4>1. e.block[a] = d.block[a]
        BY <1>1, <3>4
      <4> QED
        BY <3>1, <3>2, <4>1 DEF Contents
    <3> QED
      BY <3>3, <3>4
  <2>2. r \in Contents(e, i)
    BY <1>1, <1>3, <1>4 DEF Contents, t
  <2>3. ASSUME NEW x \in Contents(d, i) PROVE x \in Contents(e, i)
    <3>1. x \in Record
      BY DEF Contents
    <3>2. PICK a \in OwnedBy(d, i) : \E k \in DOMAIN d.block[a] : d.block[a][k] = x
      BY DEF Contents
    <3>3. CASE a = b
      BY <1>1, <1>4, <1>6, <3>1, <3>2, <3>3 DEF Contents, s, t
    <3>4. CASE a # b
      <4>1. e.block[a] = d.block[a]
        BY <1>1, <3>4
      <4> QED
        BY <1>1, <3>1, <3>2, <4>1 DEF Contents
    <3> QED
      BY <3>3, <3>4
  <2> QED
    BY <2>1, <2>2, <2>3
<1>8. ASSUME NEW j \in R \ {i} PROVE Contents(e, j) = Contents(d, j)
  <2>1. b \notin OwnedBy(d, j)
    BY DEF Sane, Exclusive
  <2>2. \A a \in OwnedBy(d, j) : e.block[a] = d.block[a]
    BY <1>1, <2>1
  <2> QED
    BY <1>1, <2>2 DEF Contents
<1> QED
  BY <1>7, <1>8

\* A directory that loses a record.
LEMMA WithoutContents ==
    ASSUME NEW d, NEW R, Sane(d, R), NEW i \in R, NEW b \in OwnedBy(d, i),
           NEW k \in DOMAIN d.block[b],
           NEW e, e.block[b] = Without(d.block[b], k),
           \A a \in Block \ {b} : e.block[a] = d.block[a],
           \A j \in R : e.inode[j].i_blocks = d.inode[j].i_blocks
    PROVE  /\ d.block[b][k] \in Contents(d, i)
           /\ Contents(e, i) = Contents(d, i) \ {d.block[b][k]}
           /\ \A j \in R \ {i} : Contents(e, j) = Contents(d, j)
<1> DEFINE s == d.block[b]
           t == e.block[b]
           r == d.block[b][k]
<1>1. \A j \in R : OwnedBy(e, j) = OwnedBy(d, j) /\ OwnedBy(d, j) \subseteq Block
  BY SaneTypes DEF OwnedBy
<1>2. s \in Seq(Record) /\ DOMAIN s = 1..Len(s) /\ Len(s) \in Nat
  BY SaneTypes
<1>3. \A m \in DOMAIN t : Was(k, m) \in DOMAIN s /\ Was(k, m) # k /\ t[m] = s[Was(k, m)]
  BY <1>2, WithoutWas
<1>4. \A m \in DOMAIN s : m # k => \E q \in DOMAIN t : t[q] = s[m]
  <2>0. s \in Seq(Record) /\ k \in 1..Len(s) /\ t = Without(s, k)
    BY <1>2
  <2> HIDE DEF s, t
  <2>1. /\ t \in Seq(Record) /\ Len(t) = Len(s) - 1
        /\ \A q \in 1..(k - 1) : t[q] = s[q]
        /\ \A q \in k..(Len(s) - 1) : t[q] = s[q + 1]
    BY ONLY <2>0, WithoutIs
  <2> SUFFICES ASSUME NEW m \in DOMAIN s, m # k PROVE \E q \in DOMAIN t : t[q] = s[m]
    OBVIOUS
  <2>2. DOMAIN t = 1..(Len(s) - 1) /\ k \in 1..Len(s) /\ m \in 1..Len(s)
    BY <1>2, <2>1 DEF s
  <2>3. CASE m < k
    <3>1. m \in 1..(k - 1) /\ m \in 1..(Len(s) - 1)
      BY <1>2, <2>2, <2>3
    <3> QED
      BY <2>1, <2>2, <3>1
  <2>4. CASE m > k
    <3>1. m - 1 \in k..(Len(s) - 1) /\ m - 1 \in 1..(Len(s) - 1) /\ (m - 1) + 1 = m
      BY <1>2, <2>2, <2>4
    <3>2. t[m - 1] = s[m]
      BY <2>1, <3>1
    <3> QED
      BY <2>2, <3>1, <3>2
  <2> QED
    BY <1>2, <2>2, <2>3, <2>4
<1> HIDE DEF s, t
<1>5. r \in Contents(d, i)
  BY ContentsOrdered DEF Ordered
<1>6. r \notin Contents(e, i)
  <2> SUFFICES ASSUME r \in Contents(e, i) PROVE FALSE
    OBVIOUS
  <2>1. PICK a \in OwnedBy(d, i) : \E m \in DOMAIN e.block[a] : e.block[a][m] = r
    BY <1>1 DEF Contents
  <2>2. CASE a = b
    <3>1. PICK m \in DOMAIN t : t[m] = r
      BY <2>1, <2>2 DEF t
    <3>2. Was(k, m) \in DOMAIN s /\ Was(k, m) # k /\ s[Was(k, m)] = r
      BY <1>3, <3>1
    <3> QED
      BY <3>2 DEF Sane, Readable, s
  <2>3. CASE a # b
    <3>1. PICK m \in DOMAIN d.block[a] : d.block[a][m] = r
      BY <1>1, <2>1, <2>3
    <3> QED
      BY <2>3, <3>1 DEF Sane, Readable
  <2> QED
    BY <2>2, <2>3
<1>7. ASSUME NEW x \in Contents(e, i) PROVE x \in Contents(d, i)
  <2>1. x \in Record
    BY DEF Contents
  <2>2. PICK a \in OwnedBy(d, i) : \E m \in DOMAIN e.block[a] : e.block[a][m] = x
    BY <1>1 DEF Contents
  <2>3. CASE a = b
    BY <1>3, <2>1, <2>2, <2>3 DEF Contents, s, t
  <2>4. CASE a # b
    <3>1. e.block[a] = d.block[a]
      BY <1>1, <2>4
    <3> QED
      BY <2>1, <2>2, <3>1 DEF Contents
  <2> QED
    BY <2>3, <2>4
<1>8. ASSUME NEW x \in Contents(d, i), x # r PROVE x \in Contents(e, i)
  <2>1. x \in Record
    BY DEF Contents
  <2>2. PICK a \in OwnedBy(d, i) : \E m \in DOMAIN d.block[a] : d.block[a][m] = x
    BY DEF Contents
  <2>3. CASE a = b
    <3>1. PICK m \in DOMAIN s : s[m] = x
      BY <2>2, <2>3 DEF s
    <3>2. m # k
      BY <1>8, <3>1 DEF s
    <3>3. \E q \in DOMAIN t : t[q] = x
      BY <1>4, <3>1, <3>2
    <3> QED
      BY <1>1, <2>1, <3>3 DEF Contents, t
  <2>4. CASE a # b
    <3>1. e.block[a] = d.block[a]
      BY <1>1, <2>4
    <3> QED
      BY <1>1, <2>1, <2>2, <3>1 DEF Contents
  <2> QED
    BY <2>3, <2>4
<1>9. ASSUME NEW j \in R \ {i} PROVE Contents(e, j) = Contents(d, j)
  <2>1. b \notin OwnedBy(d, j)
    BY DEF Sane, Exclusive
  <2>2. \A a \in OwnedBy(d, j) : e.block[a] = d.block[a]
    BY <1>1, <2>1
  <2> QED
    BY <1>1, <2>2 DEF Contents
<1> HIDE DEF r
<1>10. Contents(e, i) = Contents(d, i) \ {r}
  BY <1>6, <1>7, <1>8
<1> QED
  BY <1>5, <1>9, <1>10 DEF r

-----------------------------------------------------------------------------
(* What adding and removing a record changes *)

SameKind(x, y) ==
    /\ x.i_allocated = y.i_allocated /\ x.i_mode = y.i_mode /\ x.i_links_count = y.i_links_count

\* Disk w is v with record r more in directory i, which counts it; a block that it
\* needs for that was free.
Gained(v, w, R, i, r) ==
    /\ Contents(w, i) = Contents(v, i) \cup {r}
    /\ \A j \in R \ {i} : Contents(w, j) = Contents(v, j)
    /\ \A j \in Inum \ {i} : w.inode[j] = v.inode[j]
    /\ SameKind(v.inode[i], w.inode[i])
    /\ w.inode[i].i_child_num = Incremented(v.inode[i].i_child_num)
    /\ w.free \cup OwnedBy(w, i) = v.free \cup OwnedBy(v, i)

\* Disk w is v without record r of directory i.
Lost(v, w, R, i, r) ==
    /\ Contents(w, i) = Contents(v, i) \ {r}
    /\ \A j \in R \ {i} : Contents(w, j) = Contents(v, j)
    /\ \A j \in Inum \ {i} : w.inode[j] = v.inode[j]
    /\ SameKind(v.inode[i], w.inode[i])
    /\ w.inode[i].i_child_num = Decremented(v.inode[i].i_child_num)
    /\ w.inode[i].i_blocks = v.inode[i].i_blocks
    /\ w.free = v.free

\* A record written to a block that the directory has.
LEMMA WrittenGained ==
    ASSUME NEW c \in Call, NEW R, NEW i \in R, Sane(Virtual(c, i), R),
           NEW b \in Range(c.node.i_blocks), NEW r \in Record, NEW a, a = Counted(AddToBlock(c, b, r))
    PROVE  Gained(Virtual(c, i), Virtual(a, i), R, i, r)
<1> DEFINE v == Virtual(c, i)
           w == Virtual(a, i)
           c1 == AddToBlock(c, b, r)
           count == Incremented(c.node.i_child_num)
<1>1. R \subseteq Inum /\ i \in Inum
  BY DEF Sane
<1>2. /\ c.disk \in Disk /\ c.node \in Inode /\ v \in Disk
      /\ v.block = c.disk.block /\ v.free = c.disk.free /\ v.inode[i] = c.node
      /\ \A j \in Inum \ {i} : v.inode[j] = c.disk.inode[j]
  BY <1>1, VirtualIs
<1>3. b \in Block /\ b \in OwnedBy(v, i) /\ c.disk.block[b] \in Seq(Record)
  BY <1>2, BlocksOfType DEF OwnedBy
<1>4. /\ c1 \in Call /\ c1.node = c.node
      /\ c1.disk = WithBlock(c.disk, b, Append(c.disk.block[b], r))
  BY <1>3, AddToBlockIs
<1> HIDE DEF c1
<1>5. /\ a \in Call /\ a.disk = c1.disk
      /\ a.node = [c.node EXCEPT !.i_child_num = count]
  BY <1>4, CountedIs DEF c1
<1> DEFINE s == Append(c.disk.block[b], r)
<1>6. s \in Seq(Record)
  BY <1>3
<1> HIDE DEF s, count, v, w
<1>7. /\ a.disk \in Disk /\ a.disk.inode = c.disk.inode /\ a.disk.free = c.disk.free /\ a.disk.block[b] = s
      /\ \A x \in Block : x # b => a.disk.block[x] = c.disk.block[x]
  <2>1. a.disk = WithBlock(c.disk, b, s) /\ c.disk \in Disk /\ b \in Block /\ s \in Seq(Record)
    BY <1>2, <1>3, <1>4, <1>5, <1>6 DEF s
  <2> QED
    BY ONLY <2>1, WithBlockIs
<1>8. /\ w \in Disk /\ w.block = a.disk.block /\ w.free = a.disk.free /\ w.inode[i] = a.node
      /\ \A j \in Inum \ {i} : w.inode[j] = a.disk.inode[j]
  BY <1>1, <1>5, VirtualIs DEF w
<1>9. /\ a.node.i_blocks = c.node.i_blocks /\ a.node.i_child_num = count /\ SameKind(c.node, a.node)
  BY <1>2, <1>5 DEF Inode, SameKind
<1>10. \A j \in R : w.inode[j].i_blocks = v.inode[j].i_blocks
  BY <1>1, <1>2, <1>7, <1>8, <1>9
<1>11. /\ Contents(w, i) = Contents(v, i) \cup {r}
       /\ \A j \in R \ {i} : Contents(w, j) = Contents(v, j)
  <2>1. w.block[b] = Append(v.block[b], r)
    BY <1>2, <1>7, <1>8 DEF s
  <2>2. \A x \in Block \ {b} : w.block[x] = v.block[x]
    BY <1>2, <1>7, <1>8
  <2>3. Sane(v, R)
    BY DEF v
  <2> QED
    BY <1>3, <1>10, <2>1, <2>2, <2>3, AppendContents
<1>12. \A j \in Inum \ {i} : w.inode[j] = v.inode[j]
  BY <1>2, <1>7, <1>8
<1>13. OwnedBy(w, i) = OwnedBy(v, i) /\ w.free = v.free
  BY <1>2, <1>7, <1>8, <1>9 DEF OwnedBy
<1>14. Gained(v, w, R, i, r)
  BY <1>2, <1>8, <1>9, <1>11, <1>12, <1>13 DEF Gained, count
<1> QED
  BY <1>14 DEF v, w

\* The directory gets a block for its next record.
LEMMA BlockGained ==
    ASSUME NEW c \in Call, NEW R, NEW i \in R, Sane(Virtual(c, i), R), NEW new \in c.disk.free,
           NEW c1, c1 = AddNewBlock(c, new)
    PROVE  LET v == Virtual(c, i)
               w == Virtual(c1, i)
           IN /\ c1 \in Call /\ Sane(w, R) /\ new \in Range(c1.node.i_blocks)
              /\ \A j \in R : Contents(w, j) = Contents(v, j)
              /\ \A j \in Inum \ {i} : w.inode[j] = v.inode[j]
              /\ SameKind(v.inode[i], w.inode[i])
              /\ w.inode[i].i_child_num = v.inode[i].i_child_num
              /\ w.free \cup OwnedBy(w, i) = v.free \cup OwnedBy(v, i)
<1> DEFINE v == Virtual(c, i)
           w == Virtual(c1, i)
<1>1. R \subseteq Inum /\ i \in Inum
  BY DEF Sane
<1>2. /\ c.disk \in Disk /\ c.node \in Inode /\ v \in Disk
      /\ v.block = c.disk.block /\ v.free = c.disk.free /\ v.inode[i] = c.node
      /\ \A j \in Inum \ {i} : v.inode[j] = c.disk.inode[j]
  BY <1>1, VirtualIs
<1>3. new \in Block
  BY <1>2 DEF Disk
<1>4. /\ c1 \in Call /\ c1.ok = c.ok
      /\ c1.node = [c.node EXCEPT !.i_blocks = Append(c.node.i_blocks, new)]
      /\ c1.disk \in Disk /\ c1.disk.inode = c.disk.inode /\ c1.disk.free = c.disk.free \ {new}
      /\ c1.disk.block[new] = << >>
      /\ \A e \in Block \ {new} : c1.disk.block[e] = c.disk.block[e]
  BY <1>3, AddNewBlockIs
<1>5. /\ w \in Disk /\ w.block = c1.disk.block /\ w.free = c1.disk.free
      /\ w.inode[i] = c1.node /\ \A j \in Inum \ {i} : w.inode[j] = c1.disk.inode[j]
  BY <1>1, <1>4, VirtualIs
<1>6. /\ SameKind(c.node, c1.node) /\ c1.node.i_child_num = c.node.i_child_num
      /\ c1.node.i_blocks = Append(c.node.i_blocks, new) /\ c1.node.i_allocated = c.node.i_allocated
  BY <1>2, <1>4 DEF Inode, SameKind
<1> HIDE DEF v, w
<1>7. Sane(v, R) /\ v.inode[i].i_allocated
  BY DEF v, Sane, InUse
<1>8. /\ w.inode[i].i_allocated /\ w.inode[i].i_blocks = Append(v.inode[i].i_blocks, new)
      /\ \A j \in Inum \ {i} : w.inode[j] = v.inode[j]
      /\ w.block[new] = << >>
      /\ \A e \in Block \ {new} : w.block[e] = v.block[e]
      /\ w.free = v.free \ {new} /\ new \in v.free
  BY <1>2, <1>4, <1>5, <1>6, <1>7
<1>9. Sane(w, R)
  <2>1. Extended(v, w, R, i)
    BY ONLY <1>5, <1>7, <1>8, i \in R, BlockAdded
  <2> QED
    BY <2>1 DEF Extended
<1>10. OwnedBy(w, i) = OwnedBy(v, i) \cup {new}
  <2> DEFINE s == v.inode[i].i_blocks
             t == w.inode[i].i_blocks
  <2>1. s \in Seq(Block)
    BY <1>2, BlocksOfType
  <2>2. t = Append(s, new)
    BY <1>8
  <2> HIDE DEF s, t
  <2>3. /\ Len(t) = Len(s) + 1 /\ t \in Seq(Block) /\ Len(s) \in Nat
        /\ t[Len(s) + 1] = new /\ \A k \in 1..Len(s) : t[k] = s[k]
    BY <1>3, <2>1, <2>2, AppendIs
  <2>4. DOMAIN s = 1..Len(s) /\ DOMAIN t = 1..(Len(s) + 1)
    BY <2>1, <2>3
  <2>5. Range(t) = Range(s) \cup {new}
    <3>1. ASSUME NEW k \in DOMAIN t PROVE t[k] \in Range(s) \cup {new}
      <4>1. CASE k = Len(s) + 1
        BY <2>3, <4>1
      <4>2. CASE k # Len(s) + 1
        <5>1. k \in 1..Len(s)
          BY <2>3, <2>4, <4>2
        <5> QED
          BY <2>3, <2>4, <5>1 DEF Range
      <4> QED
        BY <4>1, <4>2
    <3>2. new \in Range(t)
      <4>1. Len(s) + 1 \in DOMAIN t
        BY <2>3, <2>4
      <4> QED
        BY <2>3, <4>1 DEF Range
    <3>3. ASSUME NEW k \in DOMAIN s PROVE s[k] \in Range(t)
      <4>1. k \in DOMAIN t /\ t[k] = s[k]
        BY <2>3, <2>4
      <4> QED
        BY <4>1 DEF Range
    <3> QED
      BY <3>1, <3>2, <3>3 DEF Range
  <2> QED
    BY <2>5 DEF OwnedBy, s, t
<1>11. new \in Range(c1.node.i_blocks)
  BY <1>5, <1>10 DEF OwnedBy
<1>12. \A j \in R : new \notin OwnedBy(v, j) /\ OwnedBy(v, j) \subseteq Block
  BY <1>7, <1>8, SaneTypes DEF Sane, Exclusive
<1>13. \A j \in R : Contents(w, j) = Contents(v, j)
  <2> SUFFICES ASSUME NEW j \in R PROVE Contents(w, j) = Contents(v, j)
    OBVIOUS
  <2>1. OwnedBy(w, j) \subseteq OwnedBy(v, j) \cup {new} /\ OwnedBy(v, j) \subseteq OwnedBy(w, j)
    <3>1. CASE j = i
      BY <1>10, <3>1
    <3>2. CASE j # i
      BY <1>1, <1>8, <3>2 DEF OwnedBy
    <3> QED
      BY <3>1, <3>2
  <2>2. \A e \in OwnedBy(v, j) : w.block[e] = v.block[e]
    BY <1>8, <1>12
  <2>3. DOMAIN w.block[new] = {}
    BY <1>8
  <2> QED
    BY <2>1, <2>2, <2>3 DEF Contents
<1>14. SameKind(v.inode[i], w.inode[i]) /\ w.inode[i].i_child_num = v.inode[i].i_child_num
  BY <1>2, <1>5, <1>6
<1>15. w.free \cup OwnedBy(w, i) = v.free \cup OwnedBy(v, i)
  BY <1>8, <1>10
<1> QED
  BY <1>4, <1>8, <1>9, <1>11, <1>13, <1>14, <1>15 DEF v, w

\* add_directory_entry adds one record, and nothing else changes.
LEMMA EntryGained ==
    ASSUME NEW c \in Call, NEW R, NEW i \in R, Sane(Virtual(c, i), R),
           NEW inum \in Inum, NEW name \in AnyName,
           NEW a, a = add_directory_entry(c, inum, name), a.ok
    PROVE  Gained(Virtual(c, i), Virtual(a, i), R, i, Rec(inum, name)) /\ c.ok /\ c.node.i_mode = "dir"
<1> DEFINE r == Rec(inum, name)
           blocks == BlocksOf(c.disk, c.node)
           l == BlockWithRoom(blocks, name)
           new == Min(c.disk.free)
<1>1. c.disk \in Disk /\ c.node \in Inode /\ r \in Record
  BY DEF Call, Rec, Record, AnyName
<1>2. /\ c.ok /\ c.node.i_mode = "dir" /\ ~ (l = 0 /\ c.disk.free = {})
      /\ a = Counted(IF l # 0
                     THEN AddToBlock(c, c.node.i_blocks[l], r)
                     ELSE AddToBlock(AddNewBlock(c, new), new, r))
  <2>1. CASE ~ c.ok \/ c.node.i_mode # "dir" \/ (l = 0 /\ c.disk.free = {})
    <3>1. a = Fail(c)
      BY <2>1 DEF add_directory_entry
    <3> QED
      BY <3>1, FailIs
  <2>2. CASE ~ (~ c.ok \/ c.node.i_mode # "dir" \/ (l = 0 /\ c.disk.free = {}))
    BY <2>2 DEF add_directory_entry, Rec
  <2> QED
    BY <2>1, <2>2
<1>3. CASE l # 0
  <2>1. l \in DOMAIN c.node.i_blocks
    <3> DEFINE with_room == {m \in DOMAIN blocks : HasRoom(blocks[m], name)}
    <3>1. with_room # {} /\ l = Min(with_room)
      BY <1>3 DEF BlockWithRoom
    <3>2. with_room \subseteq Nat /\ with_room \subseteq DOMAIN c.node.i_blocks
      BY <1>1, BlocksOfType
    <3>3. Min(with_room) \in with_room
      <4> HIDE DEF with_room
      <4> QED
        BY <3>1, <3>2, MinIn
    <3> QED
      BY <3>1, <3>2, <3>3
  <2> DEFINE b == c.node.i_blocks[l]
  <2>2. b \in Range(c.node.i_blocks)
    BY <2>1 DEF Range
  <2>3. a = Counted(AddToBlock(c, b, r))
    BY <1>2, <1>3
  <2> HIDE DEF b, r, l
  <2>4. Gained(Virtual(c, i), Virtual(a, i), R, i, r)
    BY <1>1, <2>2, <2>3, WrittenGained
  <2> QED
    BY <1>2, <2>4 DEF r
<1>4. CASE l = 0
  <2> DEFINE c1 == AddNewBlock(c, new)
             v == Virtual(c, i)
             v1 == Virtual(c1, i)
             w == Virtual(a, i)
  <2>1. new \in c.disk.free
    <3>1. c.disk.free \subseteq Block /\ Block \subseteq Nat /\ c.disk.free # {}
      BY <1>1, <1>2, <1>4, TreeAssumption DEF Disk
    <3> QED
      BY <3>1, MinIn
  <2>2. a = Counted(AddToBlock(c1, new, r))
    BY <1>2, <1>4
  <2> HIDE DEF new, r
  <2>3. /\ c1 \in Call /\ Sane(v1, R) /\ new \in Range(c1.node.i_blocks)
        /\ \A j \in R : Contents(v1, j) = Contents(v, j)
        /\ \A j \in Inum \ {i} : v1.inode[j] = v.inode[j]
        /\ SameKind(v.inode[i], v1.inode[i])
        /\ v1.inode[i].i_child_num = v.inode[i].i_child_num
        /\ v1.free \cup OwnedBy(v1, i) = v.free \cup OwnedBy(v, i)
    BY <2>1, BlockGained
  <2> HIDE DEF c1
  <2>4. Gained(v1, w, R, i, r)
    BY <1>1, <2>2, <2>3, WrittenGained
  <2> HIDE DEF v, v1, w
  <2>5. Gained(v, w, R, i, r)
    BY <2>3, <2>4 DEF Gained, SameKind
  <2> QED
    BY <1>2, <2>5 DEF v, w, r
<1> QED
  BY <1>3, <1>4

\* remove_directory_entry removes one record, and nothing else changes.
LEMMA EntryLost ==
    ASSUME NEW c \in Call, c.ok, NEW R, NEW i \in R, Sane(c.disk, R), c.node = c.disk.inode[i],
           NEW r \in Contents(c.disk, i), NEW m, m = remove_directory_entry(c, r.name)
    PROVE  m \in Call /\ m.ok /\ Lost(c.disk, Virtual(m, i), R, i, r) /\ m.disk.inode = c.disk.inode
<1> DEFINE v == c.disk
           n == r.name
           w == Virtual(m, i)
           p == Position(v, c.node, n)
           b == c.node.i_blocks[p[1]]
           k == p[2]
           count == Decremented(c.node.i_child_num)
<1>1. R \subseteq Inum /\ i \in Inum /\ v \in Disk /\ c.node \in Inode
  BY DEF Sane, Call
<1>2. Ordered(v, R, i)
  BY ContentsOrdered
<1>3. IsAt(v, c.node, n, p)
  <2>1. Has(v, c.node, n)
    BY <1>2 DEF Ordered
  <2>2. \A x \in Range(c.node.i_blocks) : Fits(v.block[x])
    BY DEF Sane, Readable, OwnedBy
  <2> QED
    BY <1>1, <2>1, <2>2, PositionIs
<1>4. RemovedAt(c, m, b, k)
  BY <1>3, RemoveIs
<1>5. m.node.i_child_num = count /\ m.node.i_links_count = c.node.i_links_count
  <2>1. m = [RemoveFromBlock(c, p) EXCEPT !.node.i_child_num = Decremented(@)]
    BY DEF remove_directory_entry, Position
  <2>2. RemoveFromBlock(c, p) = [c EXCEPT !.disk = WithBlock(v, b, Without(v.block[b], k)), !.cuts = @ \cup {c.disk}]
    BY DEF RemoveFromBlock, WithBlock, Write
  <2>3. m.node = [c.node EXCEPT !.i_child_num = count]
    <3> HIDE DEF p, b, k, count
    <3>1. m = [[c EXCEPT !.disk = WithBlock(v, b, Without(v.block[b], k)), !.cuts = @ \cup {c.disk}]
                  EXCEPT !.node.i_child_num = Decremented(@)]
      BY <2>1, <2>2
    <3>2. DOMAIN c = {"ok", "disk", "node", "cuts"}
      BY DEF Call
    <3> QED
      BY <3>1, <3>2 DEF count
  <2> HIDE DEF count
  <2> QED
    BY <1>1, <2>3 DEF Inode
<1> HIDE DEF p, count
<1>6. b \in OwnedBy(v, i) /\ k \in DOMAIN v.block[b] /\ v.block[b][k].name = n
  BY <1>3 DEF IsAt, OwnedBy, Range
<1> HIDE DEF b, k
<1>7. v.block[b][k] = r
  BY <1>2, <1>6 DEF Ordered
<1> DEFINE s == Without(v.block[b], k)
<1>8. b \in Block /\ s \in Seq(Record)
  <2>1. b \in Block /\ v.block[b] \in Seq(Record)
    BY <1>6, SaneTypes
  <2> QED
    BY <1>6, <2>1, WithoutWas
<1>9. /\ m \in Call /\ m.ok /\ m.disk = WithBlock(v, b, s)
      /\ m.node.i_blocks = c.node.i_blocks /\ SameKind(c.node, m.node)
  BY <1>4, <1>5 DEF RemovedAt, SameKind
<1> HIDE DEF s, v
<1>10. /\ m.disk \in Disk /\ m.disk.inode = v.inode /\ m.disk.free = v.free /\ m.disk.block[b] = s
       /\ \A x \in Block : x # b => m.disk.block[x] = v.block[x]
  BY <1>1, <1>8, <1>9, WithBlockIs
<1> HIDE DEF w
<1>11. /\ w.block = m.disk.block /\ w.free = m.disk.free /\ w.inode[i] = m.node
       /\ \A j \in Inum \ {i} : w.inode[j] = m.disk.inode[j]
  BY <1>1, <1>9, VirtualIs DEF w
<1>12. /\ Contents(w, i) = Contents(v, i) \ {r}
       /\ \A j \in R \ {i} : Contents(w, j) = Contents(v, j)
  <2>1. \A j \in R : w.inode[j].i_blocks = v.inode[j].i_blocks
    BY <1>1, <1>9, <1>10, <1>11 DEF v
  <2>2. w.block[b] = Without(v.block[b], k) /\ \A x \in Block \ {b} : w.block[x] = v.block[x]
    BY <1>10, <1>11 DEF s
  <2>3. Sane(v, R)
    BY DEF v
  <2> QED
    BY <1>6, <1>7, <2>1, <2>2, <2>3, WithoutContents
<1>13. \A j \in Inum \ {i} : w.inode[j] = v.inode[j]
  BY <1>10, <1>11
<1>14. /\ SameKind(v.inode[i], w.inode[i]) /\ w.inode[i].i_child_num = Decremented(v.inode[i].i_child_num)
       /\ w.inode[i].i_blocks = v.inode[i].i_blocks /\ w.free = v.free
  BY <1>5, <1>9, <1>10, <1>11 DEF v, count
<1>15. Lost(v, w, R, i, r)
  BY <1>12, <1>13, <1>14 DEF Lost
<1> QED
  BY <1>9, <1>10, <1>15 DEF v, w

-----------------------------------------------------------------------------
(* A tree from which nothing is lost *)

Live(d) == {i \in Inum : d.inode[i].i_allocated}

\* The records that callers see.
Named(d, i) == {r \in Contents(d, i) : r.name \in Name}

\* Names do not lead out of Q.
Shut(d, Q) == \A j \in Q : \A r \in Contents(d, j) : r.name \in Name => r.inum \in Q

\* Whatever holds the root and all that its names lead to is all of R.
Connected(d, R) == \A Q \in SUBSET R : ROOT_INODE_NUM \in Q /\ Shut(d, Q) => Q = R

\* Inodes are files without blocks or directories, each with one link.
Kinds(d, R) ==
    /\ d.inode[ROOT_INODE_NUM].i_mode = "dir"
    /\ \A i \in R : /\ d.inode[i].i_mode \in {"dir", "file"}
                    /\ d.inode[i].i_links_count = 1
                    /\ d.inode[i].i_mode = "file" => d.inode[i].i_blocks = << >>

NoneLost(d, R) == \A b \in Block : b \in d.free \/ \E i \in R : b \in OwnedBy(d, i)

\* Directory i has its two own records and counts all it has.
Counts(d, i) ==
    /\ IsFiniteSet(Contents(d, i))
    /\ d.inode[i].i_child_num = Cardinality(Contents(d, i))
    /\ \E r \in Contents(d, i) : r.name = "."
    /\ \E r \in Contents(d, i) : r.name = ".."

\* The inodes in use are those that names lead to, every block is in its place,
\* and the directories, those in X apart, count their records.
Whole(d, R, X) ==
    /\ R = Live(d) /\ Sane(d, R) /\ Unique(d, R, {})
    /\ Kinds(d, R) /\ NoneLost(d, R) /\ Connected(d, R)
    /\ \A i \in R \ X : d.inode[i].i_mode = "dir" => Counts(d, i)

\* Files hold nothing.
LEMMA FileIsEmpty ==
    ASSUME NEW d, NEW R, Kinds(d, R), NEW i \in R, d.inode[i].i_mode # "dir"
    PROVE  Contents(d, i) = {} /\ OwnedBy(d, i) = {}
<1>1. d.inode[i].i_blocks = << >>
  BY DEF Kinds
<1>2. OwnedBy(d, i) = {}
  BY <1>1 DEF OwnedBy, Range
<1> QED
  BY <1>2 DEF Contents

\* What a directory leads to is closed.
LEMMA BelowIsShut ==
    ASSUME NEW d, NEW R, Sane(d, R), Kinds(d, R), NEW i \in R
    PROVE  Below(d, i) \subseteq R /\ i \in Below(d, i) /\ Shut(d, Below(d, i))
<1>1. Below(d, i) \subseteq R /\ i \in Below(d, i)
  BY BelowIsIn
<1>2. ASSUME NEW j \in Below(d, i), NEW r \in Contents(d, j), r.name \in Name
      PROVE  r.inum \in Below(d, i)
  <2>1. j \in R /\ d.inode[j].i_mode = "dir"
    BY <1>1, FileIsEmpty
  <2>2. Lookup(d, j, r.name) = r.inum /\ r.inum # 0
    BY <2>1, LookupTells
  <2>3. \A dir \in R, n \in Name : Lookup(d, dir, n) = 0 \/ Lookup(d, dir, n) \in R
    BY NameIs DEF NameAt
  <2>4. R \subseteq Inum
    BY DEF Sane
  <2>5. Lookup(d, j, r.name) = 0 \/ Lookup(d, j, r.name) \in Below(d, i)
    BY <1>2, <2>3, <2>4, BelowClosed
  <2> QED
    BY <2>2, <2>5
<1> QED
  BY <1>1, <1>2 DEF Shut

\* All of the inodes in use can be reached.
LEMMA AllReached ==
    ASSUME NEW d, NEW R, NEW X, Whole(d, R, X)
    PROVE  /\ Below(d, ROOT_INODE_NUM) = R
           /\ Dirs(d) = {i \in R : d.inode[i].i_mode = "dir"}
<1>1. Sane(d, R) /\ Kinds(d, R) /\ ROOT_INODE_NUM \in R /\ Connected(d, R)
  BY DEF Whole, Sane
<1>2. Below(d, ROOT_INODE_NUM) \subseteq R /\ ROOT_INODE_NUM \in Below(d, ROOT_INODE_NUM)
      /\ Shut(d, Below(d, ROOT_INODE_NUM))
  BY <1>1, BelowIsShut
<1>3. Below(d, ROOT_INODE_NUM) = R
  BY <1>1, <1>2 DEF Connected
<1> QED
  BY <1>3 DEF Dirs

-----------------------------------------------------------------------------
(* Counting *)

\* Counts that do not wrap around.
LEMMA CountsUp ==
    ASSUME NEW n \in Nat
    PROVE  /\ n < MAX_COUNT => Incremented(n) = n + 1
           /\ 0 < n /\ n <= MAX_COUNT => Decremented(n) = n - 1
<1>1. MAX_COUNT \in Nat
  BY TreeAssumption
<1>2. ASSUME NEW x \in Nat, x <= MAX_COUNT PROVE x % (MAX_COUNT + 1) = x
  BY <1>1, <1>2
<1>3. ASSUME n < MAX_COUNT PROVE Incremented(n) = n + 1
  <2>1. n + 1 \in Nat /\ n + 1 <= MAX_COUNT
    BY <1>1, <1>3
  <2> QED
    BY <1>2, <2>1 DEF Incremented
<1>4. ASSUME 0 < n, n <= MAX_COUNT PROVE Decremented(n) = n - 1
  <2>1. n - 1 \in Nat /\ n - 1 <= MAX_COUNT
    BY <1>1, <1>4
  <2> QED
    BY <1>2, <2>1 DEF Decremented
<1> QED
  BY <1>3, <1>4

\* A directory has two records more than names.
LEMMA TwoMore ==
    ASSUME NEW d, NEW R, Sane(d, R), NEW i \in R, Counts(d, i)
    PROVE  /\ IsFiniteSet(Named(d, i)) /\ Cardinality(Named(d, i)) \in Nat
           /\ d.inode[i].i_child_num = Cardinality(Named(d, i)) + 2
<1> DEFINE C == Contents(d, i)
           N == Named(d, i)
<1>1. PICK r \in C : r.name = "."
  BY DEF Counts
<1>2. PICK s \in C : s.name = ".."
  BY DEF Counts
<1>3. Ordered(d, R, i)
  BY ContentsOrdered
<1>4. "." \notin Name /\ ".." \notin Name /\ "." # ".."
  BY RecordAssumption
<1>5. N = (C \ {r}) \ {s}
  <2>1. ASSUME NEW x \in N PROVE x \in (C \ {r}) \ {s}
    BY <1>1, <1>2, <1>4 DEF Named
  <2>2. ASSUME NEW x \in C, x # r, x # s PROVE x \in N
    <3>1. x.name \in AnyName /\ x.name # "." /\ x.name # ".."
      BY <1>1, <1>2, <1>3, <2>2 DEF Ordered
    <3> QED
      BY <3>1 DEF Named, AnyName
  <2> QED
    BY <2>1, <2>2
<1>6. IsFiniteSet(C) /\ d.inode[i].i_child_num = Cardinality(C)
  BY DEF Counts
<1>7. r \in C /\ s \in C \ {r}
  BY <1>1, <1>2, <1>4
<1> HIDE DEF C, N
<1>8. IsFiniteSet(C \ {r}) /\ Cardinality(C \ {r}) = Cardinality(C) - 1
  BY <1>6, <1>7, FS_RemoveElement
<1>9. IsFiniteSet(N) /\ Cardinality(N) = Cardinality(C \ {r}) - 1
  BY <1>5, <1>7, <1>8, FS_RemoveElement
<1>10. Cardinality(C) \in Nat /\ Cardinality(N) \in Nat
  BY <1>6, <1>9, FS_CardinalityType
<1> QED
  BY <1>6, <1>8, <1>9, <1>10 DEF N

\* It never has so many that a count wraps around.
LEMMA CountBound ==
    ASSUME NEW d, NEW R, Sane(d, R), Unique(d, R, {}), NEW i \in R, Counts(d, i)
    PROVE  /\ d.inode[i].i_child_num \in Nat
           /\ d.inode[i].i_child_num >= 2 /\ d.inode[i].i_child_num < MAX_COUNT
<1> DEFINE N == Named(d, i)
           f == [r \in N |-> r.inum]
<1>1. /\ IsFiniteSet(N) /\ Cardinality(N) \in Nat
      /\ d.inode[i].i_child_num = Cardinality(N) + 2
  BY TwoMore
<1>2. f \in Injection(N, Inum \ {ROOT_INODE_NUM})
  <2>1. \A r \in N : r.inum \in Inum \ {ROOT_INODE_NUM}
    BY ContentsOrdered DEF Ordered, Named, Sane
  <2>2. \A r, s \in N : r.inum = s.inum => r = s
    BY OneName DEF Named
  <2> HIDE DEF N
  <2>3. f \in [N -> Inum \ {ROOT_INODE_NUM}] /\ \A r, s \in N : f[r] = f[s] => r = s
    BY <2>1, <2>2
  <2> QED
    BY <2>3 DEF Injection, IsInjective
<1>3. /\ IsFiniteSet(Inum \ {ROOT_INODE_NUM}) /\ Cardinality(Inum) \in Nat
      /\ Cardinality(Inum \ {ROOT_INODE_NUM}) = Cardinality(Inum) - 1
  BY TreeAssumption, FS_RemoveElement, FS_CardinalityType
<1> HIDE DEF N, f
<1>4. Cardinality(N) <= Cardinality(Inum) - 1
  BY <1>2, <1>3, FS_Injection
<1>5. MAX_COUNT \in Nat /\ Cardinality(Inum) + 2 <= MAX_COUNT
  BY TreeAssumption, CountAssumption
<1> QED
  BY <1>1, <1>3, <1>4, <1>5

\* A record more is counted.
LEMMA GainedCounts ==
    ASSUME NEW v, NEW w, NEW i, NEW r, Counts(v, i), v.inode[i].i_child_num < MAX_COUNT,
           r \notin Contents(v, i), Contents(w, i) = Contents(v, i) \cup {r},
           w.inode[i].i_child_num = Incremented(v.inode[i].i_child_num)
    PROVE  Counts(w, i)
<1> DEFINE C == Contents(v, i)
<1>1. IsFiniteSet(C) /\ Cardinality(C) \in Nat /\ v.inode[i].i_child_num = Cardinality(C)
  BY FS_CardinalityType DEF Counts
<1>2. /\ Contents(w, i) = C \cup {r} /\ r \notin C
      /\ w.inode[i].i_child_num = Incremented(v.inode[i].i_child_num)
  OBVIOUS
<1>3. Cardinality(C) < MAX_COUNT
  BY <1>1
<1>4. \E x \in C \cup {r} : x.name = "."
  BY DEF Counts
<1>5. \E x \in C \cup {r} : x.name = ".."
  BY DEF Counts
<1> HIDE DEF C
<1>6. w.inode[i].i_child_num = Cardinality(C) + 1
  BY <1>1, <1>2, <1>3, CountsUp
<1>7. IsFiniteSet(C \cup {r}) /\ Cardinality(C \cup {r}) = Cardinality(C) + 1
  BY <1>1, <1>2, FS_AddElement
<1> QED
  BY <1>2, <1>4, <1>5, <1>6, <1>7 DEF Counts

\* So is one less.
LEMMA LostCounts ==
    ASSUME NEW v, NEW w, NEW i, NEW r, Counts(v, i), v.inode[i].i_child_num <= MAX_COUNT,
           r \in Contents(v, i), r.name \in Name, Contents(w, i) = Contents(v, i) \ {r},
           w.inode[i].i_child_num = Decremented(v.inode[i].i_child_num)
    PROVE  Counts(w, i)
<1> DEFINE C == Contents(v, i)
<1>1. IsFiniteSet(C) /\ Cardinality(C) \in Nat /\ v.inode[i].i_child_num = Cardinality(C)
  BY FS_CardinalityType DEF Counts
<1>2. /\ Contents(w, i) = C \ {r} /\ r \in C
      /\ w.inode[i].i_child_num = Decremented(v.inode[i].i_child_num)
  OBVIOUS
<1>3. r.name # "." /\ r.name # ".."
  BY RecordAssumption
<1>4. \E x \in C \ {r} : x.name = "."
  BY <1>3 DEF Counts
<1>5. \E x \in C \ {r} : x.name = ".."
  BY <1>3 DEF Counts
<1>6. 0 < Cardinality(C) /\ Cardinality(C) <= MAX_COUNT
  <2>1. Cardinality(C) # 0
    BY <1>1, <1>2, FS_EmptySet
  <2> QED
    BY <1>1, <2>1
<1> HIDE DEF C
<1>7. w.inode[i].i_child_num = Cardinality(C) - 1
  BY <1>1, <1>2, <1>6, CountsUp
<1>8. IsFiniteSet(C \ {r}) /\ Cardinality(C \ {r}) = Cardinality(C) - 1
  BY <1>1, <1>2, FS_RemoveElement
<1> QED
  BY <1>2, <1>4, <1>5, <1>7, <1>8 DEF Counts

\* Another disk where the directory is the same.
LEMMA SameCounts ==
    ASSUME NEW v, NEW w, NEW i, Contents(w, i) = Contents(v, i), w.inode[i] = v.inode[i], Counts(v, i)
    PROVE  Counts(w, i)
BY DEF Counts

-----------------------------------------------------------------------------
(* What the calls do to the tree *)

\* Disk e is d with inode i more, under the name of record r in directory dir.
Born(d, e, R, dir, i, r, mode) ==
    /\ e.inode[i] = NewNode(mode)
    /\ Contents(e, dir) = Contents(d, dir) \cup {r}
    /\ \A j \in R \ {dir} : Contents(e, j) = Contents(d, j)
    /\ \A j \in Inum \ {i, dir} : e.inode[j] = d.inode[j]
    /\ SameKind(d.inode[dir], e.inode[dir])
    /\ e.inode[dir].i_child_num = Incremented(d.inode[dir].i_child_num)
    /\ e.free \cup OwnedBy(e, dir) = d.free \cup OwnedBy(d, dir)

\* Disk e is d without inode i, which record r of directory dir leads to.
Died(d, e, R, dir, i, r) ==
    /\ e.inode[i] = Unused
    /\ Contents(e, dir) = Contents(d, dir) \ {r}
    /\ \A j \in R \ {i, dir} : Contents(e, j) = Contents(d, j)
    /\ \A j \in Inum \ {i, dir} : e.inode[j] = d.inode[j]
    /\ SameKind(d.inode[dir], e.inode[dir])
    /\ e.inode[dir].i_child_num = Decremented(d.inode[dir].i_child_num)
    /\ e.inode[dir].i_blocks = d.inode[dir].i_blocks
    /\ e.free = d.free \cup OwnedBy(d, i)

\* A new inode keeps the tree whole, but for what a new directory has to get.
LEMMA BornIsWhole ==
    ASSUME NEW d, NEW R, Whole(d, R, {}), NEW dir \in R, d.inode[dir].i_mode = "dir",
           NEW i \in Inum \ R, NEW n \in Name, ~ Has(d, d.inode[dir], n),
           NEW mode \in {"dir", "file"}, NEW e, Born(d, e, R, dir, i, Rec(i, n), mode),
           Sane(e, R \cup {i}), Unique(e, R \cup {i}, {})
    PROVE  Whole(e, R \cup {i}, {i})
<1> DEFINE S == R \cup {i}
           r == Rec(i, n)
<1>1. R = Live(d) /\ Sane(d, R) /\ Unique(d, R, {}) /\ Kinds(d, R) /\ NoneLost(d, R) /\ Connected(d, R)
      /\ \A j \in R : d.inode[j].i_mode = "dir" => Counts(d, j)
  BY DEF Whole
<1>2. R \subseteq Inum /\ dir \in Inum /\ dir # i /\ ROOT_INODE_NUM \in R
  BY <1>1 DEF Sane
<1>3. r.name = n /\ r.inum = i /\ \A x \in Contents(d, dir) : x.name # n
  BY <1>1, ContentsOrdered DEF Rec, Ordered
<1>4. /\ e.inode[i].i_allocated /\ e.inode[i].i_blocks = << >> /\ e.inode[i].i_mode = mode
      /\ e.inode[i].i_links_count = 1 /\ Contents(e, i) = {}
  <2>1. e.inode[i] = NewNode(mode)
    BY DEF Born
  <2>2. /\ e.inode[i].i_allocated /\ e.inode[i].i_blocks = << >> /\ e.inode[i].i_mode = mode
        /\ e.inode[i].i_links_count = 1
    BY <2>1 DEF NewNode, Unused
  <2> QED
    BY <2>2 DEF Contents, OwnedBy, Range
<1>5. \A j \in Inum \ {i} : SameKind(d.inode[j], e.inode[j])
  BY DEF Born, SameKind
<1>6. S = Live(e)
  BY <1>1, <1>4, <1>5 DEF Live, SameKind
<1>7. Kinds(e, S)
  <2>1. e.inode[ROOT_INODE_NUM].i_mode = "dir"
    BY <1>1, <1>2, <1>5 DEF Kinds, SameKind
  <2> SUFFICES ASSUME NEW j \in S
               PROVE  /\ e.inode[j].i_mode \in {"dir", "file"} /\ e.inode[j].i_links_count = 1
                      /\ e.inode[j].i_mode = "file" => e.inode[j].i_blocks = << >>
    BY <2>1 DEF Kinds
  <2>2. CASE j = i
    BY <1>4, <2>2
  <2>3. CASE j = dir
    BY <1>1, <1>2, <1>5, <2>3 DEF Kinds, SameKind
  <2>4. CASE j # i /\ j # dir
    <3>1. j \in R /\ e.inode[j] = d.inode[j]
      BY <1>2, <2>4 DEF Born
    <3> QED
      BY <1>1, <3>1 DEF Kinds
  <2> QED
    BY <2>2, <2>3, <2>4
<1>8. NoneLost(e, S)
  <2> SUFFICES ASSUME NEW b \in Block PROVE b \in e.free \/ \E j \in S : b \in OwnedBy(e, j)
    BY DEF NoneLost
  <2>1. CASE b \in d.free \cup OwnedBy(d, dir)
    BY <2>1 DEF Born
  <2>2. CASE b \notin d.free \cup OwnedBy(d, dir)
    <3>1. PICK j \in R : b \in OwnedBy(d, j)
      BY <1>1, <2>2 DEF NoneLost
    <3>2. e.inode[j] = d.inode[j]
      BY <1>2, <2>2, <3>1 DEF Born
    <3> QED
      BY <3>1, <3>2 DEF OwnedBy
  <2> QED
    BY <2>1, <2>2
<1>9. Connected(e, S)
  <2> SUFFICES ASSUME NEW Q \in SUBSET S, ROOT_INODE_NUM \in Q, Shut(e, Q) PROVE Q = S
    BY DEF Connected
  <2> DEFINE P == Q \ {i}
  <2>1. P \in SUBSET R /\ ROOT_INODE_NUM \in P
    BY <1>2
  <2>2. Shut(d, P)
    <3> SUFFICES ASSUME NEW j \in P, NEW x \in Contents(d, j), x.name \in Name PROVE x.inum \in P
      BY DEF Shut
    <3>1. x \in Contents(e, j) /\ j \in R
      BY <2>1 DEF Born
    <3>2. x.inum \in R
      BY <1>1, <3>1, ContentsOrdered DEF Ordered
    <3> QED
      BY <3>1, <3>2 DEF Shut
  <2>3. P = R
    <3> HIDE DEF P
    <3> QED
      BY <1>1, <2>1, <2>2 DEF Connected
  <2>4. i \in Q
    <3>1. dir \in Q /\ r \in Contents(e, dir)
      BY <2>3 DEF Born
    <3> QED
      BY <1>3, <3>1 DEF Shut
  <2> QED
    BY <2>3, <2>4
<1>10. ASSUME NEW j \in S \ {i}, e.inode[j].i_mode = "dir" PROVE Counts(e, j)
  <2>1. j \in R /\ j \in Inum
    BY <1>2
  <2>2. CASE j = dir
    <3>1. Counts(d, dir)
      BY <1>1
    <3>2. d.inode[dir].i_child_num < MAX_COUNT
      BY <1>1, <3>1, CountBound
    <3>3. r \notin Contents(d, dir)
      BY <1>3
    <3> HIDE DEF r
    <3>4. Counts(e, dir)
      BY <3>1, <3>2, <3>3, GainedCounts DEF Born, r
    <3> QED
      BY <2>2, <3>4
  <2>3. CASE j # dir
    <3>1. e.inode[j] = d.inode[j] /\ Contents(e, j) = Contents(d, j)
      BY <2>1, <2>3 DEF Born
    <3> QED
      BY <1>1, <1>10, <2>1, <3>1, SameCounts
  <2> QED
    BY <2>2, <2>3
<1> QED
  BY <1>4, <1>6, <1>7, <1>8, <1>9, <1>10 DEF Whole

\* A record of the new directory's own leads nowhere.
LEMMA DotIsWhole ==
    ASSUME NEW v, NEW R, NEW i \in R, Whole(v, R, {i}), v.inode[i].i_mode = "dir", NEW r, r.name \notin Name,
           NEW w, Gained(v, w, R, i, r), Sane(w, R), Unique(w, R, {})
    PROVE  Whole(w, R, {i})
<1>1. R = Live(v) /\ Kinds(v, R) /\ NoneLost(v, R) /\ Connected(v, R) /\ R \subseteq Inum
      /\ \A j \in R \ {i} : v.inode[j].i_mode = "dir" => Counts(v, j)
  BY DEF Whole, Sane
<1>2. \A j \in Inum : SameKind(v.inode[j], w.inode[j])
  BY DEF Gained, SameKind
<1>3. R = Live(w)
  BY <1>1, <1>2 DEF Live, SameKind
<1>4. Kinds(w, R)
  <2>1. ROOT_INODE_NUM \in Inum
    BY TreeAssumption
  <2> SUFFICES ASSUME NEW j \in R, w.inode[j].i_mode = "file" PROVE w.inode[j].i_blocks = << >>
    BY <1>1, <1>2, <2>1 DEF Kinds, SameKind
  <2>2. j # i
    BY <1>1, <1>2 DEF SameKind
  <2>3. w.inode[j] = v.inode[j]
    BY <1>1, <2>2 DEF Gained
  <2> QED
    BY <1>1, <2>3 DEF Kinds
<1>5. NoneLost(w, R)
  <2> SUFFICES ASSUME NEW b \in Block PROVE b \in w.free \/ \E j \in R : b \in OwnedBy(w, j)
    BY DEF NoneLost
  <2>1. CASE b \in v.free \cup OwnedBy(v, i)
    BY <2>1 DEF Gained
  <2>2. CASE b \notin v.free \cup OwnedBy(v, i)
    <3>1. PICK j \in R : b \in OwnedBy(v, j)
      BY <1>1, <2>2 DEF NoneLost
    <3>2. w.inode[j] = v.inode[j]
      BY <1>1, <2>2, <3>1 DEF Gained
    <3> QED
      BY <3>1, <3>2 DEF OwnedBy
  <2> QED
    BY <2>1, <2>2
<1>6. Connected(w, R)
  <2> SUFFICES ASSUME NEW Q \in SUBSET R, ROOT_INODE_NUM \in Q, Shut(w, Q) PROVE Q = R
    BY DEF Connected
  <2>1. Shut(v, Q)
    BY DEF Shut, Gained
  <2> QED
    BY <1>1, <2>1 DEF Connected
<1>7. ASSUME NEW j \in R \ {i}, w.inode[j].i_mode = "dir" PROVE Counts(w, j)
  <2>1. w.inode[j] = v.inode[j] /\ Contents(w, j) = Contents(v, j)
    BY <1>1 DEF Gained
  <2> QED
    BY <1>1, <1>7, <2>1, SameCounts
<1> QED
  BY <1>3, <1>4, <1>5, <1>6, <1>7 DEF Whole

\* What altfs_unlink takes for empty has no names.
LEMMA EmptyIsEmpty ==
    ASSUME NEW d, NEW R, Whole(d, R, {}), NEW i \in R,
           ~ (d.inode[i].i_mode = "dir" /\ ~ is_empty_dir(d.inode[i]))
    PROVE  \A r \in Contents(d, i) : r.name \notin Name
<1>1. Sane(d, R) /\ Kinds(d, R) /\ (d.inode[i].i_mode = "dir" => Counts(d, i))
  BY DEF Whole
<1>2. CASE d.inode[i].i_mode # "dir"
  BY <1>1, <1>2, FileIsEmpty
<1>3. CASE d.inode[i].i_mode = "dir"
  <2>1. /\ IsFiniteSet(Named(d, i)) /\ Cardinality(Named(d, i)) \in Nat
        /\ d.inode[i].i_child_num = Cardinality(Named(d, i)) + 2
    BY <1>1, <1>3, TwoMore
  <2>2. d.inode[i].i_child_num <= 2
    BY <1>3 DEF is_empty_dir
  <2>3. Cardinality(Named(d, i)) = 0
    BY <2>1, <2>2
  <2>4. Named(d, i) = {}
    BY <2>1, <2>3, FS_EmptySet
  <2> QED
    BY <2>4 DEF Named
<1> QED
  BY <1>2, <1>3

\* An inode that leads nowhere goes with its name.
LEMMA DiedIsWhole ==
    ASSUME NEW d, NEW R, Whole(d, R, {}), NEW dir \in R, d.inode[dir].i_mode = "dir",
           NEW r \in Contents(d, dir), r.name \in Name, NEW i, i = r.inum, i # dir,
           \A x \in Contents(d, i) : x.name \notin Name,
           NEW e, Died(d, e, R, dir, i, r), Sane(e, R \ {i}), Unique(e, R \ {i}, {})
    PROVE  Whole(e, R \ {i}, {})
<1> DEFINE S == R \ {i}
<1>1. R = Live(d) /\ Sane(d, R) /\ Unique(d, R, {}) /\ Kinds(d, R) /\ NoneLost(d, R) /\ Connected(d, R)
      /\ \A j \in R : d.inode[j].i_mode = "dir" => Counts(d, j)
  BY DEF Whole
<1>2. R \subseteq Inum /\ dir \in S /\ i \in R \ {ROOT_INODE_NUM} /\ ROOT_INODE_NUM \in S
  BY <1>1, ContentsOrdered DEF Sane, Ordered
<1>3. \A j \in Inum \ {i} : SameKind(d.inode[j], e.inode[j])
  BY DEF Died, SameKind
<1>4. S = Live(e)
  <2>1. ~ e.inode[i].i_allocated
    BY DEF Died, Unused
  <2> QED
    BY <1>1, <1>3, <2>1 DEF Live, SameKind
<1>5. Kinds(e, S)
  <2>1. e.inode[ROOT_INODE_NUM].i_mode = "dir"
    BY <1>1, <1>2, <1>3 DEF Kinds, SameKind
  <2> SUFFICES ASSUME NEW j \in S
               PROVE  /\ e.inode[j].i_mode \in {"dir", "file"} /\ e.inode[j].i_links_count = 1
                      /\ e.inode[j].i_mode = "file" => e.inode[j].i_blocks = << >>
    BY <2>1 DEF Kinds
  <2>2. CASE j = dir
    BY <1>1, <1>2, <1>3, <2>2 DEF Kinds, SameKind
  <2>3. CASE j # dir
    <3>1. j \in R /\ e.inode[j] = d.inode[j]
      BY <1>2, <2>3 DEF Died
    <3> QED
      BY <1>1, <3>1 DEF Kinds
  <2> QED
    BY <2>2, <2>3
<1>6. NoneLost(e, S)
  <2> SUFFICES ASSUME NEW b \in Block, b \notin e.free PROVE \E j \in S : b \in OwnedBy(e, j)
    BY DEF NoneLost
  <2>1. b \notin d.free /\ b \notin OwnedBy(d, i)
    BY DEF Died
  <2>2. PICK j \in R : b \in OwnedBy(d, j)
    BY <1>1, <2>1 DEF NoneLost
  <2>3. j \in S /\ e.inode[j].i_blocks = d.inode[j].i_blocks
    BY <1>2, <2>1, <2>2 DEF Died
  <2> QED
    BY <2>2, <2>3 DEF OwnedBy
<1>7. Connected(e, S)
  <2> SUFFICES ASSUME NEW Q \in SUBSET S, ROOT_INODE_NUM \in Q, Shut(e, Q) PROVE Q = S
    BY DEF Connected
  <2> DEFINE P == Q \cup {i}
  <2>1. P \in SUBSET R /\ ROOT_INODE_NUM \in P
    BY <1>2
  <2>2. Shut(d, P)
    <3> SUFFICES ASSUME NEW j \in P, NEW x \in Contents(d, j), x.name \in Name PROVE x.inum \in P
      BY DEF Shut
    <3>1. CASE j = i
      BY <3>1
    <3>2. CASE j # i /\ x # r
      <4>1. x \in Contents(e, j)
        BY <3>2 DEF Died
      <4> QED
        BY <3>2, <4>1 DEF Shut
    <3>3. CASE x = r
      BY <3>3
    <3> QED
      BY <3>1, <3>2, <3>3
  <2>3. P = R
    <3> HIDE DEF P
    <3> QED
      BY <1>1, <2>1, <2>2 DEF Connected
  <2> QED
    BY <2>3
<1>8. ASSUME NEW j \in S, e.inode[j].i_mode = "dir" PROVE Counts(e, j)
  <2>1. j \in R /\ j \in Inum /\ j # i
    BY <1>2
  <2>2. CASE j = dir
    <3>1. Counts(d, dir)
      BY <1>1
    <3>2. d.inode[dir].i_child_num <= MAX_COUNT
      <4>1. d.inode[dir].i_child_num \in Nat /\ d.inode[dir].i_child_num < MAX_COUNT
        BY <1>1, <3>1, CountBound
      <4> QED
        BY <4>1, TreeAssumption
    <3>3. Counts(e, dir)
      BY <3>1, <3>2, LostCounts DEF Died
    <3> QED
      BY <2>2, <3>3
  <2>3. CASE j # dir
    <3>1. e.inode[j] = d.inode[j] /\ Contents(e, j) = Contents(d, j)
      BY <2>1, <2>3 DEF Died
    <3>2. Counts(d, j)
      BY <1>1, <1>8, <2>1, <3>1
    <3> QED
      BY <3>1, <3>2, SameCounts
  <2> QED
    BY <2>2, <2>3
<1> QED
  BY <1>4, <1>5, <1>6, <1>7, <1>8 DEF Whole

\* A rename that moves nothing below itself keeps everything reachable.
LEMMA MovedIsWhole ==
    ASSUME NEW d, NEW R, Whole(d, R, {}), NEW from \in R, NEW to \in R,
           d.inode[from].i_mode = "dir", d.inode[to].i_mode = "dir",
           NEW r \in Contents(d, from), r.name \in Name,
           NEW s, s.name \in Name, s.inum = r.inum, s \notin Contents(d, to), <<from, r>> # <<to, s>>,
           NEW B, B \subseteq R, Shut(d, B), r.inum \in B, to \notin B,
           NEW w, Gained(d, w, R, to, s), NEW e, Lost(w, e, R, from, r),
           Sane(e, R), Unique(e, R, {})
    PROVE  Whole(e, R, {})
<1>1. R = Live(d) /\ Sane(d, R) /\ Unique(d, R, {}) /\ Kinds(d, R) /\ NoneLost(d, R) /\ Connected(d, R)
      /\ \A j \in R : d.inode[j].i_mode = "dir" => Counts(d, j)
  BY DEF Whole
<1>2. R \subseteq Inum /\ ROOT_INODE_NUM \in R
  BY <1>1 DEF Sane
<1>3. \A j \in Inum : SameKind(d.inode[j], w.inode[j]) /\ SameKind(d.inode[j], e.inode[j])
  BY DEF Gained, Lost, SameKind
<1>4. R = Live(e)
  BY <1>1, <1>3 DEF Live, SameKind
<1>5. Kinds(e, R)
  <2>1. e.inode[ROOT_INODE_NUM].i_mode = "dir"
    BY <1>1, <1>2, <1>3 DEF Kinds, SameKind
  <2> SUFFICES ASSUME NEW j \in R
               PROVE  /\ e.inode[j].i_mode \in {"dir", "file"} /\ e.inode[j].i_links_count = 1
                      /\ e.inode[j].i_mode = "file" => e.inode[j].i_blocks = << >>
    BY <2>1 DEF Kinds
  <2>2. CASE j = from \/ j = to
    BY <1>1, <1>2, <1>3, <2>2 DEF Kinds, SameKind
  <2>3. CASE j # from /\ j # to
    <3>1. e.inode[j] = d.inode[j]
      BY <1>2, <2>3 DEF Gained, Lost
    <3> QED
      BY <1>1, <3>1 DEF Kinds
  <2> QED
    BY <2>2, <2>3
<1>6. NoneLost(e, R)
  <2> SUFFICES ASSUME NEW b \in Block PROVE b \in e.free \/ \E j \in R : b \in OwnedBy(e, j)
    BY DEF NoneLost
  <2>0. e.free = w.free /\ \A j \in R : OwnedBy(e, j) = OwnedBy(w, j)
    BY <1>2 DEF Lost, OwnedBy
  <2>1. CASE b \in d.free \cup OwnedBy(d, to)
    BY <2>0, <2>1 DEF Gained
  <2>2. CASE b \notin d.free \cup OwnedBy(d, to)
    <3>1. PICK j \in R : b \in OwnedBy(d, j)
      BY <1>1, <2>2 DEF NoneLost
    <3>2. w.inode[j] = d.inode[j]
      BY <1>2, <2>2, <3>1 DEF Gained
    <3>3. b \in OwnedBy(w, j)
      BY <3>1, <3>2 DEF OwnedBy
    <3> QED
      BY <2>0, <3>3
  <2> QED
    BY <2>1, <2>2
<1>7. s \in Contents(e, to)
  <2>1. CASE from = to
    BY <2>1 DEF Gained, Lost
  <2>2. CASE from # to
    BY <2>2 DEF Gained, Lost
  <2> QED
    BY <2>1, <2>2
<1>8. \A j \in R : \A x \in Contents(d, j) : (j # from \/ x # r) => x \in Contents(e, j)
  BY DEF Gained, Lost
<1>9. Connected(e, R)
  <2> SUFFICES ASSUME NEW Q \in SUBSET R, ROOT_INODE_NUM \in Q, Shut(e, Q) PROVE Q = R
    BY DEF Connected
  <2>1. ASSUME NEW j \in Q, NEW x \in Contents(d, j), x.name \in Name, x # r PROVE x.inum \in Q
    <3>1. x \in Contents(e, j)
      BY <1>8, <2>1
    <3> QED
      BY <2>1, <3>1 DEF Shut
  <2>2. to \in Q
    <3> DEFINE P == Q \cup B
    <3>1. P \in SUBSET R /\ ROOT_INODE_NUM \in P
      OBVIOUS
    <3>2. Shut(d, P)
      <4> SUFFICES ASSUME NEW j \in P, NEW x \in Contents(d, j), x.name \in Name PROVE x.inum \in P
        BY DEF Shut
      <4>1. CASE j \in B
        BY <4>1 DEF Shut
      <4>2. CASE j \in Q
        BY <2>1, <4>2
      <4> QED
        BY <4>1, <4>2
    <3>3. P = R
      <4> HIDE DEF P
      <4> QED
        BY <1>1, <3>1, <3>2 DEF Connected
    <3> QED
      BY <3>3
  <2>3. r.inum \in Q
    BY <1>7, <2>2 DEF Shut
  <2>4. Shut(d, Q)
    BY <2>1, <2>3 DEF Shut
  <2> QED
    BY <1>1, <2>4 DEF Connected
<1>10. Counts(w, to)
  <2>1. Counts(d, to)
    BY <1>1
  <2>2. d.inode[to].i_child_num < MAX_COUNT
    BY <1>1, <2>1, CountBound
  <2> QED
    BY <2>1, <2>2, GainedCounts DEF Gained
<1>11. ASSUME NEW j \in R, d.inode[j].i_mode = "dir" PROVE Counts(w, j)
  <2>1. CASE j = to
    BY <1>10, <2>1
  <2>2. CASE j # to
    <3>1. w.inode[j] = d.inode[j] /\ Contents(w, j) = Contents(d, j)
      BY <1>2, <2>2 DEF Gained
    <3> QED
      BY <1>1, <1>11, <3>1, SameCounts
  <2> QED
    BY <2>1, <2>2
<1>12. Counts(e, from)
  <2>1. Counts(w, from)
    BY <1>11
  <2>2. r \in Contents(w, from)
    BY DEF Gained
  <2>3. w.inode[from].i_child_num <= MAX_COUNT
    <3>1. Counts(d, from)
      BY <1>1
    <3>2. d.inode[from].i_child_num \in Nat /\ d.inode[from].i_child_num < MAX_COUNT
      BY <1>1, <3>1, CountBound
    <3>3. CASE from = to
      <4>1. w.inode[from].i_child_num = d.inode[from].i_child_num + 1
        BY <3>2, <3>3, CountsUp DEF Gained
      <4> QED
        BY <3>2, <4>1, TreeAssumption
    <3>4. CASE from # to
      <4>1. w.inode[from] = d.inode[from]
        BY <1>2, <3>4 DEF Gained
      <4> QED
        BY <3>2, <4>1, TreeAssumption
    <3> QED
      BY <3>3, <3>4
  <2> QED
    BY <2>1, <2>2, <2>3, LostCounts DEF Lost
<1>13. ASSUME NEW j \in R, e.inode[j].i_mode = "dir" PROVE Counts(e, j)
  <2>1. CASE j = from
    BY <1>12, <2>1
  <2>2. CASE j # from
    <3>1. e.inode[j] = w.inode[j] /\ Contents(e, j) = Contents(w, j)
      BY <1>2, <2>2 DEF Lost
    <3>2. Counts(w, j)
      BY <1>2, <1>3, <1>11, <1>13 DEF SameKind
    <3> QED
      BY <3>1, <3>2, SameCounts
  <2> QED
    BY <2>1, <2>2
<1> QED
  BY <1>4, <1>5, <1>6, <1>9, <1>13 DEF Whole

-----------------------------------------------------------------------------
(* What the calls do, from the first write to the last *)

\* Two disks that agree everywhere are one.
LEMMA SameDisk ==
    ASSUME NEW d \in Disk, NEW e \in Disk, e.block = d.block, e.free = d.free,
           \A j \in Inum : e.inode[j] = d.inode[j]
    PROVE  e = d
<1>1. d.inode \in [Inum -> Inode] /\ e.inode \in [Inum -> Inode]
  BY DEF Disk
<1>2. e.inode = d.inode
  BY <1>1
<1> QED
  BY <1>2 DEF Disk

\* create_new_file adds the inode and its name, or leaves the disk as it was.
Creates(d, f, R, dir, i, n, mode) ==
    /\ f \in Call
    /\ ~ f.ok => f.disk = d
    /\ f.ok => /\ Born(d, f.disk, R, dir, i, Rec(i, n), mode)
               /\ Sane(f.disk, R \cup {i}) /\ Unique(f.disk, R \cup {i}, {})
               /\ f.disk.inode[i] = f.node

\* Its writes are followed as in CreateIs, for what they change.
LEMMA CreateDoes ==
    ASSUME NEW d, NEW R, Sane(d, R), Unique(d, R, {}), NEW dir \in R, NEW n \in Name,
           ~ Has(d, d.inode[dir], n), \E j \in Inum : ~ d.inode[j].i_allocated,
           NEW mode \in {"dir", "file"}
    PROVE  Creates(d, create_new_file(d, dir, n, mode), R, dir, NextInode(d), n, mode)
<1> DEFINE i == NextInode(d)
           Q == R \cup {i}
           c0 == Hold(Begin(d), dir)
           c1 == allocate_inode(c0, i)
           c2 == add_directory_entry(c1, i, n)
           f == create_new_file(d, dir, n, mode)
           marked == [Unused EXCEPT !.i_allocated = TRUE]
           d1 == WithInode(d, i, marked)
<1>1. d \in Disk /\ R \subseteq Inum /\ dir \in Inum /\ d.inode[dir] \in Inode
  BY DEF Sane, Disk
<1>2. i \in Inum \ R /\ d.inode[i] = Unused /\ dir # i
  BY NextInodeIs
<1>3. CreatedFile(d, f, i, R, mode)
  BY CreateIs
<1>4. f = Created(c2, dir, i, NewNode(mode))
  BY DEF create_new_file, NewNode
<1> HIDE DEF i, f
<1>5. c0 \in Call /\ c0.ok /\ c0.disk = d /\ c0.node = d.inode[dir]
  BY <1>1, BeginIs, HoldIs
<1>6. marked \in Inode /\ marked.i_allocated /\ marked.i_blocks = << >>
  BY UnusedType DEF Unused, Inode
<1>7. /\ d1 \in Disk /\ d1.block = d.block /\ d1.free = d.free /\ d1.inode[i] = marked
      /\ \A j \in Inum \ {i} : d1.inode[j] = d.inode[j]
  <2> HIDE DEF marked
  <2> QED
    BY <1>1, <1>2, <1>6, WithInodeIs
<1>8. c1 = Write(c0, d1)
  <2>1. [d EXCEPT !.inode[i].i_allocated = TRUE] = d1
    BY <1>1, <1>2 DEF WithInode, Disk
  <2> QED
    BY <1>5, <2>1 DEF allocate_inode
<1> HIDE DEF c0, d1, marked
<1>9. c1 \in Call /\ c1.ok /\ c1.disk = d1 /\ c1.node = d.inode[dir]
  BY <1>5, <1>7, <1>8, WriteIs
<1> HIDE DEF c1
<1>10. Sane(d1, Q)
  <2>1. d1.inode[i].i_allocated /\ d1.inode[i].i_blocks = << >>
    BY <1>6, <1>7
  <2> QED
    BY <1>2, <1>7, <2>1, InodeAdded
<1>11. Virtual(c1, dir) = d1
  <2>1. d1.inode[dir] = c1.node
    BY <1>1, <1>2, <1>7, <1>9
  <2> QED
    BY <1>1, <1>7, <1>9, <2>1 DEF Virtual, WithInode, Disk
<1>12. n \in AnyName /\ i \in Inum /\ i \in Q \ {ROOT_INODE_NUM} /\ dir \in Q
  BY <1>2 DEF AnyName, Sane
<1>13. Added(c1, c2, dir, Q, i, n)
  <2>1. ~ Has(c1.disk, c1.node, n)
    BY <1>7, <1>9 DEF Has
  <2>2. Sane(Virtual(c1, dir), Q)
    BY <1>10, <1>11
  <2> HIDE DEF Q
  <2> QED
    BY <1>9, <1>12, <2>1, <2>2, EntryAdded
<1>14. ASSUME c2.ok PROVE Gained(d1, Virtual(c2, dir), Q, dir, Rec(i, n))
  <2>1. Sane(Virtual(c1, dir), Q)
    BY <1>10, <1>11
  <2> HIDE DEF Q, c2
  <2>2. c2 = add_directory_entry(c1, i, n)
    BY DEF c2
  <2>3. Gained(Virtual(c1, dir), Virtual(c2, dir), Q, dir, Rec(i, n))
    BY ONLY <1>9, <1>12, <1>14, <2>1, <2>2, EntryGained
  <2> QED
    BY <1>11, <2>3
<1> HIDE DEF c2
<1>15. c2 \in Call /\ c2.disk.inode = d1.inode
  BY <1>9, <1>13 DEF Added
<1>16. f \in Call
  BY <1>3 DEF CreatedFile
<1>17. CASE c2.ok
  <2> DEFINE c3 == Save(c2, dir)
             c4 == write_inode(c3, i, NewNode(mode))
             w == Virtual(c2, dir)
  <2>1. c3 \in Call /\ c3.ok /\ c3.disk = w
    BY <1>1, <1>15, <1>17, SaveIs
  <2> HIDE DEF c3
  <2>2. NewNode(mode) \in Inode /\ w \in Disk
    BY <2>1, NewNodeIs DEF Call
  <2>3. c4 \in Call /\ c4.ok /\ c4.disk = WithInode(w, i, NewNode(mode))
    BY <1>2, <2>1, <2>2, WriteInodeIs
  <2> HIDE DEF c4
  <2>4. f = [c4 EXCEPT !.node = NewNode(mode)]
    BY <1>4, <1>17 DEF Created, c4, c3
  <2>5. f.ok /\ f.disk = c4.disk
    BY <2>2, <2>3, <2>4 DEF Call
  <2> DEFINE e == f.disk
  <2>6. /\ e.block = w.block /\ e.free = w.free /\ e.inode[i] = NewNode(mode)
        /\ \A j \in Inum \ {i} : e.inode[j] = w.inode[j]
    <3>1. e = WithInode(w, i, NewNode(mode)) /\ i \in Inum /\ NewNode(mode) \in Inode /\ w \in Disk
      BY <1>2, <2>2, <2>3, <2>5
    <3> QED
      BY ONLY <3>1, WithInodeIs
  <2>7. Gained(d1, w, Q, dir, Rec(i, n))
    BY <1>14, <1>17
  <2> HIDE DEF e, w, Q
  <2>8. \A j \in Inum \ {i} : Contents(e, j) = Contents(w, j) /\ OwnedBy(e, j) = OwnedBy(w, j)
    BY <2>6 DEF Contents, OwnedBy
  <2>9. \A j \in Inum \ {i} : Contents(d1, j) = Contents(d, j) /\ OwnedBy(d1, j) = OwnedBy(d, j)
    BY <1>7 DEF Contents, OwnedBy
  <2>10. R \ {dir} \subseteq Q \ {dir} /\ i \notin R /\ dir \in Inum \ {i}
    BY <1>1, <1>2 DEF Q
  <2>11. e.inode[dir] = w.inode[dir] /\ d1.inode[dir] = d.inode[dir]
    BY <1>7, <2>6, <2>10
  <2>12. Contents(e, dir) = Contents(d, dir) \cup {Rec(i, n)}
    BY <2>7, <2>8, <2>9, <2>10 DEF Gained
  <2>13. \A j \in R \ {dir} : Contents(e, j) = Contents(d, j)
    BY <1>1, <2>7, <2>8, <2>9, <2>10 DEF Gained
  <2>14. \A j \in Inum \ {i, dir} : e.inode[j] = d.inode[j]
    BY <1>7, <2>6, <2>7 DEF Gained
  <2>15. /\ SameKind(d.inode[dir], e.inode[dir])
         /\ e.inode[dir].i_child_num = Incremented(d.inode[dir].i_child_num)
    BY <2>7, <2>11 DEF Gained
  <2>16. e.free \cup OwnedBy(e, dir) = d.free \cup OwnedBy(d, dir)
    BY <1>7, <2>6, <2>7, <2>8, <2>9, <2>10 DEF Gained
  <2>17. Born(d, e, R, dir, i, Rec(i, n), mode)
    BY <2>6, <2>12, <2>13, <2>14, <2>15, <2>16 DEF Born
  <2>18. Creates(d, f, R, dir, i, n, mode)
    BY <1>3, <1>16, <2>5, <2>17 DEF Creates, CreatedFile, e
  <2> QED
    BY <2>18 DEF f, i
<1>18. CASE ~ c2.ok
  <2>1. f = free_inode(c2, i)
    BY <1>4, <1>18 DEF Created
  <2>2. c2.disk = d1
    BY <1>9, <1>13, <1>18 DEF Added
  <2> DEFINE d2 == WithFreed(d1, i)
  <2>3. ~ f.ok /\ f.disk = WithInode(d2, i, Unused)
    BY <1>2, <1>15, <1>18, <2>1, <2>2, FreeInodeIs
  <2>4. OwnedBy(d1, i) = {}
    BY <1>6, <1>7 DEF OwnedBy, Range
  <2>5. d2 \in Disk /\ d2.inode = d1.inode /\ d2.block = d1.block /\ d2.free = d1.free
    <3>1. i \in Inum /\ d1 \in Disk
      BY <1>2, <1>7
    <3>2. /\ d2 \in Disk /\ d2.inode = d1.inode /\ d2.block = d1.block
          /\ d2.free = d1.free \cup OwnedBy(d1, i)
      BY ONLY <3>1, WithFreedIs
    <3> QED
      BY <2>4, <3>2
  <2> HIDE DEF d2
  <2>6. /\ f.disk \in Disk /\ f.disk.block = d2.block /\ f.disk.free = d2.free
        /\ f.disk.inode[i] = Unused /\ \A j \in Inum \ {i} : f.disk.inode[j] = d2.inode[j]
    <3>1. i \in Inum /\ d2 \in Disk /\ f.disk = WithInode(d2, i, Unused)
      BY <1>2, <2>3, <2>5
    <3> QED
      BY ONLY <3>1, UnusedType, WithInodeIs
  <2>7. /\ f.disk.block = d.block /\ f.disk.free = d.free
        /\ \A j \in Inum : f.disk.inode[j] = d.inode[j]
    BY <1>2, <1>7, <2>5, <2>6
  <2>8. f.disk = d
    BY <1>1, <2>6, <2>7, SameDisk
  <2>9. Creates(d, f, R, dir, i, n, mode)
    BY <1>16, <2>3, <2>8 DEF Creates
  <2> QED
    BY <2>9 DEF f, i
<1> QED
  BY <1>17, <1>18

\* altfs_unlink frees an inode that leads nowhere, or leaves the disk as it was.
Unlinks(d, u, R, dir, i, n) ==
    /\ u \in Call
    /\ ~ u.ok => u.disk = d
    /\ u.ok => /\ Died(d, u.disk, R, dir, i, Rec(i, n))
               /\ Sane(u.disk, R \ {i}) /\ Unique(u.disk, R \ {i}, {})
               /\ \A x \in Contents(d, i) : x.name \notin Name

\* Its writes are followed as in UnlinkIs, for what they change.
LEMMA UnlinkDoes ==
    ASSUME NEW d, NEW R, Whole(d, R, {}), NEW dir \in R, NEW n \in Name,
           Lookup(d, dir, n) # 0, Lookup(d, dir, n) # dir
    PROVE  Unlinks(d, unlink(d, dir, n), R, dir, Lookup(d, dir, n), n)
<1> DEFINE i == Lookup(d, dir, n)
           node == d.inode[i]
           r == Rec(i, n)
           u == unlink(d, dir, n)
           c0 == Hold(Begin(d), dir)
           c1 == remove_directory_entry(c0, n)
           c2 == Unlinked(c1, i, node)
<1>1. Sane(d, R) /\ Unique(d, R, {}) /\ Kinds(d, R) /\ R \subseteq Inum /\ d \in Disk /\ dir \in Inum
  BY DEF Whole, Sane
<1>2. UnlinkedName(d, u, R, dir, n, i)
  BY <1>1, UnlinkIs
<1>3. r \in Contents(d, dir)
  BY <1>1, LookupTells
<1>4. r.name = n /\ r.inum = i /\ i # dir
  BY DEF Rec
<1> HIDE DEF i, r
<1>5. i \in R /\ i \in Inum
  BY <1>1, <1>3, <1>4, ContentsOrdered DEF Ordered
<1>6. u \in Call /\ (~ u.ok => u.disk = d)
      /\ (u.ok => Sane(u.disk, R \ {i}) /\ Unique(u.disk, R \ {i}, {}))
  BY <1>2 DEF UnlinkedName, KeepsNames
<1>7. CASE node.i_mode = "dir" /\ ~ is_empty_dir(node)
  <2>1. u = Fail(Begin(d))
    BY <1>7 DEF unlink, i, node
  <2>2. ~ u.ok
    BY <2>1 DEF Fail, Begin
  <2> HIDE DEF u
  <2>3. Unlinks(d, u, R, dir, i, n)
    BY <1>6, <2>2 DEF Unlinks
  <2> QED
    BY <2>3 DEF u, i
<1>8. CASE ~ (node.i_mode = "dir" /\ ~ is_empty_dir(node))
  <2>1. u = Save(c2, dir)
    BY <1>8 DEF unlink, i, node
  <2>2. \A x \in Contents(d, i) : x.name \notin Name
    BY <1>5, <1>8, EmptyIsEmpty DEF node
  <2>3. c0 \in Call /\ c0.ok /\ c0.disk = d /\ c0.node = d.inode[dir]
    BY <1>1, BeginIs, HoldIs
  <2> HIDE DEF u, c0
  <2> DEFINE w == Virtual(c1, dir)
  <2>4. c1 \in Call /\ c1.ok /\ Lost(d, w, R, dir, r) /\ c1.disk.inode = d.inode
    <3>1. r \in Contents(c0.disk, dir) /\ Sane(c0.disk, R) /\ c0.node = c0.disk.inode[dir]
      BY <1>1, <1>3, <2>3
    <3>2. c1 = remove_directory_entry(c0, r.name)
      BY <1>4
    <3> HIDE DEF c1
    <3>3. c1 \in Call /\ c1.ok /\ Lost(c0.disk, Virtual(c1, dir), R, dir, r) /\ c1.disk.inode = c0.disk.inode
      BY ONLY <2>3, <3>1, <3>2, dir \in R, EntryLost
    <3> QED
      BY <2>3, <3>3
  <2> HIDE DEF c1
  <2>5. c2 = free_inode(c1, i)
    <3>1. node.i_links_count = 1
      BY <1>1, <1>5 DEF Kinds
    <3> QED
      BY <3>1 DEF Unlinked
  <2> DEFINE d2 == WithFreed(c1.disk, i)
  <2>6. c2 \in Call /\ c2.ok = c1.ok /\ c2.node = c1.node /\ c2.disk = WithInode(d2, i, Unused)
    <3>1. c1 \in Call /\ i \in Inum
      BY <1>5, <2>4
    <3> HIDE DEF c2
    <3> QED
      BY ONLY <2>5, <3>1, FreeInodeIs, SMTT(40) DEF d2
  <2> HIDE DEF c2
  <2>7. c1.disk \in Disk /\ c1.node \in Inode
    BY <2>4 DEF Call
  <2>8. /\ d2 \in Disk /\ d2.inode = c1.disk.inode /\ d2.block = c1.disk.block
        /\ d2.free = c1.disk.free \cup OwnedBy(c1.disk, i)
    BY <1>5, <2>7, WithFreedIs
  <2> HIDE DEF d2
  <2>9. /\ c2.disk \in Disk /\ c2.disk.block = d2.block /\ c2.disk.free = d2.free /\ c2.disk.inode[i] = Unused
        /\ \A j \in Inum \ {i} : c2.disk.inode[j] = d2.inode[j]
    <3>1. i \in Inum /\ d2 \in Disk /\ Unused \in Inode /\ c2.disk = WithInode(d2, i, Unused)
      BY <1>5, <2>6, <2>8, UnusedType
    <3> QED
      BY ONLY <3>1, WithInodeIs
  <2>10. u.ok /\ u.disk = WithInode(c2.disk, dir, c1.node)
    BY <1>1, <2>1, <2>4, <2>6, SaveIs DEF Virtual
  <2> DEFINE e == u.disk
  <2>11. /\ e.block = c2.disk.block /\ e.free = c2.disk.free /\ e.inode[dir] = c1.node
         /\ \A j \in Inum \ {dir} : e.inode[j] = c2.disk.inode[j]
    BY ONLY <1>1, <2>7, <2>9, <2>10, WithInodeIs
  <2>12. /\ w.block = c1.disk.block /\ w.free = c1.disk.free /\ w.inode[dir] = c1.node
         /\ \A j \in Inum \ {dir} : w.inode[j] = c1.disk.inode[j]
    BY <1>1, <2>4, VirtualIs
  <2> HIDE DEF e, w
  <2>13. e.block = w.block /\ e.inode[i] = Unused /\ e.free = w.free \cup OwnedBy(d, i)
    <3>1. OwnedBy(c1.disk, i) = OwnedBy(d, i)
      BY <2>4 DEF OwnedBy
    <3> QED
      BY <1>4, <1>5, <2>8, <2>9, <2>11, <2>12, <3>1
  <2>14. \A j \in Inum \ {i} : e.inode[j] = w.inode[j]
    <3> SUFFICES ASSUME NEW j \in Inum \ {i} PROVE e.inode[j] = w.inode[j]
      OBVIOUS
    <3>1. CASE j = dir
      BY <2>11, <2>12, <3>1
    <3>2. CASE j # dir
      BY <2>8, <2>9, <2>11, <2>12, <3>2
    <3> QED
      BY <3>1, <3>2
  <2>15. \A j \in Inum \ {i} : Contents(e, j) = Contents(w, j)
    BY <2>13, <2>14 DEF Contents, OwnedBy
  <2>16. dir \in Inum \ {i} /\ e.inode[dir] = w.inode[dir]
    BY <1>1, <1>4, <2>14
  <2>17. Contents(e, dir) = Contents(d, dir) \ {r} /\ \A j \in R \ {i, dir} : Contents(e, j) = Contents(d, j)
    BY <1>1, <2>4, <2>15, <2>16 DEF Lost
  <2>18. \A j \in Inum \ {i, dir} : e.inode[j] = d.inode[j]
    BY <2>4, <2>14 DEF Lost
  <2>19. /\ SameKind(d.inode[dir], e.inode[dir])
         /\ e.inode[dir].i_child_num = Decremented(d.inode[dir].i_child_num)
         /\ e.inode[dir].i_blocks = d.inode[dir].i_blocks
         /\ w.free = d.free
    BY <2>4, <2>16 DEF Lost
  <2>20. Died(d, e, R, dir, i, r)
    BY <2>13, <2>17, <2>18, <2>19 DEF Died
  <2>21. Unlinks(d, u, R, dir, i, n)
    BY <1>6, <2>2, <2>20 DEF Unlinks, e, r
  <2> QED
    BY <2>21 DEF u, i
<1> QED
  BY <1>7, <1>8

\* The second half of altfs_rename: a record comes, a record goes.
Moves(d, f, R, from, fn, to, tn, x) ==
    /\ Sane(f.disk, R) /\ Unique(f.disk, R, {})
    /\ \E w : /\ Gained(d, w, R, to, Rec(x, tn))
              /\ Lost(w, f.disk, R, from, Rec(x, fn))

\* The writes are followed as in MovedIs, for what they change.
LEMMA MoveDoes ==
    ASSUME NEW d0, NEW c, NEW R, NEW from, NEW to, NEW fn \in Name, NEW tn \in Name, NEW x,
           <<from, fn>> # <<to, tn>>, ClearedName(d0, c, R, from, fn, to, tn, x), c.ok,
           Moved(c, from, fn, to, tn).ok
    PROVE  Moves(c.disk, Moved(c, from, fn, to, tn), R, from, fn, to, tn, x)
<1> DEFINE d == c.disk
           c1 == Hold(c, to)
           a == add_directory_entry(c1, x, tn)
           c3 == Save(a, to)
           c4 == Hold(c3, from)
           c5 == remove_directory_entry(c4, fn)
           f == Moved(c, from, fn, to, tn)
           r == Rec(x, fn)
           s == Rec(x, tn)
<1>1. f = Save(c5, from)
  BY DEF Moved, ClearedName
<1>2. /\ c \in Call /\ Sane(d, R) /\ Unique(d, R, {})
      /\ from \in R /\ to \in R /\ x # 0 /\ ~ Has(d, d.inode[to], tn)
      /\ Lookup(d, from, fn) = x
  BY DEF ClearedName
<1>3. d \in Disk /\ R \subseteq Inum /\ from \in Inum /\ to \in Inum
  BY <1>2 DEF Sane
<1>4. Sane(f.disk, R) /\ Unique(f.disk, R, {}) /\ f.ok
  BY MovedIs
<1>5. r \in Contents(d, from) /\ r.name = fn /\ s.name = tn
  BY <1>2, LookupTells DEF Rec
<1>6. x \in R \ {ROOT_INODE_NUM} /\ x \in Inum /\ tn \in AnyName
  BY <1>2, <1>3, NameIs DEF NameAt, AnyName
<1> HIDE DEF f, r, s
<1>7. c1 \in Call /\ c1.ok /\ c1.disk = d /\ c1.node = d.inode[to]
  BY <1>2, <1>3, HoldIs
<1>8. Virtual(c1, to) = d
  BY <1>3, <1>7 DEF Virtual, WithInode, Disk
<1> HIDE DEF c1
<1>9. Added(c1, a, to, R, x, tn)
  BY <1>2, <1>6, <1>7, <1>8, EntryAdded
<1>10. a \in Call
  BY <1>9 DEF Added
<1>11. a.ok
  <2> SUFFICES ASSUME ~ a.ok PROVE FALSE
    OBVIOUS
  <2> HIDE DEF a
  <2>1. c3 = a
    BY <1>3, <1>10, SaveIs
  <2>2. c4 \in Call /\ ~ c4.ok
    BY <1>3, <1>10, <2>1, HoldIs
  <2> HIDE DEF c4
  <2>3. c5 = c4
    BY <2>2 DEF remove_directory_entry
  <2>4. f = c4
    BY <1>1, <1>3, <2>2, <2>3, SaveIs
  <2> QED
    BY <1>4, <2>2, <2>4
<1> DEFINE w == Virtual(a, to)
<1>12. Gained(d, w, R, to, s)
  <2>1. Sane(Virtual(c1, to), R) /\ to \in R
    BY <1>2, <1>8
  <2>2. Gained(Virtual(c1, to), Virtual(a, to), R, to, Rec(x, tn))
    <3> HIDE DEF a
    <3>1. a = add_directory_entry(c1, x, tn)
      BY DEF a
    <3> QED
      BY ONLY <1>6, <1>7, <1>11, <2>1, <3>1, EntryGained
  <2> QED
    BY <1>8, <2>2 DEF s
<1>13. Sane(w, R)
  BY <1>9, <1>11 DEF Added
<1> HIDE DEF a
<1>14. c3 \in Call /\ c3.ok /\ c3.disk = w
  BY <1>3, <1>10, <1>11, SaveIs
<1> HIDE DEF c3, w
<1>15. c4 \in Call /\ c4.ok /\ c4.disk = w /\ c4.node = w.inode[from]
  BY <1>3, <1>14, HoldIs
<1> HIDE DEF c4
<1>16. r \in Contents(w, from)
  BY <1>2, <1>5, <1>12 DEF Gained
<1>17. c5 \in Call /\ c5.ok /\ Lost(w, Virtual(c5, from), R, from, r)
  <2>1. c5 = remove_directory_entry(c4, r.name)
    BY <1>5
  <2>2. r \in Contents(c4.disk, from) /\ Sane(c4.disk, R) /\ c4.node = c4.disk.inode[from] /\ from \in R
    BY <1>2, <1>13, <1>15, <1>16
  <2> HIDE DEF c5
  <2>3. c5 \in Call /\ c5.ok /\ Lost(c4.disk, Virtual(c5, from), R, from, r)
    BY ONLY <1>15, <2>1, <2>2, EntryLost
  <2> QED
    BY <1>15, <2>3
<1> HIDE DEF c5
<1>18. f.disk = Virtual(c5, from)
  BY <1>1, <1>3, <1>17, SaveIs
<1>19. Moves(d, f, R, from, fn, to, tn, x)
  BY <1>4, <1>12, <1>17, <1>18 DEF Moves, r, s
<1> QED
  BY <1>19 DEF f

-----------------------------------------------------------------------------
(* New inodes in a whole tree *)

\* Directory i has got its two own records; nothing else has changed.
Completed(v, w, R, i, up) ==
    /\ Whole(w, R, {})
    /\ Contents(w, i) = {Rec(i, "."), Rec(up, "..")}
    /\ \A j \in R \ {i} : Contents(w, j) = Contents(v, j)
    /\ \A j \in Inum \ {i} : w.inode[j] = v.inode[j]
    /\ w.inode[i].i_mode = "dir"

\* A directory without records is complete once it has "." and "..".
LEMMA DotsComplete ==
    ASSUME NEW c \in Call, NEW R, NEW i \in R, NEW up \in Inum,
           NEW v, v = Virtual(c, i), Whole(v, R, {i}),
           c.node.i_mode = "dir", c.node.i_blocks = << >>, c.node.i_child_num = 0,
           NEW a1, a1 = add_directory_entry(c, i, "."),
           NEW a2, a2 = add_directory_entry(a1, up, ".."), a2.ok
    PROVE  Completed(v, Virtual(a2, i), R, i, up)
<1> DEFINE v1 == Virtual(a1, i)
           v2 == Virtual(a2, i)
           r == Rec(i, ".")
           s == Rec(up, "..")
<1>1. Sane(v, R) /\ Unique(v, R, {}) /\ R \subseteq Inum /\ i \in Inum
  BY DEF Whole, Sane
<1>2. v.inode[i] = c.node
  BY <1>1, VirtualIs
<1>3. ~ Has(c.disk, c.node, ".") /\ ~ Has(c.disk, c.node, "..")
  BY DEF Has, Range
<1>4. Contents(v, i) = {}
  BY <1>2 DEF Contents, OwnedBy, Range
<1>5. "." \in AnyName /\ "." \notin Name /\ ".." \in AnyName /\ ".." \notin Name /\ "." # ".."
  BY RecordAssumption DEF AnyName
<1>6. Added(c, a1, i, R, i, ".")
  BY <1>1, <1>3, <1>5, EntryAdded
<1>7. a1 \in Call
  BY <1>6 DEF Added
<1>8. a1.ok
  BY <1>7, AddFails
<1>9. /\ Sane(v1, R) /\ ~ Has(a1.disk, a1.node, "..") /\ Unique(v1, R, {})
  BY <1>1, <1>3, <1>5, <1>6, <1>8 DEF Added
<1>10. Gained(v, v1, R, i, r)
  BY <1>1, <1>5, <1>8, EntryGained
<1> HIDE DEF v1
<1>11. Added(a1, a2, i, R, up, "..")
  BY <1>5, <1>7, <1>9, EntryAdded DEF v1
<1>12. Sane(v2, R) /\ Unique(v2, R, {})
  BY <1>5, <1>9, <1>11 DEF Added, v1
<1>13. Gained(v1, v2, R, i, s)
  BY <1>5, <1>7, <1>9, EntryGained DEF v1
<1> HIDE DEF v2, r, s
<1>14. r.name = "." /\ s.name = ".." /\ r # s
  BY <1>5 DEF r, s, Rec
<1>15. v.inode[i].i_mode = "dir" /\ v1.inode[i].i_mode = "dir" /\ v2.inode[i].i_mode = "dir"
  BY <1>2, <1>10, <1>13 DEF Gained, SameKind
<1>16. Whole(v1, R, {i})
  BY <1>5, <1>9, <1>10, <1>14, <1>15, DotIsWhole
<1>17. Whole(v2, R, {i})
  BY <1>5, <1>12, <1>13, <1>14, <1>15, <1>16, DotIsWhole
<1>18. Contents(v2, i) = {r, s}
  BY <1>4, <1>10, <1>13 DEF Gained
<1>19. v2.inode[i].i_child_num = 2
  <2>1. v2.inode[i].i_child_num = Incremented(Incremented(0))
    BY <1>2, <1>10, <1>13 DEF Gained
  <2> QED
    BY <2>1, CountsUp, TreeAssumption
<1>20. Counts(v2, i)
  <2>1. IsFiniteSet({r}) /\ Cardinality({r}) = 1
    BY FS_Singleton
  <2>2. s \notin {r} /\ {r} \cup {s} = {r, s}
    BY <1>14
  <2>3. /\ IsFiniteSet({r} \cup {s})
        /\ Cardinality({r} \cup {s}) = IF s \in {r} THEN Cardinality({r}) ELSE Cardinality({r}) + 1
    BY ONLY <2>1, FS_AddElement
  <2>4. IsFiniteSet({r, s}) /\ Cardinality({r, s}) = 2
    BY ONLY <2>1, <2>2, <2>3
  <2>5. (\E x \in {r, s} : x.name = ".") /\ (\E x \in {r, s} : x.name = "..")
    BY <1>14
  <2> QED
    BY ONLY <1>18, <1>19, <2>4, <2>5 DEF Counts
<1>21. Whole(v2, R, {})
  BY <1>17, <1>20 DEF Whole
<1>22. /\ \A j \in R \ {i} : Contents(v2, j) = Contents(v, j)
       /\ \A j \in Inum \ {i} : v2.inode[j] = v.inode[j]
  BY <1>10, <1>13 DEF Gained
<1> QED
  BY <1>15, <1>18, <1>21, <1>22 DEF Completed, v2, r, s

\* Disk e is d with inode i more, complete.
Entered(d, e, R, dir, i, n, mode) ==
    /\ Whole(e, R \cup {i}, {})
    /\ i \in Inum \ R
    /\ e.inode[i].i_mode = mode
    /\ Contents(e, i) = IF mode = "dir" THEN {Rec(i, "."), Rec(dir, "..")} ELSE {}
    /\ Contents(e, dir) = Contents(d, dir) \cup {Rec(i, n)}
    /\ \A j \in R \ {dir} : Contents(e, j) = Contents(d, j)
    /\ \A j \in R : e.inode[j].i_mode = d.inode[j].i_mode

\* A name can be created in dir.
CanCreate(d, R, dir, n) ==
    /\ Whole(d, R, {}) /\ dir \in R /\ d.inode[dir].i_mode = "dir" /\ n \in Name
    /\ Lookup(d, dir, n) = 0 /\ \E j \in Inum : ~ d.inode[j].i_allocated

\* create_new_file leaves a tree that is whole but for the records of a new directory.
LEMMA CreateIsWhole ==
    ASSUME NEW d, NEW R, NEW dir, NEW n, CanCreate(d, R, dir, n), NEW mode \in {"dir", "file"},
           NEW i, i = NextInode(d), NEW c, c = create_new_file(d, dir, n, mode)
    PROVE  /\ Creates(d, c, R, dir, i, n, mode)
           /\ i \in Inum \ R
           /\ c.ok => Whole(c.disk, R \cup {i}, {i}) /\ Contents(c.disk, i) = {}
           /\ ~ Has(d, d.inode[dir], n)
<1>1. /\ Whole(d, R, {}) /\ Sane(d, R) /\ Unique(d, R, {}) /\ dir \in R /\ n \in Name
      /\ d.inode[dir].i_mode = "dir" /\ \E j \in Inum : ~ d.inode[j].i_allocated
  BY DEF CanCreate, Whole
<1>2. ~ Has(d, d.inode[dir], n)
  BY <1>1, NoName DEF CanCreate
<1>3. Creates(d, c, R, dir, i, n, mode)
  BY <1>1, <1>2, CreateDoes
<1>4. i \in Inum \ R
  BY <1>1, NextInodeIs
<1>6. ASSUME c.ok PROVE Whole(c.disk, R \cup {i}, {i}) /\ Contents(c.disk, i) = {}
  <2>1. /\ Born(d, c.disk, R, dir, i, Rec(i, n), mode)
        /\ Sane(c.disk, R \cup {i}) /\ Unique(c.disk, R \cup {i}, {})
    BY <1>3, <1>6 DEF Creates
  <2>2. /\ Whole(d, R, {}) /\ dir \in R /\ n \in Name /\ d.inode[dir].i_mode = "dir"
        /\ mode \in {"dir", "file"}
    BY <1>1
  <2> DEFINE e == c.disk
  <2>3. /\ Born(d, e, R, dir, i, Rec(i, n), mode)
        /\ Sane(e, R \cup {i}) /\ Unique(e, R \cup {i}, {})
    BY <2>1
  <2> HIDE DEF e
  <2>4. Whole(e, R \cup {i}, {i})
    BY ONLY <1>2, <1>4, <2>2, <2>3, BornIsWhole
  <2>5. Contents(e, i) = {}
    BY <2>3, NewNodeIs DEF Born, Contents, OwnedBy, Range
  <2> QED
    BY <2>4, <2>5 DEF e
<1> QED
  BY <1>2, <1>3, <1>4, <1>6

\* The inodes that were there are what they were.
LEMMA BornKeeps ==
    ASSUME NEW d, NEW e, NEW R, R \subseteq Inum, NEW dir \in R, NEW i, i \notin R, NEW r, NEW mode,
           Born(d, e, R, dir, i, r, mode)
    PROVE  \A j \in R : e.inode[j].i_mode = d.inode[j].i_mode
BY DEF Born, SameKind

\* altfs_mknod enters a file, or changes nothing.
LEMMA MknodEnters ==
    ASSUME NEW d, NEW R, NEW dir, NEW n, CanCreate(d, R, dir, n),
           NEW c, c = create_new_file(d, dir, n, "file")
    PROVE  /\ c.ok => Entered(d, c.disk, R, dir, NextInode(d), n, "file")
           /\ ~ c.ok => c.disk = d
<1> DEFINE i == NextInode(d)
<1>1. /\ Creates(d, c, R, dir, i, n, "file") /\ i \in Inum \ R
      /\ c.ok => Whole(c.disk, R \cup {i}, {i}) /\ Contents(c.disk, i) = {}
  BY CreateIsWhole
<1> HIDE DEF i
<1>2. ASSUME c.ok PROVE Entered(d, c.disk, R, dir, i, n, "file")
  <2>1. Born(d, c.disk, R, dir, i, Rec(i, n), "file")
    BY <1>1, <1>2 DEF Creates
  <2>2. c.disk.inode[i].i_mode = "file"
    BY <2>1, NewNodeIs DEF Born
  <2>3. Whole(c.disk, R \cup {i}, {})
    BY <1>1, <1>2, <2>2 DEF Whole
  <2>4. R \subseteq Inum /\ dir \in R
    BY DEF CanCreate, Whole, Sane
  <2>5. \A j \in R : c.disk.inode[j].i_mode = d.inode[j].i_mode
    BY <1>1, <2>1, <2>4, BornKeeps
  <2> QED
    BY <1>1, <1>2, <2>1, <2>2, <2>3, <2>5 DEF Born, Entered
<1>3. ~ c.ok => c.disk = d
  BY <1>1 DEF Creates
<1> QED
  BY <1>2, <1>3 DEF i

\* altfs_mkdir enters a directory, changes nothing, or leaves the name of one that is
\* not complete.
LEMMA MkdirEnters ==
    ASSUME NEW d, NEW R, NEW dir, NEW n, CanCreate(d, R, dir, n), NEW f, f = mkdir(d, dir, n)
    PROVE  /\ f.ok => Entered(d, f.disk, R, dir, NextInode(d), n, "dir")
           /\ ~ f.ok => f.disk = d \/ Lookup(f.disk, dir, n) # 0
<1> DEFINE i == NextInode(d)
           Q == R \cup {i}
           c == create_new_file(d, dir, n, "dir")
           a1 == add_directory_entry(c, i, ".")
           a2 == add_directory_entry(a1, dir, "..")
<1>1. f = Save(a2, i)
  BY DEF mkdir
<1>2. /\ Creates(d, c, R, dir, i, n, "dir") /\ i \in Inum \ R
      /\ c.ok => Whole(c.disk, Q, {i}) /\ Contents(c.disk, i) = {}
  BY CreateIsWhole
<1>3. R \subseteq Inum /\ dir \in R /\ dir \in Inum /\ i \in Inum /\ i \in Q /\ dir \in Q \ {i}
      /\ d.inode[dir].i_mode = "dir" /\ n \in Name
  BY <1>2 DEF CanCreate, Whole, Sane
<1> HIDE DEF i, c
<1>4. c \in Call
  BY <1>2 DEF Creates
<1>5. CASE ~ c.ok
  <2>1. a1 \in Call /\ ~ a1.ok /\ a1.disk = c.disk
    BY <1>4, <1>5, AddFails
  <2> HIDE DEF a1
  <2>2. a2 \in Call /\ ~ a2.ok /\ a2.disk = c.disk
    BY <2>1, AddFails
  <2> HIDE DEF a2
  <2>3. f = a2
    BY <1>1, <1>3, <2>2, SaveIs
  <2> QED
    BY <1>2, <1>5, <2>2, <2>3 DEF Creates
<1>6. CASE c.ok
  <2> DEFINE v == c.disk
  <2>1. /\ Born(d, v, R, dir, i, Rec(i, n), "dir") /\ Sane(v, Q) /\ Unique(v, Q, {})
        /\ v.inode[i] = c.node /\ Whole(v, Q, {i}) /\ v \in Disk
    BY <1>2, <1>6 DEF Creates, Sane
  <2>2. c.node = NewNode("dir")
    BY <2>1 DEF Born
  <2>3. c.node.i_blocks = << >> /\ c.node.i_mode = "dir" /\ c.node.i_child_num = 0 /\ c.node.i_allocated
    BY <2>2, NewNodeIs DEF NewNode, Unused
  <2>4. v = Virtual(c, i)
    BY <1>3, <2>1 DEF Virtual, WithInode, Disk
  <2>5. Rec(i, n) \in Contents(v, dir) /\ v.inode[dir].i_mode = "dir"
    BY <1>3, <2>1 DEF Born, SameKind
  <2>6. "." \in AnyName /\ "." \notin Name /\ ".." \in AnyName /\ ".." \notin Name /\ "." # ".."
    BY RecordAssumption DEF AnyName
  <2>7. ~ Has(c.disk, c.node, ".") /\ ~ Has(c.disk, c.node, "..")
    BY <2>3 DEF Has, Range
  <2> HIDE DEF Q
  <2>8. Added(c, a1, i, Q, i, ".")
    BY <1>3, <1>4, <2>1, <2>4, <2>6, <2>7, EntryAdded
  <2>9. ASSUME NEW e, Sane(e, Q), Rec(i, n) \in Contents(e, dir), e.inode[dir].i_mode = "dir"
        PROVE  Lookup(e, dir, n) # 0
    <3>1. Rec(i, n).name = n
      BY DEF Rec
    <3> QED
      BY <1>3, <2>9, <3>1, LookupTells
  <2>10. a1 \in Call
    BY <2>8 DEF Added
  <2>11. CASE a2.ok
    <3>1. a1.ok
      BY <2>10, <2>11, AddFails
    <3>2. Completed(v, Virtual(a2, i), Q, i, dir)
      <4> HIDE DEF v, a1, a2
      <4>1. a1 = add_directory_entry(c, i, ".") /\ a2 = add_directory_entry(a1, dir, "..")
        BY DEF a1, a2
      <4>2. Whole(v, Q, {i})
        BY <2>1
      <4> QED
        BY ONLY <1>3, <1>4, <2>3, <2>4, <2>11, <4>1, <4>2, DotsComplete
    <3>3. Added(a1, a2, i, Q, dir, "..")
      <4>1. Sane(Virtual(a1, i), Q) /\ ~ Has(a1.disk, a1.node, "..")
        BY <2>6, <2>7, <2>8, <3>1 DEF Added
      <4> QED
        BY <1>3, <2>6, <2>10, <4>1, EntryAdded
    <3> HIDE DEF a1, a2, v
    <3>4. a2 \in Call
      BY <3>3 DEF Added
    <3>5. f.ok /\ f.disk = Virtual(a2, i)
      BY <1>1, <1>3, <2>11, <3>4, SaveIs
    <3> DEFINE e == f.disk
    <3>6. Completed(v, e, Q, i, dir)
      BY <3>2, <3>5
    <3> HIDE DEF e
    <3>7. \A j \in R : v.inode[j].i_mode = d.inode[j].i_mode
      BY <1>2, <1>3, <2>1, BornKeeps
    <3>8. \A j \in R : j \in Q \ {i} /\ j \in Inum \ {i}
      BY <1>2, <1>3 DEF Q
    <3>9. \A j \in R : e.inode[j].i_mode = d.inode[j].i_mode /\ Contents(e, j) = Contents(v, j)
      BY <3>6, <3>7, <3>8 DEF Completed
    <3>10. /\ Whole(e, R \cup {i}, {}) /\ e.inode[i].i_mode = "dir"
           /\ Contents(e, i) = {Rec(i, "."), Rec(dir, "..")}
      BY <3>6 DEF Completed, Q
    <3>11. /\ Contents(e, dir) = Contents(d, dir) \cup {Rec(i, n)}
           /\ \A j \in R \ {dir} : Contents(e, j) = Contents(d, j)
      BY <1>3, <2>1, <3>9 DEF Born
    <3>12. Entered(d, e, R, dir, i, n, "dir")
      BY <1>2, <3>9, <3>10, <3>11 DEF Entered
    <3> QED
      BY <3>5, <3>12 DEF e, i
  <2>12. CASE ~ a2.ok /\ ~ a1.ok
    <3>1. a1.disk = v
      BY <2>8, <2>12 DEF Added
    <3> HIDE DEF a1
    <3>2. a2 \in Call /\ a2.disk = a1.disk
      BY <2>10, <2>12, AddFails
    <3> HIDE DEF a2
    <3>3. f = a2
      BY <1>1, <1>3, <2>12, <3>2, SaveIs
    <3>4. Lookup(v, dir, n) # 0
      BY <2>1, <2>5, <2>9
    <3> QED
      BY <2>12, <3>1, <3>2, <3>3, <3>4
  <2>13. CASE ~ a2.ok /\ a1.ok
    <3> DEFINE w == Virtual(a1, i)
               e == a1.disk
    <3>1. Sane(w, Q) /\ ~ Has(a1.disk, a1.node, "..")
      BY <2>6, <2>7, <2>8, <2>13 DEF Added
    <3>2. Added(a1, a2, i, Q, dir, "..")
      BY <1>3, <2>6, <2>10, <3>1, EntryAdded
    <3>3. Gained(v, w, Q, i, Rec(i, "."))
      <4>1. Sane(Virtual(c, i), Q) /\ i \in Q /\ i \in Inum /\ "." \in AnyName
        BY <1>3, <2>1, <2>4, <2>6
      <4>2. a1 = add_directory_entry(c, i, ".") /\ a1.ok
        BY <2>13
      <4> HIDE DEF a1
      <4>3. Gained(Virtual(c, i), Virtual(a1, i), Q, i, Rec(i, "."))
        BY ONLY <1>4, <4>1, <4>2, EntryGained
      <4> QED
        BY <2>4, <4>3
    <3>4. Holds(a1, i)
      <4>1. Holds(c, i)
        BY <2>1, <2>3 DEF Holds, OwnedBy, IsInjective
      <4> QED
        BY <2>8, <2>13, <4>1 DEF Added
    <3> HIDE DEF a1
    <3>5. Sane(e, Q)
      BY <1>3, <2>10, <3>1, <3>4, DiskIsSane
    <3>6. w.block = e.block /\ w.inode[dir] = e.inode[dir]
      BY <1>3, <2>10, VirtualIs
    <3> HIDE DEF w, e
    <3>7. Contents(e, dir) = Contents(w, dir)
      BY <3>6 DEF Contents, OwnedBy
    <3>8. Contents(w, dir) = Contents(v, dir) /\ w.inode[dir] = v.inode[dir]
      BY <1>3, <3>3 DEF Gained
    <3>9. Lookup(e, dir, n) # 0
      BY <2>5, <2>9, <3>5, <3>6, <3>7, <3>8
    <3> HIDE DEF a2
    <3>10. a2 \in Call /\ a2.disk = e
      BY <2>13, <3>2 DEF Added, e
    <3>11. f = a2
      BY <1>1, <1>3, <2>13, <3>10, SaveIs
    <3> QED
      BY <2>13, <3>9, <3>10, <3>11
  <2> QED
    BY <2>11, <2>12, <2>13
<1> QED
  BY <1>5, <1>6

-----------------------------------------------------------------------------
(* Names that go and names that move in a whole tree *)

\* Disk e is d without inode i, which led nowhere, and its name.
Left(d, e, R, dir, i, n) ==
    /\ Whole(e, R \ {i}, {})
    /\ i \in R /\ i # dir /\ Rec(i, n) \in Contents(d, dir)
    /\ \A r \in Contents(d, i) : r.name \notin Name
    /\ Contents(e, dir) = Contents(d, dir) \ {Rec(i, n)}
    /\ \A j \in R \ {i, dir} : Contents(e, j) = Contents(d, j)
    /\ \A j \in R \ {i} : e.inode[j].i_mode = d.inode[j].i_mode

\* altfs_unlink takes away a file or an empty directory, or changes nothing.
LEMMA UnlinkLeaves ==
    ASSUME NEW d, NEW R, Whole(d, R, {}), NEW dir \in R, NEW n \in Name,
           NEW i, i = Lookup(d, dir, n), i # 0, NEW u, u = unlink(d, dir, n)
    PROVE  /\ u \in Call
           /\ u.ok => Left(d, u.disk, R, dir, i, n)
           /\ ~ u.ok => u.disk = d
<1>1. Sane(d, R) /\ Unique(d, R, {}) /\ R \subseteq Inum
  BY DEF Whole, Sane
<1>2. i # dir
  BY <1>1, AllReached, NotInItself
<1>3. Unlinks(d, u, R, dir, i, n)
  BY <1>2, UnlinkDoes
<1>4. Rec(i, n) \in Contents(d, dir) /\ d.inode[dir].i_mode = "dir"
  BY <1>1, LookupTells
<1>5. Rec(i, n).inum = i /\ Rec(i, n).name = n
  BY DEF Rec
<1>6. i \in R
  BY <1>1, <1>4, <1>5, ContentsOrdered DEF Ordered
<1>7. ASSUME u.ok PROVE Left(d, u.disk, R, dir, i, n)
  <2> DEFINE e == u.disk
             r == Rec(i, n)
  <2>1. /\ Died(d, e, R, dir, i, r) /\ Sane(e, R \ {i}) /\ Unique(e, R \ {i}, {})
        /\ \A x \in Contents(d, i) : x.name \notin Name
    BY <1>3, <1>7 DEF Unlinks
  <2> HIDE DEF e, r
  <2>2. Whole(e, R \ {i}, {})
    <3>1. r \in Contents(d, dir) /\ r.name \in Name /\ i = r.inum
      BY <1>4, <1>5 DEF r
    <3> QED
      BY <1>2, <1>4, <2>1, <3>1, DiedIsWhole
  <2>3. \A j \in R \ {i} : e.inode[j].i_mode = d.inode[j].i_mode
    BY <1>1, <2>1 DEF Died, SameKind
  <2> QED
    BY <1>2, <1>4, <1>6, <2>1, <2>2, <2>3 DEF Left, Died, e, r
<1> QED
  BY <1>3, <1>7 DEF Unlinks

\* Disk e is d with inode x under another name.
Shifted(d, e, R, from, fn, to, tn, x) ==
    /\ Whole(e, R, {})
    /\ from \in R /\ to \in R /\ Rec(x, fn) \in Contents(d, from)
    /\ \A j \in R : \A r :
          r \in Contents(e, j) <=> /\ r \in Contents(d, j) \/ (j = to /\ r = Rec(x, tn))
                                   /\ ~ (j = from /\ r = Rec(x, fn))
    /\ \A j \in R : e.inode[j].i_mode = d.inode[j].i_mode

\* The second half of altfs_rename.
LEMMA MoveShifts ==
    ASSUME NEW d0, NEW c, NEW R, NEW from, NEW to, NEW fn \in Name, NEW tn \in Name, NEW x,
           <<from, fn>> # <<to, tn>>, ClearedName(d0, c, R, from, fn, to, tn, x), c.ok,
           NEW d, d = c.disk, Whole(d, R, {}), NEW B, B \subseteq R, Shut(d, B), x \in B, to \notin B,
           NEW f, f = Moved(c, from, fn, to, tn), f.ok
    PROVE  Shifted(d, f.disk, R, from, fn, to, tn, x)
<1> DEFINE r == Rec(x, fn)
           s == Rec(x, tn)
           e == f.disk
<1>1. /\ Sane(d, R) /\ from \in R /\ to \in R /\ x # 0 /\ Lookup(d, from, fn) = x
      /\ d.inode[from].i_mode = "dir" /\ d.inode[to].i_mode = "dir" /\ ~ Has(d, d.inode[to], tn)
  BY DEF ClearedName
<1>2. R \subseteq Inum
  BY <1>1 DEF Sane
<1>3. Moves(d, f, R, from, fn, to, tn, x)
  BY MoveDoes
<1>4. r.name = fn /\ s.name = tn /\ r.inum = x /\ s.inum = x
  BY DEF Rec
<1>5. PICK w : Gained(d, w, R, to, s) /\ Lost(w, e, R, from, r)
  BY <1>3 DEF Moves
<1>6. Sane(e, R) /\ Unique(e, R, {})
  BY <1>3 DEF Moves
<1>7. r \in Contents(d, from)
  BY <1>1, LookupTells
<1> HIDE DEF r, s, e
<1>8. s \notin Contents(d, to)
  BY <1>1, <1>4, ContentsOrdered DEF Ordered
<1>9. <<from, r>> # <<to, s>>
  BY <1>4
<1>10. Whole(e, R, {})
  <2>1. /\ r.name \in Name /\ s.name \in Name /\ s.inum = r.inum /\ r.inum \in B
        /\ Whole(d, R, {}) /\ B \subseteq R /\ Shut(d, B) /\ to \notin B
        /\ from \in R /\ to \in R /\ d.inode[from].i_mode = "dir" /\ d.inode[to].i_mode = "dir"
    BY <1>1, <1>4
  <2> QED
    BY ONLY <1>5, <1>6, <1>7, <1>8, <1>9, <2>1, MovedIsWhole, SMTT(40)
<1>11. \A j \in R : \A y :
          y \in Contents(e, j) <=> (y \in Contents(d, j) \/ (j = to /\ y = s)) /\ ~ (j = from /\ y = r)
  <2>1. \A j \in R : \A y : y \in Contents(w, j) <=> y \in Contents(d, j) \/ (j = to /\ y = s)
    BY <1>5 DEF Gained
  <2>2. \A j \in R : \A y : y \in Contents(e, j) <=> y \in Contents(w, j) /\ ~ (j = from /\ y = r)
    BY <1>5 DEF Lost
  <2> QED
    BY <2>1, <2>2
<1>12. \A j \in R : e.inode[j].i_mode = d.inode[j].i_mode
  <2>1. \A j \in R : w.inode[j].i_mode = d.inode[j].i_mode
    BY <1>2, <1>5 DEF Gained, SameKind
  <2>2. \A j \in R : e.inode[j].i_mode = w.inode[j].i_mode
    BY <1>2, <1>5 DEF Lost, SameKind
  <2> QED
    BY <2>1, <2>2
<1> QED
  BY <1>1, <1>7, <1>10, <1>11, <1>12 DEF Shifted, r, s, e

\* What altfs_rename does: what had the new name leaves, then the name moves.
Renames(d, e, R, from, fn, to, tn, x, t) ==
    IF t = 0
    THEN Shifted(d, e, R, from, fn, to, tn, x)
    ELSE \E m : Left(d, m, R, to, t, tn) /\ Shifted(m, e, R \ {t}, from, fn, to, tn, x)

\* What is below x is still shut off when another inode has left.
LEMMA ShutAfterwards ==
    ASSUME NEW d, NEW m, NEW R, NEW dir, NEW t, NEW n, Left(d, m, R, dir, t, n),
           NEW B, B \subseteq R, Shut(d, B)
    PROVE  B \ {t} \subseteq R \ {t} /\ Shut(m, B \ {t})
<1>1. Sane(m, R \ {t})
  BY DEF Left, Whole
<1>2. \A j \in R \ {t} : Contents(m, j) \subseteq Contents(d, j)
  BY DEF Left
<1>3. \A j \in R \ {t} : \A r \in Contents(m, j) : r.name \in Name => r.inum \in R \ {t}
  BY <1>1, ContentsOrdered DEF Ordered
<1> QED
  BY <1>2, <1>3 DEF Shut

\* altfs_rename moves a name and what it leads to, or changes nothing.
LEMMA RenameShifts ==
    ASSUME NEW d, NEW R, Whole(d, R, {}),
           NEW from \in Dirs(d), NEW to \in Dirs(d), NEW fn \in Name, NEW tn \in Name,
           <<from, fn>> # <<to, tn>>, NEW x, x = Lookup(d, from, fn), x # 0, to \notin Below(d, x),
           NEW t, t = Lookup(d, to, tn), t # 0 => from \notin Below(d, t),
           NEW f, f = rename(d, from, fn, to, tn)
    PROVE  /\ f.ok => Renames(d, f.disk, R, from, fn, to, tn, x, t)
           /\ ~ f.ok => f.disk = d
<1> DEFINE c == Cleared(d, to, tn)
           B == Below(d, x)
<1>1. Sane(d, R) /\ Unique(d, R, {}) /\ Kinds(d, R) /\ R \subseteq Inum /\ d \in Disk
  BY DEF Whole, Sane
<1>2. from \in R /\ to \in R
  BY AllReached
<1>3. ~ f.ok => f.disk = d
  BY <1>1, RenameIs DEF Renamed
<1>4. PICK Q : ClearedName(d, c, Q, from, fn, to, tn, x)
  BY <1>1, ClearedIs
<1>5. f = Moved(c, from, fn, to, tn)
  BY DEF rename, Moved
<1>6. x \in R
  BY <1>1, <1>2, NameIs DEF NameAt
<1>7. B \subseteq R /\ x \in B /\ Shut(d, B)
  BY <1>1, <1>6, BelowIsShut
<1> HIDE DEF B
<1>8. to \notin B
  BY DEF B
<1>9. ASSUME f.ok PROVE Renames(d, f.disk, R, from, fn, to, tn, x, t)
  <2>1. c \in Call
    BY <1>4 DEF ClearedName
  <2>2. CASE t = 0
    <3>1. c = Begin(d)
      BY <2>2 DEF Cleared
    <3>2. c.ok /\ c.disk = d
      BY <1>1, <3>1, BeginIs
    <3> HIDE DEF c
    <3>3. ClearedName(d, c, R, from, fn, to, tn, x)
      BY <1>1, <1>2, <1>4, <3>2 DEF ClearedName
    <3>4. Shifted(d, f.disk, R, from, fn, to, tn, x)
      <4>1. d = c.disk /\ c.ok /\ f.ok
        BY <1>9, <3>2
      <4> QED
        BY <1>5, <1>7, <1>8, <3>3, <4>1, MoveShifts
    <3> QED
      BY <2>2, <3>4 DEF Renames
  <2>3. CASE t # 0
    <3>1. c = unlink(d, to, tn)
      BY <2>3 DEF Cleared
    <3> HIDE DEF c
    <3>2. c.ok
      BY <1>1, <1>2, <1>5, <1>9, <2>1, MovedFails
    <3> DEFINE m == c.disk
               P == R \ {t}
               C == B \ {t}
    <3>3. Left(d, m, R, to, t, tn)
      BY <1>2, <2>3, <3>1, <3>2, UnlinkLeaves
    <3>4. Whole(m, P, {})
      BY <3>3 DEF Left
    <3>5. P = Live(m) /\ Sane(m, P) /\ Unique(m, P, {})
      BY <3>4 DEF Whole
    <3>6. from \in Q /\ to \in Q /\ Sane(m, Q) /\ Lookup(m, from, fn) = x
      BY <1>4, <3>2 DEF ClearedName
    <3>7. \A j \in Q : j \in Live(m)
      BY <3>6 DEF Sane, InUse, Live
    <3> HIDE DEF P
    <3>8. from \in P /\ to \in P
      BY <3>5, <3>6, <3>7
    <3>9. ClearedName(d, c, P, from, fn, to, tn, x)
      BY <1>4, <3>2, <3>5, <3>8 DEF ClearedName
    <3>10. x \in P
      <4>1. Lookup(m, from, fn) # 0 /\ Sane(m, P) /\ from \in P /\ fn \in Name
        BY <3>5, <3>6, <3>8
      <4> HIDE DEF m
      <4>2. Lookup(m, from, fn) \in P
        BY ONLY <4>1, NameIs DEF NameAt
      <4> QED
        BY <3>6, <4>2 DEF m
    <3> HIDE DEF C
    <3>11. C \subseteq P /\ Shut(m, C)
      BY <1>7, <3>3, ShutAfterwards DEF P, C
    <3>12. x \in C /\ to \notin C
      BY <1>7, <1>8, <3>10 DEF P, C
    <3>13. Shifted(m, f.disk, P, from, fn, to, tn, x)
      <4> HIDE DEF m
      <4>1. m = c.disk
        BY DEF m
      <4> QED
        BY <1>5, <1>9, <3>2, <3>4, <3>9, <3>11, <3>12, <4>1, MoveShifts
    <3> QED
      BY <2>3, <3>3, <3>13 DEF Renames, P
  <2> QED
    BY <2>2, <2>3
<1> QED
  BY <1>3, <1>9

-----------------------------------------------------------------------------
(* Mounting a whole tree *)

\* The first mount leaves the root with its two records.
LEMMA FirstIsWhole ==
    ASSUME NEW e, e = setup_filesystem(Formatted).disk
    PROVE  /\ Whole(e, {ROOT_INODE_NUM}, {})
           /\ Contents(e, ROOT_INODE_NUM) = {Rec(ROOT_INODE_NUM, "."), Rec(ROOT_INODE_NUM, "..")}
<1> DEFINE d == Formatted
           i == ROOT_INODE_NUM
           R == {i}
           c == NewRootCall(d)
           v == Virtual(c, i)
           a1 == add_directory_entry(c, i, ".")
           a2 == add_directory_entry(a1, i, "..")
<1>1. FirstRoot(d, v)
  BY FirstRootIs
<1>2. RootDir(d) = Save(a2, i) /\ RootDir(d).ok /\ e = RootDir(d).disk
  BY FormattedMounts DEF RootDir
<1> HIDE DEF d
<1>3. /\ d \in Disk /\ i \in Inum /\ Sane(v, R) /\ Unique(v, R, {}) /\ v.free = Block
      /\ v.inode[i] = c.node /\ c.node = NewRoot(Unused)
      /\ \A j \in Inum \ {i} : v.inode[j] = Unused
  BY <1>1 DEF FirstRoot
<1>4. c \in Call /\ c.node.i_allocated /\ c.node.i_blocks = << >> /\ c.node.i_mode = "dir"
  BY <1>3, NewRootIs
<1>5. c.node.i_child_num = 0 /\ c.node.i_links_count = 1
  <2>1. c.node.i_child_num = 0 /\ c.node.i_links_count = Incremented(0)
    BY <1>3 DEF NewRoot, Unused
  <2> QED
    BY <2>1, CountsUp, TreeAssumption
<1> HIDE DEF c, v, i
<1>6. i = ROOT_INODE_NUM
  BY DEF i
<1>7. Whole(v, R, {i})
  <2>1. R = Live(v)
    BY <1>3, <1>4 DEF Live, Unused
  <2>2. Kinds(v, R)
    BY <1>3, <1>4, <1>5, <1>6 DEF Kinds
  <2>3. NoneLost(v, R) /\ Connected(v, R)
    BY <1>3, <1>6 DEF NoneLost, Connected
  <2> QED
    BY <1>3, <2>1, <2>2, <2>3 DEF Whole
<1>8. a2 \in Call
  <2>1. ~ Has(c.disk, c.node, ".") /\ ~ Has(c.disk, c.node, "..")
    BY <1>4 DEF Has, Range
  <2>2. "." \in AnyName /\ "." \notin Name /\ ".." \in AnyName /\ ".." \notin Name /\ "." # ".."
    BY RecordAssumption DEF AnyName
  <2>3. Added(c, a1, i, R, i, ".")
    BY <1>3, <1>4, <2>1, <2>2, EntryAdded DEF v
  <2> HIDE DEF a1
  <2>4. a1 \in Call
    BY <2>3 DEF Added
  <2>5. CASE ~ a1.ok
    BY <2>4, <2>5, AddFails
  <2>6. CASE a1.ok
    <3>1. Sane(Virtual(a1, i), R) /\ ~ Has(a1.disk, a1.node, "..")
      BY <2>1, <2>2, <2>3, <2>6 DEF Added
    <3>2. Added(a1, a2, i, R, i, "..")
      BY <1>3, <2>2, <2>4, <3>1, EntryAdded
    <3> QED
      BY <3>2 DEF Added
  <2> QED
    BY <2>5, <2>6
<1>9. a2.ok /\ e = Virtual(a2, i)
  <2> HIDE DEF a2
  <2> QED
    BY <1>2, <1>3, <1>8, SaveIs
<1>10. Completed(v, e, R, i, i)
  <2> HIDE DEF a1, a2
  <2>1. a1 = add_directory_entry(c, i, ".") /\ a2 = add_directory_entry(a1, i, "..") /\ i \in R
    BY DEF a1, a2
  <2>2. v = Virtual(c, i)
    BY DEF v
  <2> HIDE DEF R
  <2>3. Completed(v, Virtual(a2, i), R, i, i)
    BY ONLY <1>3, <1>4, <1>5, <1>7, <1>9, <2>1, <2>2, DotsComplete
  <2> QED
    BY <1>9, <2>3
<1> QED
  BY <1>10 DEF Completed, i

\* Later mounts find the root and write nothing.
LEMMA MountKeeps ==
    ASSUME NEW d, NEW R, Whole(d, R, {})
    PROVE  setup_filesystem(d) = Begin(d) /\ setup_filesystem(d).disk = d
<1> DEFINE root == d.inode[ROOT_INODE_NUM]
<1>1. /\ Sane(d, R) /\ Unique(d, R, {}) /\ ROOT_INODE_NUM \in R /\ root.i_mode = "dir"
      /\ d \in Disk /\ root.i_allocated
  BY DEF Whole, Sane, Kinds, InUse
<1>2. Counts(d, ROOT_INODE_NUM)
  BY <1>1 DEF Whole
<1>3. root.i_child_num >= 2
  BY <1>1, <1>2, CountBound
<1>4. setup_filesystem(d) = Begin(d)
  BY <1>1, <1>3 DEF setup_filesystem
<1> QED
  BY <1>1, <1>4, BeginIs

-----------------------------------------------------------------------------
(* Where the dots lead *)

\* A directory leads to itself and to the one that holds it.
Dotted(d, R) ==
    \A i \in R : \A r \in Contents(d, i) :
        r.name \in Name /\ d.inode[r.inum].i_mode = "dir" =>
            Rec(r.inum, ".") \in Contents(d, r.inum) /\ Rec(i, "..") \in Contents(d, r.inum)

\* The dots are no names that callers give.
LEMMA DotsAreNoNames ==
    ASSUME NEW i, NEW x, NEW n \in Name
    PROVE  Rec(i, ".") # Rec(x, n) /\ Rec(i, "..") # Rec(x, n)
<1>1. "." \notin Name /\ ".." \notin Name
  BY RecordAssumption
<1>2. Rec(i, ".").name = "." /\ Rec(i, "..").name = ".." /\ Rec(x, n).name = n
  BY DEF Rec
<1> QED
  BY <1>1, <1>2

LEMMA EnteredDotted ==
    ASSUME NEW d, NEW R, Whole(d, R, {}), Dotted(d, R), NEW dir \in R, NEW n \in Name, NEW i,
           NEW mode \in {"dir", "file"}, NEW e, Entered(d, e, R, dir, i, n, mode)
    PROVE  Dotted(e, R \cup {i})
<1> SUFFICES ASSUME NEW j \in R \cup {i}, NEW r \in Contents(e, j), r.name \in Name,
                    e.inode[r.inum].i_mode = "dir"
             PROVE  Rec(r.inum, ".") \in Contents(e, r.inum) /\ Rec(j, "..") \in Contents(e, r.inum)
  BY DEF Dotted
<1>1. i \notin R /\ Rec(i, n).inum = i
  BY DEF Entered, Rec
<1>2. CASE j = i
  <2>1. r \in {Rec(i, "."), Rec(dir, "..")}
    BY <1>2 DEF Entered
  <2>2. r.name \in {".", ".."}
    BY <2>1 DEF Rec
  <2> QED
    BY <2>2, RecordAssumption
<1>3. CASE j \in R /\ r \in Contents(d, j)
  <2>1. r.inum \in R
    <3>1. Sane(d, R)
      BY DEF Whole
    <3> QED
      BY <1>3, <3>1, ContentsOrdered DEF Ordered
  <2>2. d.inode[r.inum].i_mode = "dir"
    BY <2>1 DEF Entered
  <2>3. Contents(d, r.inum) \subseteq Contents(e, r.inum)
    BY <2>1 DEF Entered
  <2> QED
    BY <1>3, <2>2, <2>3 DEF Dotted
<1>4. CASE j \in R /\ r \notin Contents(d, j)
  <2>1. j = dir /\ r = Rec(i, n)
    BY <1>4 DEF Entered
  <2>2. mode = "dir" /\ r.inum = i
    BY <1>1, <2>1 DEF Entered
  <2> QED
    BY <2>1, <2>2 DEF Entered
<1> QED
  BY <1>2, <1>3, <1>4

LEMMA LeftDotted ==
    ASSUME NEW d, NEW R, Dotted(d, R), NEW dir, NEW n \in Name, NEW i,
           NEW e, Left(d, e, R, dir, i, n)
    PROVE  Dotted(e, R \ {i})
<1> SUFFICES ASSUME NEW j \in R \ {i}, NEW r \in Contents(e, j), r.name \in Name,
                    e.inode[r.inum].i_mode = "dir"
             PROVE  Rec(r.inum, ".") \in Contents(e, r.inum) /\ Rec(j, "..") \in Contents(e, r.inum)
  BY DEF Dotted
<1>1. r \in Contents(d, j)
  BY DEF Left
<1>2. r.inum \in R \ {i}
  <2>1. Sane(e, R \ {i})
    BY DEF Left, Whole
  <2> QED
    BY <2>1, ContentsOrdered DEF Ordered
<1>3. d.inode[r.inum].i_mode = "dir"
  BY <1>2 DEF Left
<1>4. Rec(r.inum, ".") \in Contents(d, r.inum) /\ Rec(j, "..") \in Contents(d, r.inum)
  BY <1>1, <1>3 DEF Dotted
<1>5. Contents(d, r.inum) \ {Rec(i, n)} \subseteq Contents(e, r.inum)
  BY <1>2 DEF Left
<1> QED
  BY <1>4, <1>5, DotsAreNoNames

\* A directory that gets another name in the same directory keeps its dots right.
LEMMA ShiftedDotted ==
    ASSUME NEW d, NEW R, Dotted(d, R), NEW from, NEW to, NEW fn \in Name, NEW tn \in Name, NEW x,
           from = to \/ d.inode[x].i_mode # "dir",
           NEW e, Shifted(d, e, R, from, fn, to, tn, x)
    PROVE  Dotted(e, R)
<1> SUFFICES ASSUME NEW j \in R, NEW r \in Contents(e, j), r.name \in Name,
                    e.inode[r.inum].i_mode = "dir"
             PROVE  Rec(r.inum, ".") \in Contents(e, r.inum) /\ Rec(j, "..") \in Contents(e, r.inum)
  BY DEF Dotted
<1>1. r.inum \in R
  <2>1. Sane(e, R)
    BY DEF Shifted, Whole
  <2> QED
    BY <2>1, ContentsOrdered DEF Ordered
<1>2. d.inode[r.inum].i_mode = "dir"
  BY <1>1 DEF Shifted
<1>3. Rec(r.inum, ".") \in Contents(d, r.inum) /\ Rec(j, "..") \in Contents(d, r.inum)
  <2>1. CASE r \in Contents(d, j)
    BY <1>2, <2>1 DEF Dotted
  <2>2. CASE r \notin Contents(d, j)
    <3>1. j = to /\ r = Rec(x, tn)
      BY <2>2 DEF Shifted
    <3>2. r.inum = x /\ Rec(x, fn).inum = x /\ Rec(x, fn).name = fn
      BY <3>1 DEF Rec
    <3>3. j = from
      BY <1>2, <3>1, <3>2
    <3>4. Rec(x, fn) \in Contents(d, j)
      BY <3>3 DEF Shifted
    <3> QED
      BY <1>2, <3>2, <3>4 DEF Dotted
  <2> QED
    BY <2>1, <2>2
<1>4. \A y \in Contents(d, r.inum) : y # Rec(x, fn) => y \in Contents(e, r.inum)
  BY <1>1 DEF Shifted
<1> QED
  BY <1>3, <1>4, DotsAreNoNames

-----------------------------------------------------------------------------
(* The steps of a whole tree *)

\* A file or a directory has come.
Comes(d, e, R) ==
    \E dir \in R, n \in Name, i \in Inum, mode \in {"dir", "file"} :
        /\ d.inode[dir].i_mode = "dir" /\ Lookup(d, dir, n) = 0
        /\ Entered(d, e, R, dir, i, n, mode)

\* One has gone.
Goes(d, e, R) ==
    \E dir \in R, n \in Name, i \in Inum : Left(d, e, R, dir, i, n)

\* One has another name; still is TRUE if no directory has another parent.
Moving(d, e, R, still) ==
    \E from, to \in R, fn, tn \in Name, x \in Inum :
        /\ d.inode[to].i_mode = "dir" /\ <<from, fn>> # <<to, tn>>
        /\ still => from = to \/ d.inode[x].i_mode # "dir"
        /\ Renames(d, e, R, from, fn, to, tn, x, Lookup(d, to, tn))

TreeStep(d, e, R, still) == d = e \/ Comes(d, e, R) \/ Goes(d, e, R) \/ Moving(d, e, R, still)

\* What the calls can create in.
LEMMA DirsAre ==
    ASSUME NEW d, NEW R, Whole(d, R, {}), NEW dir \in Dirs(d)
    PROVE  dir \in R /\ dir \in Inum /\ d.inode[dir].i_mode = "dir"
BY AllReached DEF Whole, Sane

\* Crashes and what is recorded of the past are never forgotten.
LEMMA OnlyGrow ==
    ASSUME IInv, Next
    PROVE  (crashes' = 0 => crashes = 0) /\ history \subseteq history'
<1>1. crashes \in Nat
  <2>1. crashes \in 0..MaxCrashes
    BY DEF IInv
  <2> QED
    BY <2>1, TreeAssumption
<1> DEFINE Grown == (crashes' = crashes \/ crashes' = crashes + 1) /\ history \subseteq history'
           Acts(dir, n) ==
               \/ altfs_mknod(dir, n) \/ altfs_mkdir(dir, n) \/ altfs_unlink(dir, n)
               \/ CrashInCreate(dir, n) \/ CrashInUnlink(dir, n)
           Shifts(from, fn, to, tn) == altfs_rename(from, fn, to, tn) \/ CrashInRename(from, fn, to, tn)
<1>2. ASSUME NEW call, CrashIn(call) PROVE crashes' = crashes + 1
  BY <1>2 DEF CrashIn
<1>3. ASSUME Remount PROVE Grown
  BY <1>3 DEF Remount
<1>4. ASSUME NEW dir, NEW n, Acts(dir, n) PROVE Grown
  <2>1. ASSUME altfs_mknod(dir, n) \/ altfs_unlink(dir, n) PROVE Grown
    BY <2>1 DEF altfs_mknod, altfs_unlink
  <2>2. ASSUME altfs_mkdir(dir, n) PROVE Grown
    <3>1. UNCHANGED crashes /\ (history' = history \/ history' = history \cup {"half made"})
      BY <2>2 DEF altfs_mkdir
    <3> QED
      BY <3>1
  <2>3. ASSUME CrashInCreate(dir, n) \/ CrashInUnlink(dir, n) PROVE Grown
    BY <1>2, <2>3 DEF CrashInCreate, CrashInUnlink
  <2> HIDE DEF Grown
  <2> QED
    BY <1>4, <2>1, <2>2, <2>3
<1>5. ASSUME NEW from, NEW fn, NEW to, NEW tn, Shifts(from, fn, to, tn) PROVE Grown
  <2>1. ASSUME altfs_rename(from, fn, to, tn) PROVE Grown
    <3>1. UNCHANGED crashes /\ (history' = history \/ history' = history \cup {"moved"})
      BY <2>1 DEF altfs_rename
    <3> QED
      BY <3>1
  <2>2. ASSUME CrashInRename(from, fn, to, tn) PROVE Grown
    BY <1>2, <2>2 DEF CrashInRename
  <2> HIDE DEF Grown
  <2> QED
    BY <1>5, <2>1, <2>2
<1>6. Remount \/ \E dir, n : Acts(dir, n) \/ \E to, tn : Shifts(dir, n, to, tn)
  BY DEF Next
<1> HIDE DEF Acts, Shifts, Grown
<1>7. Grown
  BY <1>3, <1>4, <1>5, <1>6
<1> QED
  BY <1>1, <1>7 DEF Grown

\* Until a crash or a mkdir that runs out of space, the calls do nothing else.
LEMMA NextIsTreeStep ==
    ASSUME IInv, Next, crashes' = 0, history' \subseteq {"moved"}, NEW R, Whole(disk, R, {})
    PROVE  TreeStep(disk, disk', R, "moved" \notin history')
<1> DEFINE still == "moved" \notin history'
           Goal == TreeStep(disk, disk', R, still)
<1> HIDE DEF Goal, still
<1>1. ASSUME NEW call PROVE ~ CrashIn(call)
  <2>1. crashes \in 0..MaxCrashes
    BY DEF IInv
  <2>2. crashes + 1 # 0
    BY <2>1, TreeAssumption
  <2> QED
    BY <2>2 DEF CrashIn
<1>2. ASSUME Remount PROVE Goal
  <2>1. disk' = disk
    BY <1>2, MountKeeps DEF Remount
  <2> QED
    BY <2>1 DEF Goal, TreeStep
<1>3. ASSUME NEW dir \in Dirs(disk), NEW n \in Name, Creatable(dir, n)
      PROVE  /\ CanCreate(disk, R, dir, n) /\ dir \in R /\ disk.inode[dir].i_mode = "dir"
             /\ Lookup(disk, dir, n) = 0
  BY <1>3, DirsAre DEF Creatable, CanCreate
<1>4. ASSUME NEW dir \in R, NEW n \in Name, disk.inode[dir].i_mode = "dir", Lookup(disk, dir, n) = 0,
             NEW i, NEW mode \in {"dir", "file"}, Entered(disk, disk', R, dir, i, n, mode)
      PROVE  TreeStep(disk, disk', R, still)
  <2>1. i \in Inum
    BY <1>4 DEF Entered
  <2>2. Comes(disk, disk', R)
    BY <1>4, <2>1 DEF Comes
  <2> QED
    BY <2>2 DEF TreeStep
<1>5. ASSUME NEW dir \in Dirs(disk), NEW n \in Name, altfs_mknod(dir, n) PROVE Goal
  <2> DEFINE c == create_new_file(disk, dir, n, "file")
  <2>1. Creatable(dir, n) /\ disk' = c.disk
    BY <1>5 DEF altfs_mknod
  <2>2. /\ c.ok => Entered(disk, c.disk, R, dir, NextInode(disk), n, "file")
        /\ ~ c.ok => c.disk = disk
    BY <1>3, <2>1, MknodEnters
  <2> HIDE DEF c
  <2>3. CASE c.ok
    <3>1. Entered(disk, disk', R, dir, NextInode(disk), n, "file")
      BY <2>1, <2>2, <2>3
    <3>2. TreeStep(disk, disk', R, still)
      BY <1>3, <1>4, <2>1, <3>1
    <3> QED
      BY <3>2 DEF Goal
  <2>4. CASE ~ c.ok
    BY <2>1, <2>2, <2>4 DEF Goal, TreeStep
  <2> QED
    BY <2>3, <2>4
<1>6. ASSUME NEW dir \in Dirs(disk), NEW n \in Name, altfs_mkdir(dir, n) PROVE Goal
  <2> DEFINE c == mkdir(disk, dir, n)
  <2>1. /\ Creatable(dir, n) /\ disk' = c.disk
        /\ history' = IF c.ok \/ Lookup(disk', dir, n) = 0 THEN history ELSE history \cup {"half made"}
    BY <1>6 DEF altfs_mkdir
  <2>2. /\ c.ok => Entered(disk, c.disk, R, dir, NextInode(disk), n, "dir")
        /\ ~ c.ok => c.disk = disk \/ Lookup(c.disk, dir, n) # 0
    <3>1. CanCreate(disk, R, dir, n)
      BY <1>3, <2>1
    <3>2. c = mkdir(disk, dir, n)
      OBVIOUS
    <3> HIDE DEF c
    <3> QED
      BY ONLY <3>1, <3>2, MkdirEnters
  <2> HIDE DEF c
  <2>3. CASE c.ok
    <3>1. Entered(disk, disk', R, dir, NextInode(disk), n, "dir")
      BY <2>1, <2>2, <2>3
    <3>2. TreeStep(disk, disk', R, still)
      BY <1>3, <1>4, <2>1, <3>1
    <3> QED
      BY <3>2 DEF Goal
  <2>4. CASE ~ c.ok
    <3>1. Lookup(disk', dir, n) = 0
      BY <2>1, <2>4
    <3>2. disk' = disk
      BY <2>1, <2>2, <2>4, <3>1
    <3> QED
      BY <3>2 DEF Goal, TreeStep
  <2> QED
    BY <2>3, <2>4
<1>7. ASSUME NEW dir \in Dirs(disk), NEW n \in Name, altfs_unlink(dir, n) PROVE Goal
  <2> DEFINE u == unlink(disk, dir, n)
             i == Lookup(disk, dir, n)
  <2>1. i # 0 /\ disk' = u.disk
    BY <1>7 DEF altfs_unlink
  <2>2. dir \in R
    BY <1>7, DirsAre
  <2>3. (u.ok => Left(disk, u.disk, R, dir, i, n)) /\ (~ u.ok => u.disk = disk)
    BY <2>1, <2>2, UnlinkLeaves
  <2> HIDE DEF u, i
  <2>4. CASE u.ok
    <3>1. Left(disk, disk', R, dir, i, n)
      BY <2>1, <2>3, <2>4
    <3>2. i \in Inum
      BY <3>1 DEF Left, Whole, Sane
    <3>3. Goes(disk, disk', R)
      BY <2>2, <3>1, <3>2 DEF Goes
    <3> QED
      BY <3>3 DEF Goal, TreeStep
  <2>5. CASE ~ u.ok
    BY <2>1, <2>3, <2>5 DEF Goal, TreeStep
  <2> QED
    BY <2>4, <2>5
<1>8. ASSUME NEW from \in Dirs(disk), NEW fn \in Name, NEW to \in Dirs(disk), NEW tn \in Name,
             altfs_rename(from, fn, to, tn)
      PROVE  Goal
  <2> DEFINE f == rename(disk, from, fn, to, tn)
             x == Lookup(disk, from, fn)
             t == Lookup(disk, to, tn)
             moved == from # to /\ disk.inode[x].i_mode = "dir"
  <2>1. /\ Renamable(from, fn, to, tn) /\ disk' = f.disk
        /\ history' = IF f.ok /\ moved THEN history \cup {"moved"} ELSE history
    BY <1>8 DEF altfs_rename
  <2>2. /\ <<from, fn>> # <<to, tn>> /\ x # 0 /\ to \notin Below(disk, x)
        /\ t # 0 => from \notin Below(disk, t)
    BY <2>1 DEF Renamable
  <2>3. from \in R /\ to \in R /\ disk.inode[to].i_mode = "dir"
    BY <1>8, DirsAre
  <2>4. (f.ok => Renames(disk, f.disk, R, from, fn, to, tn, x, t)) /\ (~ f.ok => f.disk = disk)
    BY <2>2, RenameShifts
  <2>5. x \in Inum
    BY <2>2, <2>3, NameIs DEF NameAt, Whole, Sane
  <2>6. f.ok /\ still => from = to \/ disk.inode[x].i_mode # "dir"
    BY <2>1 DEF still
  <2> HIDE DEF f, x
  <2>7. CASE f.ok
    <3>1. Renames(disk, disk', R, from, fn, to, tn, x, Lookup(disk, to, tn))
      BY <2>1, <2>4, <2>7
    <3>2. Moving(disk, disk', R, still)
      BY <2>2, <2>3, <2>5, <2>6, <2>7, <3>1 DEF Moving
    <3> QED
      BY <3>2 DEF Goal, TreeStep
  <2>8. CASE ~ f.ok
    BY <2>1, <2>4, <2>8 DEF Goal, TreeStep
  <2> QED
    BY <2>7, <2>8
<1>9. ASSUME NEW dir \in Dirs(disk), NEW n \in Name, CrashInCreate(dir, n) \/ CrashInUnlink(dir, n)
      PROVE  Goal
  BY <1>1, <1>9 DEF CrashInCreate, CrashInUnlink
<1>10. ASSUME NEW from \in Dirs(disk), NEW fn \in Name, NEW to \in Dirs(disk), NEW tn \in Name,
              CrashInRename(from, fn, to, tn)
       PROVE  Goal
  BY <1>1, <1>10 DEF CrashInRename
<1>11. Goal
  <2> DEFINE Acts(dir, n) ==
                 \/ altfs_mknod(dir, n) \/ altfs_mkdir(dir, n) \/ altfs_unlink(dir, n)
                 \/ CrashInCreate(dir, n) \/ CrashInUnlink(dir, n)
                 \/ \E to \in Dirs(disk), tn \in Name :
                       altfs_rename(dir, n, to, tn) \/ CrashInRename(dir, n, to, tn)
  <2>1. Remount \/ \E dir \in Dirs(disk), n \in Name : Acts(dir, n)
    BY DEF Next
  <2>2. ASSUME NEW dir \in Dirs(disk), NEW n \in Name, Acts(dir, n) PROVE Goal
    BY <1>5, <1>6, <1>7, <1>8, <1>9, <1>10, <2>2
  <2> HIDE DEF Acts
  <2> QED
    BY <1>2, <2>1, <2>2
<1> QED
  BY <1>11 DEF Goal, still

\* They keep the tree whole, and the dots right if no directory moves.
LEMMA StepIsWhole ==
    ASSUME NEW d, NEW R, Whole(d, R, {}), NEW still \in BOOLEAN, NEW e, TreeStep(d, e, R, still)
    PROVE  \E Q : Whole(e, Q, {}) /\ (still /\ Dotted(d, R) => Dotted(e, Q))
<1>1. CASE d = e
  BY <1>1
<1>2. CASE Comes(d, e, R)
  <2>1. PICK dir \in R, n \in Name, i \in Inum, mode \in {"dir", "file"} :
            Entered(d, e, R, dir, i, n, mode)
    BY <1>2 DEF Comes
  <2>2. Whole(e, R \cup {i}, {})
    BY <2>1 DEF Entered
  <2>3. Dotted(d, R) => Dotted(e, R \cup {i})
    BY <2>1, EnteredDotted
  <2> QED
    BY <2>2, <2>3
<1>3. CASE Goes(d, e, R)
  <2>1. PICK dir \in R, n \in Name, i \in Inum : Left(d, e, R, dir, i, n)
    BY <1>3 DEF Goes
  <2>2. Whole(e, R \ {i}, {})
    BY <2>1 DEF Left
  <2>3. Dotted(d, R) => Dotted(e, R \ {i})
    BY <2>1, LeftDotted
  <2> QED
    BY <2>2, <2>3
<1>4. CASE Moving(d, e, R, still)
  <2>1. PICK from \in R, to \in R, fn \in Name, tn \in Name, x \in Inum :
            /\ still => from = to \/ d.inode[x].i_mode # "dir"
            /\ Renames(d, e, R, from, fn, to, tn, x, Lookup(d, to, tn))
    BY <1>4 DEF Moving
  <2> DEFINE t == Lookup(d, to, tn)
  <2>2. CASE t = 0
    <3>1. Shifted(d, e, R, from, fn, to, tn, x)
      BY <2>1, <2>2 DEF Renames
    <3>2. Whole(e, R, {})
      BY <3>1 DEF Shifted
    <3>3. still /\ Dotted(d, R) => Dotted(e, R)
      BY <2>1, <3>1, ShiftedDotted
    <3> QED
      BY <3>2, <3>3
  <2>3. CASE t # 0
    <3> DEFINE P == R \ {t}
    <3>1. PICK m : Left(d, m, R, to, t, tn) /\ Shifted(m, e, P, from, fn, to, tn, x)
      BY <2>1, <2>3 DEF Renames
    <3> HIDE DEF t
    <3>2. Whole(e, P, {})
      BY <3>1 DEF Shifted
    <3>3. still /\ Dotted(d, R) => Dotted(m, P)
      BY <3>1, LeftDotted
    <3>4. m.inode[x].i_mode = d.inode[x].i_mode
      <4>1. Rec(x, fn) \in Contents(m, from) /\ from \in P /\ Sane(m, P)
        BY <3>1 DEF Shifted, Left, Whole
      <4>2. Rec(x, fn).inum = x /\ Rec(x, fn).name = fn
        BY DEF Rec
      <4>3. x \in P
        BY <4>1, <4>2, ContentsOrdered DEF Ordered
      <4> QED
        BY <3>1, <4>3 DEF Left
    <3> HIDE DEF P
    <3>5. still /\ Dotted(d, R) => Dotted(e, P)
      BY <2>1, <3>1, <3>3, <3>4, ShiftedDotted
    <3> QED
      BY <3>2, <3>5
  <2> QED
    BY <2>2, <2>3
<1> QED
  BY <1>1, <1>2, <1>3, <1>4 DEF TreeStep

-----------------------------------------------------------------------------
(* Nothing is lost *)

\* The tree is whole until a crash, or a mkdir that runs out of space; the dots are
\* right until a directory moves as well.  Unlike IInv this names the inodes in use:
\* that they are the ones that can be reached is a claim about paths, and Connected
\* is the form of it that every call preserves.
WInv ==
    /\ crashes = 0 /\ history \subseteq {"moved"} => Whole(disk, Live(disk), {})
    /\ crashes = 0 /\ history = {} => Dotted(disk, Live(disk))

\* The records of a directory are its names.
LEMMA RecordsAre ==
    ASSUME NEW R, Sane(disk, R), NEW dir \in R
    PROVE  Records(dir) = Named(disk, dir)
<1>1. ASSUME NEW r \in Records(dir) PROVE r \in Named(disk, dir)
  <2>1. PICK b \in OwnedBy(disk, dir) : \E k \in DOMAIN disk.block[b] :
            disk.block[b][k] = r /\ r.name \in Name
    BY <1>1, RecordIsIn
  <2> QED
    BY <2>1, ContentsOrdered DEF Ordered, Named
<1>2. ASSUME NEW r \in Named(disk, dir) PROVE r \in Records(dir)
  <2> DEFINE blocks == BlocksOf(disk, disk.inode[dir])
  <2>1. PICK b \in OwnedBy(disk, dir) : \E k \in DOMAIN disk.block[b] : disk.block[b][k] = r
    BY <1>2 DEF Named, Contents
  <2>2. PICK l \in DOMAIN disk.inode[dir].i_blocks : disk.inode[dir].i_blocks[l] = b
    BY <2>1 DEF OwnedBy, Range
  <2>3. disk \in Disk /\ disk.inode[dir] \in Inode
    BY SaneTypes DEF Sane
  <2>4. l \in DOMAIN blocks /\ blocks[l] = disk.block[b]
    BY <2>2, <2>3, BlocksOfType
  <2> HIDE DEF blocks
  <2>5. disk.block[b] \in Range(blocks)
    BY <2>4 DEF Range
  <2>6. r \in Range(disk.block[b])
    BY <2>1 DEF Range
  <2>7. r.name \in Name
    BY <1>2 DEF Named
  <2> QED
    BY <2>5, <2>6, <2>7 DEF Records, blocks
<1> QED
  BY <1>1, <1>2

\* In a whole tree nothing is stranded.
LEMMA WholeMeans ==
    ASSUME NEW R, Whole(disk, R, {})
    PROVE  /\ Reached = {i \in Inum : disk.inode[i].i_allocated}
           /\ Block = disk.free \cup UNION {Range(disk.inode[i].i_blocks) : i \in Reached}
           /\ \A dir \in Dirs(disk) :
                 disk.inode[dir].i_child_num = Cardinality(Records(dir)) + 2
<1>1. /\ R = Live(disk) /\ Sane(disk, R) /\ NoneLost(disk, R)
      /\ \A i \in R : disk.inode[i].i_mode = "dir" => Counts(disk, i)
  BY DEF Whole
<1>2. Reached = R
  BY AllReached DEF Reached
<1>3. Block = disk.free \cup UNION {Range(disk.inode[i].i_blocks) : i \in R}
  <2>1. disk.free \subseteq Block
    BY <1>1 DEF Sane, Disk
  <2>2. \A i \in R : Range(disk.inode[i].i_blocks) \subseteq Block
    BY <1>1, SaneTypes DEF OwnedBy
  <2>3. \A b \in Block : b \in disk.free \/ \E i \in R : b \in Range(disk.inode[i].i_blocks)
    BY <1>1 DEF NoneLost, OwnedBy
  <2> QED
    BY <2>1, <2>2, <2>3
<1>4. ASSUME NEW dir \in Dirs(disk)
      PROVE  disk.inode[dir].i_child_num = Cardinality(Records(dir)) + 2
  <2>1. dir \in R /\ disk.inode[dir].i_mode = "dir"
    BY <1>4, DirsAre
  <2>2. disk.inode[dir].i_child_num = Cardinality(Named(disk, dir)) + 2
    BY <1>1, <2>1, TwoMore
  <2> QED
    BY <1>1, <2>1, <2>2, RecordsAre
<1> QED
  BY <1>1, <1>2, <1>3, <1>4 DEF Live

\* The invariant implies what the run checks.
LEMMA WInvMeans == WInv => NothingStranded /\ DotsLeadUp
<1> SUFFICES ASSUME WInv PROVE NothingStranded /\ DotsLeadUp
  OBVIOUS
<1>1. NothingStranded
  <2> SUFFICES ASSUME crashes = 0, history \subseteq {"moved"}
               PROVE  /\ Reached = {i \in Inum : disk.inode[i].i_allocated}
                      /\ Block = disk.free \cup UNION {Range(disk.inode[i].i_blocks) : i \in Reached}
                      /\ \A dir \in Dirs(disk) :
                            disk.inode[dir].i_child_num = Cardinality(Records(dir)) + 2
    BY Zenon DEF NothingStranded
  <2>1. Whole(disk, Live(disk), {})
    BY DEF WInv
  <2> QED
    BY <2>1, WholeMeans
<1>2. DotsLeadUp
  <2> SUFFICES ASSUME crashes = 0, history = {}, NEW dir \in Dirs(disk), NEW n \in Name,
                      NEW i, i = Lookup(disk, dir, n), i \in Dirs(disk)
               PROVE  Lookup(disk, i, ".") = i /\ Lookup(disk, i, "..") = dir
    BY Zenon DEF DotsLeadUp
  <2> DEFINE R == Live(disk)
  <2>1. Whole(disk, R, {}) /\ Dotted(disk, R)
    BY DEF WInv
  <2> HIDE DEF R
  <2>2. /\ dir \in R /\ i \in R /\ i \in Inum /\ disk.inode[i].i_mode = "dir" /\ Sane(disk, R)
    BY <2>1, DirsAre DEF Whole
  <2>3. i # 0
    BY <2>2, TreeAssumption DEF ROOT_INODE_NUM
  <2>4. Rec(i, n) \in Contents(disk, dir)
    BY <2>2, <2>3, LookupTells
  <2>5. Rec(i, n).inum = i /\ Rec(i, n).name = n /\ Rec(i, ".").inum = i /\ Rec(i, ".").name = "."
        /\ Rec(dir, "..").inum = dir /\ Rec(dir, "..").name = ".."
    BY DEF Rec
  <2>6. Rec(i, ".") \in Contents(disk, i) /\ Rec(dir, "..") \in Contents(disk, i)
    BY <2>1, <2>2, <2>4, <2>5 DEF Dotted
  <2> QED
    BY <2>2, <2>5, <2>6, LookupTells
<1> QED
  BY <1>1, <1>2

\* A whole disk is whole with respect to the inodes in use.
LEMMA WholeIsLive ==
    ASSUME NEW d, NEW Q, Whole(d, Q, {})
    PROVE  Q = Live(d)
BY DEF Whole

\* The first mount establishes it.
LEMMA InitWInv == Init => WInv
<1> SUFFICES ASSUME Init PROVE WInv
  OBVIOUS
<1> DEFINE R == {ROOT_INODE_NUM}
<1>1. /\ Whole(disk, R, {})
      /\ Contents(disk, ROOT_INODE_NUM) = {Rec(ROOT_INODE_NUM, "."), Rec(ROOT_INODE_NUM, "..")}
  BY FirstIsWhole DEF Init
<1>2. \A r \in Contents(disk, ROOT_INODE_NUM) : r.name \notin Name
  BY <1>1, RecordAssumption DEF Rec
<1>3. Dotted(disk, R)
  BY <1>2 DEF Dotted
<1>4. R = Live(disk)
  BY <1>1, WholeIsLive
<1> QED
  BY <1>1, <1>3, <1>4 DEF WInv

\* Every call keeps it; after a crash it says nothing.
LEMMA NextWInv == IInv /\ WInv /\ [Next]_vars => WInv'
<1> SUFFICES ASSUME IInv, WInv, [Next]_vars PROVE WInv'
  OBVIOUS
<1>1. CASE UNCHANGED vars
  BY <1>1 DEF WInv, vars
<1>2. CASE Next
  <2> SUFFICES ASSUME crashes' = 0, history' \subseteq {"moved"}
               PROVE  /\ Whole(disk', Live(disk'), {})
                      /\ history' = {} => Dotted(disk', Live(disk'))
    BY DEF WInv
  <2> DEFINE R == Live(disk)
             still == "moved" \notin history'
  <2>1. crashes = 0 /\ history \subseteq history'
    BY <1>2, OnlyGrow
  <2>2. Whole(disk, R, {})
    BY <2>1 DEF WInv
  <2>3. history' = {} => still /\ Dotted(disk, R)
    BY <2>1 DEF WInv
  <2> HIDE DEF R
  <2>4. TreeStep(disk, disk', R, still)
    BY <1>2, <2>2, NextIsTreeStep
  <2>5. still \in BOOLEAN
    OBVIOUS
  <2> HIDE DEF still
  <2>6. PICK Q : Whole(disk', Q, {}) /\ (still /\ Dotted(disk, R) => Dotted(disk', Q))
    BY <2>2, <2>4, <2>5, StepIsWhole
  <2>7. Q = Live(disk')
    BY <2>6, WholeIsLive
  <2> QED
    BY <2>3, <2>6, <2>7
<1> QED
  BY <1>1, <1>2

\* Without crashes, altfs_mknod, altfs_mkdir, altfs_unlink and altfs_rename keep the
\* inodes in use, the blocks and the counts of the directories in step.
THEOREM TreeStaysWhole == Spec => []WInv
BY TreeIsSound, InitWInv, NextWInv, PTL DEF Spec

\* Without crashes and without an altfs_mkdir that ran out of space, no inode and no
\* data block is lost, however names are created, removed and moved, and i_child_num
\* counts what is_empty_dir and setup_filesystem take it for.
THEOREM NothingIsStranded == Spec => []NothingStranded
BY TreeStaysWhole, WInvMeans, PTL

\* Until altfs_rename takes a directory to another one, which does not touch its
\* records, "." and ".." lead to the directory itself and to the one that holds it.
THEOREM DotsAlwaysLeadUp == Spec => []DotsLeadUp
BY TreeStaysWhole, WInvMeans, PTL

-----------------------------------------------------------------------------
(* The name space *)

Ent(j, n, x) == [dir |-> j, name |-> n, inum |-> x]

EntriesOf(d) ==
    {y \in {[dir |-> dir, name |-> n, inum |-> Lookup(d, dir, n)] : dir \in Dirs(d), n \in Name} :
        y.inum # 0}

\* E lists the names of all directories in R.
Lists(d, R, E) ==
    /\ \A y \in E : /\ y = Ent(y.dir, y.name, y.inum) /\ y.dir \in R /\ y.name \in Name
                    /\ Rec(y.inum, y.name) \in Contents(d, y.dir)
    /\ \A j \in R : \A n \in Name : \A x : Rec(x, n) \in Contents(d, j) => Ent(j, n, x) \in E

\* What lookups find is what the directories hold.
LEMMA EntriesAre ==
    ASSUME NEW d, NEW R, Whole(d, R, {})
    PROVE  Lists(d, R, EntriesOf(d))
<1>1. Sane(d, R) /\ Kinds(d, R)
  BY DEF Whole
<1>2. ASSUME NEW y \in EntriesOf(d)
      PROVE  /\ y = Ent(y.dir, y.name, y.inum) /\ y.dir \in R /\ y.name \in Name
             /\ Rec(y.inum, y.name) \in Contents(d, y.dir)
  <2>1. PICK dir \in Dirs(d), n \in Name :
            y = [dir |-> dir, name |-> n, inum |-> Lookup(d, dir, n)] /\ y.inum # 0
    BY <1>2 DEF EntriesOf
  <2>2. y.dir = dir /\ y.name = n /\ y.inum = Lookup(d, dir, n)
    BY <2>1
  <2>3. dir \in R
    BY DirsAre
  <2>4. Rec(Lookup(d, dir, n), n) \in Contents(d, dir)
    BY <1>1, <2>1, <2>2, <2>3, LookupTells
  <2> QED
    BY <2>1, <2>2, <2>3, <2>4 DEF Ent
<1>3. ASSUME NEW j \in R, NEW n \in Name, NEW x, Rec(x, n) \in Contents(d, j)
      PROVE  Ent(j, n, x) \in EntriesOf(d)
  <2>1. d.inode[j].i_mode = "dir"
    BY <1>1, <1>3, FileIsEmpty
  <2>2. j \in Dirs(d)
    BY <2>1, AllReached
  <2>3. Rec(x, n).name = n /\ Rec(x, n).inum = x
    BY DEF Rec
  <2>4. Lookup(d, j, n) = x /\ x # 0
    BY <1>1, <1>3, <2>1, <2>3, LookupTells
  <2> QED
    BY <2>2, <2>4 DEF EntriesOf, Ent
<1> QED
  BY <1>2, <1>3 DEF Lists

\* Records and entries are what they are made of.
LEMMA RecIs ==
    ASSUME NEW x, NEW n, NEW y, NEW m
    PROVE  Rec(x, n) = Rec(y, m) <=> x = y /\ n = m
BY DEF Rec

LEMMA EntIs ==
    ASSUME NEW j, NEW n, NEW x
    PROVE  Ent(j, n, x).dir = j /\ Ent(j, n, x).name = n /\ Ent(j, n, x).inum = x
BY DEF Ent

\* One entry more, and one directory more if it is one.
LEMMA EnteredNames ==
    ASSUME NEW d, NEW R, Whole(d, R, {}), NEW dir \in R, NEW n \in Name, NEW i,
           NEW mode \in {"dir", "file"}, NEW e, Entered(d, e, R, dir, i, n, mode)
    PROVE  /\ EntriesOf(e) = EntriesOf(d) \cup {Ent(dir, n, i)}
           /\ Dirs(e) \in {Dirs(d), Dirs(d) \cup {i}}
<1> DEFINE E == EntriesOf(d)
           F == EntriesOf(e)
<1>1. Lists(d, R, E)
  BY EntriesAre
<1>2. Whole(e, R \cup {i}, {})
  BY DEF Entered
<1>3. Lists(e, R \cup {i}, F)
  BY <1>2, EntriesAre
<1> HIDE DEF E, F
<1>4. "." \notin Name /\ ".." \notin Name
  BY RecordAssumption
<1>5. ASSUME NEW y \in F PROVE y \in E \/ y = Ent(dir, n, i)
  <2>1. /\ y = Ent(y.dir, y.name, y.inum) /\ y.dir \in R \cup {i} /\ y.name \in Name
        /\ Rec(y.inum, y.name) \in Contents(e, y.dir)
    BY <1>3, <1>5 DEF Lists
  <2>2. y.dir # i
    <3> SUFFICES ASSUME y.dir = i PROVE FALSE
      OBVIOUS
    <3>1. Rec(y.inum, y.name) \in {Rec(i, "."), Rec(dir, "..")}
      BY <2>1 DEF Entered
    <3> QED
      BY <1>4, <2>1, <3>1, RecIs
  <2>3. \/ Rec(y.inum, y.name) \in Contents(d, y.dir)
        \/ y.dir = dir /\ Rec(y.inum, y.name) = Rec(i, n)
    BY <2>1, <2>2 DEF Entered
  <2>4. CASE Rec(y.inum, y.name) \in Contents(d, y.dir)
    <3>1. Ent(y.dir, y.name, y.inum) \in E
      BY <1>1, <2>1, <2>2, <2>4 DEF Lists
    <3> QED
      BY <2>1, <3>1
  <2>5. CASE y.dir = dir /\ Rec(y.inum, y.name) = Rec(i, n)
    <3>1. y.inum = i /\ y.name = n
      BY <2>5, RecIs
    <3> QED
      BY <2>1, <2>5, <3>1
  <2> QED
    BY <2>3, <2>4, <2>5
<1>6. ASSUME NEW y \in E PROVE y \in F
  <2>1. /\ y = Ent(y.dir, y.name, y.inum) /\ y.dir \in R /\ y.name \in Name
        /\ Rec(y.inum, y.name) \in Contents(d, y.dir)
    BY <1>1, <1>6 DEF Lists
  <2>2. Rec(y.inum, y.name) \in Contents(e, y.dir)
    BY <2>1 DEF Entered
  <2>3. Ent(y.dir, y.name, y.inum) \in F
    BY <1>3, <2>1, <2>2 DEF Lists
  <2> QED
    BY <2>1, <2>3
<1>7. Ent(dir, n, i) \in F
  <2>1. Rec(i, n) \in Contents(e, dir)
    BY DEF Entered
  <2> QED
    BY <1>3, <2>1 DEF Lists
<1>8. F = E \cup {Ent(dir, n, i)}
  BY <1>5, <1>6, <1>7
<1>9. Dirs(e) = {j \in R \cup {i} : e.inode[j].i_mode = "dir"} /\ Dirs(d) = {j \in R : d.inode[j].i_mode = "dir"}
  BY <1>2, AllReached
<1>10. Dirs(e) \in {Dirs(d), Dirs(d) \cup {i}}
  <2>1. \A j \in R : e.inode[j].i_mode = d.inode[j].i_mode
    BY DEF Entered
  <2>2. CASE e.inode[i].i_mode = "dir"
    <3>1. Dirs(e) = Dirs(d) \cup {i}
      BY <1>9, <2>1, <2>2
    <3> QED
      BY <3>1
  <2>3. CASE e.inode[i].i_mode # "dir"
    <3>1. Dirs(e) = Dirs(d)
      BY <1>9, <2>1, <2>3
    <3> QED
      BY <3>1
  <2> QED
    BY <2>2, <2>3
<1> QED
  BY <1>8, <1>10 DEF E, F

\* One entry less, and one directory less if it was one.
LEMMA LeftNames ==
    ASSUME NEW d, NEW R, Whole(d, R, {}), NEW dir \in R, NEW n \in Name, NEW i,
           NEW e, Left(d, e, R, dir, i, n)
    PROVE  /\ EntriesOf(e) = EntriesOf(d) \ {Ent(dir, n, i)}
           /\ Ent(dir, n, i) \in EntriesOf(d)
           /\ \A y \in EntriesOf(d) : y.dir # i
           /\ Dirs(e) = Dirs(d) \ {i}
<1> DEFINE E == EntriesOf(d)
           F == EntriesOf(e)
           P == R \ {i}
<1>1. Lists(d, R, E)
  BY EntriesAre
<1>2. Whole(e, P, {})
  BY DEF Left
<1>3. Lists(e, P, F)
  BY <1>2, EntriesAre
<1> HIDE DEF E, F
<1>4. ASSUME NEW y \in F PROVE y \in E /\ y # Ent(dir, n, i)
  <2>1. /\ y = Ent(y.dir, y.name, y.inum) /\ y.dir \in P /\ y.name \in Name
        /\ Rec(y.inum, y.name) \in Contents(e, y.dir)
    BY <1>3, <1>4 DEF Lists
  <2>2. Rec(y.inum, y.name) \in Contents(d, y.dir) /\ ~ (y.dir = dir /\ Rec(y.inum, y.name) = Rec(i, n))
    BY <2>1 DEF Left
  <2>3. Ent(y.dir, y.name, y.inum) \in E
    BY <1>1, <2>1, <2>2 DEF Lists
  <2> QED
    BY <2>1, <2>2, <2>3, EntIs
<1>5. ASSUME NEW y \in E PROVE y.dir # i /\ (y = Ent(dir, n, i) \/ y \in F)
  <2>1. /\ y = Ent(y.dir, y.name, y.inum) /\ y.dir \in R /\ y.name \in Name
        /\ Rec(y.inum, y.name) \in Contents(d, y.dir)
    BY <1>1, <1>5 DEF Lists
  <2>2. y.dir # i
    <3>1. Rec(y.inum, y.name).name = y.name
      BY DEF Rec
    <3> QED
      BY <2>1, <3>1 DEF Left
  <2>3. CASE y.dir = dir /\ Rec(y.inum, y.name) = Rec(i, n)
    <3>1. y.inum = i /\ y.name = n
      BY <2>3, RecIs
    <3> QED
      BY <2>1, <2>2, <2>3, <3>1
  <2>4. CASE ~ (y.dir = dir /\ Rec(y.inum, y.name) = Rec(i, n))
    <3>1. Rec(y.inum, y.name) \in Contents(e, y.dir)
      BY <2>1, <2>2, <2>4 DEF Left
    <3>2. Ent(y.dir, y.name, y.inum) \in F
      BY <1>3, <2>1, <2>2, <3>1 DEF Lists
    <3> QED
      BY <2>1, <2>2, <3>2
  <2> QED
    BY <2>3, <2>4
<1>6. Ent(dir, n, i) \in E
  BY <1>1 DEF Lists, Left
<1>7. F = E \ {Ent(dir, n, i)}
  BY <1>4, <1>5
<1>8. Dirs(e) = Dirs(d) \ {i}
  <2>1. Dirs(e) = {j \in P : e.inode[j].i_mode = "dir"} /\ Dirs(d) = {j \in R : d.inode[j].i_mode = "dir"}
    BY <1>2, AllReached
  <2>2. \A j \in P : e.inode[j].i_mode = d.inode[j].i_mode
    BY DEF Left
  <2> QED
    BY <2>1, <2>2
<1> QED
  BY <1>5, <1>6, <1>7, <1>8 DEF E, F

\* One entry for another.
LEMMA ShiftedNames ==
    ASSUME NEW d, NEW R, Whole(d, R, {}), NEW from, NEW to, NEW fn \in Name, NEW tn \in Name, NEW x,
           <<from, fn>> # <<to, tn>>, NEW e, Shifted(d, e, R, from, fn, to, tn, x)
    PROVE  /\ EntriesOf(e) = (EntriesOf(d) \ {Ent(from, fn, x)}) \cup {Ent(to, tn, x)}
           /\ Ent(from, fn, x) \in EntriesOf(d)
           /\ Dirs(e) = Dirs(d)
<1> DEFINE E == EntriesOf(d)
           F == EntriesOf(e)
<1>1. Lists(d, R, E)
  BY EntriesAre
<1>2. Whole(e, R, {}) /\ from \in R /\ to \in R
  BY DEF Shifted
<1>3. Lists(e, R, F)
  BY <1>2, EntriesAre
<1> HIDE DEF E, F
<1>4. ASSUME NEW y \in F PROVE y = Ent(to, tn, x) \/ (y \in E /\ y # Ent(from, fn, x))
  <2>1. /\ y = Ent(y.dir, y.name, y.inum) /\ y.dir \in R /\ y.name \in Name
        /\ Rec(y.inum, y.name) \in Contents(e, y.dir)
    BY <1>3, <1>4 DEF Lists
  <2>2. /\ \/ Rec(y.inum, y.name) \in Contents(d, y.dir)
           \/ y.dir = to /\ Rec(y.inum, y.name) = Rec(x, tn)
        /\ ~ (y.dir = from /\ Rec(y.inum, y.name) = Rec(x, fn))
    BY <2>1 DEF Shifted
  <2>3. y # Ent(from, fn, x)
    BY <2>2, EntIs
  <2>4. CASE Rec(y.inum, y.name) \in Contents(d, y.dir)
    <3>1. Ent(y.dir, y.name, y.inum) \in E
      BY <1>1, <2>1, <2>4 DEF Lists
    <3> QED
      BY <2>1, <2>3, <3>1
  <2>5. CASE y.dir = to /\ Rec(y.inum, y.name) = Rec(x, tn)
    <3>1. y.inum = x /\ y.name = tn
      BY <2>5, RecIs
    <3> QED
      BY <2>1, <2>5, <3>1
  <2> QED
    BY <2>2, <2>4, <2>5
<1>5. ASSUME NEW y \in E PROVE y = Ent(from, fn, x) \/ y \in F
  <2>1. /\ y = Ent(y.dir, y.name, y.inum) /\ y.dir \in R /\ y.name \in Name
        /\ Rec(y.inum, y.name) \in Contents(d, y.dir)
    BY <1>1, <1>5 DEF Lists
  <2>2. CASE y.dir = from /\ Rec(y.inum, y.name) = Rec(x, fn)
    <3>1. y.inum = x /\ y.name = fn
      BY <2>2, RecIs
    <3> QED
      BY <2>1, <2>2, <3>1
  <2>3. CASE ~ (y.dir = from /\ Rec(y.inum, y.name) = Rec(x, fn))
    <3>1. Rec(y.inum, y.name) \in Contents(e, y.dir)
      BY <2>1, <2>3 DEF Shifted
    <3>2. Ent(y.dir, y.name, y.inum) \in F
      BY <1>3, <2>1, <3>1 DEF Lists
    <3> QED
      BY <2>1, <3>2
  <2> QED
    BY <2>2, <2>3
<1>6. Ent(from, fn, x) \in E
  BY <1>1, <1>2 DEF Lists, Shifted
<1>7. Ent(to, tn, x) \in F
  <2>1. ~ (to = from /\ Rec(x, tn) = Rec(x, fn))
    BY RecIs
  <2>2. Rec(x, tn) \in Contents(e, to)
    BY <1>2, <2>1 DEF Shifted
  <2> QED
    BY <1>2, <1>3, <2>2 DEF Lists
<1>8. F = (E \ {Ent(from, fn, x)}) \cup {Ent(to, tn, x)}
  BY <1>4, <1>5, <1>7
<1>9. Dirs(e) = Dirs(d)
  <2>1. Dirs(e) = {j \in R : e.inode[j].i_mode = "dir"} /\ Dirs(d) = {j \in R : d.inode[j].i_mode = "dir"}
    BY <1>2, AllReached
  <2>2. \A j \in R : e.inode[j].i_mode = d.inode[j].i_mode
    BY DEF Shifted
  <2> QED
    BY <2>1, <2>2
<1> QED
  BY <1>6, <1>8, <1>9 DEF E, F

\* What the abstract name space sees, by the disk.
LEMMA Seen ==
    /\ Entries = EntriesOf(disk) /\ Entries' = EntriesOf(disk')
    /\ Directories = Dirs(disk) /\ Directories' = Dirs(disk')
BY DEF Entries, EntriesOf, Directories, Dirs, Below, Lookup, BlocksOf

\* A name that leads nowhere has no entry, and entries lead to inodes in use.
LEMMA EntriesKnown ==
    ASSUME NEW R, Whole(disk, R, {}), NEW dir \in R, NEW n \in Name, NEW y \in Entries
    PROVE  /\ y.inum \in R
           /\ y.dir = dir /\ y.name = n => y = Ent(dir, n, Lookup(disk, dir, n)) /\ Lookup(disk, dir, n) # 0
<1>1. Lists(disk, R, Entries)
  BY EntriesAre, Seen
<1>2. /\ y = Ent(y.dir, y.name, y.inum) /\ y.dir \in R /\ y.name \in Name
      /\ Rec(y.inum, y.name) \in Contents(disk, y.dir)
  BY <1>1 DEF Lists
<1>3. Rec(y.inum, y.name).inum = y.inum /\ Rec(y.inum, y.name).name = y.name
  BY DEF Rec
<1>4. Sane(disk, R) /\ Kinds(disk, R)
  BY DEF Whole
<1>5. y.inum \in R
  BY <1>2, <1>3, <1>4, ContentsOrdered DEF Ordered
<1>6. disk.inode[y.dir].i_mode = "dir"
  BY <1>2, <1>4, FileIsEmpty
<1>7. Lookup(disk, y.dir, y.name) = y.inum /\ y.inum # 0
  BY <1>2, <1>3, <1>4, <1>6, LookupTells
<1> QED
  BY <1>2, <1>5, <1>7

\* The name space starts with the root.
LEMMA InitNames == Init => NS!Init
<1> SUFFICES ASSUME Init PROVE NS!Init
  OBVIOUS
<1> DEFINE R == {ROOT_INODE_NUM}
<1>1. /\ Whole(disk, R, {})
      /\ Contents(disk, ROOT_INODE_NUM) = {Rec(ROOT_INODE_NUM, "."), Rec(ROOT_INODE_NUM, "..")}
  BY FirstIsWhole DEF Init
<1>2. Lists(disk, R, Entries)
  BY <1>1, EntriesAre, Seen
<1>3. Entries = {}
  <2> SUFFICES ASSUME NEW y \in Entries PROVE FALSE
    OBVIOUS
  <2>1. y.name \in Name /\ Rec(y.inum, y.name) \in {Rec(ROOT_INODE_NUM, "."), Rec(ROOT_INODE_NUM, "..")}
    BY <1>1, <1>2 DEF Lists
  <2>2. y.name \in {".", ".."}
    BY <2>1, RecIs
  <2> QED
    BY <2>1, <2>2, RecordAssumption
<1>4. Directories = R
  <2>1. Dirs(disk) = {i \in R : disk.inode[i].i_mode = "dir"}
    BY <1>1, AllReached
  <2>2. disk.inode[ROOT_INODE_NUM].i_mode = "dir"
    BY <1>1 DEF Whole, Kinds
  <2> QED
    BY <2>1, <2>2 DEF Directories
<1> QED
  BY <1>3, <1>4 DEF NS!Init

\* altfs_mknod and altfs_mkdir create.
LEMMA ComesRefines ==
    ASSUME NEW R, Whole(disk, R, {}), Comes(disk, disk', R)
    PROVE  NS!Next
<1>1. PICK dir \in R, n \in Name, i \in Inum, mode \in {"dir", "file"} :
          /\ disk.inode[dir].i_mode = "dir" /\ Lookup(disk, dir, n) = 0
          /\ Entered(disk, disk', R, dir, i, n, mode)
  BY DEF Comes
<1>2. /\ Entries' = Entries \cup {Ent(dir, n, i)}
      /\ Directories' \in {Directories, Directories \cup {i}}
  <2> DEFINE e == disk'
  <2>1. Entered(disk, e, R, dir, i, n, mode)
    BY <1>1
  <2> HIDE DEF e
  <2>2. EntriesOf(e) = EntriesOf(disk) \cup {Ent(dir, n, i)}
    BY <2>1, EnteredNames
  <2>3. Dirs(e) \in {Dirs(disk), Dirs(disk) \cup {i}}
    BY <2>1, EnteredNames
  <2> QED
    BY <2>2, <2>3, Seen DEF e
<1>3. Directories = {j \in R : disk.inode[j].i_mode = "dir"}
  BY AllReached, Seen
<1>4. i \notin R
  BY <1>1 DEF Entered
<1>5. \A y \in Entries : y.inum # i /\ ~ (y.dir = dir /\ y.name = n)
  BY <1>1, <1>4, EntriesKnown
<1>6. NS!At(dir, n) = {}
  BY <1>5 DEF NS!At
<1>7. NS!Create(dir, n, i)
  BY <1>1, <1>2, <1>3, <1>4, <1>5, <1>6 DEF NS!Create, Ent
<1> QED
  BY <1>1, <1>3, <1>7 DEF NS!Next

\* altfs_unlink removes.
LEMMA GoesRefines ==
    ASSUME NEW R, Whole(disk, R, {}), Goes(disk, disk', R)
    PROVE  NS!Next
<1>1. PICK dir \in R, n \in Name, i \in Inum : Left(disk, disk', R, dir, i, n)
  BY DEF Goes
<1> DEFINE y == Ent(dir, n, i)
<1>2. /\ Entries' = Entries \ {y} /\ y \in Entries
      /\ \A z \in Entries : z.dir # i
      /\ Directories' = Directories \ {i}
  BY <1>1, LeftNames, Seen
<1>3. y.inum = i
  BY EntIs
<1> HIDE DEF y
<1>4. NS!Remove(y)
  BY <1>2, <1>3 DEF NS!Remove, NS!Removable
<1> QED
  BY <1>2, <1>4 DEF NS!Next

\* altfs_rename moves.
LEMMA MovingRefines ==
    ASSUME NEW R, Whole(disk, R, {}), NEW still, Moving(disk, disk', R, still)
    PROVE  NS!Next
<1>1. PICK from \in R, to \in R, fn \in Name, tn \in Name, x \in Inum :
          /\ disk.inode[to].i_mode = "dir" /\ <<from, fn>> # <<to, tn>>
          /\ Renames(disk, disk', R, from, fn, to, tn, x, Lookup(disk, to, tn))
  BY DEF Moving
<1> DEFINE t == Lookup(disk, to, tn)
           y == Ent(from, fn, x)
           z == Ent(to, tn, x)
<1>2. to \in Directories
  BY <1>1, AllReached, Seen
<1>3. y.inum = x /\ z = [dir |-> to, name |-> tn, inum |-> x]
  BY EntIs DEF Ent
<1> HIDE DEF t, y, z
<1>4. \A old \in NS!At(to, tn) : old = Ent(to, tn, t) /\ t # 0
  BY <1>1, EntriesKnown DEF NS!At, t
<1>5. CASE t = 0
  <2>1. Shifted(disk, disk', R, from, fn, to, tn, x)
    BY <1>1, <1>5 DEF Renames, t
  <2>2. Entries' = (Entries \ {y}) \cup {z} /\ y \in Entries /\ Directories' = Directories
    <3> DEFINE e == disk'
    <3>1. Shifted(disk, e, R, from, fn, to, tn, x)
      BY <2>1
    <3> HIDE DEF e
    <3>2. /\ EntriesOf(e) = (EntriesOf(disk) \ {y}) \cup {z}
          /\ y \in EntriesOf(disk) /\ Dirs(e) = Dirs(disk)
      BY <1>1, <3>1, ShiftedNames DEF y, z
    <3> QED
      BY <3>2, Seen DEF e
  <2>3. NS!At(to, tn) = {}
    BY <1>4, <1>5
  <2>4. NS!Move(y, to, tn)
    BY <1>2, <1>3, <2>2, <2>3 DEF NS!Move
  <2> QED
    BY <1>1, <1>2, <2>2, <2>4 DEF NS!Next
<1>6. CASE t # 0
  <2> DEFINE o == Ent(to, tn, t)
             P == R \ {t}
  <2>1. PICK m : Left(disk, m, R, to, t, tn) /\ Shifted(m, disk', P, from, fn, to, tn, x)
    BY <1>1, <1>6 DEF Renames, t
  <2>2. /\ EntriesOf(m) = Entries \ {o} /\ o \in Entries
        /\ \A other \in Entries : other.dir # t
        /\ Dirs(m) = Directories \ {t}
    BY <1>1, <2>1, LeftNames, Seen
  <2>3. Whole(m, P, {})
    BY <2>1 DEF Left
  <2>4. Entries' = (EntriesOf(m) \ {y}) \cup {z} /\ y \in EntriesOf(m) /\ Directories' = Dirs(m)
    BY <1>1, <2>1, <2>3, ShiftedNames, Seen DEF y, z
  <2>5. x # t
    <3>1. Sane(m, P) /\ from \in P /\ Rec(x, fn) \in Contents(m, from)
      BY <2>1, <2>3 DEF Shifted, Whole
    <3>2. Rec(x, fn).inum = x /\ Rec(x, fn).name = fn
      BY DEF Rec
    <3>3. x \in P
      BY <3>1, <3>2, ContentsOrdered DEF Ordered
    <3> QED
      BY <3>3
  <2>6. o.inum = t /\ o.dir = to /\ o.name = tn
    BY EntIs
  <2> HIDE DEF o
  <2>7. NS!At(to, tn) = {o}
    BY <1>4, <2>2, <2>6 DEF NS!At, o
  <2>8. NS!Removable(o)
    BY <2>2, <2>6 DEF NS!Removable
  <2>9. Entries' = (Entries \ ({y} \cup {o})) \cup {z}
    BY <2>2, <2>4
  <2>10. Directories' = Directories \ {old.inum : old \in {o}}
    BY <2>2, <2>4, <2>6
  <2>11. NS!Move(y, to, tn)
    BY <1>2, <1>3, <2>5, <2>6, <2>7, <2>8, <2>9, <2>10 DEF NS!Move
  <2> QED
    BY <1>1, <1>2, <2>2, <2>4, <2>11 DEF NS!Next
<1> QED
  BY <1>5, <1>6

\* Every step is one of the name space or leaves it as it is.
LEMMA NextRefines ==
    IInv /\ WInv /\ [Next]_vars
    => [crashes' = 0 /\ history' \subseteq {"moved"} => [NS!Next]_<<Entries, Directories>>]_vars
<1> SUFFICES ASSUME IInv, WInv, Next, crashes' = 0, history' \subseteq {"moved"}
             PROVE  [NS!Next]_<<Entries, Directories>>
  OBVIOUS
<1> DEFINE R == Live(disk)
           still == "moved" \notin history'
<1>1. Whole(disk, R, {})
  BY OnlyGrow DEF WInv
<1> HIDE DEF R
<1>2. TreeStep(disk, disk', R, still)
  BY <1>1, NextIsTreeStep
<1> HIDE DEF still
<1>3. CASE disk = disk'
  BY <1>3, Seen
<1>4. CASE Comes(disk, disk', R)
  BY <1>1, <1>4, ComesRefines
<1>5. CASE Goes(disk, disk', R)
  BY <1>1, <1>5, GoesRefines
<1>6. CASE Moving(disk, disk', R, still)
  BY <1>1, <1>6, MovingRefines
<1> QED
  BY <1>2, <1>3, <1>4, <1>5, <1>6 DEF TreeStep

\* Without crashes and without an altfs_mkdir that ran out of space, callers of
\* altfs_mknod, altfs_mkdir, altfs_unlink and altfs_rename see the abstract name
\* space: each call takes effect as one step or not at all.
THEOREM NameSpaceImplemented == Spec => ImplementsNameSpace
<1>1. IInv /\ WInv /\ [Next]_vars
        => [crashes' = 0 /\ history' \subseteq {"moved"} => [NS!Next]_<<Entries, Directories>>]_vars
  BY NextRefines
<1> QED
  BY <1>1, InitNames, TreeIsSound, TreeStaysWhole, PTL DEF Spec, ImplementsNameSpace
=============================================================================
