-------------------------- MODULE InodeTableProofs --------------------------
(***************************************************************************)
(* For every number of inode blocks and every block size: no inode number  *)
(* is issued twice, under crashes and failing transfers; and without them  *)
(* the superblock always remembers the lowest free inode and none leaks.   *)
(***************************************************************************)
EXTENDS InodeTable, NaturalFacts

per == s_num_of_inodes_per_block

\* The arithmetic of the table's constants.
LEMMA TableFacts ==
    /\ INODE_BLOCK_COUNT \in Nat
    /\ per \in Nat \ {0}
    /\ s_inodes_count = INODE_BLOCK_COUNT * per
    /\ s_inodes_count \in Nat
    /\ s_inodes_count > FIRST_INO
    /\ FIRST_INO = 3
    /\ ROOT_INODE_NUM = 2
    /\ Inode = 0..(s_inodes_count - 1)
BY TableAssumption DEF per, s_inodes_count, FIRST_INO, ROOT_INODE_NUM, Inode

\* The search starts right behind the inode that was allocated.
LEMMA SearchStart ==
    ASSUME NEW i \in Inode
    PROVE  /\ BlockOf(i) \in 1..INODE_BLOCK_COUNT
           /\ OffsetOf(i) + 1 \in 1..per
           /\ (BlockOf(i) - 1) * per + (OffsetOf(i) + 1) = i + 1
<1> USE TableFacts
<1>1. /\ i \div per \in Nat
      /\ i % per \in 0..(per - 1)
      /\ (i \div per) * per \in Nat
      /\ i = (i \div per) * per + (i % per)
  <2>1. i \in Nat /\ per \in Nat \ {0}
    OBVIOUS
  <2> QED
    BY ONLY <2>1, DivMod
<1>2. i \div per < INODE_BLOCK_COUNT
  BY DivBound
<1>3. BlockOf(i) = 1 + (i \div per) /\ OffsetOf(i) = i % per
  BY DEF BlockOf, OffsetOf, per
<1>4. BlockOf(i) - 1 = i \div per
  BY <1>1, <1>3
<1> QED
  BY <1>1, <1>2, <1>3, <1>4

\* A position of the search lies in the table, or at its end when the last
\* block is exhausted.
LEMMA SearchBounds ==
    ASSUME NEW b \in 1..INODE_BLOCK_COUNT, NEW o \in 0..per
    PROVE  /\ (b - 1) * per \in Nat
           /\ (b - 1) * per + per = b * per
           /\ b * per <= s_inodes_count
           /\ b = INODE_BLOCK_COUNT => b * per = s_inodes_count
           /\ (b - 1) * per + o <= s_inodes_count
           /\ o < per => (b - 1) * per + o \in Inode
<1> USE TableFacts
<1>1. (b - 1) \in Nat /\ b \in Nat
  OBVIOUS
<1>2. (b - 1) * per \in Nat /\ b * per \in Nat
  BY <1>1
<1>3. (b - 1) * per + per = b * per
  BY <1>1, <1>2
<1>4. b * per <= INODE_BLOCK_COUNT * per
  <2>1. CASE b = INODE_BLOCK_COUNT
    BY <1>2, <2>1
  <2>2. CASE b < INODE_BLOCK_COUNT
    BY <1>1, <1>2, <2>2, MultiplesApart
  <2> QED
    BY <2>1, <2>2
<1> QED
  BY <1>2, <1>3, <1>4

-----------------------------------------------------------------------------
(* The invariant that holds whatever fails *)

\* Files have marked inodes; the inode being allocated is marked and nobody's;
\* the search has looked at all inodes between that one and Scanned.
IInv ==
    /\ TypeOK
    /\ \A i \in held : i_allocated[i] /\ (i = ROOT_INODE_NUM \/ i >= FIRST_INO)
    /\ pc \in {"search", "allocated"} =>
          i_allocated[inum] /\ inum \notin held /\ inum >= FIRST_INO
    /\ pc = "search" => inum + visited + 1 = Scanned
    /\ pc = "freed" => inum >= FIRST_INO /\ inum \notin held

LEMMA InitIInv == Init => IInv
<1> USE TableFacts
<1> SUFFICES ASSUME Init PROVE IInv
  OBVIOUS
<1>1. TypeOK
  <2>1. INODE_BLOCK_COUNT >= 1
    <3>1. 0 * per = 0
      OBVIOUS
    <3> QED
      BY <3>1
  <2> QED
    BY <2>1 DEF Init, TypeOK, per
<1>2. held = {ROOT_INODE_NUM} /\ pc = "idle"
  BY DEF Init
<1>3. i_allocated[ROOT_INODE_NUM]
  <2>1. ROOT_INODE_NUM \in Inode
    OBVIOUS
  <2> QED
    BY <2>1, Zenon DEF Init
<1> QED
  BY <1>1, <1>2, <1>3 DEF IInv

LEMMA NextIInv == IInv /\ [Next]_vars => IInv'
<1> USE TableFacts
<1> SUFFICES ASSUME IInv, [Next]_vars PROVE IInv'
  OBVIOUS
<1>0. TypeOK
  BY DEF IInv
<1>1. CASE MarkAllocated
  <2>1. s_first_ino \in Inode /\ s_first_ino >= FIRST_INO
    BY <1>0, <1>1 DEF TypeOK, MarkAllocated, is_valid_inode_number
  <2>2. /\ block_num' \in 1..INODE_BLOCK_COUNT
        /\ offset' \in 0..per
        /\ Scanned' = s_first_ino + 1
    BY <1>1, <2>1, SearchStart DEF MarkAllocated, Scanned, per
  <2>3. TypeOK'
    BY <1>0, <1>1, <2>1, <2>2 DEF TypeOK, MarkAllocated, per
  <2>4. s_first_ino \notin held
    BY <1>1 DEF IInv, MarkAllocated
  <2>5. \A i \in held : i_allocated'[i] = i_allocated[i]
    BY <1>0, <1>1, <2>4 DEF MarkAllocated, TypeOK
  <2>6. i_allocated'[inum'] /\ inum' \notin held'
    BY <1>0, <1>1, <2>1, <2>4 DEF MarkAllocated, TypeOK
  <2> QED
    BY <1>1, <2>1, <2>2, <2>3, <2>5, <2>6 DEF IInv, MarkAllocated
<1>2. ASSUME NEW i \in Inode, MarkFree(i) PROVE IInv'
  <2>1. i >= FIRST_INO
    BY <1>2 DEF IInv, MarkFree
  <2>2. TypeOK'
    BY <1>0, <1>2 DEF TypeOK, MarkFree
  <2>3. \A k \in held' : k \in held /\ i_allocated'[k] = i_allocated[k]
    BY <1>0, <1>2 DEF MarkFree, TypeOK
  <2> QED
    BY <1>2, <2>1, <2>2, <2>3 DEF IInv, MarkFree
<1>3. CASE LookAtInode
  <2>1. offset \in 0..(per - 1) /\ Scanned \in Inode /\ Scanned = inum + visited + 1
    BY <1>0, <1>3, SearchBounds DEF TypeOK, LookAtInode, IInv, Scanned, per
  <2>2. CASE i_allocated[Scanned]
    <3>1. /\ offset' = offset + 1
          /\ visited' = visited + 1
          /\ UNCHANGED <<i_allocated, s_first_ino, disk_first_ino, pc, inum, block_num, held>>
      BY <1>3, <2>2 DEF LookAtInode
    <3>2. Scanned' = Scanned + 1
      BY <1>0, <2>1, <3>1, SearchBounds DEF Scanned, TypeOK, per
    <3>3. TypeOK'
      BY <1>0, <2>1, <3>1 DEF TypeOK, per
    <3> QED
      BY <1>0, <2>1, <3>1, <3>2, <3>3 DEF IInv, TypeOK
  <2>3. CASE ~ i_allocated[Scanned]
    <3>1. /\ visited' = visited + 1
          /\ s_first_ino' = Scanned
          /\ pc' = "allocated"
          /\ UNCHANGED <<i_allocated, disk_first_ino, inum, block_num, offset, held>>
      BY <1>3, <2>1, <2>3 DEF LookAtInode
    <3>2. TypeOK'
      BY <1>0, <1>3, <2>1, <3>1 DEF TypeOK, IInv, LookAtInode
    <3> QED
      BY <1>3, <3>1, <3>2 DEF IInv, LookAtInode
  <2> QED
    BY <2>2, <2>3
<1>4. CASE LookAtNextBlock
  <2>1. Scanned' = Scanned
    <3>1. Scanned = (block_num - 1) * per + per
      BY <1>4 DEF LookAtNextBlock, Scanned, per
    <3>2. Scanned' = block_num * per + 0
      <4>1. block_num' - 1 = block_num /\ offset' = 0
        BY <1>0, <1>4 DEF TypeOK, LookAtNextBlock
      <4>2. Scanned' = (block_num' - 1) * per + offset'
        BY DEF Scanned, per
      <4> QED
        BY ONLY <4>1, <4>2
    <3>3. (block_num - 1) * per + per = block_num * per /\ block_num * per \in Nat
      BY <1>0, SearchBounds DEF TypeOK
    <3> QED
      BY <3>1, <3>2, <3>3
  <2>2. TypeOK'
    BY <1>0, <1>4 DEF TypeOK, LookAtNextBlock
  <2> QED
    BY <1>4, <2>1, <2>2 DEF IInv, LookAtNextBlock
<1>5. CASE SearchEnds
  <2>1. TypeOK'
    BY <1>0, <1>5 DEF TypeOK, SearchEnds, cursor
  <2> QED
    BY <1>5, <2>1 DEF IInv, SearchEnds, cursor
<1>6. CASE ReturnInode
  <2>1. TypeOK'
    BY <1>0, <1>6 DEF TypeOK, ReturnInode, altfs_write_superblock, cursor
  <2> QED
    BY <1>6, <2>1 DEF IInv, ReturnInode, cursor
<1>7. CASE ReturnFreed
  <2>1. TypeOK'
    BY <1>0, <1>7 DEF IInv, TypeOK, ReturnFreed, altfs_write_superblock, cursor
  <2> QED
    BY <1>7, <2>1 DEF IInv, ReturnFreed, cursor
<1>8. CASE CrashAndMount
  <2>1. TypeOK'
    BY <1>0, <1>8 DEF TypeOK, CrashAndMount, cursor
  <2> QED
    BY <1>8, <2>1 DEF IInv, CrashAndMount, cursor
<1>9. ASSUME NEW i \in Inode, FreeFails(i) PROVE IInv'
  <2>1. TypeOK'
    BY <1>0, <1>9 DEF TypeOK, FreeFails, cursor
  <2> QED
    BY <1>9, <2>1 DEF IInv, FreeFails, cursor
<1>10. CASE UNCHANGED vars
  BY <1>10 DEF vars, cursor, IInv, TypeOK, Scanned
<1> QED
  BY <1>1, <1>2, <1>3, <1>4, <1>5, <1>6, <1>7, <1>8, <1>9, <1>10 DEF Next, Step

\* Whatever crashes and whichever transfer fails: the search for a free inode and
\* the number that the superblock remembers stay inside the table.
THEOREM InodeTableTypes == Spec => []TypeOK
<1>1. IInv => TypeOK
  BY DEF IInv
<1> QED
  BY InitIInv, NextIInv, <1>1, PTL DEF Spec

\* Whatever crashes and whichever transfer fails: allocate_inode never takes an
\* inode that an existing file holds.
THEOREM InodesAreExclusive == Spec => []NeverReissued
<1>1. IInv => NeverReissued
  BY DEF IInv, NeverReissued
<1> QED
  BY InitIInv, NextIInv, <1>1, PTL DEF Spec

-----------------------------------------------------------------------------
(* The invariant of the fault-free table *)

\* No number from FIRST_INO up to n is free.
NoneFreeBelow(n) == \A i \in Inode : i >= FIRST_INO /\ i < n => i_allocated[i]

RemembersFree == s_first_ino = s_inodes_count \/ ~ i_allocated[s_first_ino]

\* Where the remembered number stands while a call is under way: the search has
\* found every inode below Scanned in use; a freed inode is the only free one
\* that may lie below the remembered number.
Least ==
    /\ IInv
    /\ pc = "idle" => NoneFreeBelow(s_first_ino) /\ RemembersFree
                      /\ disk_first_ino = s_first_ino
    /\ pc = "search" => NoneFreeBelow(Scanned)
    /\ pc = "allocated" => NoneFreeBelow(s_first_ino) /\ RemembersFree
    /\ pc = "freed" => /\ ~ i_allocated[inum]
                       /\ \A i \in Inode : i >= FIRST_INO /\ i < s_first_ino /\ i # inum
                                           => i_allocated[i]
                       /\ RemembersFree

\* Every marked inode is a file's or the one being handed out.
Accounted ==
    \A i \in Inode : i_allocated[i] =>
        i \in held \/ (pc \in {"search", "allocated"} /\ i = inum)

LEMMA InitLeast == Init => Least /\ Accounted
<1> USE TableFacts
<1> SUFFICES ASSUME Init PROVE Least /\ Accounted
  OBVIOUS
<1>1. IInv
  BY InitIInv
<1>2. \A i \in Inode : i_allocated[i] <=> i = ROOT_INODE_NUM
  BY Zenon DEF Init
<1>3. /\ pc = "idle" /\ held = {ROOT_INODE_NUM}
      /\ s_first_ino = FIRST_INO /\ disk_first_ino = FIRST_INO
  BY DEF Init
<1>4. FIRST_INO \in Inode /\ FIRST_INO # ROOT_INODE_NUM
  OBVIOUS
<1>5. NoneFreeBelow(s_first_ino)
  BY <1>3 DEF NoneFreeBelow
<1> QED
  BY <1>1, <1>2, <1>3, <1>4, <1>5 DEF Least, Accounted, RemembersFree

LEMMA NextLeast ==
    ASSUME Faults = {}
    PROVE  Least /\ Accounted /\ [Next]_vars => Least' /\ Accounted'
<1> USE TableFacts
<1> SUFFICES ASSUME Least, Accounted, [Next]_vars PROVE Least' /\ Accounted'
  OBVIOUS
<1>0. TypeOK /\ IInv /\ IInv'
  BY NextIInv DEF Least, IInv
<1>1. CASE MarkAllocated
  <2>1. s_first_ino \in Inode /\ s_first_ino >= FIRST_INO
    BY <1>0, <1>1 DEF TypeOK, MarkAllocated, is_valid_inode_number
  <2>2. Scanned' = s_first_ino + 1
    BY <1>1, <2>1, SearchStart DEF MarkAllocated, Scanned, per
  <2>3. /\ pc = "idle" /\ pc' = "search" /\ inum' = s_first_ino /\ held' = held
        /\ i_allocated' = [i_allocated EXCEPT ![s_first_ino] = TRUE]
    BY <1>1 DEF MarkAllocated
  <2>4. \A i \in Inode : i_allocated'[i] <=> i = s_first_ino \/ i_allocated[i]
    BY <1>0, <2>1, <2>3 DEF TypeOK
  <2>5. NoneFreeBelow(Scanned)'
    BY <1>0, <2>1, <2>2, <2>3, <2>4 DEF Least, NoneFreeBelow, TypeOK
  <2> QED
    BY <1>0, <2>3, <2>4, <2>5 DEF Least, Accounted
<1>2. ASSUME NEW k \in Inode, MarkFree(k) PROVE Least' /\ Accounted'
  <2>1. /\ pc = "idle" /\ pc' = "freed" /\ inum' = k /\ s_first_ino' = s_first_ino
        /\ held' = held \ {k}
        /\ i_allocated' = [i_allocated EXCEPT ![k] = FALSE]
    BY <1>2 DEF MarkFree
  <2>2. \A i \in Inode : i_allocated'[i] <=> i # k /\ i_allocated[i]
    BY <1>0, <2>1 DEF TypeOK
  <2>3. s_first_ino = s_inodes_count \/ s_first_ino \in Inode
    BY <1>0 DEF TypeOK
  <2> QED
    BY <1>0, <2>1, <2>2, <2>3 DEF Least, Accounted, NoneFreeBelow, RemembersFree
<1>3. CASE LookAtInode
  <2>1. /\ pc = "search" /\ offset \in 0..(per - 1)
        /\ Scanned \in Inode /\ Scanned = inum + visited + 1
    BY <1>0, <1>3, SearchBounds DEF TypeOK, LookAtInode, IInv, Scanned, per
  <2>2. CASE i_allocated[Scanned]
    <3>1. /\ offset' = offset + 1
          /\ UNCHANGED <<i_allocated, s_first_ino, disk_first_ino, pc, inum, block_num, held>>
      BY <1>3, <2>2 DEF LookAtInode
    <3>2. Scanned' = Scanned + 1
      BY <1>0, <2>1, <3>1, SearchBounds DEF Scanned, TypeOK, per
    <3>3. NoneFreeBelow(Scanned)'
      BY <2>1, <2>2, <3>1, <3>2 DEF Least, NoneFreeBelow
    <3> QED
      BY <1>0, <2>1, <3>1, <3>3 DEF Least, Accounted
  <2>3. CASE ~ i_allocated[Scanned]
    <3>1. /\ s_first_ino' = Scanned
          /\ pc' = "allocated"
          /\ UNCHANGED <<i_allocated, disk_first_ino, inum, block_num, offset, held>>
      BY <1>3, <2>1, <2>3 DEF LookAtInode
    <3> QED
      BY <1>0, <2>1, <2>3, <3>1 DEF Least, Accounted, NoneFreeBelow, RemembersFree
  <2> QED
    BY <2>2, <2>3
<1>4. CASE LookAtNextBlock
  <2>1. /\ pc = "search" /\ pc' = "search"
        /\ UNCHANGED <<i_allocated, inum, held, visited>>
    BY <1>4 DEF LookAtNextBlock
  <2>2. Scanned' = Scanned
    BY <1>0, <2>1 DEF IInv
  <2> QED
    BY <1>0, <2>1, <2>2 DEF Least, Accounted, NoneFreeBelow
<1>5. CASE SearchEnds
  <2>1. /\ pc = "search" /\ pc' = "allocated" /\ s_first_ino' = s_inodes_count
        /\ UNCHANGED <<i_allocated, inum, held>>
        /\ offset = per
        /\ ~ (block_num < INODE_BLOCK_COUNT /\ visited # inodes_left)
    BY <1>5 DEF SearchEnds, cursor, per
  <2>2. /\ inum + visited + 1 = Scanned
        /\ Scanned = block_num * per
        /\ Scanned <= s_inodes_count
        /\ block_num = INODE_BLOCK_COUNT => Scanned = s_inodes_count
    BY <1>0, <2>1, SearchBounds DEF IInv, TypeOK, Scanned, per
  <2>3. visited # inodes_left
    BY <1>0, <2>2 DEF TypeOK, inodes_left
  <2>4. Scanned = s_inodes_count
    BY <1>0, <2>1, <2>2, <2>3 DEF TypeOK
  <2> QED
    BY <1>0, <2>1, <2>4 DEF Least, Accounted, NoneFreeBelow, RemembersFree
<1>6. CASE ReturnInode
  <2>1. /\ pc = "allocated" /\ pc' = "idle"
        /\ UNCHANGED <<i_allocated, s_first_ino>>
        /\ disk_first_ino' = s_first_ino
        /\ held' = held \cup {inum}
    BY <1>6 DEF ReturnInode, altfs_write_superblock
  <2> QED
    BY <1>0, <2>1 DEF Least, Accounted, NoneFreeBelow, RemembersFree
<1>7. CASE ReturnFreed
  <2>1. /\ pc = "freed" /\ pc' = "idle"
        /\ UNCHANGED <<i_allocated, inum, held>>
        /\ disk_first_ino' = s_first_ino'
        /\ s_first_ino' = IF inum < s_first_ino THEN inum ELSE s_first_ino
    BY <1>7 DEF ReturnFreed, altfs_write_superblock, cursor
  <2>2. NoneFreeBelow(s_first_ino)' /\ RemembersFree'
    BY <1>0, <2>1 DEF Least, NoneFreeBelow, RemembersFree, TypeOK
  <2> QED
    BY <1>0, <2>1, <2>2 DEF Least, Accounted
<1>8. CASE CrashAndMount
  BY <1>8 DEF CrashAndMount
<1>9. ASSUME NEW i \in Inode, FreeFails(i) PROVE Least' /\ Accounted'
  BY <1>9 DEF FreeFails
<1>10. CASE UNCHANGED vars
  BY <1>0, <1>10 DEF vars, cursor, Least, Accounted, NoneFreeBelow, RemembersFree, Scanned
<1> QED
  BY <1>1, <1>2, <1>3, <1>4, <1>5, <1>6, <1>7, <1>8, <1>9, <1>10 DEF Next, Step

\* Without faults: between calls the superblock, in memory and on disk,
\* remembers the lowest free inode, so allocate_inode fails only when the table
\* is full.
THEOREM LowestFreeInodeIsKnown ==
    ASSUME Faults = {}
    PROVE  Spec => []FirstInoIsLeastFree
<1>1. Least /\ Accounted => FirstInoIsLeastFree
  <2> SUFFICES ASSUME Least, pc = "idle" PROVE FirstInoIsLeastFree
    BY DEF FirstInoIsLeastFree
  <2> USE TableFacts
  <2>1. TypeOK
    BY DEF Least, IInv
  <2>2. \A i \in FreeInodes : s_first_ino <= i
    BY <2>1 DEF Least, NoneFreeBelow, FreeInodes, TypeOK
  <2>3. s_first_ino = s_inodes_count \/ s_first_ino \in FreeInodes
    BY <2>1 DEF Least, RemembersFree, FreeInodes, TypeOK
  <2> QED
    BY <2>2, <2>3 DEF FirstInoIsLeastFree, Least
<1> QED
  BY <1>1, InitLeast, NextLeast, PTL DEF Spec

\* Without faults: between calls every inode marked on disk belongs to a file.
THEOREM NoInodeIsLeaked ==
    ASSUME Faults = {}
    PROVE  Spec => []NoInodeLeaked
<1>1. Least /\ Accounted => NoInodeLeaked
  BY DEF Least, NoInodeLeaked, Accounted, IInv, TypeOK
<1> QED
  BY <1>1, InitLeast, NextLeast, PTL DEF Spec
=============================================================================
