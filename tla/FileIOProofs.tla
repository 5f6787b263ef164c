---------------------------- MODULE FileIOProofs -----------------------------
(***************************************************************************)
(* Proofs about reading, writing and truncating files, for any block size, *)
(* any number of files and blocks and any order in which free blocks are   *)
(* handed out: the safety properties of FileIO follow from an inductive    *)
(* invariant, and the calls implement files as sequences of bytes.         *)
(*                                                                         *)
(* The first part is about the operators of FileIO, for any disk: what a   *)
(* loop over blocks copies, which blocks a write takes, what a truncation  *)
(* and a crash leave. A call is described by a predicate (CopiedTo, Wrote, *)
(* Cut, ShrunkTo) that has no loop, no running sum and no CHOOSE in it:    *)
(* byte o of block l has place l * BLOCK_SIZE + o in the file, and the     *)
(* predicate says what is there afterwards.                                *)
(*                                                                         *)
(* The theorems assume ~ OpenTruncates: altfs_open with O_TRUNC writes an  *)
(* old inode back, after which none of this holds.                         *)
(***************************************************************************)
EXTENDS FileIO, SequenceTheorems, NaturalFacts, TLAPS

-----------------------------------------------------------------------------
(* The arithmetic of blocks *)

\* What the constants are.
LEMMA Constants ==
    /\ BLOCK_SIZE \in Nat \ {0}
    /\ BLOCK_SIZE \in Nat
    /\ BLOCK_SIZE >= 1
    /\ MaxBlocks \in Nat
BY FileAssumption

\* Quotient and remainder are unique.
LEMMA DivModUnique ==
    ASSUME NEW l \in Nat, NEW o \in 0..(BLOCK_SIZE - 1)
    PROVE  /\ l * BLOCK_SIZE \in Nat
           /\ (l * BLOCK_SIZE + o) \div BLOCK_SIZE = l
           /\ (l * BLOCK_SIZE + o) % BLOCK_SIZE = o
<1> USE Constants
<1> DEFINE p == l * BLOCK_SIZE + o
           q == p \div BLOCK_SIZE
<1>1. l * BLOCK_SIZE \in Nat /\ p \in Nat
  OBVIOUS
<1>2. /\ q \in Nat
      /\ p % BLOCK_SIZE \in 0..(BLOCK_SIZE - 1)
      /\ q * BLOCK_SIZE \in Nat
      /\ p = q * BLOCK_SIZE + (p % BLOCK_SIZE)
  BY <1>1, DivMod
<1> HIDE DEF q
<1>3. q = l
  <2>1. ASSUME q < l PROVE FALSE
    <3>1. q * BLOCK_SIZE + BLOCK_SIZE <= l * BLOCK_SIZE
      BY <1>2, <2>1, MultiplesApart
    <3> QED
      BY <1>1, <1>2, <3>1
  <2>2. ASSUME l < q PROVE FALSE
    <3>1. l * BLOCK_SIZE + BLOCK_SIZE <= q * BLOCK_SIZE
      BY <1>2, <2>2, MultiplesApart
    <3> QED
      BY <1>1, <1>2, <3>1
  <2> QED
    BY <1>2, <2>1, <2>2
<1>4. p % BLOCK_SIZE = o
  BY <1>1, <1>2, <1>3
<1> QED
  BY <1>1, <1>3, <1>4 DEF q

\* Positions in the same order as their blocks.
LEMMA Monotone ==
    ASSUME NEW l \in Nat, NEW k \in Nat, l < k
    PROVE  /\ l * BLOCK_SIZE \in Nat
           /\ k * BLOCK_SIZE \in Nat
           /\ l * BLOCK_SIZE + BLOCK_SIZE <= k * BLOCK_SIZE
BY Constants, MultiplesApart

\* The block of an offset starts at or before it.
LEMMA Floor ==
    ASSUME NEW offset \in Nat
    PROVE  /\ offset \div BLOCK_SIZE \in Nat
           /\ (offset \div BLOCK_SIZE) * BLOCK_SIZE \in Nat
           /\ (offset \div BLOCK_SIZE) * BLOCK_SIZE <= offset
<1> DEFINE q == (offset \div BLOCK_SIZE) * BLOCK_SIZE
           r == offset % BLOCK_SIZE
<1>1. offset \div BLOCK_SIZE \in Nat /\ r \in 0..(BLOCK_SIZE - 1) /\ q \in Nat /\ offset = q + r
  BY Constants, DivMod
<1> HIDE DEF q, r
<1>2. q <= offset
  BY <1>1, Constants
<1> QED
  BY <1>1, <1>2 DEF q

\* The bytes before block l, of n bytes at offset, in closed form.
Before(offset, n) ==
    [l \in (offset \div BLOCK_SIZE)..(LastBlock(offset, n) + 1) |->
        IF l = offset \div BLOCK_SIZE THEN 0
        ELSE IF l = LastBlock(offset, n) + 1 THEN n
        ELSE l * BLOCK_SIZE - offset]

\* Block l of the transfer: where its part of the bytes starts and ends, in the block
\* and among the bytes.
LEMMA BeforeStep ==
    ASSUME NEW offset \in Nat, NEW n \in Nat \ {0},
           NEW l \in (offset \div BLOCK_SIZE)..LastBlock(offset, n)
    PROVE  /\ offset \div BLOCK_SIZE \in Nat
           /\ LastBlock(offset, n) \in Nat
           /\ offset \div BLOCK_SIZE <= LastBlock(offset, n)
           /\ l \in Nat
           /\ l * BLOCK_SIZE \in Nat
           /\ FirstIn(l, offset) \in 0..(BLOCK_SIZE - 1)
           /\ LastIn(l, offset, n) \in 0..(BLOCK_SIZE - 1)
           /\ FirstIn(l, offset) <= LastIn(l, offset, n)
           /\ Before(offset, n)[l] \in 0..(n - 1)
           /\ Before(offset, n)[l + 1] \in 1..n
           /\ offset + Before(offset, n)[l] = l * BLOCK_SIZE + FirstIn(l, offset)
           /\ offset + Before(offset, n)[l + 1] = l * BLOCK_SIZE + LastIn(l, offset, n) + 1
<1> USE Constants
<1> DEFINE first == offset \div BLOCK_SIZE
           last == LastBlock(offset, n)
           fo == offset % BLOCK_SIZE
           lo == (offset + n - 1) % BLOCK_SIZE
<1>1. /\ first \in Nat /\ first * BLOCK_SIZE \in Nat
      /\ fo \in 0..(BLOCK_SIZE - 1)
      /\ offset = first * BLOCK_SIZE + fo
  BY DivMod
<1>2. /\ last \in Nat /\ last * BLOCK_SIZE \in Nat
      /\ lo \in 0..(BLOCK_SIZE - 1)
      /\ offset + n - 1 = last * BLOCK_SIZE + lo
  <2>1. offset + n - 1 \in Nat
    OBVIOUS
  <2> QED
    BY <2>1, DivMod DEF LastBlock
<1>3. /\ FirstIn(l, offset) = IF l = first THEN fo ELSE 0
      /\ LastIn(l, offset, n) = IF l = last THEN lo ELSE BLOCK_SIZE - 1
  BY DEF FirstIn, LastIn
<1>4. /\ l \in first..last
      /\ \A k \in first..(last + 1) :
            Before(offset, n)[k] = IF k = first THEN 0
                                   ELSE IF k = last + 1 THEN n
                                   ELSE k * BLOCK_SIZE - offset
  BY DEF Before
<1> HIDE DEF first, last, fo, lo
<1>5. first <= last
  BY <1>1, <1>2, <1>4
<1>6. l \in Nat /\ l * BLOCK_SIZE \in Nat
  BY <1>1, <1>2, <1>4
<1>7. (l + 1) * BLOCK_SIZE = l * BLOCK_SIZE + BLOCK_SIZE
  BY <1>6
<1>8. l # first => first * BLOCK_SIZE + BLOCK_SIZE <= l * BLOCK_SIZE
  <2>1. l # first => first < l
    BY <1>1, <1>2, <1>4
  <2> QED
    BY <1>1, <1>6, <2>1, Monotone
<1>9. l # last => l * BLOCK_SIZE + BLOCK_SIZE <= last * BLOCK_SIZE
  <2>1. l # last => l < last
    BY <1>1, <1>2, <1>4
  <2> QED
    BY <1>2, <1>6, <2>1, Monotone
<1>10. Before(offset, n)[l] = IF l = first THEN 0 ELSE l * BLOCK_SIZE - offset
  BY <1>1, <1>2, <1>4
<1>11. Before(offset, n)[l + 1] = IF l = last THEN n ELSE l * BLOCK_SIZE + BLOCK_SIZE - offset
  <2>1. l + 1 # first /\ l + 1 \in first..(last + 1)
    BY <1>1, <1>2, <1>4
  <2>2. l + 1 = last + 1 <=> l = last
    BY <1>2, <1>6
  <2>3. CASE l = last
    BY <1>4, <2>1, <2>2, <2>3
  <2>4. CASE l # last
    BY <1>4, <1>7, <2>1, <2>2, <2>4
  <2> QED
    BY <2>3, <2>4
<1> DEFINE L == l * BLOCK_SIZE
           F == first * BLOCK_SIZE
           T == last * BLOCK_SIZE
<1>13. l = first => L = F
  OBVIOUS
<1>14. l = last => L = T
  OBVIOUS
<1>15. L \in Nat /\ F \in Nat /\ T \in Nat
  BY <1>1, <1>2, <1>6
<1>16. first \in Nat /\ last \in Nat /\ first <= last /\ l \in Nat
  BY <1>1, <1>2, <1>5, <1>6
<1>17. /\ offset = F + fo /\ offset + n - 1 = T + lo
       /\ l # first => F + BLOCK_SIZE <= L
       /\ l # last => L + BLOCK_SIZE <= T
       /\ Before(offset, n)[l] = IF l = first THEN 0 ELSE L - offset
       /\ Before(offset, n)[l + 1] = IF l = last THEN n ELSE L + BLOCK_SIZE - offset
  BY <1>1, <1>2, <1>8, <1>9, <1>10, <1>11
<1>18. fo \in 0..(BLOCK_SIZE - 1) /\ lo \in 0..(BLOCK_SIZE - 1)
  BY <1>1, <1>2
<1> HIDE DEF L, F, T
<1>19. /\ FirstIn(l, offset) \in 0..(BLOCK_SIZE - 1)
       /\ LastIn(l, offset, n) \in 0..(BLOCK_SIZE - 1)
       /\ FirstIn(l, offset) <= LastIn(l, offset, n)
  BY <1>3, <1>13, <1>14, <1>15, <1>16, <1>17, <1>18
<1>20. /\ Before(offset, n)[l] \in 0..(n - 1)
       /\ offset + Before(offset, n)[l] = L + FirstIn(l, offset)
  BY <1>3, <1>13, <1>14, <1>15, <1>16, <1>17, <1>18
<1>21. /\ Before(offset, n)[l + 1] \in 1..n
       /\ offset + Before(offset, n)[l + 1] = L + LastIn(l, offset, n) + 1
  BY <1>3, <1>13, <1>14, <1>15, <1>16, <1>17, <1>18
<1> QED
  BY <1>15, <1>16, <1>19, <1>20, <1>21 DEF L, first, last

\* The running sum of the loops is that closed form.
LEMMA CopiedBeforeIs ==
    ASSUME NEW offset \in Nat, NEW n \in Nat \ {0}
    PROVE  CopiedBefore(offset, n) = Before(offset, n)
<1> USE Constants
<1> DEFINE first == offset \div BLOCK_SIZE
           last == LastBlock(offset, n)
           body(g, l) == IF l = first THEN 0
                         ELSE g[l - 1] + LastIn(l - 1, offset, n) - FirstIn(l - 1, offset) + 1
           sum == CopiedBefore(offset, n)
           B == Before(offset, n)
<1>0. sum = CHOOSE g : g = [l \in first..(last + 1) |-> body(g, l)]
  BY DEF CopiedBefore
<1>1. first \in Nat /\ last \in Nat /\ first <= last
  <2>1. first \in Nat /\ last \in Nat
    BY DivMod DEF LastBlock
  <2> QED
    BY DivMod, Monotone DEF LastBlock
<1>2. \A l \in (first + 1)..(last + 1) : B[l] = body(B, l)
  <2> TAKE l \in (first + 1)..(last + 1)
  <2>1. l - 1 \in first..last /\ (l - 1) + 1 = l /\ l # first
    BY <1>1
  <2>2. PICK k \in first..last : k = l - 1
    BY <2>1
  <2>3. /\ k * BLOCK_SIZE \in Nat
        /\ FirstIn(k, offset) \in 0..(BLOCK_SIZE - 1)
        /\ LastIn(k, offset, n) \in 0..(BLOCK_SIZE - 1)
        /\ B[k] \in 0..(n - 1)
        /\ B[k + 1] \in 1..n
        /\ offset + B[k] = k * BLOCK_SIZE + FirstIn(k, offset)
        /\ offset + B[k + 1] = k * BLOCK_SIZE + LastIn(k, offset, n) + 1
    BY BeforeStep
  <2> HIDE DEF B
  <2>4. B[k + 1] = B[k] + LastIn(k, offset, n) - FirstIn(k, offset) + 1
    <3> DEFINE K == k * BLOCK_SIZE
    <3>1. /\ K \in Nat
          /\ FirstIn(k, offset) \in Nat
          /\ LastIn(k, offset, n) \in Nat
          /\ B[k] \in Nat
          /\ B[k + 1] \in Nat
          /\ offset + B[k] = K + FirstIn(k, offset)
          /\ offset + B[k + 1] = K + LastIn(k, offset, n) + 1
      BY <2>3
    <3> HIDE DEF K
    <3> QED
      BY ONLY <3>1, offset \in Nat
  <2> QED
    BY <2>1, <2>2, <2>4
<1>3. B = [l \in first..(last + 1) |-> body(B, l)]
  <2>1. B[first] = 0
    BY <1>1 DEF Before
  <2>2. B = [l \in first..(last + 1) |-> B[l]]
    BY DEF Before
  <2>3. \A l \in first..(last + 1) : B[l] = body(B, l)
    BY <1>1, <1>2, <2>1
  <2> HIDE DEF B, body
  <2> QED
    BY <2>2, <2>3
<1>4. sum = [l \in first..(last + 1) |-> body(sum, l)]
  <2> HIDE DEF B, body, sum
  <2> QED
    BY <1>0, <1>3
<1> DEFINE S == {k \in Nat : first + k <= last + 1 => sum[first + k] = B[first + k]}
<1>5. Nat \subseteq S
  <2>1. 0 \in S
    <3>1. first + 0 = first
      BY <1>1
    <3>2. sum[first] = 0
      BY <1>1, <1>4
    <3>3. B[first] = 0
      BY <1>1 DEF Before
    <3> QED
      BY <3>1, <3>2, <3>3
  <2>2. ASSUME NEW k \in Nat, k \in S PROVE k + 1 \in S
    <3> SUFFICES ASSUME first + (k + 1) <= last + 1
                 PROVE  sum[first + (k + 1)] = B[first + (k + 1)]
      OBVIOUS
    <3> DEFINE l == first + (k + 1)
    <3>1. l \in (first + 1)..(last + 1) /\ l - 1 = first + k /\ l # first /\ first + k <= last + 1
      BY <1>1
    <3>2. sum[l - 1] = B[l - 1]
      BY <2>2, <3>1
    <3>3. sum[l] = body(sum, l)
      <4>1. l \in first..(last + 1)
        BY <1>1, <3>1
      <4> HIDE DEF sum, body, l
      <4> QED
        BY <1>4, <4>1
    <3>4. B[l] = body(B, l)
      BY <1>2, <3>1
    <3> HIDE DEF l, sum, B
    <3>5. body(sum, l) = body(B, l)
      BY <3>1, <3>2
    <3> QED
      BY <3>3, <3>4, <3>5 DEF l
  <2> HIDE DEF S
  <2> QED
    BY <2>1, <2>2, SetInduction
<1>6. ASSUME NEW l \in first..(last + 1) PROVE sum[l] = B[l]
  <2>1. l - first \in Nat /\ first + (l - first) = l /\ l <= last + 1
    BY <1>1
  <2>2. l - first \in S
    BY <1>5, <2>1
  <2> QED
    BY <2>1, <2>2
<1>7. sum = [l \in first..(last + 1) |-> sum[l]]
  <2> HIDE DEF sum, body
  <2> QED
    BY <1>4
<1>8. B = [l \in first..(last + 1) |-> B[l]]
  BY DEF Before
<1> HIDE DEF sum, B
<1>9. sum = B
  BY <1>6, <1>7, <1>8
<1> QED
  BY <1>9 DEF sum, B

\* Which positions of n bytes at offset lie in a block, and which bytes of the
\* block they are.
LEMMA InPart ==
    ASSUME NEW offset \in Nat, NEW n \in Nat \ {0},
           NEW l \in Nat, NEW o \in 0..(BLOCK_SIZE - 1)
    PROVE  /\ l * BLOCK_SIZE \in Nat
           /\ l < offset \div BLOCK_SIZE => l * BLOCK_SIZE + o < offset
           /\ l > LastBlock(offset, n) => l * BLOCK_SIZE + o >= offset + n
           /\ l >= offset \div BLOCK_SIZE =>
                 (FirstIn(l, offset) <= o <=> offset <= l * BLOCK_SIZE + o)
           /\ l <= LastBlock(offset, n) =>
                 (o <= LastIn(l, offset, n) <=> l * BLOCK_SIZE + o < offset + n)
<1> USE Constants
<1> DEFINE first == offset \div BLOCK_SIZE
           last == LastBlock(offset, n)
           fo == offset % BLOCK_SIZE
           lo == (offset + n - 1) % BLOCK_SIZE
           L == l * BLOCK_SIZE
           F == first * BLOCK_SIZE
           T == last * BLOCK_SIZE
<1>1. /\ first \in Nat /\ F \in Nat
      /\ fo \in 0..(BLOCK_SIZE - 1)
      /\ offset = F + fo
  BY DivMod
<1>2. /\ last \in Nat /\ T \in Nat
      /\ lo \in 0..(BLOCK_SIZE - 1)
      /\ offset + n - 1 = T + lo
  <2>1. offset + n - 1 \in Nat
    OBVIOUS
  <2> QED
    BY <2>1, DivMod DEF LastBlock
<1>3. /\ FirstIn(l, offset) = IF l = first THEN fo ELSE 0
      /\ LastIn(l, offset, n) = IF l = last THEN lo ELSE BLOCK_SIZE - 1
  BY DEF FirstIn, LastIn
<1>4. L \in Nat
  OBVIOUS
<1>5. (l < first => L + BLOCK_SIZE <= F) /\ (l > first => F + BLOCK_SIZE <= L)
  <2> HIDE DEF first
  <2> QED
    BY <1>1, Monotone
<1>6. (l < last => L + BLOCK_SIZE <= T) /\ (l > last => T + BLOCK_SIZE <= L)
  <2> HIDE DEF last
  <2> QED
    BY <1>2, Monotone
<1>7. (l = first => L = F) /\ (l = last => L = T)
  OBVIOUS
<1> HIDE DEF first, last, fo, lo, L, F, T
<1>8. l < first => L + o < offset
  BY <1>1, <1>4, <1>5
<1>9. l > last => L + o >= offset + n
  BY <1>2, <1>4, <1>6
<1>10. l >= first => (FirstIn(l, offset) <= o <=> offset <= L + o)
  BY <1>1, <1>3, <1>4, <1>5, <1>7
<1>11. l <= last => (o <= LastIn(l, offset, n) <=> L + o < offset + n)
  BY <1>2, <1>3, <1>4, <1>6, <1>7
<1> QED
  BY <1>4, <1>8, <1>9, <1>10, <1>11 DEF first, last, L

-----------------------------------------------------------------------------
(* Copying to blocks *)

\* The disk c that copying data to the blocks up to the given one leaves: byte o
\* of block l gets the byte of the data that belongs to its position, if there
\* is one; nothing else changes.
CopiedTo(c, d, blocks, offset, data, last) ==
    /\ c \in Disk
    /\ c.inode = d.inode
    /\ c.free = d.free
    /\ \A b \in Block \ Range(blocks) : c.block[b] = d.block[b]
    /\ \A l \in 0..(Len(blocks) - 1), o \in 0..(BLOCK_SIZE - 1) :
          c.block[blocks[l + 1]][o] =
              IF /\ l <= last
                 /\ offset <= l * BLOCK_SIZE + o
                 /\ l * BLOCK_SIZE + o < offset + Len(data)
              THEN data[l * BLOCK_SIZE + o - offset + 1]
              ELSE d.block[blocks[l + 1]][o]

\* That is what the loops of altfs_write do.
LEMMA CopiedEffect ==
    ASSUME NEW d \in Disk, NEW blocks \in Seq(Block), IsInjective(blocks),
           NEW offset \in Nat, NEW data \in Seq(Byte), data # << >>,
           NEW last \in Int, last < Len(blocks), last <= LastBlock(offset, Len(data))
    PROVE  CopiedTo(Copied(d, blocks, offset, data, last), d, blocks, offset, data, last)
<1> USE Constants
<1> DEFINE n == Len(data)
           first == offset \div BLOCK_SIZE
           before == CopiedBefore(offset, n)
           index(b) == CHOOSE l \in first..last : blocks[l + 1] = b
           copied(l, old) ==
             [o \in DOMAIN old |->
                 IF o >= FirstIn(l, offset) /\ o <= LastIn(l, offset, n)
                 THEN data[before[l] + o - FirstIn(l, offset) + 1]
                 ELSE old[o]]
           touched == {blocks[l + 1] : l \in first..last}
           new == [b \in Block |->
                     IF b \in touched THEN copied(index(b), d.block[b]) ELSE d.block[b]]
           c == Copied(d, blocks, offset, data, last)
           At(l, o) == IF /\ l <= last
                          /\ offset <= l * BLOCK_SIZE + o
                          /\ l * BLOCK_SIZE + o < offset + n
                       THEN data[l * BLOCK_SIZE + o - offset + 1]
                       ELSE d.block[blocks[l + 1]][o]
<1>1. c = [d EXCEPT !.block = new]
  BY DEF Copied
<1>2. n \in Nat \ {0}
  BY EmptySeq
<1>3. first \in Nat /\ first * BLOCK_SIZE \in Nat
  BY DivMod
<1>4. \A l \in first..last : l \in Nat /\ l + 1 \in 1..Len(blocks)
                             /\ blocks[l + 1] \in Block
                             /\ l \in first..LastBlock(offset, n)
  <2> HIDE DEF first
  <2>1. LastBlock(offset, n) \in Nat
    <3>1. offset + n - 1 \in Nat
      <4> HIDE DEF n
      <4> QED
        BY <1>2
    <3> QED
      BY <3>1, DivMod DEF LastBlock
  <2> QED
    BY <1>3, <2>1
<1>5. \A l \in first..last : index(blocks[l + 1]) = l
  <2> TAKE l \in first..last
  <2> DEFINE k == index(blocks[l + 1])
  <2>1. k \in first..last /\ blocks[k + 1] = blocks[l + 1]
    <3> HIDE DEF first
    <3> QED
      OBVIOUS
  <2> HIDE DEF k
  <2>2. k + 1 = l + 1
    <3>1. k + 1 \in DOMAIN blocks /\ l + 1 \in DOMAIN blocks
      <4> HIDE DEF first
      <4>1. k + 1 \in 1..Len(blocks) /\ l + 1 \in 1..Len(blocks)
        BY <1>4, <2>1
      <4> QED
        BY <4>1
    <3> QED
      BY <2>1, <3>1 DEF IsInjective
  <2>3. k = l
    BY <1>4, <2>1, <2>2
  <2> QED
    BY <2>3 DEF k
<1>6. d.block \in [Block -> [0..(BLOCK_SIZE - 1) -> Byte]]
  BY DEF Disk
<1>7. ASSUME NEW l \in first..last, NEW o \in 0..(BLOCK_SIZE - 1)
      PROVE  /\ copied(l, d.block[blocks[l + 1]])[o] = At(l, o)
             /\ At(l, o) \in Byte
  <2> DEFINE old == d.block[blocks[l + 1]]
             L == l * BLOCK_SIZE
  <2>1. old \in [0..(BLOCK_SIZE - 1) -> Byte]
    BY <1>4, <1>6
  <2>2. /\ L \in Nat
        /\ FirstIn(l, offset) \in 0..(BLOCK_SIZE - 1)
        /\ before[l] \in 0..(n - 1)
        /\ offset + before[l] = L + FirstIn(l, offset)
    <3>1. l \in first..LastBlock(offset, n)
      BY <1>4
    <3> HIDE DEF n, first
    <3>2. before = Before(offset, n)
      BY <1>2, CopiedBeforeIs
    <3> HIDE DEF before
    <3> QED
      BY <1>2, <3>1, <3>2, BeforeStep DEF first
  <2>3. /\ FirstIn(l, offset) <= o <=> offset <= L + o
        /\ o <= LastIn(l, offset, n) <=> L + o < offset + n
    BY <1>2, <1>3, <1>4, InPart
  <2>4. l <= last
    BY <1>3
  <2>5. copied(l, old)[o] = IF o >= FirstIn(l, offset) /\ o <= LastIn(l, offset, n)
                            THEN data[before[l] + o - FirstIn(l, offset) + 1]
                            ELSE old[o]
    BY <2>1
  <2>6. o >= FirstIn(l, offset) <=> FirstIn(l, offset) <= o
    BY <2>2
  <2>7. before[l] + o - FirstIn(l, offset) + 1 = L + o - offset + 1
    <3> DEFINE b == before[l]
               fi == FirstIn(l, offset)
    <3>1. L \in Nat /\ fi \in Nat /\ b \in Nat /\ offset + b = L + fi /\ o \in Nat
      BY <2>2
    <3> HIDE DEF L, b, fi
    <3>2. b + o - fi + 1 = L + o - offset + 1
      BY ONLY <3>1, offset \in Nat
    <3> QED
      BY <3>2 DEF b, fi
  <2>8. ASSUME offset <= L + o, L + o < offset + n PROVE L + o - offset + 1 \in 1..n
    <3> HIDE DEF L
    <3> QED
      BY <1>2, <2>2, <2>8
  <2>9. old[o] \in Byte
    BY <2>1
  <2>10. At(l, o) = IF offset <= L + o /\ L + o < offset + n
                    THEN data[L + o - offset + 1] ELSE old[o]
    BY <2>4
  <2> HIDE DEF L, old, copied, At, before
  <2>11. copied(l, old)[o] = At(l, o)
    BY <2>3, <2>5, <2>6, <2>7, <2>10
  <2>12. At(l, o) \in Byte
    BY <2>8, <2>9, <2>10
  <2> QED
    BY <2>11, <2>12 DEF old
<1>8. ASSUME NEW l \in first..last
      PROVE  new[blocks[l + 1]] = copied(l, d.block[blocks[l + 1]])
  <2>1. blocks[l + 1] \in touched /\ blocks[l + 1] \in Block
    BY <1>4
  <2> HIDE DEF touched, copied, index
  <2> QED
    BY <1>5, <2>1
<1>9. ASSUME NEW l \in first..last
      PROVE  copied(l, d.block[blocks[l + 1]]) \in [0..(BLOCK_SIZE - 1) -> Byte]
  <2>1. d.block[blocks[l + 1]] \in [0..(BLOCK_SIZE - 1) -> Byte]
    BY <1>4, <1>6
  <2>2. DOMAIN copied(l, d.block[blocks[l + 1]]) = 0..(BLOCK_SIZE - 1)
    BY <2>1
  <2>3. \A o \in 0..(BLOCK_SIZE - 1) : copied(l, d.block[blocks[l + 1]])[o] \in Byte
    BY <1>7
  <2>4. copied(l, d.block[blocks[l + 1]]) =
           [o \in 0..(BLOCK_SIZE - 1) |-> copied(l, d.block[blocks[l + 1]])[o]]
    BY <2>1
  <2> HIDE DEF copied
  <2> QED
    BY <2>3, <2>4
<1>10. new \in [Block -> [0..(BLOCK_SIZE - 1) -> Byte]]
  <2>1. ASSUME NEW b \in Block PROVE new[b] \in [0..(BLOCK_SIZE - 1) -> Byte]
    <3>1. CASE b \in touched
      <4>1. PICK l \in first..last : b = blocks[l + 1]
        BY <3>1
      <4> HIDE DEF new, copied
      <4> QED
        BY <4>1, <1>8, <1>9
    <3>2. CASE b \notin touched
      BY <1>6, <3>2
    <3> QED
      BY <3>1, <3>2
  <2>2. new = [b \in Block |-> new[b]]
    OBVIOUS
  <2> HIDE DEF new
  <2> QED
    BY <2>1, <2>2
<1>11. c \in Disk /\ c.inode = d.inode /\ c.free = d.free /\ c.block = new
  <2> HIDE DEF new, c
  <2> QED
    BY <1>1, <1>10 DEF Disk
<1>12. ASSUME NEW b \in Block \ Range(blocks) PROVE new[b] = d.block[b]
  <2>1. b \notin touched
    BY <1>4 DEF Range
  <2> QED
    BY <2>1
<1>13. ASSUME NEW l \in 0..(Len(blocks) - 1), NEW o \in 0..(BLOCK_SIZE - 1)
       PROVE  new[blocks[l + 1]][o] = At(l, o)
  <2>1. CASE l \in first..last
    <3> HIDE DEF new, copied, At
    <3> QED
      BY <1>7, <1>8, <2>1
  <2>2. CASE l \notin first..last
    <3>1. l + 1 \in DOMAIN blocks /\ blocks[l + 1] \in Block
      OBVIOUS
    <3>2. blocks[l + 1] \notin touched
      <4> SUFFICES ASSUME NEW k \in first..last, blocks[k + 1] = blocks[l + 1]
                   PROVE  FALSE
        OBVIOUS
      <4>1. k + 1 \in DOMAIN blocks /\ k \in Nat
        <5> HIDE DEF first
        <5> QED
          BY <1>4
      <4>2. k + 1 = l + 1
        BY <3>1, <4>1 DEF IsInjective
      <4> QED
        BY <2>2, <4>1, <4>2
    <3>3. new[blocks[l + 1]] = d.block[blocks[l + 1]]
      BY <3>1, <3>2
    <3>4. l <= last => l * BLOCK_SIZE + o < offset
      <4>1. l <= last => l < first
        <5> HIDE DEF first
        <5> QED
          BY <1>3, <2>2
      <4>2. l \in Nat /\ l < first => l * BLOCK_SIZE + o < offset
        <5> HIDE DEF n
        <5> QED
          BY <1>2, InPart
      <4> QED
        BY <4>1, <4>2
    <3>5. l * BLOCK_SIZE \in Nat
      OBVIOUS
    <3>6. At(l, o) = d.block[blocks[l + 1]][o]
      BY <3>4, <3>5
    <3> QED
      BY <3>3, <3>6
  <2> QED
    BY <2>1, <2>2
<1> HIDE DEF new, At, c
<1> QED
  BY <1>11, <1>12, <1>13 DEF c, At, CopiedTo

-----------------------------------------------------------------------------
(* Allocating blocks *)

\* A prefix of the order in which blocks are handed out.
LEMMA Prefix ==
    ASSUME NEW free, NEW order \in Seq(free), NEW k \in 0..Len(order)
    PROVE  /\ SubSeq(order, 1, k) \in Seq(free)
           /\ Len(SubSeq(order, 1, k)) = k
           /\ \A i \in 1..k : SubSeq(order, 1, k)[i] = order[i]
           /\ Range(SubSeq(order, 1, k)) = {order[i] : i \in 1..k}
           /\ Range(SubSeq(order, 1, k)) \subseteq free
<1> DEFINE s == SubSeq(order, 1, k)
<1>1. s \in Seq(free) /\ Len(s) = k /\ \A i \in 1..k : s[i] = order[i]
  <2>1. \A i \in 1..k : order[i] \in free
    BY ElementOfSeq
  <2> QED
    BY <2>1, SubSeqProperties
<1>2. DOMAIN s = 1..k
  BY <1>1
<1> HIDE DEF s
<1>3. Range(s) = {order[i] : i \in 1..k}
  BY <1>1, <1>2 DEF Range
<1>4. \A i \in 1..k : order[i] \in free
  BY ElementOfSeq
<1> QED
  BY <1>1, <1>3, <1>4 DEF s

\* s is blocks with the first k blocks of order appended.
IsAppended(s, blocks, order, k) ==
    /\ s \in Seq(Block)
    /\ Len(s) = Len(blocks) + k
    /\ \A i \in 1..Len(blocks) : s[i] = blocks[i]
    /\ \A i \in 1..k : s[Len(blocks) + i] = order[i]
    /\ IsInjective(s)
    /\ Range(s) = Range(blocks) \cup Range(SubSeq(order, 1, k))

\* Free blocks can be appended to the blocks of a file.
LEMMA Appended ==
    ASSUME NEW blocks \in Seq(Block), IsInjective(blocks),
           NEW free \in SUBSET Block, NEW order \in Seq(free), IsInjective(order),
           Range(blocks) \cap free = {},
           NEW k \in 0..Len(order)
    PROVE  IsAppended(blocks \o SubSeq(order, 1, k), blocks, order, k)
<1> DEFINE p == SubSeq(order, 1, k)
           s == blocks \o p
           m == Len(blocks)
<1>1. /\ p \in Seq(Block) /\ Len(p) = k
      /\ \A i \in 1..k : p[i] = order[i] /\ p[i] \in free
      /\ Range(p) \subseteq free
  <2>1. p \in Seq(free)
    BY Prefix
  <2>2. \A i \in 1..k : order[i] \in free
    BY ElementOfSeq
  <2> QED
    BY <2>1, <2>2, Prefix
<1> HIDE DEF p
<1>2. /\ s \in Seq(Block) /\ Len(s) = m + k /\ m \in Nat
      /\ \A i \in 1..m : s[i] = blocks[i]
      /\ \A i \in (m + 1)..(m + k) : s[i] = p[i - m]
  <2>1. /\ s \in Seq(Block) /\ Len(s) = m + Len(p)
        /\ \A i \in 1..(m + Len(p)) : s[i] = IF i <= m THEN blocks[i] ELSE p[i - m]
    BY <1>1, ConcatProperties
  <2>2. m \in Nat
    OBVIOUS
  <2> HIDE DEF s, m
  <2> QED
    BY <1>1, <2>1, <2>2
<1>3. \A i \in (m + 1)..(m + k) : i - m \in 1..k /\ s[i] = order[i - m] /\ s[i] \in free
  BY <1>1, <1>2
<1>4. Range(s) = Range(blocks) \cup Range(p)
  BY <1>1, RangeConcatenation
<1>5. IsInjective(s)
  <2> SUFFICES ASSUME NEW i \in 1..(m + k), NEW j \in 1..(m + k), s[i] = s[j]
               PROVE  i = j
    BY <1>2 DEF IsInjective
  <2>1. \A a \in 1..m : s[a] \in Range(blocks)
    BY <1>2 DEF Range
  <2> HIDE DEF s
  <2>2. CASE i \in 1..m /\ j \in 1..m
    BY <1>2, <2>2 DEF IsInjective
  <2>3. CASE i \notin 1..m /\ j \notin 1..m
    <3>1. i - m \in DOMAIN order /\ j - m \in DOMAIN order /\ order[i - m] = order[j - m]
      <4>1. i \in (m + 1)..(m + k) /\ j \in (m + 1)..(m + k)
        BY <1>2, <2>3
      <4>2. i - m \in 1..k /\ j - m \in 1..k /\ order[i - m] = order[j - m]
        BY <1>3, <4>1
      <4>3. DOMAIN order = 1..Len(order) /\ Len(order) \in Nat
        OBVIOUS
      <4> QED
        BY <4>2, <4>3
    <3>2. i - m = j - m
      BY <3>1 DEF IsInjective
    <3> QED
      BY <1>2, <3>2
  <2>4. CASE i \in 1..m /\ j \notin 1..m
    BY <1>2, <1>3, <2>1, <2>4
  <2>5. CASE i \notin 1..m /\ j \in 1..m
    BY <1>2, <1>3, <2>1, <2>5
  <2> QED
    BY <2>2, <2>3, <2>4, <2>5
<1>6. ASSUME NEW i \in 1..k PROVE s[m + i] = order[i]
  <2>1. m + i \in (m + 1)..(m + k) /\ (m + i) - m = i
    BY <1>2
  <2> QED
    BY <1>1, <1>2, <2>1
<1> QED
  BY <1>1, <1>2, <1>4, <1>5, <1>6 DEF p, IsAppended

\* What allocate_data_block does to the disk.
LEMMA AllocatedEffect ==
    ASSUME NEW d \in Disk, NEW order \in Seq(d.free), NEW k \in 0..Len(order)
    PROVE  LET a == Allocated(d, order, k)
               taken == Range(SubSeq(order, 1, k))
           IN /\ a \in Disk
              /\ a.inode = d.inode
              /\ a.free = d.free \ taken
              /\ \A b \in Block : a.block[b] = IF b \in taken THEN Zeros ELSE d.block[b]
<1> DEFINE taken == Range(SubSeq(order, 1, k))
           new == [b \in Block |-> IF b \in taken THEN Zeros ELSE d.block[b]]
           a == Allocated(d, order, k)
<1>1. a = [d EXCEPT !.free = @ \ taken, !.block = new]
  BY DEF Allocated
<1>2. Zeros \in [0..(BLOCK_SIZE - 1) -> Byte]
  BY FileAssumption DEF Zeros
<1>3. new \in [Block -> [0..(BLOCK_SIZE - 1) -> Byte]]
  <2>1. d.block \in [Block -> [0..(BLOCK_SIZE - 1) -> Byte]]
    BY DEF Disk
  <2> HIDE DEF taken
  <2> QED
    BY <1>2, <2>1
<1>4. \A b \in Block : new[b] = IF b \in taken THEN Zeros ELSE d.block[b]
  OBVIOUS
<1> HIDE DEF new, taken, a
<1>5. a \in Disk /\ a.inode = d.inode /\ a.free = d.free \ taken /\ a.block = new
  BY <1>1, <1>3 DEF Disk
<1> QED
  BY <1>4, <1>5 DEF a, taken

-----------------------------------------------------------------------------
(* Writing *)

\* What a place p holds after data was written at offset, given what it held.
After(data, offset, p, old) ==
    IF offset <= p /\ p < offset + Len(data) THEN data[p - offset + 1] ELSE old

\* A disk on which file f has its own blocks and is within its limit, and an
\* order in which its free blocks may be handed out.
CanWrite(d, order, f) ==
    /\ d \in Disk
    /\ f \in File
    /\ order \in Seq(d.free) /\ IsInjective(order)
    /\ IsInjective(d.inode[f].i_blocks)
    /\ Range(d.inode[f].i_blocks) \cap d.free = {}
    /\ Len(d.inode[f].i_blocks) <= MaxBlocks

\* How many of n bytes at offset are written to a file that then has m blocks:
\* none, because the blocks end before the data; or all, and no block is added
\* that they do not need; or as many as there is room for.
Fits(m, added, offset, n, r) ==
    \/ r = 0 /\ m <= offset \div BLOCK_SIZE
    \/ r = n /\ LastBlock(offset, n) < m /\ (added > 0 => LastBlock(offset, n) + 1 = m)
    \/ r \in 1..(n - 1) /\ offset + r = m * BLOCK_SIZE

\* What a write w does that takes the first `allocated` free blocks and appends
\* the first `added` of them to the file.
Wrote(d, order, f, offset, data, w, added, allocated) ==
    LET node == d.inode[f]
        have == Len(node.i_blocks)
        end == offset + w.returned
        blocks == node.i_blocks \o SubSeq(order, 1, added)
    IN /\ added \in 0..allocated
       /\ allocated \in 0..Len(order)
       /\ have + added <= MaxBlocks
       /\ w.lost <=> added # allocated
       /\ w.hole <=> w.returned = 0 /\ offset > node.i_file_size
       /\ w.disk \in Disk
       /\ w.disk.free = d.free \ Range(SubSeq(order, 1, allocated))
       /\ w.disk.inode = [d.inode EXCEPT ![f] = [node EXCEPT
              !.i_blocks = blocks,
              !.i_file_size = IF end > node.i_file_size THEN end ELSE node.i_file_size]]
       /\ \A b \in Block \ (Range(node.i_blocks) \cup d.free) : w.disk.block[b] = d.block[b]
       /\ \A l \in 0..(have + added - 1), o \in 0..(BLOCK_SIZE - 1) :
             w.disk.block[blocks[l + 1]][o] =
                 After(data, offset, l * BLOCK_SIZE + o,
                       IF l < have THEN d.block[node.i_blocks[l + 1]][o] ELSE 0)
       /\ Fits(have + added, added, offset, Len(data), w.returned)

\* altfs_write does that, for some numbers of blocks, whatever the free list and the
\* limit of the inode leave it.
LEMMA WriteEffect ==
    ASSUME NEW d, NEW order, NEW f, CanWrite(d, order, f),
           NEW offset \in Nat, NEW data \in Seq(Byte), data # << >>
    PROVE  \E added \in Nat, allocated \in Nat :
              Wrote(d, order, f, offset, data,
                    altfs_write(d, order, f, offset, data), added, allocated)
<1> USE Constants
<1> DEFINE node == d.inode[f]
           n == Len(data)
           first == offset \div BLOCK_SIZE
           last == LastBlock(offset, n)
           have == Len(node.i_blocks)
           new == IF last >= have THEN last - have + 1 ELSE 0
           allocated == LeastOf(LeastOf(new, Len(order)), MaxBlocks - have + 1)
           added == LeastOf(allocated, MaxBlocks - have)
           taken == SubSeq(order, 1, added)
           blocks == node.i_blocks \o taken
           reached == LeastOf(last, have + added - 1)
           before == CopiedBefore(offset, n)
           bytes == IF reached < first THEN 0 ELSE before[reached + 1]
           fresh == Allocated(d, order, allocated)
           written == Copied(fresh, blocks, offset, data, reached)
           end == offset + bytes
           w == altfs_write(d, order, f, offset, data)
<1>0. /\ d \in Disk /\ f \in File
      /\ order \in Seq(d.free) /\ IsInjective(order)
      /\ IsInjective(node.i_blocks) /\ Range(node.i_blocks) \cap d.free = {}
      /\ have <= MaxBlocks
  BY DEF CanWrite
<1>1. /\ node.i_blocks \in Seq(Block) /\ node \in Inode /\ d.free \in SUBSET Block
      /\ d.inode \in [File -> Inode]
      /\ node.i_file_size \in Nat
  BY <1>0 DEF Disk, Inode
<1>2. n \in Nat \ {0} /\ have \in Nat /\ Len(order) \in Nat
  BY <1>0, <1>1, EmptySeq, LenProperties
<1>3. first \in Nat /\ last \in Nat /\ first <= last
  <2>1. offset + n - 1 \in Nat
    BY <1>2
  <2>2. first \in Nat /\ last \in Nat
    BY <2>1, DivMod DEF LastBlock
  <2>3. ASSUME last < first PROVE FALSE
    <3>2. /\ last * BLOCK_SIZE + BLOCK_SIZE <= first * BLOCK_SIZE
          /\ last * BLOCK_SIZE \in Nat /\ first * BLOCK_SIZE \in Nat
      BY <2>2, <2>3, Monotone
    <3>3. first * BLOCK_SIZE <= offset
      BY DivMod
    <3>4. offset + n - 1 < last * BLOCK_SIZE + BLOCK_SIZE
      BY <2>1, DivMod DEF LastBlock
    <3> HIDE DEF first, last, n
    <3> QED
      BY <1>2, <3>2, <3>3, <3>4
  <2> QED
    BY <2>2, <2>3
<1>4. /\ w.returned = bytes
      /\ w.lost = (allocated > added)
      /\ w.hole = (bytes = 0 /\ offset > node.i_file_size)
      /\ w.disk = [written EXCEPT !.inode[f] = [node EXCEPT
              !.i_blocks = blocks,
              !.i_file_size = IF end > node.i_file_size THEN end ELSE node.i_file_size]]
  BY DEF altfs_write
<1> HIDE DEF n, first, last, have, node, w
<1>5. /\ allocated \in Nat /\ added \in Nat
      /\ added <= allocated /\ allocated <= Len(order)
      /\ have + added <= MaxBlocks
      /\ reached \in Int /\ reached < have + added /\ reached <= last
      /\ reached = last \/ reached = have + added - 1
      /\ added > 0 => have + added <= last + 1
  BY <1>0, <1>2, <1>3 DEF LeastOf
<1>6. allocated > added <=> added # allocated
  BY <1>5
<1> HIDE DEF allocated, added, reached
<1>7. /\ fresh \in Disk /\ fresh.inode = d.inode
      /\ fresh.free = d.free \ Range(SubSeq(order, 1, allocated))
      /\ \A b \in Block : fresh.block[b] =
            IF b \in Range(SubSeq(order, 1, allocated)) THEN Zeros ELSE d.block[b]
  BY <1>0, <1>2, <1>5, AllocatedEffect
<1>8. /\ blocks \in Seq(Block) /\ Len(blocks) = have + added
      /\ \A i \in 1..have : blocks[i] = node.i_blocks[i]
      /\ \A i \in 1..added : blocks[have + i] = order[i]
      /\ IsInjective(blocks)
      /\ Range(blocks) = Range(node.i_blocks) \cup Range(taken)
  <2>1. added \in 0..Len(order)
    BY <1>2, <1>5
  <2>2. IsAppended(blocks, node.i_blocks, order, added)
    BY <1>0, <1>1, <2>1, Appended, Zenon
  <2> QED
    BY <2>2 DEF IsAppended, have
<1>9. Range(taken) \subseteq Range(SubSeq(order, 1, allocated))
      /\ Range(SubSeq(order, 1, allocated)) \subseteq d.free
      /\ \A i \in 1..added : order[i] \in Range(SubSeq(order, 1, allocated))
  <2>1. added \in 0..Len(order) /\ allocated \in 0..Len(order)
    BY <1>2, <1>5
  <2>2. Range(taken) = {order[i] : i \in 1..added}
    BY <1>0, <2>1, Prefix
  <2>3. /\ Range(SubSeq(order, 1, allocated)) = {order[i] : i \in 1..allocated}
        /\ Range(SubSeq(order, 1, allocated)) \subseteq d.free
    BY <1>0, <2>1, Prefix
  <2>4. \A i \in 1..added : i \in 1..allocated
    BY <1>5
  <2> QED
    BY <2>2, <2>3, <2>4
<1> HIDE DEF fresh, blocks, taken
<1>10. /\ written \in Disk /\ written.inode = d.inode /\ written.free = fresh.free
       /\ \A b \in Block \ Range(blocks) : written.block[b] = fresh.block[b]
       /\ \A l \in 0..(Len(blocks) - 1), o \in 0..(BLOCK_SIZE - 1) :
             written.block[blocks[l + 1]][o] =
                 IF /\ l <= reached
                    /\ offset <= l * BLOCK_SIZE + o
                    /\ l * BLOCK_SIZE + o < offset + Len(data)
                 THEN data[l * BLOCK_SIZE + o - offset + 1]
                 ELSE fresh.block[blocks[l + 1]][o]
  <2>1. reached < Len(blocks) /\ reached <= LastBlock(offset, Len(data))
    BY <1>5, <1>8 DEF last, n
  <2>2. CopiedTo(written, fresh, blocks, offset, data, reached)
    BY <1>5, <1>7, <1>8, <2>1, CopiedEffect, Zenon
  <2> HIDE DEF written
  <2> QED
    BY <1>7, <2>2, Zenon DEF CopiedTo
<1> HIDE DEF written
<1>11. bytes \in 0..n
       /\ \/ bytes = 0 /\ have + added <= first
          \/ bytes = n /\ last < have + added /\ (added > 0 => last + 1 = have + added)
          \/ bytes \in 1..(n - 1) /\ offset + bytes = (have + added) * BLOCK_SIZE
  <2>1. CASE reached < first
    <3>1. reached = have + added - 1
      BY <1>3, <1>5, <2>1
    <3> QED
      BY <1>2, <1>3, <1>5, <2>1, <3>1
  <2>2. CASE reached = last
    <3>1. before = Before(offset, n)
      BY <1>2, CopiedBeforeIs
    <3>2. before[last + 1] = n
      BY <1>3, <3>1 DEF Before, first, last
    <3>3. bytes = n
      BY <1>3, <2>2, <3>2
    <3>4. last < have + added
      BY <1>5, <2>2
    <3>5. added > 0 => last + 1 = have + added
      BY <1>2, <1>3, <1>5, <2>2, <3>4
    <3> HIDE DEF bytes
    <3> QED
      BY <1>2, <3>3, <3>4, <3>5
  <2>3. CASE reached # last /\ ~ (reached < first)
    <3>1. reached = have + added - 1 /\ have + added \in (first + 1)..last
      BY <1>2, <1>3, <1>5, <2>3
    <3>2. before = Before(offset, n)
      BY <1>2, CopiedBeforeIs
    <3> DEFINE r == have + added
    <3>3. bytes = before[r]
      BY <1>2, <1>5, <2>3, <3>1
    <3>4. r \in first..last /\ r # first /\ r # last + 1 /\ r \in Nat
      BY <1>2, <1>3, <1>5, <3>1
    <3>5. before[r] = r * BLOCK_SIZE - offset
      BY <1>3, <3>2, <3>4 DEF Before, first, last
    <3>6. before[r] \in 0..(n - 1)
      BY <1>2, <3>2, <3>4, BeforeStep DEF first, last
    <3>7. r - 1 \in first..last /\ (r - 1) + 1 = r
      BY <1>3, <3>1, <3>4
    <3>8. before[r] \in 1..n
      BY <1>2, <3>2, <3>7, BeforeStep DEF first, last
    <3>9. r * BLOCK_SIZE \in Nat
      BY <3>4
    <3> HIDE DEF r, before, bytes
    <3>10. bytes \in 1..(n - 1) /\ offset + bytes = r * BLOCK_SIZE
      BY <1>2, <3>3, <3>5, <3>6, <3>8, <3>9
    <3> QED
      BY <1>2, <3>10 DEF r
  <2> QED
    BY <1>5, <2>1, <2>2, <2>3
<1> HIDE DEF bytes
<1>12. /\ w.disk \in Disk
       /\ w.disk.free = d.free \ Range(SubSeq(order, 1, allocated))
       /\ w.disk.block = written.block
       /\ w.disk.inode = [d.inode EXCEPT ![f] = [node EXCEPT
              !.i_blocks = blocks,
              !.i_file_size = IF end > node.i_file_size THEN end ELSE node.i_file_size]]
  <2> DEFINE size == IF end > node.i_file_size THEN end ELSE node.i_file_size
             inode == [node EXCEPT !.i_blocks = blocks, !.i_file_size = size]
  <2>1. size \in Nat
    BY <1>1, <1>2, <1>11
  <2>2. inode \in Inode
    <3> HIDE DEF size
    <3> QED
      BY <1>1, <1>8, <2>1 DEF Inode
  <2>3. w.disk = [written EXCEPT !.inode[f] = inode]
    BY <1>4
  <2> HIDE DEF inode, size
  <2>4. [d.inode EXCEPT ![f] = inode] \in [File -> Inode]
    BY <1>1, <2>2
  <2>5. w.disk = [written EXCEPT !.inode = [d.inode EXCEPT ![f] = inode]]
    BY <1>10, <2>3 DEF Disk
  <2>6. /\ w.disk \in Disk /\ w.disk.free = written.free /\ w.disk.block = written.block
        /\ w.disk.inode = [d.inode EXCEPT ![f] = inode]
    BY <1>10, <2>4, <2>5 DEF Disk
  <2> QED
    BY <1>7, <1>10, <2>6 DEF inode, size
<1>13. ASSUME NEW b \in Block \ (Range(node.i_blocks) \cup d.free)
       PROVE  w.disk.block[b] = d.block[b]
  <2>1. b \notin Range(blocks) /\ b \notin Range(SubSeq(order, 1, allocated))
    BY <1>8, <1>9
  <2> QED
    BY <1>7, <1>10, <1>12, <2>1
<1>14. ASSUME NEW l \in 0..(have + added - 1), NEW o \in 0..(BLOCK_SIZE - 1)
       PROVE  w.disk.block[blocks[l + 1]][o] =
                 After(data, offset, l * BLOCK_SIZE + o,
                       IF l < have THEN d.block[node.i_blocks[l + 1]][o] ELSE 0)
  <2> DEFINE old == IF l < have THEN d.block[node.i_blocks[l + 1]][o] ELSE 0
             L == l * BLOCK_SIZE
  <2>1. l \in Nat /\ l + 1 \in 1..(have + added)
    BY <1>2, <1>5
  <2>2. fresh.block[blocks[l + 1]][o] = old
    <3>1. CASE l < have
      <4>1. l + 1 \in 1..have
        BY <1>2, <2>1, <3>1
      <4>2. blocks[l + 1] = node.i_blocks[l + 1] /\ blocks[l + 1] \in Range(node.i_blocks)
        BY <1>1, <1>8, <4>1 DEF Range, have
      <4>3. blocks[l + 1] \in Block
        BY <1>1, <4>1, <4>2, ElementOfSeq DEF have
      <4>4. blocks[l + 1] \notin Range(SubSeq(order, 1, allocated))
        BY <1>0, <1>9, <4>2
      <4> QED
        BY <1>7, <3>1, <4>2, <4>3, <4>4
    <3>2. CASE ~ (l < have)
      <4>1. PICK i \in 1..added : l + 1 = have + i
        <5>1. l + 1 - have \in 1..added /\ l + 1 = have + (l + 1 - have)
          BY <1>2, <1>5, <2>1, <3>2
        <5> QED
          BY <5>1
      <4>2. blocks[l + 1] = order[i]
        BY <1>8, <4>1
      <4>3. blocks[l + 1] \in Range(SubSeq(order, 1, allocated))
        BY <1>9, <4>1, <4>2
      <4>4. blocks[l + 1] \in Block
        BY <1>1, <1>9, <4>3
      <4>5. fresh.block[blocks[l + 1]] = Zeros
        BY <1>7, <4>3, <4>4
      <4> QED
        BY <3>2, <4>5 DEF Zeros
    <3> QED
      BY <3>1, <3>2
  <2>3. l > last => L + o >= offset + n
    BY <1>2, <2>1, InPart DEF last
  <2>4. L \in Nat
    BY <2>1
  <2>5. written.block[blocks[l + 1]][o] =
           IF l <= reached /\ offset <= L + o /\ L + o < offset + n
           THEN data[L + o - offset + 1]
           ELSE fresh.block[blocks[l + 1]][o]
    <3>1. l \in 0..(Len(blocks) - 1)
      <4>1. Len(blocks) = have + added
        BY <1>8
      <4> QED
        BY <1>2, <1>5, <2>1, <4>1
    <3> QED
      BY <1>10, <3>1, Zenon DEF n
  <2> HIDE DEF L, old
  <2>6. offset <= L + o /\ L + o < offset + n => l <= reached
    BY <1>2, <1>3, <1>5, <2>1, <2>3, <2>4
  <2>7. written.block[blocks[l + 1]][o] = After(data, offset, L + o, old)
    <3> DEFINE in == offset <= L + o /\ L + o < offset + n
               byte == data[(L + o) - offset + 1]
               there == written.block[blocks[l + 1]][o]
    <3>1. After(data, offset, L + o, old) = IF in THEN byte ELSE old
      BY DEF After, n
    <3>2. there = IF l <= reached /\ in THEN byte ELSE old
      <4>1. (L + o) - offset + 1 = L + o - offset + 1
        BY <2>4
      <4> QED
        BY <2>2, <2>5, <4>1, Zenon
    <3> HIDE DEF in, byte, there
    <3>3. there = IF in THEN byte ELSE old
      BY <2>6, <3>2 DEF in
    <3> QED
      BY <3>1, <3>3 DEF there
  <2> QED
    BY <1>12, <2>7 DEF L, old
<1>15. added \in 0..allocated /\ allocated \in 0..Len(order)
  BY <1>2, <1>5
<1>16. Wrote(d, order, f, offset, data, w, added, allocated)
  BY <1>4, <1>5, <1>6, <1>11, <1>12, <1>13, <1>14, <1>15
     DEF Wrote, Fits, node, have, n, first, last, blocks, taken
<1> QED
  BY <1>5, <1>16 DEF w

\* What Does adds to the history.
Labels(call) == {label \in {"hole", "limit"} : \/ label = "hole" /\ call.hole
                                               \/ label = "limit" /\ call.lost}

\* What altfs_write tells of a write.
LEMMA WriteFields ==
    ASSUME NEW d, NEW order, NEW f, NEW offset, NEW data
    PROVE  DOMAIN altfs_write(d, order, f, offset, data)
              = {"returned", "lost", "hole", "disk", "cuts"}
BY DEF altfs_write

\* What a crash in a write leaves: the first blocks of the file may be written
\* and blocks be taken from the free list, but the inode is as it was.
Cut(c, d, order, f, offset, data, l, k) ==
    /\ l \in Int /\ k \in 0..Len(order)
    /\ l < Len(d.inode[f].i_blocks) /\ l <= LastBlock(offset, Len(data))
    /\ c \in Disk
    /\ c.inode = d.inode
    /\ c.free = d.free \ Range(SubSeq(order, 1, k))
    /\ \A b \in Block \ (Range(d.inode[f].i_blocks) \cup d.free) : c.block[b] = d.block[b]
    /\ \A m \in 0..(Len(d.inode[f].i_blocks) - 1), o \in 0..(BLOCK_SIZE - 1) :
          c.block[d.inode[f].i_blocks[m + 1]][o] =
              IF /\ m <= l
                 /\ offset <= m * BLOCK_SIZE + o
                 /\ m * BLOCK_SIZE + o < offset + Len(data)
              THEN data[m * BLOCK_SIZE + o - offset + 1]
              ELSE d.block[d.inode[f].i_blocks[m + 1]][o]

\* Every cut of altfs_write is of that form.
LEMMA CutEffect ==
    ASSUME NEW d, NEW order, NEW f, CanWrite(d, order, f),
           NEW offset \in Nat, NEW data \in Seq(Byte), data # << >>,
           NEW c \in altfs_write(d, order, f, offset, data).cuts
    PROVE  \E l \in Int, k \in Nat : Cut(c, d, order, f, offset, data, l, k)
<1> USE Constants
<1> DEFINE node == d.inode[f]
           nb == node.i_blocks
           last == LastBlock(offset, Len(data))
           have == Len(nb)
           new == IF last >= have THEN last - have + 1 ELSE 0
           allocated == LeastOf(LeastOf(new, Len(order)), MaxBlocks - have + 1)
           inplace(l) == Copied(d, nb, offset, data, l)
           top == LeastOf(last, have - 1)
<1>0. /\ d \in Disk /\ f \in File
      /\ order \in Seq(d.free) /\ IsInjective(order)
      /\ IsInjective(nb) /\ Range(nb) \cap d.free = {}
      /\ have <= MaxBlocks
  BY DEF CanWrite
<1>1. nb \in Seq(Block)
  BY <1>0 DEF Disk, Inode
<1>2. have \in Nat /\ Len(order) \in Nat /\ Len(data) \in Nat \ {0}
  BY <1>0, <1>1, EmptySeq, LenProperties
<1>3. last \in Nat
  <2>1. offset + Len(data) - 1 \in Nat
    BY <1>2
  <2> QED
    BY <2>1, DivMod DEF LastBlock
<1>4. offset \div BLOCK_SIZE \in Nat
  BY DivMod
<1>5. \/ \E l \in (offset \div BLOCK_SIZE)..top : c = inplace(l)
      \/ \E k \in 1..allocated : c = Allocated(inplace(top), order, k)
  BY DEF altfs_write
<1> HIDE DEF node, nb, last, have, inplace
<1>6. allocated \in 0..Len(order) /\ top \in Int /\ top <= last /\ top < have
  BY <1>0, <1>2, <1>3 DEF LeastOf
<1> HIDE DEF top, allocated
<1>7. ASSUME NEW l \in Int, l <= top
      PROVE  CopiedTo(inplace(l), d, nb, offset, data, l)
  <2>1. l < Len(nb) /\ l <= LastBlock(offset, Len(data))
    BY <1>2, <1>3, <1>6, <1>7 DEF have, last
  <2> QED
    BY <1>0, <1>1, <2>1, CopiedEffect, Zenon DEF inplace
<1>8. CASE \E l \in (offset \div BLOCK_SIZE)..top : c = inplace(l)
  <2>1. PICK l \in (offset \div BLOCK_SIZE)..top : c = inplace(l)
    BY <1>8
  <2>2. l \in Int /\ l <= top /\ l < have /\ l <= last
    BY <1>2, <1>3, <1>4, <1>6
  <2>3. CopiedTo(c, d, nb, offset, data, l)
    BY <1>7, <2>1, <2>2
  <2>4. Range(SubSeq(order, 1, 0)) = {} /\ 0 \in 0..Len(order)
    <3>1. 0 \in 0..Len(order)
      BY <1>2
    <3>2. Range(SubSeq(order, 1, 0)) = {order[i] : i \in 1..0}
      BY <1>0, <3>1, Prefix
    <3> QED
      BY <3>1, <3>2
  <2>5. Cut(c, d, order, f, offset, data, l, 0)
    BY <2>2, <2>3, <2>4 DEF Cut, CopiedTo, nb, node, have, last
  <2> QED
    BY <2>2, <2>5
<1>9. CASE \E k \in 1..allocated : c = Allocated(inplace(top), order, k)
  <2> DEFINE p == inplace(top)
  <2>1. PICK k \in 1..allocated : c = Allocated(p, order, k)
    BY <1>9
  <2>2. k \in 0..Len(order) /\ k \in Nat
    BY <1>2, <1>6
  <2>3. CopiedTo(p, d, nb, offset, data, top)
    BY <1>6, <1>7
  <2> HIDE DEF p
  <2>4. p \in Disk /\ order \in Seq(p.free) /\ p.free = d.free /\ p.inode = d.inode
    BY <1>0, <2>3 DEF CopiedTo
  <2>5. /\ c \in Disk /\ c.inode = d.inode
        /\ c.free = d.free \ Range(SubSeq(order, 1, k))
        /\ \A b \in Block : c.block[b] =
              IF b \in Range(SubSeq(order, 1, k)) THEN Zeros ELSE p.block[b]
    BY <2>1, <2>2, <2>4, AllocatedEffect
  <2>6. Range(SubSeq(order, 1, k)) \subseteq d.free
    BY <1>0, <2>2, Prefix
  <2>7. \A b \in Block \ d.free : c.block[b] = p.block[b]
    BY <2>5, <2>6
  <2>8. \A m \in 0..(Len(nb) - 1) : nb[m + 1] \in Block \ d.free
    <3> TAKE m \in 0..(Len(nb) - 1)
    <3>1. m + 1 \in 1..Len(nb)
      BY <1>2 DEF have
    <3>2. nb[m + 1] \in Block /\ nb[m + 1] \in Range(nb)
      BY <1>1, <3>1, ElementOfSeq DEF Range
    <3> QED
      BY <1>0, <3>2
  <2>9. /\ \A b \in Block \ (Range(nb) \cup d.free) : c.block[b] = d.block[b]
        /\ \A m \in 0..(Len(nb) - 1), o \in 0..(BLOCK_SIZE - 1) :
              c.block[nb[m + 1]][o] =
                  IF /\ m <= top
                     /\ offset <= m * BLOCK_SIZE + o
                     /\ m * BLOCK_SIZE + o < offset + Len(data)
                  THEN data[m * BLOCK_SIZE + o - offset + 1]
                  ELSE d.block[nb[m + 1]][o]
    <3>1. \A b \in Block \ Range(nb) : p.block[b] = d.block[b]
      BY <2>3 DEF CopiedTo
    <3>2. \A b \in Block \ (Range(nb) \cup d.free) : c.block[b] = d.block[b]
      BY <2>7, <3>1
    <3>3. \A m \in 0..(Len(nb) - 1) : c.block[nb[m + 1]] = p.block[nb[m + 1]]
      BY <2>7, <2>8
    <3>4. ASSUME NEW m \in 0..(Len(nb) - 1), NEW o \in 0..(BLOCK_SIZE - 1)
          PROVE  c.block[nb[m + 1]][o] =
                  IF /\ m <= top
                     /\ offset <= m * BLOCK_SIZE + o
                     /\ m * BLOCK_SIZE + o < offset + Len(data)
                  THEN data[m * BLOCK_SIZE + o - offset + 1]
                  ELSE d.block[nb[m + 1]][o]
      <4>1. c.block[nb[m + 1]][o] = p.block[nb[m + 1]][o]
        BY <3>3
      <4>2. p.block[nb[m + 1]][o] =
                  IF /\ m <= top
                     /\ offset <= m * BLOCK_SIZE + o
                     /\ m * BLOCK_SIZE + o < offset + Len(data)
                  THEN data[m * BLOCK_SIZE + o - offset + 1]
                  ELSE d.block[nb[m + 1]][o]
        BY <2>3, Zenon DEF CopiedTo
      <4> QED
        BY ONLY <4>1, <4>2, Zenon
    <3> QED
      BY ONLY <3>2, <3>4, Zenon
  <2>10. Cut(c, d, order, f, offset, data, top, k)
    BY <1>6, <2>2, <2>5, <2>9 DEF Cut, nb, node, have, last
  <2> QED
    BY <1>6, <2>2, <2>10
<1> QED
  BY <1>5, <1>8, <1>9

-----------------------------------------------------------------------------
(* Truncating *)

\* Kept(length) is the number of blocks that length bytes need.
LEMMA KeptBounds ==
    ASSUME NEW length \in Nat
    PROVE  /\ Kept(length) \in Nat
           /\ Kept(length) * BLOCK_SIZE \in Nat
           /\ length <= Kept(length) * BLOCK_SIZE
           /\ Kept(length) = 0 <=> length = 0
           /\ length # 0 => /\ Kept(length) - 1 = (length - 1) \div BLOCK_SIZE
                            /\ (Kept(length) - 1) * BLOCK_SIZE \in Nat
                            /\ (Kept(length) - 1) * BLOCK_SIZE + ((length - 1) % BLOCK_SIZE)
                                  = length - 1
                            /\ Kept(length) * BLOCK_SIZE
                                  = (Kept(length) - 1) * BLOCK_SIZE + BLOCK_SIZE
<1> USE Constants
<1>1. CASE length = 0
  BY <1>1 DEF Kept
<1>2. CASE length # 0
  <2> DEFINE q == (length - 1) \div BLOCK_SIZE
             r == (length - 1) % BLOCK_SIZE
  <2>1. length - 1 \in Nat
    BY <1>2
  <2>2. /\ q \in Nat /\ r \in 0..(BLOCK_SIZE - 1) /\ q * BLOCK_SIZE \in Nat
        /\ length - 1 = q * BLOCK_SIZE + r
    BY <2>1, DivMod
  <2>3. Kept(length) = q + 1
    <3>1. 0 + length - 1 = length - 1
      OBVIOUS
    <3> QED
      BY <1>2, <3>1 DEF Kept, LastBlock
  <2> HIDE DEF q, r
  <2>4. (q + 1) * BLOCK_SIZE = q * BLOCK_SIZE + BLOCK_SIZE /\ (q + 1) - 1 = q
    BY <2>2
  <2>5. length <= q * BLOCK_SIZE + BLOCK_SIZE
    BY <2>2
  <2> QED
    BY <1>2, <2>2, <2>3, <2>4, <2>5 DEF q, r
<1> QED
  BY <1>1, <1>2

\* Conversely, a number of blocks that is enough and not more than needed is Kept(length).
LEMMA KeptIs ==
    ASSUME NEW length \in Nat, NEW k \in Nat,
           length <= k * BLOCK_SIZE,
           k # 0 => (k - 1) * BLOCK_SIZE < length
    PROVE  Kept(length) = k
<1> USE Constants
<1> DEFINE m == Kept(length)
<1>1. /\ m \in Nat /\ length <= m * BLOCK_SIZE /\ (m = 0 <=> length = 0)
      /\ m # 0 => (m - 1) * BLOCK_SIZE \in Nat /\ (m - 1) * BLOCK_SIZE < length
  <2>1. m # 0 => (length - 1) % BLOCK_SIZE \in Nat /\ length \in Nat \ {0}
    <3>1. m # 0 => length - 1 \in Nat
      BY KeptBounds
    <3> QED
      BY <3>1, DivMod, KeptBounds
  <2> QED
    <3>1. m \in Nat /\ length <= m * BLOCK_SIZE /\ (m = 0 <=> length = 0)
      BY KeptBounds
    <3>2. m # 0 => /\ (m - 1) * BLOCK_SIZE \in Nat
                   /\ (m - 1) * BLOCK_SIZE + ((length - 1) % BLOCK_SIZE) = length - 1
      BY KeptBounds
    <3> DEFINE r == (length - 1) % BLOCK_SIZE
    <3> HIDE DEF m, r
    <3> QED
      BY <2>1, <3>1, <3>2 DEF r
<1> HIDE DEF m
<1>2. ASSUME m < k PROVE FALSE
  <2>1. k - 1 \in Nat /\ k # 0 /\ m <= k - 1
    BY <1>1, <1>2
  <2>2. m * BLOCK_SIZE <= (k - 1) * BLOCK_SIZE
    <3>1. CASE m = k - 1
      BY <1>1, <3>1
    <3>2. CASE m < k - 1
      BY <1>1, <2>1, <3>2, Monotone
    <3> QED
      BY <1>1, <2>1, <3>1, <3>2
  <2>3. m * BLOCK_SIZE \in Nat /\ (k - 1) * BLOCK_SIZE \in Nat
    BY <1>1, <2>1
  <2> QED
    BY <1>1, <2>1, <2>2, <2>3
<1>3. ASSUME k < m PROVE FALSE
  <2>1. m - 1 \in Nat /\ m # 0 /\ k <= m - 1
    BY <1>1, <1>3
  <2>2. k * BLOCK_SIZE <= (m - 1) * BLOCK_SIZE
    <3>1. CASE k = m - 1
      BY <1>1, <2>1, <3>1
    <3>2. CASE k < m - 1
      BY <1>1, <2>1, <3>2, Monotone
    <3> QED
      BY <1>1, <2>1, <3>1, <3>2
  <2>3. k * BLOCK_SIZE \in Nat /\ (m - 1) * BLOCK_SIZE \in Nat
    BY <1>1, <2>1
  <2> QED
    BY <1>1, <2>1, <2>2, <2>3
<1> QED
  BY <1>1, <1>2, <1>3 DEF m

\* The blocks of a file that is long enough.
LEMMA ShortEnough ==
    ASSUME NEW length \in Nat, NEW have \in Nat,
           ~ (length > 0 /\ LastBlock(0, length) >= have)
    PROVE  Kept(length) <= have
<1> USE Constants
<1>1. CASE length = 0
  BY <1>1 DEF Kept
<1>2. CASE length # 0
  <2>1. length - 1 \in Nat /\ 0 + length - 1 = length - 1
    BY <1>2
  <2>2. LastBlock(0, length) \in Nat
    BY <2>1, DivMod DEF LastBlock
  <2>3. Kept(length) = LastBlock(0, length) + 1
    BY <1>2 DEF Kept
  <2> QED
    BY <1>2, <2>2, <2>3
<1> QED
  BY <1>1, <1>2

\* What a truncation to a length the file has leaves.
ShrunkTo(s, d, f, length) ==
    LET blocks == d.inode[f].i_blocks
    IN /\ s \in Disk
       /\ s.inode = [d.inode EXCEPT ![f] = [d.inode[f] EXCEPT
              !.i_blocks = SubSeq(blocks, 1, Kept(length)), !.i_file_size = length]]
       /\ s.free = d.free \cup {blocks[i] : i \in (Kept(length) + 1)..Len(blocks)}
       /\ \A b \in Block \ Range(blocks) : s.block[b] = d.block[b]
       /\ \A l \in 0..(Kept(length) - 1), o \in 0..(BLOCK_SIZE - 1) :
             s.block[blocks[l + 1]][o] =
                 IF l * BLOCK_SIZE + o >= length THEN 0 ELSE d.block[blocks[l + 1]][o]

\* Shrunk does that, clearing the rest of the last block only.
LEMMA ShrunkEffect ==
    ASSUME NEW d \in Disk, NEW f \in File, IsInjective(d.inode[f].i_blocks),
           NEW length \in Nat, Kept(length) <= Len(d.inode[f].i_blocks)
    PROVE  ShrunkTo(Shrunk(d, f, length), d, f, length)
<1> USE Constants
<1> DEFINE node == d.inode[f]
           blocks == node.i_blocks
           k == Kept(length)
           last == blocks[k]
           from == ((length - 1) % BLOCK_SIZE) + 1
           s == Shrunk(d, f, length)
           inode == [node EXCEPT !.i_blocks = SubSeq(blocks, 1, k), !.i_file_size = length]
<1>1. blocks \in Seq(Block) /\ node \in Inode /\ Len(blocks) \in Nat
      /\ d.block \in [Block -> [0..(BLOCK_SIZE - 1) -> Byte]]
      /\ d.inode \in [File -> Inode] /\ d.free \in SUBSET Block
  BY DEF Disk, Inode
<1>2. k \in Nat /\ k <= Len(blocks) /\ (k = 0 <=> length = 0)
  BY KeptBounds
<1>3. s = [inode |-> [d.inode EXCEPT ![f] = inode],
           block |-> IF length = 0 THEN d.block
                     ELSE [d.block EXCEPT ![last] = Cleared(d.block[last], from)],
           free |-> d.free \cup Behind(node, length)]
  BY DEF Shrunk
<1>4. Behind(node, length) = {blocks[i] : i \in (k + 1)..Len(blocks)}
  <2> DEFINE t == SubSeq(blocks, k + 1, Len(blocks))
             m == Len(blocks) - k
  <2>1. t \in Seq(Block) /\ Len(t) = m /\ m \in Nat /\ \A i \in 1..m : t[i] = blocks[k + i]
    <3>1. k + 1 \in 1..(Len(blocks) + 1) /\ Len(blocks) \in ((k + 1) - 1)..Len(blocks)
      BY <1>1, <1>2
    <3>2. Len(blocks) - (k + 1) + 1 = m /\ m \in Nat
      BY <1>1, <1>2
    <3>3. \A i \in 1..m : (k + 1) + i - 1 = k + i
      BY <1>2
    <3>4. \A i \in (k + 1)..Len(blocks) : blocks[i] \in Block
      BY <1>1, <1>2, ElementOfSeq
    <3> HIDE DEF k, m, blocks
    <3>5. k + 1 \in Int /\ Len(blocks) \in Int /\ (k + 1 <= Len(blocks) \/ m = 0)
      BY <1>1, <1>2 DEF m
    <3>6. /\ t \in Seq(Block)
          /\ Len(t) = IF k + 1 <= Len(blocks) THEN Len(blocks) - (k + 1) + 1 ELSE 0
          /\ \A i \in 1..(Len(blocks) - (k + 1) + 1) : t[i] = blocks[(k + 1) + i - 1]
      BY <3>4, <3>5, SubSeqProperties
    <3> HIDE DEF t
    <3>7. Len(t) = m
      BY <1>1, <1>2, <3>2, <3>5, <3>6
    <3> QED
      BY <3>2, <3>3, <3>6, <3>7
  <2>2. DOMAIN t = 1..m
    <3> HIDE DEF t, m, k, blocks
    <3> QED
      BY <2>1
  <2>3. Behind(node, length) = Range(t)
    BY DEF Behind
  <2> HIDE DEF t, m, k, blocks
  <2>4. \A i \in 1..m : k + i \in (k + 1)..Len(blocks)
    BY <1>1, <1>2, <2>1 DEF m
  <2>5. \A j \in (k + 1)..Len(blocks) : j - k \in 1..m /\ k + (j - k) = j
    BY <1>1, <1>2 DEF m
  <2>6. Range(t) \subseteq {blocks[i] : i \in (k + 1)..Len(blocks)}
    BY <2>1, <2>2, <2>4 DEF Range
  <2>7. ASSUME NEW j \in (k + 1)..Len(blocks) PROVE blocks[j] \in Range(t)
    <3>1. t[j - k] = blocks[j] /\ j - k \in DOMAIN t
      BY <2>1, <2>2, <2>5
    <3> QED
      BY <3>1 DEF Range
  <2> QED
    BY <2>3, <2>6, <2>7
<1>5. inode \in Inode
  <2>1. SubSeq(blocks, 1, k) \in Seq(Block)
    <3>1. k \in 0..Len(blocks)
      BY <1>1, <1>2
    <3> QED
      BY <1>1, <3>1, Prefix
  <2> HIDE DEF k, blocks, node
  <2> QED
    BY <1>1, <2>1 DEF Inode
<1>6. \A i \in 1..Len(blocks) : blocks[i] \in Block /\ blocks[i] \in Range(blocks)
  BY <1>1, ElementOfSeq DEF Range
<1>7. ASSUME NEW b \in Block
      PROVE  Cleared(d.block[b], from) \in [0..(BLOCK_SIZE - 1) -> Byte]
             /\ \A o \in 0..(BLOCK_SIZE - 1) :
                   Cleared(d.block[b], from)[o] = IF o >= from THEN 0 ELSE d.block[b][o]
  <2>1. d.block[b] \in [0..(BLOCK_SIZE - 1) -> Byte] /\ 0 \in Byte
    BY <1>1, FileAssumption
  <2> HIDE DEF from
  <2> QED
    BY <2>1 DEF Cleared
<1>8. length # 0 => last \in Block /\ last \in Range(blocks)
  BY <1>1, <1>2, <1>6
<1>9. s.block \in [Block -> [0..(BLOCK_SIZE - 1) -> Byte]]
      /\ (length = 0 => s.block = d.block)
      /\ (length # 0 => s.block = [d.block EXCEPT ![last] = Cleared(d.block[last], from)])
  <2> HIDE DEF last, from, s
  <2> QED
    BY <1>1, <1>3, <1>7, <1>8
<1>10. /\ s \in Disk
       /\ s.inode = [d.inode EXCEPT ![f] = inode]
       /\ s.free = d.free \cup {blocks[i] : i \in (k + 1)..Len(blocks)}
  <2> HIDE DEF inode, last, from, s, k, node, blocks
  <2>1. [d.inode EXCEPT ![f] = inode] \in [File -> Inode]
    BY <1>1, <1>5
  <2>2. d.free \cup {blocks[i] : i \in (k + 1)..Len(blocks)} \in SUBSET Block
    <3>1. \A i \in (k + 1)..Len(blocks) : i \in 1..Len(blocks)
      BY <1>1, <1>2
    <3> QED
      BY <1>1, <1>6, <3>1
  <2> QED
    BY <1>3, <1>4, <1>9, <2>1, <2>2 DEF Disk
<1>11. ASSUME NEW b \in Block \ Range(blocks) PROVE s.block[b] = d.block[b]
  <2> HIDE DEF last, from, s, k, node, blocks
  <2> QED
    BY <1>1, <1>8, <1>9
<1>12. ASSUME NEW l \in 0..(k - 1), NEW o \in 0..(BLOCK_SIZE - 1)
       PROVE  s.block[blocks[l + 1]][o] =
                 IF l * BLOCK_SIZE + o >= length THEN 0 ELSE d.block[blocks[l + 1]][o]
  <2>1. l \in Nat /\ l + 1 \in 1..Len(blocks) /\ l < k /\ k # 0 /\ length # 0
    BY <1>1, <1>2
  <2>2. blocks[l + 1] \in Block
    BY <1>6, <2>1
  <2> DEFINE L == l * BLOCK_SIZE
             K == (k - 1) * BLOCK_SIZE
             r == (length - 1) % BLOCK_SIZE
  <2>3. L \in Nat /\ K \in Nat /\ K + r = length - 1
    BY <2>1, KeptBounds
  <2>4. r \in 0..(BLOCK_SIZE - 1)
    <3>1. length - 1 \in Nat
      BY <2>1
    <3> QED
      BY <3>1, DivMod
  <2>5. CASE l = k - 1
    <3>1. blocks[l + 1] = last /\ L = K
      BY <1>2, <2>5
    <3>2. s.block[last][o] = IF o >= from THEN 0 ELSE d.block[last][o]
      <4> HIDE DEF last, s, from
      <4> QED
        BY <1>1, <1>7, <1>8, <1>9, <2>1
    <3>3. from = r + 1
      OBVIOUS
    <3> HIDE DEF L, K, r, from
    <3>4. o >= from <=> L + o >= length
      BY <2>1, <2>3, <2>4, <3>1, <3>3
    <3> QED
      BY <3>1, <3>2, <3>4 DEF L
  <2>6. CASE l # k - 1
    <3>1. blocks[l + 1] # last
      <4>1. k \in DOMAIN blocks /\ l + 1 \in DOMAIN blocks /\ l + 1 # k
        <5>1. DOMAIN blocks = 1..Len(blocks)
          BY <1>1
        <5> HIDE DEF k, blocks
        <5> QED
          BY <1>1, <1>2, <2>1, <2>6, <5>1
      <4> QED
        BY <4>1 DEF IsInjective
    <3>2. s.block[blocks[l + 1]] = d.block[blocks[l + 1]]
      <4> HIDE DEF last, s, from
      <4> QED
        BY <1>1, <1>9, <2>1, <2>2, <3>1
    <3>3. L + BLOCK_SIZE <= K
      <4>1. k - 1 \in Nat /\ l < k - 1
        BY <1>2, <2>1, <2>6
      <4> HIDE DEF k
      <4> QED
        BY <2>1, <4>1, Monotone
    <3> HIDE DEF L, K, r
    <3>4. ~ (L + o >= length)
      BY <2>1, <2>3, <2>4, <3>3
    <3> QED
      BY <3>2, <3>4 DEF L
  <2> QED
    BY <2>5, <2>6
<1> HIDE DEF s
<1> QED
  BY <1>10, <1>11, <1>12 DEF ShrunkTo, s

\* What a result holds.
LEMMA ResultFields ==
    ASSUME NEW d, NEW value
    PROVE  /\ Result(d, value).disk = d
           /\ Result(d, value).returned = value
           /\ Labels(Result(d, value)) = {}
BY DEF Result, Labels

\* The zeros that a longer file is filled up with.
LEMMA Filling ==
    ASSUME NEW missing \in Nat \ {0}
    PROVE  LET data == [i \in 1..missing |-> 0]
           IN data \in Seq(Byte) /\ data # << >> /\ Len(data) = missing
<1> DEFINE data == [i \in 1..missing |-> 0]
<1>1. data \in Seq(Byte) /\ Len(data) = missing
  BY FileAssumption
<1> HIDE DEF data
<1>2. data # << >>
  BY <1>1
<1> QED
  BY <1>1, <1>2 DEF data

\* Without O_TRUNC on a file with contents, altfs_open leaves the disk as it is.
LEMMA OpenKeeps ==
    ASSUME NEW d \in Disk, NEW f \in File, d.inode[f].i_file_size = 0
    PROVE  altfs_open(d, f) = Result(d, 0)
<1>1. altfs_truncate(d, << >>, f, 0) = Result(d, 0)
  BY DEF altfs_truncate
<1>2. altfs_open(d, f) = Result([d EXCEPT !.inode[f] = d.inode[f]], 0)
  BY <1>1, ResultFields DEF altfs_open
<1>3. [d EXCEPT !.inode[f] = d.inode[f]] = d
  BY DEF Disk
<1> QED
  BY <1>2, <1>3

-----------------------------------------------------------------------------
(* The size after a write *)

\* The size and the number of blocks after a write that leaves no hole.
LEMMA SizeAfterWrite ==
    ASSUME NEW size \in Nat, NEW have \in Nat, have = Kept(size),
           NEW offset \in Nat, NEW n \in Nat \ {0}, NEW added \in Nat, NEW r \in Nat,
           Fits(have + added, added, offset, n, r),
           ~ (r = 0 /\ offset > size)
    PROVE  have + added = Kept(IF offset + r > size THEN offset + r ELSE size)
<1> USE Constants
<1> DEFINE end == offset + r
           H == have * BLOCK_SIZE
           m == have + added
           M == m * BLOCK_SIZE
<1>1. H \in Nat /\ size <= H /\ (have = 0 <=> size = 0) /\ m \in Nat /\ M \in Nat
  <2>1. have * BLOCK_SIZE \in Nat /\ size <= have * BLOCK_SIZE /\ (have = 0 <=> size = 0)
    BY KeptBounds
  <2>2. m \in Nat
    OBVIOUS
  <2> HIDE DEF m
  <2> QED
    BY <2>1, <2>2
<1>2. H <= M /\ (added > 0 => H <= (m - 1) * BLOCK_SIZE) /\ (added = 0 => m = have)
  <2>1. \A k \in Nat : have <= k => H <= k * BLOCK_SIZE
    <3> TAKE k \in Nat
    <3>1. CASE have = k
      BY <1>1, <3>1
    <3>2. CASE have < k
      <4>1. H + BLOCK_SIZE <= k * BLOCK_SIZE /\ k * BLOCK_SIZE \in Nat
        BY <3>2, Monotone
      <4> HIDE DEF H
      <4> QED
        BY <1>1, <4>1
    <3> QED
      BY <3>1, <3>2
  <2>2. have <= m /\ (added > 0 => m - 1 \in Nat /\ have <= m - 1)
    BY <1>1
  <2> HIDE DEF H, m
  <2>3. added = 0 => m = have
    BY DEF m
  <2> QED
    BY <1>1, <2>1, <2>2, <2>3
<1>3. (m - 1) * BLOCK_SIZE + BLOCK_SIZE = M /\ (m # 0 => (m - 1) * BLOCK_SIZE \in Nat)
  <2> HIDE DEF m
  <2> QED
    BY <1>1
<1>4. CASE r = 0 /\ m <= offset \div BLOCK_SIZE
  <2>1. offset <= size
    BY <1>4
  <2>2. m <= have
    <3> DEFINE q == offset \div BLOCK_SIZE
    <3>1. q \in Nat /\ q * BLOCK_SIZE \in Nat /\ q * BLOCK_SIZE <= offset
      BY Floor
    <3> HIDE DEF q
    <3>2. SUFFICES ASSUME have < m PROVE FALSE
      BY <1>1
    <3>3. have < q
      BY <1>1, <1>4, <3>1, <3>2 DEF q
    <3>4. H + BLOCK_SIZE <= q * BLOCK_SIZE
      BY <3>1, <3>3, Monotone
    <3> HIDE DEF H
    <3> QED
      BY <1>1, <2>1, <3>1, <3>4
  <2>3. m = have
    BY <2>2
  <2>4. ~ (end > size)
    BY <1>4, <2>1
  <2> QED
    BY <2>3, <2>4
<1>5. CASE r = n /\ LastBlock(offset, n) < m /\ (added > 0 => LastBlock(offset, n) + 1 = m)
  <2> DEFINE last == LastBlock(offset, n)
             T == last * BLOCK_SIZE
             lo == (offset + n - 1) % BLOCK_SIZE
  <2>1. last \in Nat /\ T \in Nat /\ lo \in 0..(BLOCK_SIZE - 1) /\ end - 1 = T + lo
    <3>1. offset + n - 1 \in Nat
      OBVIOUS
    <3>2. /\ last \in Nat /\ T \in Nat /\ lo \in 0..(BLOCK_SIZE - 1)
          /\ offset + n - 1 = T + lo
      BY <3>1, DivMod DEF LastBlock
    <3> HIDE DEF last, T, lo
    <3> QED
      BY <1>5, <3>2
  <2>2. end \in Nat /\ Kept(end) = last + 1
    <3>1. (last + 1) * BLOCK_SIZE = T + BLOCK_SIZE /\ (last + 1) - 1 = last
      BY <2>1
    <3>2. end \in Nat /\ end <= T + BLOCK_SIZE /\ T < end
      <4> HIDE DEF last, T, lo
      <4> QED
        BY <2>1
    <3>3. last + 1 \in Nat
      BY <2>1
    <3> HIDE DEF last, end
    <3> QED
      BY <3>1, <3>2, <3>3, KeptIs
  <2>3. CASE added > 0
    <3>1. last + 1 = m /\ H <= T
      BY <1>2, <1>5, <2>1, <2>3
    <3>2. end > size
      <4> HIDE DEF last, T, lo, H
      <4> QED
        BY <1>1, <2>1, <3>1
    <3> QED
      BY <2>2, <3>1, <3>2
  <2>4. CASE added = 0
    <3>1. m = have
      BY <2>4
    <3>2. CASE end > size
      <4>1. last + 1 <= have
        BY <1>5, <2>1, <3>1
      <4>2. ASSUME last + 1 < have PROVE FALSE
        <5>1. have # 0 /\ size # 0 /\ last < have - 1 /\ have - 1 \in Nat
          BY <1>1, <2>1, <4>2
        <5>2. T + BLOCK_SIZE <= (have - 1) * BLOCK_SIZE /\ (have - 1) * BLOCK_SIZE \in Nat
          BY <2>1, <5>1, Monotone
        <5>3. (have - 1) * BLOCK_SIZE < size
          <6>1. (have - 1) * BLOCK_SIZE + ((size - 1) % BLOCK_SIZE) = size - 1
            BY <5>1, KeptBounds
          <6>2. (size - 1) % BLOCK_SIZE \in Nat
            <7>1. size - 1 \in Nat
              BY <5>1
            <7> QED
              BY <7>1, DivMod
          <6> DEFINE a == (have - 1) * BLOCK_SIZE
                     b == (size - 1) % BLOCK_SIZE
          <6> HIDE DEF a, b
          <6> QED
            BY <5>2, <6>1, <6>2 DEF a, b
        <5> DEFINE a == (have - 1) * BLOCK_SIZE
        <5> HIDE DEF a, T, lo
        <5> QED
          BY <2>1, <3>2, <5>2, <5>3 DEF a
      <4>3. last + 1 = have
        BY <2>1, <4>1, <4>2
      <4> QED
        BY <2>2, <3>1, <3>2, <4>3
    <3>3. CASE ~ (end > size)
      BY <3>1, <3>3
    <3> QED
      BY <3>2, <3>3
  <2> QED
    BY <2>3, <2>4
<1>6. CASE r \in 1..(n - 1) /\ end = M
  <2>1. m # 0
    <3>1. m = 0 => M = 0
      OBVIOUS
    <3> QED
      BY <1>6, <3>1
  <2>2. CASE end > size
    <3>1. (m - 1) * BLOCK_SIZE < end
      <4> HIDE DEF M, end
      <4> QED
        BY <1>3, <1>6, <2>1
    <3>2. end \in Nat /\ end <= m * BLOCK_SIZE
      BY <1>1, <1>6
    <3> HIDE DEF end, m
    <3>3. Kept(end) = m
      BY <1>1, <3>1, <3>2, KeptIs
    <3> QED
      BY <2>2, <3>3 DEF end, m
  <2>3. CASE ~ (end > size)
    <3>1. M <= size
      BY <1>1, <1>6, <2>3
    <3>2. added = 0
      <4>1. SUFFICES ASSUME added > 0 PROVE FALSE
        OBVIOUS
      <4> HIDE DEF H, M
      <4> QED
        BY <1>1, <1>2, <1>3, <2>1, <3>1, <4>1
    <3> QED
      BY <2>3, <3>2
  <2> QED
    BY <2>2, <2>3
<1> HIDE DEF end, m, M
<1> QED
  BY <1>4, <1>5, <1>6 DEF Fits, m, end, M

-----------------------------------------------------------------------------
(* Creating and unlinking *)

\* The disk after the inode of f was written and blocks were freed.
InodeSet(c, d, f, node, freed) ==
    /\ c \in Disk
    /\ c.inode[f] = node
    /\ \A g \in File \ {f} : c.inode[g] = d.inode[g]
    /\ c.block = d.block
    /\ c.free = d.free \cup freed

\* The inodes of files without contents.
LEMMA EmptyInodes ==
    /\ Unused \in Inode /\ Unused.i_blocks = << >> /\ Unused.i_file_size = 0
    /\ New \in Inode /\ New.i_blocks = << >> /\ New.i_file_size = 0 /\ New.i_allocated
<1>1. Unused = [i_allocated |-> FALSE, i_file_size |-> 0, i_blocks |-> << >>]
  BY DEF Unused
<1>2. << >> \in Seq(Block)
  OBVIOUS
<1>3. Unused \in Inode /\ Unused.i_blocks = << >> /\ Unused.i_file_size = 0
  BY <1>1, <1>2 DEF Inode
<1>4. New = [Unused EXCEPT !.i_allocated = TRUE]
  BY DEF New
<1> QED
  BY <1>3, <1>4 DEF Inode

\* That is what the EXCEPT of the actions does.
LEMMA InodeSetBy ==
    ASSUME NEW d \in Disk, NEW f \in File, NEW node \in Inode, NEW freed \in SUBSET Block
    PROVE  InodeSet([d EXCEPT !.free = @ \cup freed, !.inode[f] = node], d, f, node, freed)
BY DEF Disk, InodeSet

-----------------------------------------------------------------------------
(* The bytes of a file *)

\* A place in the first m blocks: the block and the byte of the block.
LEMMA Place ==
    ASSUME NEW m \in Nat, NEW p \in Nat, p < m * BLOCK_SIZE
    PROVE  /\ p \div BLOCK_SIZE \in 0..(m - 1)
           /\ p % BLOCK_SIZE \in 0..(BLOCK_SIZE - 1)
           /\ (p \div BLOCK_SIZE) * BLOCK_SIZE + (p % BLOCK_SIZE) = p
<1> USE Constants
<1>1. p \div BLOCK_SIZE \in Nat /\ p \div BLOCK_SIZE < m
  BY DivMod, DivBound
<1>2. p % BLOCK_SIZE \in 0..(BLOCK_SIZE - 1)
      /\ (p \div BLOCK_SIZE) * BLOCK_SIZE + (p % BLOCK_SIZE) = p
  BY DivMod
<1> QED
  BY <1>1, <1>2

\* The byte at place p of a file, counted from 0.
ByteOf(d, f, p) == d.block[d.inode[f].i_blocks[(p \div BLOCK_SIZE) + 1]][p % BLOCK_SIZE]

\* Behind the end of the file its blocks hold zeros.
TailOf(d, f) ==
    \A p \in Nat :
        /\ d.inode[f].i_file_size <= p
        /\ p < Len(d.inode[f].i_blocks) * BLOCK_SIZE
        => ByteOf(d, f, p) = 0

\* The contents of a file.
BytesOf(d, f) == [i \in 1..d.inode[f].i_file_size |-> ByteOf(d, f, i - 1)]

\* The byte at a place counted from 1 is the one at the place counted from 0.
LEMMA AtPlace ==
    ASSUME NEW d, NEW f, NEW i \in Nat \ {0}
    PROVE  d.block[d.inode[f].i_blocks[LastBlock(0, i) + 1]][(i - 1) % BLOCK_SIZE]
              = ByteOf(d, f, i - 1)
<1>1. 0 + i - 1 = i - 1
  OBVIOUS
<1> QED
  BY <1>1 DEF ByteOf, LastBlock

\* The length of the contents.
LEMMA BytesLength ==
    ASSUME NEW d \in Disk, NEW f \in File
    PROVE  /\ d.inode[f].i_file_size \in Nat
           /\ Len(BytesOf(d, f)) = d.inode[f].i_file_size
           /\ DOMAIN BytesOf(d, f) = 1..d.inode[f].i_file_size
           /\ \A i \in 1..d.inode[f].i_file_size : BytesOf(d, f)[i] = ByteOf(d, f, i - 1)
<1> DEFINE size == d.inode[f].i_file_size
<1>1. size \in Nat
  BY DEF Disk, Inode
<1> HIDE DEF size
<1>2. BytesOf(d, f) = [i \in 1..size |-> ByteOf(d, f, i - 1)]
  BY DEF BytesOf, size
<1>3. Len(BytesOf(d, f)) = size
  BY <1>1, <1>2
<1> QED
  BY <1>1, <1>2, <1>3 DEF size

\* The same with the places counted from 1.
LEMMA TailForm ==
    ASSUME NEW d \in Disk, NEW f \in File
    PROVE  TailOf(d, f) <=>
              \A i \in (d.inode[f].i_file_size + 1)..(BLOCK_SIZE * Len(d.inode[f].i_blocks)) :
                 d.block[d.inode[f].i_blocks[LastBlock(0, i) + 1]][(i - 1) % BLOCK_SIZE] = 0
<1> USE Constants
<1> DEFINE size == d.inode[f].i_file_size
           m == Len(d.inode[f].i_blocks)
           at(i) == d.block[d.inode[f].i_blocks[LastBlock(0, i) + 1]][(i - 1) % BLOCK_SIZE]
<1>1. size \in Nat /\ m \in Nat
  BY DEF Disk, Inode
<1>2. BLOCK_SIZE * m = m * BLOCK_SIZE /\ m * BLOCK_SIZE \in Nat
  BY <1>1
<1>3. \A i \in Nat : i >= 1 => at(i) = ByteOf(d, f, i - 1)
  <2> TAKE i \in Nat
  <2>1. 0 + i - 1 = i - 1
    OBVIOUS
  <2> QED
    BY <2>1 DEF ByteOf, LastBlock
<1> DEFINE M == m * BLOCK_SIZE
<1>4. TailOf(d, f) <=> \A p \in Nat : size <= p /\ p < M => ByteOf(d, f, p) = 0
  BY DEF TailOf
<1> HIDE DEF size, M, at
<1>5. ASSUME \A p \in Nat : size <= p /\ p < M => ByteOf(d, f, p) = 0,
             NEW i \in (size + 1)..M
      PROVE  at(i) = 0
  <2>1. i - 1 \in Nat /\ size <= i - 1 /\ i - 1 < M /\ i >= 1 /\ i \in Nat
    BY <1>1, <1>2 DEF M
  <2> QED
    BY <1>3, <1>5, <2>1
<1>6. ASSUME \A i \in (size + 1)..M : at(i) = 0,
             NEW p \in Nat, size <= p, p < M
      PROVE  ByteOf(d, f, p) = 0
  <2>1. p + 1 \in (size + 1)..M /\ p + 1 >= 1 /\ p + 1 \in Nat /\ (p + 1) - 1 = p
    BY <1>1, <1>2, <1>6 DEF M
  <2> QED
    BY <1>3, <1>6, <2>1
<1> QED
  BY <1>2, <1>4, <1>5, <1>6 DEF size, M, at

\* File g has the same inode and the same blocks on disks c and d.
Untouched(c, d, g) ==
    /\ c.inode[g] = d.inode[g]
    /\ \A b \in Range(d.inode[g].i_blocks) : c.block[b] = d.block[b]

\* Its blocks have the same bytes.
SameIn(c, d, g) ==
    \A p \in Nat : p < Len(d.inode[g].i_blocks) * BLOCK_SIZE => ByteOf(c, g, p) = ByteOf(d, g, p)

\* A file whose inode and blocks are as they were has the bytes it had.
LEMMA SameBytes ==
    ASSUME NEW c, NEW d \in Disk, NEW g \in File, Untouched(c, d, g)
    PROVE  SameIn(c, d, g)
<1> USE Constants
<1> SUFFICES ASSUME NEW p \in Nat, p < Len(d.inode[g].i_blocks) * BLOCK_SIZE
             PROVE  ByteOf(c, g, p) = ByteOf(d, g, p)
  BY DEF SameIn
<1> DEFINE s == d.inode[g].i_blocks
           l == p \div BLOCK_SIZE
<1>1. s \in Seq(Block) /\ Len(s) \in Nat
  BY DEF Disk, Inode
<1>2. l \in 0..(Len(s) - 1)
  BY <1>1, Place
<1> HIDE DEF s, l
<1>3. l + 1 \in 1..Len(s)
  BY <1>1, <1>2
<1>4. s[l + 1] \in Range(s)
  BY <1>1, <1>3 DEF Range
<1>5. c.block[s[l + 1]] = d.block[s[l + 1]]
  BY <1>4 DEF s, Untouched
<1> QED
  BY <1>5 DEF ByteOf, s, l, Untouched

\* The inodes after a write up to end that appended blocks.
InodeWritten(c, d, f, order, end, added) ==
    /\ c.inode[f].i_blocks = d.inode[f].i_blocks \o SubSeq(order, 1, added)
    /\ c.inode[f].i_file_size = IF end > d.inode[f].i_file_size
                                THEN end ELSE d.inode[f].i_file_size
    /\ c.inode[f].i_allocated = d.inode[f].i_allocated
    /\ \A g \in File \ {f} : c.inode[g] = d.inode[g]
    /\ IsAppended(c.inode[f].i_blocks, d.inode[f].i_blocks, order, added)

\* A write leaves such inodes.
LEMMA WroteInode ==
    ASSUME NEW d, NEW order, NEW f, CanWrite(d, order, f),
           NEW offset \in Nat, NEW data, NEW w, NEW added \in Nat, NEW allocated \in Nat,
           Wrote(d, order, f, offset, data, w, added, allocated)
    PROVE  InodeWritten(w.disk, d, f, order, offset + w.returned, added)
<1> DEFINE node == d.inode[f]
           blocks == node.i_blocks \o SubSeq(order, 1, added)
           size == IF offset + w.returned > node.i_file_size
                   THEN offset + w.returned ELSE node.i_file_size
<1>1. d.inode \in [File -> Inode] /\ f \in File /\ node \in Inode
  BY DEF CanWrite, Disk
<1>2. w.disk.inode = [d.inode EXCEPT ![f] =
                        [node EXCEPT !.i_blocks = blocks, !.i_file_size = size]]
  BY DEF Wrote
<1>3. IsAppended(blocks, node.i_blocks, order, added)
  <2>1. /\ node.i_blocks \in Seq(Block) /\ IsInjective(node.i_blocks)
        /\ d.free \in SUBSET Block /\ order \in Seq(d.free) /\ IsInjective(order)
        /\ Range(node.i_blocks) \cap d.free = {}
    BY <1>1 DEF CanWrite, Disk, Inode
  <2>2. added \in 0..Len(order)
    <3>1. added \in 0..allocated /\ allocated \in 0..Len(order)
      BY DEF Wrote
    <3>2. Len(order) \in Nat
      BY <2>1, LenProperties
    <3> QED
      BY <3>1, <3>2
  <2> QED
    BY <2>1, <2>2, Appended, Zenon
<1> HIDE DEF node, blocks, size
<1>4. w.disk.inode[f] = [node EXCEPT !.i_blocks = blocks, !.i_file_size = size]
      /\ \A g \in File \ {f} : w.disk.inode[g] = d.inode[g]
  BY <1>1, <1>2
<1>5. /\ w.disk.inode[f].i_blocks = blocks /\ w.disk.inode[f].i_file_size = size
      /\ w.disk.inode[f].i_allocated = node.i_allocated
  BY <1>1, <1>4 DEF Inode
<1> QED
  BY <1>3, <1>4, <1>5 DEF InodeWritten, node, blocks, size

\* The bytes of file f on disk c after a write: those of the data, those that
\* were there, and zeros in the added blocks.
BytesWritten(c, d, f, offset, data, added) ==
    \A p \in Nat :
        p < (Len(d.inode[f].i_blocks) + added) * BLOCK_SIZE =>
            ByteOf(c, f, p) =
                After(data, offset, p,
                      IF p < Len(d.inode[f].i_blocks) * BLOCK_SIZE THEN ByteOf(d, f, p) ELSE 0)

\* A write leaves such bytes.
LEMMA WroteBytes ==
    ASSUME NEW d, NEW order, NEW f, CanWrite(d, order, f),
           NEW offset \in Nat, NEW data, NEW w, NEW added \in Nat, NEW allocated \in Nat,
           Wrote(d, order, f, offset, data, w, added, allocated)
    PROVE  BytesWritten(w.disk, d, f, offset, data, added)
<1> USE Constants
<1> SUFFICES ASSUME NEW p \in Nat, p < (Len(d.inode[f].i_blocks) + added) * BLOCK_SIZE
             PROVE  ByteOf(w.disk, f, p) =
                      After(data, offset, p,
                            IF p < Len(d.inode[f].i_blocks) * BLOCK_SIZE
                            THEN ByteOf(d, f, p) ELSE 0)
  BY DEF BytesWritten
<1> DEFINE node == d.inode[f]
           have == Len(node.i_blocks)
           blocks == node.i_blocks \o SubSeq(order, 1, added)
           l == p \div BLOCK_SIZE
           o == p % BLOCK_SIZE
           old == IF l < have THEN d.block[node.i_blocks[l + 1]][o] ELSE 0
<1>1. have \in Nat /\ d.inode \in [File -> Inode] /\ f \in File
  BY DEF CanWrite, Disk, Inode
<1>2. /\ l \in 0..(have + added - 1) /\ o \in 0..(BLOCK_SIZE - 1)
      /\ l * BLOCK_SIZE + o = p
  <2> DEFINE m == have + added
  <2>1. m \in Nat /\ p < m * BLOCK_SIZE
    BY <1>1
  <2> HIDE DEF m
  <2>2. l \in 0..(m - 1) /\ o \in 0..(BLOCK_SIZE - 1) /\ l * BLOCK_SIZE + o = p
    BY <2>1, Place
  <2> QED
    BY <2>2 DEF m
<1>3. w.disk.inode[f].i_blocks = blocks
  <2>1. InodeWritten(w.disk, d, f, order, offset + w.returned, added)
    BY WroteInode, Zenon
  <2> QED
    BY <2>1 DEF InodeWritten
<1>4. w.disk.block[blocks[l + 1]][o] = After(data, offset, l * BLOCK_SIZE + o, old)
  <2> HIDE DEF l, o
  <2> QED
    BY <1>2, Zenon DEF Wrote
<1>5. l < have <=> p < have * BLOCK_SIZE
  <2> HIDE DEF l, o, have
  <2>1. l \in Nat /\ l * BLOCK_SIZE \in Nat /\ have * BLOCK_SIZE \in Nat
    BY <1>1, <1>2
  <2>2. CASE l < have
    <3>1. l * BLOCK_SIZE + BLOCK_SIZE <= have * BLOCK_SIZE
      BY <1>1, <2>1, <2>2, Monotone
    <3> QED
      BY <1>2, <2>1, <2>2, <3>1
  <2>3. CASE l = have
    BY <1>2, <2>1, <2>3
  <2>4. CASE l > have
    <3>1. have * BLOCK_SIZE + BLOCK_SIZE <= l * BLOCK_SIZE
      BY <1>1, <2>1, <2>4, Monotone
    <3> QED
      BY <1>1, <1>2, <2>1, <2>4, <3>1
  <2> QED
    BY <1>1, <2>1, <2>2, <2>3, <2>4
<1> HIDE DEF l, o
<1>6. ByteOf(w.disk, f, p) = w.disk.block[blocks[l + 1]][o]
  BY <1>3 DEF ByteOf, l, o
<1>7. ByteOf(d, f, p) = d.block[node.i_blocks[l + 1]][o]
  BY DEF ByteOf, l, o
<1> HIDE DEF node, blocks
<1>8. old = IF p < have * BLOCK_SIZE THEN ByteOf(d, f, p) ELSE 0
  BY <1>5, <1>7
<1> HIDE DEF old
<1> QED
  BY <1>2, <1>4, <1>6, <1>8 DEF node

-----------------------------------------------------------------------------
(* Reading *)

\* Every one of n bytes at offset is in the part of one block.
LEMMA InSomePart ==
    ASSUME NEW offset \in Nat, NEW n \in Nat \ {0}, NEW k \in 1..n
    PROVE  \E l \in (offset \div BLOCK_SIZE)..LastBlock(offset, n) :
              /\ Before(offset, n)[l] < k
              /\ k <= Before(offset, n)[l] + (LastIn(l, offset, n) - FirstIn(l, offset) + 1)
<1> USE Constants
<1> DEFINE p == offset + (k - 1)
           l == p \div BLOCK_SIZE
           o == p % BLOCK_SIZE
           L == l * BLOCK_SIZE
           first == offset \div BLOCK_SIZE
           last == LastBlock(offset, n)
           B == Before(offset, n)[l]
           fi == FirstIn(l, offset)
           la == LastIn(l, offset, n)
<1>1. p \in Nat /\ offset <= p /\ p < offset + n /\ k = p - offset + 1
  OBVIOUS
<1>2. l \in Nat /\ o \in 0..(BLOCK_SIZE - 1) /\ p = L + o /\ L \in Nat
  <2> HIDE DEF p
  <2> QED
    BY <1>1, DivMod
<1>3. first \in Nat /\ last \in Nat
  <2>1. offset + n - 1 \in Nat
    OBVIOUS
  <2> QED
    BY <2>1, DivMod DEF LastBlock
<1> HIDE DEF p, l, o
<1>4. /\ l < first => L + o < offset
      /\ l > last => L + o >= offset + n
      /\ l >= first => (fi <= o <=> offset <= L + o)
      /\ l <= last => (o <= la <=> L + o < offset + n)
  BY <1>2, InPart
<1>5. l \in first..last
  <2> HIDE DEF first, last, L, fi, la
  <2> QED
    BY <1>1, <1>2, <1>3, <1>4
<1>6. /\ fi \in 0..(BLOCK_SIZE - 1) /\ la \in 0..(BLOCK_SIZE - 1)
      /\ B \in 0..(n - 1) /\ offset + B = L + fi
  BY <1>5, BeforeStep
<1> HIDE DEF first, last, L, fi, la, B
<1>7. fi <= o /\ o <= la
  BY <1>1, <1>2, <1>3, <1>4, <1>5
<1>8. B < k /\ k <= B + (la - fi + 1)
  BY <1>1, <1>2, <1>6, <1>7
<1> QED
  BY <1>5, <1>8 DEF first, last, B, fi, la

\* bytes are the bytes of file f from the offset on, nbytes or as many as there are.
IsRead(bytes, d, f, offset, nbytes) ==
    \E n \in Nat \ {0} :
        /\ offset + n = LeastOf(offset + nbytes, d.inode[f].i_file_size)
        /\ bytes = [k \in 1..n |-> ByteOf(d, f, offset + (k - 1))]

\* altfs_read, copying block by block, returns the bytes from the offset on.
LEMMA ReadEffect ==
    ASSUME NEW d \in Disk, NEW f \in File, NEW offset \in Nat, NEW nbytes \in Nat \ {0},
           offset < d.inode[f].i_file_size,
           Len(d.inode[f].i_blocks) = Kept(d.inode[f].i_file_size)
    PROVE  IsRead(altfs_read(d, f, offset, nbytes), d, f, offset, nbytes)
<1> USE Constants
<1> DEFINE node == d.inode[f]
           n == Available(node, offset, nbytes)
           size == node.i_file_size
           have == Len(node.i_blocks)
           first == offset \div BLOCK_SIZE
           last == LastBlock(offset, n)
           blocks == first..last
           before == CopiedBefore(offset, n)
           part(l) == [k \in 1..(LastIn(l, offset, n) - FirstIn(l, offset) + 1) |->
                           d.block[node.i_blocks[l + 1]][FirstIn(l, offset) + k - 1]]
           block_of(k) == CHOOSE l \in blocks : before[l] < k /\ k <= before[l] + Len(part(l))
           read == altfs_read(d, f, offset, nbytes)
<1>1. size \in Nat /\ have \in Nat
  BY DEF Disk, Inode
<1> HIDE DEF n
<1>2. n \in Nat \ {0} /\ offset + n <= size /\ offset + n = LeastOf(offset + nbytes, size)
  <2> HIDE DEF size
  <2> QED
    BY <1>1 DEF Available, LeastOf, size, n
<1>3. first \in Nat /\ last \in Nat /\ last < have /\ first <= last
  <2>1. offset + n - 1 \in Nat
    BY <1>2
  <2>2. last \in Nat /\ first \in Nat
    BY <2>1, DivMod DEF LastBlock
  <2>3. size <= have * BLOCK_SIZE /\ have * BLOCK_SIZE \in Nat
    BY <1>1, KeptBounds
  <2>4. offset + n - 1 < have * BLOCK_SIZE
    <3> DEFINE H == have * BLOCK_SIZE
    <3> HIDE DEF H, size
    <3> QED
      BY <1>1, <1>2, <2>3 DEF H
  <2>5. last < have
    <3> HIDE DEF have
    <3> QED
      BY <1>1, <2>1, <2>4, DivBound DEF LastBlock
  <2>6. first <= last
    <3>1. 1 \in 1..n
      BY <1>2
    <3>2. \E l \in first..last : TRUE
      BY <1>2, <3>1, InSomePart
    <3> HIDE DEF first, last
    <3> QED
      BY <2>2, <3>2
  <2> QED
    BY <2>2, <2>5, <2>6
<1>4. before = Before(offset, n) /\ before[last + 1] = n
  <2>1. before = Before(offset, n)
    BY <1>2, CopiedBeforeIs
  <2>2. last + 1 \in first..(last + 1) /\ last + 1 # first
    <3> HIDE DEF first, last
    <3> QED
      BY <1>3
  <2> QED
    BY <2>1, <2>2 DEF Before
<1>5. read = [k \in 1..before[last + 1] |-> part(block_of(k))[k - before[block_of(k)]]]
  <2>1. ~ (nbytes = 0 \/ size = 0) /\ ~ (offset >= size \/ last >= have)
    <3> HIDE DEF last, size, have
    <3> QED
      BY <1>1, <1>3 DEF size
  <2> QED
    BY <2>1, Zenon DEF altfs_read, n
<1> HIDE DEF before, read
<1>6. ASSUME NEW l \in blocks
      PROVE  Len(part(l)) = LastIn(l, offset, n) - FirstIn(l, offset) + 1
  <2>1. LastIn(l, offset, n) - FirstIn(l, offset) + 1 \in Nat
    <3> DEFINE la == LastIn(l, offset, n)
               fi == FirstIn(l, offset)
    <3>1. la \in 0..(BLOCK_SIZE - 1) /\ fi \in 0..(BLOCK_SIZE - 1) /\ fi <= la
      BY <1>2, BeforeStep
    <3> HIDE DEF la, fi
    <3> QED
      BY <3>1 DEF la, fi
  <2> DEFINE q == LastIn(l, offset, n) - FirstIn(l, offset) + 1
  <2> HIDE DEF q
  <2>2. DOMAIN part(l) = 1..q
    BY DEF q
  <2> HIDE DEF part
  <2> QED
    BY <2>1, <2>2 DEF q
<1>7. ASSUME NEW k \in 1..n
      PROVE  part(block_of(k))[k - before[block_of(k)]] = ByteOf(d, f, offset + (k - 1))
  <2> DEFINE l == block_of(k)
             B == before[l]
             fi == FirstIn(l, offset)
             la == LastIn(l, offset, n)
             o == fi + (k - B) - 1
             L == l * BLOCK_SIZE
  <2>1. \E m \in blocks : before[m] < k /\ k <= before[m] + Len(part(m))
    <3>1. PICK m \in blocks :
             /\ before[m] < k
             /\ k <= before[m] + (LastIn(m, offset, n) - FirstIn(m, offset) + 1)
      BY <1>2, <1>4, InSomePart
    <3> HIDE DEF part
    <3> QED
      BY <1>6, <3>1
  <2>2. l \in blocks /\ B < k /\ k <= B + Len(part(l))
    <3> HIDE DEF part, blocks
    <3> QED
      BY <2>1
  <2> HIDE DEF l
  <2>3. Len(part(l)) = la - fi + 1
    BY <1>6, <2>2
  <2>4. /\ l \in Nat /\ L \in Nat /\ fi \in 0..(BLOCK_SIZE - 1) /\ la \in 0..(BLOCK_SIZE - 1)
        /\ B \in 0..(n - 1) /\ offset + B = L + fi
    BY <1>2, <1>4, <2>2, BeforeStep
  <2> HIDE DEF part, B, fi, la, L
  <2>5. k - B \in 1..(la - fi + 1) /\ o \in 0..(BLOCK_SIZE - 1) /\ L + o = offset + (k - 1)
    <3>1. B < k /\ k <= B + (la - fi + 1) /\ k \in Int
      BY <1>2, <2>2, <2>3
    <3>2. L \in Nat /\ fi \in Nat /\ la \in Nat /\ la < BLOCK_SIZE /\ B \in Nat
          /\ offset + B = L + fi
      BY <1>2, <2>4
    <3> QED
      BY ONLY <3>1, <3>2, Constants, offset \in Nat
  <2>6. part(l)[k - B] = d.block[node.i_blocks[l + 1]][o]
    <3> DEFINE j == k - B
    <3>1. j \in 1..(la - fi + 1)
      BY <2>5
    <3> HIDE DEF j
    <3>2. part(l)[j] = d.block[node.i_blocks[l + 1]][fi + j - 1]
      BY <3>1 DEF part, la, fi
    <3> QED
      BY <3>2 DEF j
  <2> HIDE DEF o
  <2>7. (offset + (k - 1)) \div BLOCK_SIZE = l /\ (offset + (k - 1)) % BLOCK_SIZE = o
    <3>1. (L + o) \div BLOCK_SIZE = l /\ (L + o) % BLOCK_SIZE = o
      BY <2>4, <2>5, DivModUnique DEF L
    <3> QED
      BY <2>5, <3>1
  <2>8. ByteOf(d, f, offset + (k - 1)) = d.block[node.i_blocks[l + 1]][o]
    BY <2>7 DEF ByteOf
  <2> QED
    BY <2>6, <2>8 DEF l, B
<1> HIDE DEF part, block_of
<1>8. read = [k \in 1..n |-> ByteOf(d, f, offset + (k - 1))]
  BY <1>4, <1>5, <1>7
<1> QED
  BY <1>2, <1>8 DEF read, IsRead

-----------------------------------------------------------------------------
(* Files as sequences of bytes *)

\* bytes are those of s with the first r bytes of data at offset.
Overwritten(bytes, s, size, offset, data, r) ==
    bytes = [i \in 1..(IF offset + r > size THEN offset + r ELSE size) |->
                IF i > offset /\ i <= offset + r THEN data[i - offset]
                ELSE IF i <= size THEN s[i] ELSE 0]

\* What a file holds after the first r bytes of data were written at offset.
LEMMA Overwriting ==
    ASSUME NEW s, NEW size \in Nat, Len(s) = size, s = [i \in 1..size |-> s[i]],
           NEW data \in Seq(Byte), NEW r \in 0..Len(data), NEW offset \in Nat,
           r = 0 => offset <= size
    PROVE  Overwritten(FS!Overwrite(s, offset, SubSeq(data, 1, r)), s, size, offset, data, r)
<1> DEFINE t == SubSeq(data, 1, r)
           top == IF offset + r > size THEN offset + r ELSE size
           byte(i) == IF i > offset /\ i <= offset + r THEN data[i - offset]
                      ELSE IF i <= size THEN s[i] ELSE 0
<1>1. t \in Seq(Byte) /\ Len(t) = r /\ \A i \in 1..r : t[i] = data[i]
  BY Prefix
<1>2. r \in Nat
  OBVIOUS
<1> HIDE DEF t
<1>3. CASE r = 0
  <2>1. t = << >>
    BY <1>1, <1>3, EmptySeq
  <2>2. FS!Overwrite(s, offset, t) = s
    BY <2>1 DEF FS!Overwrite
  <2>3. top = size /\ \A i \in 1..size : byte(i) = s[i]
    BY <1>3
  <2> HIDE DEF top, byte
  <2>4. s = [i \in 1..top |-> byte(i)]
    BY <2>3
  <2> QED
    BY <2>2, <2>4 DEF t, top, byte, Overwritten
<1>4. CASE r # 0
  <2>1. t # << >>
    BY <1>1, <1>4
  <2>2. FS!Overwrite(s, offset, t) =
           [i \in 1..(IF offset + r > size THEN offset + r ELSE size) |->
               IF i > offset /\ i <= offset + r THEN t[i - offset]
               ELSE IF i <= size THEN s[i] ELSE 0]
    BY <1>1, <2>1 DEF FS!Overwrite
  <2>3. \A i \in 1..top : i > offset /\ i <= offset + r => t[i - offset] = data[i - offset]
    <3> SUFFICES ASSUME NEW i \in 1..top, i > offset, i <= offset + r
                 PROVE  t[i - offset] = data[i - offset]
      OBVIOUS
    <3>1. i - offset \in 1..r
      BY <1>2
    <3> QED
      BY <1>1, <3>1
  <2>4. \A i \in 1..top : (IF i > offset /\ i <= offset + r THEN t[i - offset]
                           ELSE IF i <= size THEN s[i] ELSE 0) = byte(i)
    BY <2>3
  <2> HIDE DEF top, byte
  <2> QED
    BY <2>2, <2>4 DEF t, top, byte, Overwritten
<1> QED
  BY <1>3, <1>4

\* A file that is longer after a truncation has zeros at its end.
LEMMA ExtendRefines ==
    ASSUME NEW s, NEW size \in Nat, Len(s) = size, s = [i \in 1..size |-> s[i]],
           NEW missing \in Nat, NEW r \in 0..missing,
           NEW bytes,
           Overwritten(bytes, s, size, size, [i \in 1..missing |-> 0], r)
    PROVE  bytes = FS!Resize(s, size + r)
<1> DEFINE zeros == [i \in 1..missing |-> 0]
           top == IF size + r > size THEN size + r ELSE size
           at(i) == IF i > size /\ i <= size + r THEN zeros[i - size]
                    ELSE IF i <= size THEN s[i] ELSE 0
<1>1. bytes = [i \in 1..top |-> at(i)]
  BY DEF Overwritten
<1>2. r \in Nat /\ top = size + r
  OBVIOUS
<1>3. ASSUME NEW i \in 1..(size + r) PROVE at(i) = IF i <= size THEN s[i] ELSE 0
  <2>1. CASE i <= size
    BY <1>2, <2>1
  <2>2. CASE ~ (i <= size)
    <3>1. i - size \in 1..missing
      BY <1>2, <2>2
    <3>2. zeros[i - size] = 0
      BY <3>1
    <3> HIDE DEF zeros
    <3> QED
      BY <1>2, <2>2, <3>2
  <2> QED
    BY <2>1, <2>2
<1> HIDE DEF at, top
<1>4. bytes = [i \in 1..(size + r) |-> IF i <= size THEN s[i] ELSE 0]
  BY <1>1, <1>2, <1>3
<1> QED
  BY <1>4 DEF FS!Resize

\* How many of n bytes at offset are in the blocks up to l.
Reached(l, offset, n) ==
    IF l < 0 \/ (l + 1) * BLOCK_SIZE <= offset THEN 0
    ELSE IF offset + n <= (l + 1) * BLOCK_SIZE THEN n
    ELSE (l + 1) * BLOCK_SIZE - offset

\* They are the bytes that a cut after block l has in place.
LEMMA ReachedIs ==
    ASSUME NEW l \in Int, NEW offset \in Nat, NEW n \in Nat
    PROVE  /\ Reached(l, offset, n) \in 0..n
           /\ \A m \in Nat, o \in 0..(BLOCK_SIZE - 1) :
                 /\ m * BLOCK_SIZE + o \in Nat
                 /\ (/\ m <= l
                     /\ offset <= m * BLOCK_SIZE + o
                     /\ m * BLOCK_SIZE + o < offset + n)
                    <=> (/\ offset <= m * BLOCK_SIZE + o
                         /\ m * BLOCK_SIZE + o < offset + Reached(l, offset, n))
<1> USE Constants
<1> DEFINE T == (l + 1) * BLOCK_SIZE
           r == Reached(l, offset, n)
<1>1. r = IF l < 0 \/ T <= offset THEN 0 ELSE IF offset + n <= T THEN n ELSE T - offset
  BY DEF Reached
<1>2. l >= 0 => l + 1 \in Nat /\ T \in Nat
  <2> DEFINE j == l + 1
  <2>1. l >= 0 => j \in Nat
    OBVIOUS
  <2>2. \A x \in Nat : x * BLOCK_SIZE \in Nat
    OBVIOUS
  <2> QED
    BY <2>1, <2>2
<1> HIDE DEF T, r
<1>3. r \in 0..n
  BY <1>1, <1>2
<1>4. ASSUME NEW m \in Nat, NEW o \in 0..(BLOCK_SIZE - 1)
      PROVE  /\ m * BLOCK_SIZE + o \in Nat
             /\ (m <= l /\ offset <= m * BLOCK_SIZE + o /\ m * BLOCK_SIZE + o < offset + n)
                <=> (offset <= m * BLOCK_SIZE + o /\ m * BLOCK_SIZE + o < offset + r)
  <2> DEFINE P == m * BLOCK_SIZE
  <2>1. P \in Nat
    OBVIOUS
  <2>2. CASE l < 0
    <3> HIDE DEF P
    <3> QED
      BY <1>1, <2>1, <2>2
  <2>3. CASE l >= 0
    <3>1. m <= l <=> P + o < T
      <4>1. CASE m < l + 1
        <5>1. P + BLOCK_SIZE <= T
          BY <1>2, <2>3, <4>1, Monotone DEF T
        <5> HIDE DEF P
        <5> QED
          BY <1>2, <2>1, <2>3, <4>1, <5>1
      <4>2. CASE m = l + 1
        <5>1. P = T
          BY <4>2 DEF T
        <5> HIDE DEF P
        <5> QED
          BY <1>2, <2>1, <2>3, <4>2, <5>1
      <4>3. CASE m > l + 1
        <5>1. T + BLOCK_SIZE <= P
          BY <1>2, <2>3, <4>3, Monotone DEF T
        <5> HIDE DEF P
        <5> QED
          BY <1>2, <2>1, <2>3, <4>3, <5>1
      <4> QED
        BY <4>1, <4>2, <4>3
    <3> HIDE DEF P
    <3>2. (m <= l /\ offset <= P + o /\ P + o < offset + n) <=> (offset <= P + o /\ P + o < offset + r)
      BY <1>1, <1>2, <2>1, <2>3, <3>1
    <3> QED
      BY <2>1, <3>2 DEF P
  <2> QED
    BY <2>2, <2>3
<1> QED
  BY <1>3, <1>4, Zenon DEF r

\* bytes are those of s, with the first k bytes of data at offset as far as s goes.
TornTo(bytes, s, size, offset, data, k) ==
    bytes = [i \in 1..size |-> IF i > offset /\ i <= offset + k THEN data[i - offset] ELSE s[i]]

\* Writing within a file that keeps its length.
LEMMA Tearing ==
    ASSUME NEW s, NEW size \in Nat, Len(s) = size, s = [i \in 1..size |-> s[i]],
           NEW data \in Seq(Byte), NEW k \in 0..Len(data), NEW offset \in Nat
    PROVE  TornTo(FS!Resize(FS!Overwrite(s, offset, SubSeq(data, 1, k)), Len(s)),
                  s, size, offset, data, k)
<1> DEFINE t == SubSeq(data, 1, k)
           o == FS!Overwrite(s, offset, t)
           new(i) == IF i > offset /\ i <= offset + k THEN data[i - offset] ELSE s[i]
<1>1. t \in Seq(Byte) /\ Len(t) = k /\ \A i \in 1..k : t[i] = data[i]
  BY Prefix
<1>2. k \in Nat
  OBVIOUS
<1>3. Len(o) >= size /\ \A i \in 1..size : i <= Len(o) /\ o[i] = new(i)
  <2>1. CASE k = 0
    <3>1. t = << >>
      BY <1>1, <2>1, EmptySeq
    <3>2. o = s
      BY <3>1 DEF FS!Overwrite
    <3>3. \A i \in 1..size : new(i) = s[i] /\ i <= size
      BY <2>1
    <3> HIDE DEF o, new
    <3> QED
      BY <3>2, <3>3
  <2>2. CASE k # 0
    <3> DEFINE top == IF offset + k > size THEN offset + k ELSE size
               at(i) == IF i > offset /\ i <= offset + k THEN data[i - offset]
                        ELSE IF i <= size THEN s[i] ELSE 0
    <3>0. t # << >>
      BY <1>1, <2>2
    <3> HIDE DEF t
    <3>1. o = [i \in 1..top |-> IF i > offset /\ i <= offset + k THEN t[i - offset]
                                ELSE IF i <= size THEN s[i] ELSE 0]
      BY <1>1, <3>0 DEF FS!Overwrite
    <3>2. \A i \in 1..top : i > offset /\ i <= offset + k => t[i - offset] = data[i - offset]
      <4> SUFFICES ASSUME NEW i \in 1..top, i > offset, i <= offset + k
                   PROVE  t[i - offset] = data[i - offset]
        OBVIOUS
      <4>1. i - offset \in 1..k
        BY <1>2
      <4> QED
        BY <1>1, <4>1
    <3>3. top \in Nat /\ top >= size
      BY <1>2
    <3> HIDE DEF o, top
    <3>4. Len(o) = top /\ \A i \in 1..top : o[i] = at(i)
      BY <3>1, <3>2, <3>3
    <3>5. \A i \in 1..size : i \in 1..top /\ i <= top /\ at(i) = new(i)
      BY <3>3
    <3> HIDE DEF at, new
    <3> QED
      BY <3>3, <3>4, <3>5
  <2> QED
    BY <2>1, <2>2
<1> HIDE DEF o, new
<1>4. FS!Resize(o, size) = [i \in 1..size |-> new(i)]
  BY <1>3 DEF FS!Resize
<1> QED
  BY <1>4 DEF o, new, TornTo

-----------------------------------------------------------------------------
(* The invariant *)

\* No inode has more blocks than add_datablock_to_inode allows.
WithinLimit == \A f \in File : Len(disk.inode[f].i_blocks) <= MaxBlocks

\* An inode that is not allocated is cleared.
UnusedEmpty == \A f \in File : ~ Exists(f) => disk.inode[f] = Unused

\* The inductive invariant.  That a write preserves the properties needs that the file
\* is within the limit before it, and that create starts from an inode without blocks.
IInv ==
    /\ TypeOK
    /\ OnlyOwnBlocks
    /\ WithinLimit
    /\ UnusedEmpty
    /\ SizeMatchesBlocks
    /\ BlocksAccounted
    /\ TailsClearUnlessCrashed

\* The invariant holds on a new disk.
LEMMA InitIInv == Init => IInv
<1> USE Constants
<1> SUFFICES ASSUME Init PROVE IInv
  OBVIOUS
<1>1. /\ disk.inode = [f \in File |-> Unused] /\ disk.block = [b \in Block |-> Zeros]
      /\ disk.free = Block /\ returned = 0 /\ history = {}
  BY DEF Init
<1>2. Unused \in Inode /\ Zeros \in [0..(BLOCK_SIZE - 1) -> Byte]
  BY FileAssumption DEF Unused, Inode, Zeros
<1>3. disk \in Disk
  <2>1. [f \in File |-> Unused] \in [File -> Inode]
    BY <1>2
  <2>2. [b \in Block |-> Zeros] \in [Block -> [0..(BLOCK_SIZE - 1) -> Byte]]
    BY <1>2
  <2> QED
    BY <2>1, <2>2 DEF Init, Disk
<1>4. \A f \in File : disk.inode[f] = Unused
  BY <1>1
<1>5. \A f \in File : disk.inode[f].i_blocks = << >> /\ Owned(f) = {}
                      /\ disk.inode[f].i_file_size = 0
  BY <1>4 DEF Unused, Owned, Range
<1>6. TypeOK
  BY <1>1, <1>3 DEF TypeOK
<1>7. OnlyOwnBlocks
  BY <1>5 DEF OnlyOwnBlocks, IsInjective
<1>8. WithinLimit /\ UnusedEmpty
  BY <1>4, <1>5 DEF WithinLimit, UnusedEmpty
<1>9. SizeMatchesBlocks
  BY <1>5 DEF SizeMatchesBlocks
<1>10. BlocksAccounted
  BY <1>1, <1>5 DEF BlocksAccounted
<1>11. TailsClearUnlessCrashed
  <2>1. \A f \in File : TailOf(disk, f)
    <3>1. \A f \in File : Len(disk.inode[f].i_blocks) * BLOCK_SIZE = 0
      BY <1>5
    <3> QED
      BY <3>1 DEF TailOf
  <2> QED
    BY <1>3, <2>1, TailForm, Zenon DEF TailsClearUnlessCrashed, TailsClear, ByteAt
<1> QED
  BY <1>6, <1>7, <1>8, <1>9, <1>10, <1>11 DEF IInv

-----------------------------------------------------------------------------
(* Writing *)

\* Every file can be written in a state that satisfies it.
LEMMA MayWrite ==
    ASSUME IInv, NEW f \in File, NEW order \in Orders(disk.free)
    PROVE  CanWrite(disk, order, f)
<1>1. disk \in Disk
  BY DEF IInv, TypeOK
<1>2. disk.free \in SUBSET Block
  BY <1>1 DEF Disk
<1>3. order \in Seq(disk.free) /\ IsInjective(order)
  BY <1>2, OrdersAssumption
<1>4. IsInjective(disk.inode[f].i_blocks) /\ Range(disk.inode[f].i_blocks) \cap disk.free = {}
  BY DEF IInv, OnlyOwnBlocks, Owned
<1>5. Len(disk.inode[f].i_blocks) <= MaxBlocks
  BY DEF IInv, WithinLimit
<1> QED
  BY <1>1, <1>3, <1>4, <1>5 DEF CanWrite

\* A write preserves the invariant, whether it is complete, short, or leaves a hole.
LEMMA WriteStep ==
    ASSUME IInv, NEW f \in File, Exists(f), NEW order \in Orders(disk.free),
           NEW offset \in Nat, NEW data \in Seq(Byte), data # << >>,
           NEW w, w = altfs_write(disk, order, f, offset, data),
           disk' = w.disk, returned' \in Int, history' = history \cup Labels(w)
    PROVE  IInv'
<1> USE Constants
<1>1. CanWrite(disk, order, f)
  BY MayWrite
<1>2. PICK added \in Nat, allocated \in Nat :
         Wrote(disk, order, f, offset, data, w, added, allocated)
  BY <1>1, WriteEffect
<1>3. InodeWritten(disk', disk, f, order, offset + w.returned, added)
  BY <1>1, <1>2, WroteInode
<1> DEFINE node == disk.inode[f]
           have == Len(node.i_blocks)
           size == node.i_file_size
           n == Len(data)
           r == w.returned
           end == offset + r
           taken == Range(SubSeq(order, 1, added))
           gone == Range(SubSeq(order, 1, allocated))
<1>4. /\ disk \in Disk /\ disk.inode \in [File -> Inode] /\ node \in Inode
      /\ have \in Nat /\ size \in Nat /\ n \in Nat \ {0} /\ node.i_blocks \in Seq(Block)
      /\ node.i_allocated
  BY EmptySeq DEF IInv, TypeOK, Disk, Inode, Exists
<1>5. /\ added \in 0..allocated /\ allocated \in 0..Len(order) /\ have + added <= MaxBlocks
      /\ w.lost <=> added # allocated
      /\ w.hole <=> r = 0 /\ offset > size
      /\ disk' \in Disk
      /\ disk'.free = disk.free \ gone
      /\ \A b \in Block \ (Range(node.i_blocks) \cup disk.free) : disk'.block[b] = disk.block[b]
      /\ Fits(have + added, added, offset, n, r)
  BY <1>2, Zenon DEF Wrote
<1>6. r \in Nat /\ end \in Nat
  <2>1. r = 0 \/ r = n \/ r \in 1..(n - 1)
    BY <1>5 DEF Fits
  <2> HIDE DEF r, n
  <2> QED
    BY <1>4, <2>1
<1>7. /\ disk'.inode[f].i_file_size = IF end > size THEN end ELSE size
      /\ disk'.inode[f].i_allocated
      /\ \A g \in File \ {f} : disk'.inode[g] = disk.inode[g]
      /\ disk'.inode[f].i_blocks \in Seq(Block)
      /\ Len(disk'.inode[f].i_blocks) = have + added
      /\ IsInjective(disk'.inode[f].i_blocks)
      /\ Range(disk'.inode[f].i_blocks) = Range(node.i_blocks) \cup taken
      /\ \A i \in 1..have : disk'.inode[f].i_blocks[i] = node.i_blocks[i]
  BY <1>3, <1>4, Zenon DEF InodeWritten, IsAppended
<1>8. taken \subseteq gone /\ gone \subseteq disk.free /\ (added = allocated => taken = gone)
  <2>1. order \in Seq(disk.free) /\ Len(order) \in Nat
    BY <1>1, LenProperties DEF CanWrite
  <2>2. added \in 0..Len(order)
    BY <1>5, <2>1
  <2>3. taken = {order[i] : i \in 1..added}
    BY <2>1, <2>2, Prefix
  <2>4. gone = {order[i] : i \in 1..allocated} /\ gone \subseteq disk.free
    BY <1>5, <2>1, Prefix
  <2>5. \A i \in 1..added : i \in 1..allocated
    BY <1>5
  <2> QED
    BY <2>3, <2>4, <2>5
<1>9. /\ Owned(f)' = Owned(f) \cup taken
      /\ \A g \in File \ {f} : Owned(g)' = Owned(g)
  BY <1>7 DEF Owned
<1>10. \A g \in File : Owned(g) \cap disk.free = {}
  BY DEF IInv, OnlyOwnBlocks
<1> HIDE DEF node, taken, gone, n, r, end, have, size
<1>11. history' \subseteq {"crash", "hole", "limit"}
  BY DEF IInv, TypeOK, Labels
<1>12. TypeOK'
  BY <1>5, <1>11 DEF TypeOK
<1>13. OnlyOwnBlocks'
  <2>1. ASSUME NEW g \in File PROVE Owned(g)' \cap disk'.free = {}
    <3>1. CASE g = f
      BY <1>5, <1>8, <1>9, <1>10, <3>1
    <3>2. CASE g # f
      BY <1>5, <1>9, <1>10, <3>2
    <3> QED
      BY <3>1, <3>2
  <2>2. ASSUME NEW g \in File PROVE IsInjective(disk'.inode[g].i_blocks)
    <3>1. CASE g = f
      BY <1>7, <3>1
    <3>2. CASE g # f
      BY <1>7, <3>2 DEF IInv, OnlyOwnBlocks
    <3> QED
      BY <3>1, <3>2
  <2>3. ASSUME NEW g \in File, NEW h \in File \ {g} PROVE Owned(g)' \cap Owned(h)' = {}
    <3>1. Owned(g) \cap Owned(h) = {}
      BY DEF IInv, OnlyOwnBlocks
    <3>2. Owned(g)' \subseteq Owned(g) \cup IF g = f THEN taken ELSE {}
      BY <1>9
    <3>3. Owned(h)' \subseteq Owned(h) \cup IF h = f THEN taken ELSE {}
      BY <1>9
    <3> QED
      BY <1>8, <1>10, <3>1, <3>2, <3>3
  <2> QED
    BY <2>1, <2>2, <2>3 DEF OnlyOwnBlocks
<1>14. WithinLimit'
  BY <1>5, <1>7 DEF WithinLimit, IInv
<1>15. UnusedEmpty'
  BY <1>7 DEF UnusedEmpty, IInv, Exists
<1>16. SizeMatchesBlocks'
  <2> SUFFICES ASSUME "hole" \notin history', NEW g \in File
               PROVE  Len(disk'.inode[g].i_blocks) = Kept(disk'.inode[g].i_file_size)
    BY DEF SizeMatchesBlocks, Kept
  <2>1. "hole" \notin history /\ ~ w.hole
    BY DEF Labels
  <2>2. \A h \in File : Len(disk.inode[h].i_blocks) = Kept(disk.inode[h].i_file_size)
    BY <2>1 DEF IInv, SizeMatchesBlocks, Kept
  <2>3. CASE g = f
    <3>1. have = Kept(size)
      BY <2>2 DEF have, size, node
    <3>2. have + added = Kept(IF offset + r > size THEN offset + r ELSE size)
      <4>1. ~ (r = 0 /\ offset > size)
        BY <1>5, <2>1
      <4>2. Fits(have + added, added, offset, n, r)
        BY <1>5
      <4>3. size \in Nat /\ have \in Nat /\ n \in Nat \ {0} /\ r \in Nat
        BY <1>4, <1>6
      <4> QED
        BY <3>1, <4>1, <4>2, <4>3, SizeAfterWrite
    <3> QED
      BY <1>7, <2>3, <3>2 DEF end
  <2>4. CASE g # f
    BY <1>7, <2>2, <2>4
  <2> QED
    BY <2>3, <2>4
<1>17. BlocksAccounted'
  <2> SUFFICES ASSUME history' \subseteq {"hole"}
               PROVE  Block = disk'.free \cup UNION {Owned(g)' : g \in File}
    BY DEF BlocksAccounted
  <2>1. history \subseteq {"hole"} /\ ~ w.lost
    <3>1. Labels(w) \subseteq {"hole"}
      OBVIOUS
    <3>2. w.lost => "limit" \in Labels(w)
      BY DEF Labels
    <3> QED
      BY <3>1, <3>2
  <2>2. Block = disk.free \cup UNION {Owned(g) : g \in File}
    BY <2>1 DEF IInv, BlocksAccounted
  <2>3. taken = gone
    BY <1>5, <1>8, <2>1
  <2>4. \A g \in File : Owned(g) \subseteq Owned(g)'
    BY <1>9
  <2>5. ASSUME NEW b \in Block
        PROVE  b \in disk'.free \cup UNION {Owned(g)' : g \in File}
    <3>1. CASE b \in disk.free
      BY <1>5, <1>9, <2>3, <3>1
    <3>2. CASE b \notin disk.free
      <4>1. PICK g \in File : b \in Owned(g)
        BY <2>2, <3>2
      <4> QED
        BY <2>4, <4>1
    <3> QED
      BY <3>1, <3>2
  <2>6. disk'.free \subseteq Block
    BY <1>5 DEF Disk
  <2>7. ASSUME NEW g \in File PROVE Owned(g)' \subseteq Block
    <3>1. disk'.inode[g].i_blocks \in Seq(Block)
      BY <1>5 DEF Disk, Inode
    <3> QED
      BY <3>1, RangeOfSeq DEF Owned
  <2> QED
    BY <2>5, <2>6, <2>7
<1>18. TailsClearUnlessCrashed'
  <2> SUFFICES ASSUME "crash" \notin history' PROVE \A g \in File : TailOf(disk', g)
    BY <1>5, TailForm, Zenon DEF TailsClearUnlessCrashed, TailsClear, ByteAt
  <2>1. \A g \in File : TailOf(disk, g)
    BY <1>4, TailForm, Zenon DEF IInv, TailsClearUnlessCrashed, TailsClear, ByteAt
  <2>2. ASSUME NEW p \in Nat, disk'.inode[f].i_file_size <= p,
               p < (have + added) * BLOCK_SIZE
        PROVE  ByteOf(disk', f, p) = 0
    <3> DEFINE old == IF p < have * BLOCK_SIZE THEN ByteOf(disk, f, p) ELSE 0
    <3>1. ByteOf(disk', f, p) = After(data, offset, p, old)
      <4>1. p < (Len(disk.inode[f].i_blocks) + added) * BLOCK_SIZE
        BY <2>2 DEF have, node
      <4>2. ByteOf(w.disk, f, p) =
              After(data, offset, p,
                    IF p < Len(disk.inode[f].i_blocks) * BLOCK_SIZE
                    THEN ByteOf(disk, f, p) ELSE 0)
        <5>1. BytesWritten(w.disk, disk, f, offset, data, added)
          BY <1>1, <1>2, WroteBytes
        <5> QED
          BY <4>1, <5>1 DEF BytesWritten
      <4> QED
        BY <4>2 DEF have, node
    <3>2. size <= p /\ end <= p
      BY <1>4, <1>6, <1>7, <2>2
    <3>3. old = 0
      BY <2>1, <3>2 DEF TailOf, have, size, node
    <3>4. ~ (offset <= p /\ p < offset + n)
      <4>1. CASE r = 0 /\ have + added <= offset \div BLOCK_SIZE
        <5> DEFINE q == offset \div BLOCK_SIZE
                   m == have + added
        <5>1. q \in Nat /\ q * BLOCK_SIZE \in Nat /\ q * BLOCK_SIZE <= offset
          BY Floor
        <5>2. m \in Nat /\ m * BLOCK_SIZE \in Nat /\ m <= q
          BY <1>4, <4>1
        <5> HIDE DEF q, m
        <5>3. m * BLOCK_SIZE <= q * BLOCK_SIZE
          <6>1. CASE m = q
            BY <5>1, <6>1
          <6>2. CASE m < q
            BY <5>1, <5>2, <6>2, Monotone
          <6> QED
            BY <5>1, <5>2, <6>1, <6>2
        <5>4. p < m * BLOCK_SIZE
          BY <2>2 DEF m
        <5> DEFINE a == m * BLOCK_SIZE
                   b == q * BLOCK_SIZE
        <5> HIDE DEF a, b
        <5> QED
          BY <5>1, <5>2, <5>3, <5>4 DEF a, b
      <4>2. CASE r = n
        BY <1>4, <1>6, <3>2, <4>2 DEF end
      <4>3. CASE offset + r = (have + added) * BLOCK_SIZE
        BY <1>6, <2>2, <3>2, <4>3 DEF end
      <4> QED
        BY <1>5, <4>1, <4>2, <4>3 DEF Fits
    <3> QED
      BY <3>1, <3>3, <3>4 DEF After, n
  <2>3. ASSUME NEW g \in File, g # f PROVE TailOf(disk', g)
    <3>1. disk'.inode[g] = disk.inode[g]
      BY <1>7, <2>3
    <3>2. Untouched(disk', disk, g)
      <4>1. disk.inode[g].i_blocks \in Seq(Block)
        BY <1>4 DEF Inode
      <4>2. Owned(g) \subseteq Block
        BY <4>1, RangeOfSeq DEF Owned
      <4>3. Owned(g) \cap Owned(f) = {} /\ Owned(g) \cap disk.free = {}
        BY <1>10, <2>3 DEF IInv, OnlyOwnBlocks
      <4> QED
        BY <1>5, <3>1, <4>2, <4>3 DEF Untouched, Owned, node
    <3>3. SameIn(disk', disk, g)
      BY <1>4, <3>2, SameBytes, Zenon
    <3> QED
      BY <2>1, <3>1, <3>3 DEF TailOf, SameIn
  <2>4. TailOf(disk', f)
    BY <1>7, <2>2 DEF TailOf
  <2> QED
    BY <2>3, <2>4
<1> QED
  BY <1>12, <1>13, <1>14, <1>15, <1>16, <1>17, <1>18 DEF IInv

\* A crash in a write leaves every inode, so it can only lose free blocks and spoil tails.
LEMMA CrashStep ==
    ASSUME IInv, NEW f \in File, NEW offset \in Nat, NEW data \in Seq(Byte), data # << >>,
           CrashInWrite(f, offset, data)
    PROVE  IInv'
<1>1. PICK order \in Orders(disk.free) :
         disk' \in altfs_write(disk, order, f, offset, data).cuts
  BY DEF CrashInWrite
<1>2. CanWrite(disk, order, f)
  BY MayWrite
<1>3. PICK l \in Int, k \in Nat : Cut(disk', disk, order, f, offset, data, l, k)
  BY <1>1, <1>2, CutEffect, Zenon
<1>4. disk' \in Disk /\ disk'.inode = disk.inode /\ disk'.free \subseteq disk.free
  BY <1>3 DEF Cut
<1>5. "crash" \in history' /\ history' = history \cup {"crash"} /\ returned' = returned
  BY DEF CrashInWrite
<1>6. TypeOK'
  BY <1>4, <1>5 DEF IInv, TypeOK
<1>7. OnlyOwnBlocks'
  BY <1>4 DEF IInv, OnlyOwnBlocks, Owned
<1>8. WithinLimit' /\ UnusedEmpty'
  BY <1>4 DEF IInv, WithinLimit, UnusedEmpty, Exists
<1>9. SizeMatchesBlocks'
  BY <1>4, <1>5 DEF IInv, SizeMatchesBlocks
<1>10. BlocksAccounted' /\ TailsClearUnlessCrashed'
  BY <1>5 DEF BlocksAccounted, TailsClearUnlessCrashed
<1> QED
  BY <1>6, <1>7, <1>8, <1>9, <1>10 DEF IInv

-----------------------------------------------------------------------------
(* Truncating *)

\* A call that changes nothing but what was returned last.
LEMMA KeepStep ==
    ASSUME IInv, disk' = disk, history' = history, returned' \in Int
    PROVE  IInv'
BY DEF IInv, TypeOK, OnlyOwnBlocks, WithinLimit, UnusedEmpty, SizeMatchesBlocks,
       BlocksAccounted, TailsClearUnlessCrashed, TailsClear, ByteAt, Owned, Exists

\* A truncation to a length the file has.
LEMMA ShrinkStep ==
    ASSUME IInv, NEW f \in File, Exists(f), NEW length \in Nat,
           Kept(length) <= Len(disk.inode[f].i_blocks),
           disk' = Shrunk(disk, f, length), returned' \in Int, history' = history
    PROVE  IInv'
<1> USE Constants
<1> DEFINE node == disk.inode[f]
           blocks == node.i_blocks
           k == Kept(length)
           rest == {blocks[i] : i \in (k + 1)..Len(blocks)}
           kept == {blocks[i] : i \in 1..k}
<1>1. /\ disk \in Disk /\ disk.inode \in [File -> Inode] /\ node \in Inode
      /\ blocks \in Seq(Block) /\ Len(blocks) \in Nat /\ node.i_allocated
      /\ IsInjective(blocks)
  BY DEF IInv, TypeOK, OnlyOwnBlocks, Disk, Inode, Exists
<1>2. k \in Nat /\ k <= Len(blocks) /\ k \in 0..Len(blocks)
  BY <1>1, KeptBounds
<1>3. ShrunkTo(disk', disk, f, length)
  BY <1>1, ShrunkEffect
<1>4. /\ disk' \in Disk
      /\ disk'.inode = [disk.inode EXCEPT ![f] = [node EXCEPT
             !.i_blocks = SubSeq(blocks, 1, k), !.i_file_size = length]]
      /\ disk'.free = disk.free \cup rest
      /\ \A b \in Block \ Range(blocks) : disk'.block[b] = disk.block[b]
      /\ \A l \in 0..(k - 1), o \in 0..(BLOCK_SIZE - 1) :
            disk'.block[blocks[l + 1]][o] =
                IF l * BLOCK_SIZE + o >= length THEN 0 ELSE disk.block[blocks[l + 1]][o]
  BY <1>3, Zenon DEF ShrunkTo
<1>5. /\ SubSeq(blocks, 1, k) \in Seq(Block) /\ Len(SubSeq(blocks, 1, k)) = k
      /\ \A i \in 1..k : SubSeq(blocks, 1, k)[i] = blocks[i]
      /\ Range(SubSeq(blocks, 1, k)) = kept
  BY <1>1, <1>2, Prefix
<1>6. /\ disk'.inode[f].i_blocks = SubSeq(blocks, 1, k)
      /\ disk'.inode[f].i_file_size = length
      /\ disk'.inode[f].i_allocated
      /\ \A g \in File \ {f} : disk'.inode[g] = disk.inode[g]
  <2> DEFINE s == SubSeq(blocks, 1, k)
  <2> HIDE DEF node, k, blocks, s
  <2>1. disk'.inode = [disk.inode EXCEPT ![f] = [node EXCEPT !.i_blocks = s, !.i_file_size = length]]
    BY <1>4 DEF s
  <2>2. disk'.inode[f] = [node EXCEPT !.i_blocks = s, !.i_file_size = length]
        /\ \A g \in File \ {f} : disk'.inode[g] = disk.inode[g]
    BY <1>1, <2>1
  <2> QED
    BY <1>1, <2>2 DEF Inode, s
<1>7. kept \cap rest = {} /\ kept \cup rest = Range(blocks)
  <2>1. DOMAIN blocks = 1..Len(blocks)
    BY <1>1
  <2>2. \A i \in 1..Len(blocks), j \in 1..Len(blocks) : blocks[i] = blocks[j] => i = j
    BY <1>1, <2>1 DEF IsInjective
  <2>3. \A i \in 1..k : i \in 1..Len(blocks) /\ i \notin (k + 1)..Len(blocks)
    BY <1>1, <1>2
  <2>4. \A i \in (k + 1)..Len(blocks) : i \in 1..Len(blocks) /\ i \notin 1..k
    BY <1>1, <1>2
  <2>5. \A i \in 1..Len(blocks) : i \in 1..k \/ i \in (k + 1)..Len(blocks)
    BY <1>1, <1>2
  <2>6. Range(blocks) = {blocks[i] : i \in 1..Len(blocks)}
    BY <2>1 DEF Range
  <2> HIDE DEF k, blocks
  <2>7. kept \cap rest = {}
    BY <2>2, <2>3, <2>4
  <2>8. kept \cup rest = Range(blocks)
    BY <2>3, <2>4, <2>5, <2>6
  <2> QED
    BY <2>7, <2>8
<1>8. /\ Owned(f)' = kept /\ Owned(f) = kept \cup rest
      /\ \A g \in File \ {f} : Owned(g)' = Owned(g)
  BY <1>5, <1>6, <1>7 DEF Owned
<1>9. \A g \in File : Owned(g) \cap disk.free = {}
                      /\ \A h \in File \ {g} : Owned(g) \cap Owned(h) = {}
  BY DEF IInv, OnlyOwnBlocks
<1> HIDE DEF node, blocks, k, rest, kept
<1>10. TypeOK'
  BY <1>4 DEF IInv, TypeOK
<1>11. OnlyOwnBlocks'
  <2>1. ASSUME NEW g \in File PROVE Owned(g)' \cap disk'.free = {}
    <3>1. CASE g = f
      BY <1>4, <1>7, <1>8, <1>9, <3>1
    <3>2. CASE g # f
      BY <1>4, <1>8, <1>9, <3>2
    <3> QED
      BY <3>1, <3>2
  <2>2. ASSUME NEW g \in File PROVE IsInjective(disk'.inode[g].i_blocks)
    <3>1. CASE g = f
      <4> DEFINE s == SubSeq(blocks, 1, k)
      <4>1. DOMAIN s = 1..k /\ DOMAIN blocks = 1..Len(blocks)
        BY <1>1, <1>5
      <4>2. \A i \in 1..k : s[i] = blocks[i] /\ i \in 1..Len(blocks)
        BY <1>1, <1>2, <1>5
      <4> HIDE DEF s
      <4>3. IsInjective(s)
        BY <1>1, <4>1, <4>2 DEF IsInjective
      <4> QED
        BY <1>6, <3>1, <4>3 DEF s
    <3>2. CASE g # f
      BY <1>6, <3>2 DEF IInv, OnlyOwnBlocks
    <3> QED
      BY <3>1, <3>2
  <2>3. ASSUME NEW g \in File, NEW h \in File \ {g} PROVE Owned(g)' \cap Owned(h)' = {}
    <3>1. Owned(g)' \subseteq Owned(g) /\ Owned(h)' \subseteq Owned(h)
      BY <1>8
    <3> QED
      BY <1>9, <3>1
  <2> QED
    BY <2>1, <2>2, <2>3 DEF OnlyOwnBlocks
<1>12. WithinLimit'
  <2>1. Len(blocks) <= MaxBlocks
    BY DEF IInv, WithinLimit, blocks, node
  <2>2. Len(disk'.inode[f].i_blocks) <= MaxBlocks
    <3>1. Len(disk'.inode[f].i_blocks) = k
      BY <1>5, <1>6
    <3> QED
      BY <1>1, <1>2, <2>1, <3>1
  <2>3. ASSUME NEW g \in File \ {f} PROVE Len(disk'.inode[g].i_blocks) <= MaxBlocks
    BY <1>6 DEF WithinLimit, IInv
  <2> QED
    BY <2>2, <2>3 DEF WithinLimit
<1>13. UnusedEmpty'
  BY <1>6 DEF UnusedEmpty, IInv, Exists
<1>14. SizeMatchesBlocks'
  <2> SUFFICES ASSUME "hole" \notin history, NEW g \in File
               PROVE  Len(disk'.inode[g].i_blocks) = Kept(disk'.inode[g].i_file_size)
    BY DEF SizeMatchesBlocks, Kept
  <2>1. \A h \in File : Len(disk.inode[h].i_blocks) = Kept(disk.inode[h].i_file_size)
    BY DEF IInv, SizeMatchesBlocks, Kept
  <2> QED
    BY <1>5, <1>6, <2>1 DEF k
<1>15. BlocksAccounted'
  <2> SUFFICES ASSUME history \subseteq {"hole"}
               PROVE  Block = disk'.free \cup UNION {Owned(g)' : g \in File}
    BY DEF BlocksAccounted
  <2>1. Block = disk.free \cup UNION {Owned(g) : g \in File}
    BY DEF IInv, BlocksAccounted
  <2>2. UNION {Owned(g) : g \in File} = Owned(f) \cup UNION {Owned(g) : g \in File \ {f}}
    OBVIOUS
  <2>3. UNION {Owned(g)' : g \in File} = Owned(f)' \cup UNION {Owned(g) : g \in File \ {f}}
    BY <1>8
  <2> QED
    BY <1>4, <1>8, <2>1, <2>2, <2>3
<1>16. TailsClearUnlessCrashed'
  <2> SUFFICES ASSUME "crash" \notin history PROVE \A g \in File : TailOf(disk', g)
    BY <1>4, TailForm, Zenon DEF TailsClearUnlessCrashed, TailsClear, ByteAt
  <2>1. \A g \in File : TailOf(disk, g)
    BY <1>1, TailForm, Zenon DEF IInv, TailsClearUnlessCrashed, TailsClear, ByteAt
  <2>2. ASSUME NEW g \in File, g # f PROVE TailOf(disk', g)
    <3>1. disk'.inode[g] = disk.inode[g]
      BY <1>6, <2>2
    <3>2. \A b \in Range(disk.inode[g].i_blocks) : disk'.block[b] = disk.block[b]
      <4>1. Range(disk.inode[g].i_blocks) \subseteq Block
        <5>1. disk.inode[g].i_blocks \in Seq(Block)
          BY <1>1 DEF Inode
        <5> QED
          BY <5>1, RangeOfSeq
      <4>2. Range(disk.inode[g].i_blocks) \cap Range(blocks) = {}
        BY <1>9, <2>2 DEF Owned, blocks, node
      <4> QED
        BY <1>4, <4>1, <4>2
    <3>3. SameIn(disk', disk, g)
      <4>1. Untouched(disk', disk, g)
        BY <3>1, <3>2 DEF Untouched
      <4> QED
        BY <1>1, <4>1, SameBytes, Zenon
    <3> QED
      BY <2>1, <3>1, <3>3 DEF TailOf, SameIn
  <2>3. ASSUME NEW p \in Nat, length <= p, p < k * BLOCK_SIZE PROVE ByteOf(disk', f, p) = 0
    <3> DEFINE l == p \div BLOCK_SIZE
               o == p % BLOCK_SIZE
    <3>1. l \in 0..(k - 1) /\ o \in 0..(BLOCK_SIZE - 1) /\ l * BLOCK_SIZE + o = p
      BY <1>2, <2>3, Place
    <3> HIDE DEF l, o
    <3>2. disk'.block[blocks[l + 1]][o] = 0
      BY <1>4, <2>3, <3>1
    <3>3. SubSeq(blocks, 1, k)[l + 1] = blocks[l + 1]
      <4>1. l + 1 \in 1..k
        BY <1>2, <3>1
      <4> QED
        BY <1>5, <4>1
    <3> QED
      BY <1>6, <3>2, <3>3 DEF ByteOf, l, o
  <2>4. TailOf(disk', f)
    BY <1>5, <1>6, <2>3 DEF TailOf
  <2> QED
    BY <2>2, <2>4
<1> QED
  BY <1>10, <1>11, <1>12, <1>13, <1>14, <1>15, <1>16 DEF IInv

\* So does altfs_truncate, on each of its paths.
LEMMA TruncateStep ==
    ASSUME IInv, NEW f \in File, Exists(f), NEW order \in Orders(disk.free),
           NEW length \in Nat, Does(altfs_truncate(disk, order, f, length))
    PROVE  IInv'
<1> USE Constants
<1> DEFINE node == disk.inode[f]
           size == node.i_file_size
           missing == length - size
           data == [i \in 1..missing |-> 0]
           w == altfs_write(disk, order, f, size, data)
           value == IF w.returned = missing THEN 0 ELSE -1
           call == altfs_truncate(disk, order, f, length)
<1>1. size \in Nat /\ Len(node.i_blocks) \in Nat
  BY DEF IInv, TypeOK, Disk, Inode
<1>2. disk' = call.disk /\ returned' = call.returned /\ history' = history \cup Labels(call)
  BY DEF Does, Labels
<1>3. CASE length = 0 /\ size = 0
  <2>1. call = Result(disk, 0)
    BY <1>3 DEF altfs_truncate
  <2>2. disk' = disk /\ returned' = 0 /\ history' = history
    BY <1>2, <2>1, ResultFields
  <2> QED
    BY <2>2, KeepStep
<1>4. CASE length > size
  <2>1. call = [w EXCEPT !.returned = value]
    BY <1>1, <1>4 DEF altfs_truncate
  <2>2. missing \in Nat \ {0}
    BY <1>1, <1>4
  <2>3. data \in Seq(Byte) /\ data # << >>
    <3> HIDE DEF missing
    <3> QED
      BY <2>2, Filling
  <2>4. call.disk = w.disk /\ call.returned = value /\ Labels(call) = Labels(w)
    <3>1. DOMAIN w = {"returned", "lost", "hole", "disk", "cuts"}
      BY WriteFields
    <3> HIDE DEF value, call, data, w
    <3> QED
      BY <2>1, <3>1 DEF Labels
  <2>5. returned' \in Int
    BY <1>2, <2>4
  <2> HIDE DEF call, data, value
  <2> QED
    BY <1>1, <1>2, <2>3, <2>4, <2>5, WriteStep, Zenon DEF size, node
<1>5. CASE ~ (length = 0 /\ size = 0) /\ ~ (length > size) /\ length > 0
           /\ LastBlock(0, length) >= Len(node.i_blocks)
  <2>1. call = Result(disk, -1)
    BY <1>5 DEF altfs_truncate
  <2>2. disk' = disk /\ returned' = -1 /\ history' = history
    BY <1>2, <2>1, ResultFields
  <2> QED
    BY <2>2, KeepStep
<1>6. CASE ~ (length = 0 /\ size = 0) /\ ~ (length > size)
           /\ ~ (length > 0 /\ LastBlock(0, length) >= Len(node.i_blocks))
  <2>1. call = Result(Shrunk(disk, f, length), 0)
    BY <1>6 DEF altfs_truncate
  <2>2. disk' = Shrunk(disk, f, length) /\ returned' = 0 /\ history' = history
    BY <1>2, <2>1, ResultFields
  <2>3. Kept(length) <= Len(node.i_blocks)
    BY <1>1, <1>6, ShortEnough
  <2> QED
    BY <2>2, <2>3, ShrinkStep
<1> QED
  BY <1>3, <1>4, <1>5, <1>6

\* A file without contents is opened with O_TRUNC.
LEMMA OpenStep ==
    ASSUME IInv, ~ OpenTruncates, NEW f \in File, OpenAndTruncate(f)
    PROVE  disk' = disk /\ returned' = 0 /\ history' = history
<1>1. altfs_open(disk, f) = Result(disk, 0)
  BY OpenKeeps DEF IInv, TypeOK, OpenAndTruncate
<1>2. Does(Result(disk, 0))
  BY <1>1 DEF OpenAndTruncate
<1> QED
  BY <1>2, ResultFields DEF Does, Labels

-----------------------------------------------------------------------------
(* Creating and unlinking *)

\* An inode without contents is written and its blocks are freed.
LEMMA EmptyStep ==
    ASSUME IInv, NEW f \in File, NEW node, node \in {New, Unused},
           InodeSet(disk', disk, f, node, Range(disk.inode[f].i_blocks)),
           returned' \in Int, history' = history
    PROVE  IInv'
<1> USE Constants
<1>1. /\ node \in Inode /\ node.i_blocks = << >> /\ node.i_file_size = 0
      /\ ~ node.i_allocated => node = Unused
  BY EmptyInodes
<1>2. disk \in Disk /\ disk.inode \in [File -> Inode]
  BY DEF IInv, TypeOK, Disk
<1>3. /\ disk' \in Disk /\ disk'.inode[f] = node
      /\ \A g \in File \ {f} : disk'.inode[g] = disk.inode[g]
      /\ disk'.block = disk.block
      /\ disk'.free = disk.free \cup Owned(f)
  BY DEF InodeSet, Owned
<1>4. Owned(f)' = {} /\ \A g \in File \ {f} : Owned(g)' = Owned(g)
  BY <1>1, <1>3 DEF Owned, Range
<1>5. \A g \in File : Owned(g) \cap disk.free = {}
                      /\ \A h \in File \ {g} : Owned(g) \cap Owned(h) = {}
  BY DEF IInv, OnlyOwnBlocks
<1>6. TypeOK'
  BY <1>3 DEF IInv, TypeOK
<1>7. OnlyOwnBlocks'
  <2>1. ASSUME NEW g \in File PROVE Owned(g)' \cap disk'.free = {}
    <3>1. CASE g = f
      BY <1>4, <3>1
    <3>2. CASE g # f
      BY <1>3, <1>4, <1>5, <3>2
    <3> QED
      BY <3>1, <3>2
  <2>2. ASSUME NEW g \in File PROVE IsInjective(disk'.inode[g].i_blocks)
    <3>1. CASE g = f
      BY <1>1, <1>3, <3>1 DEF IsInjective
    <3>2. CASE g # f
      BY <1>3, <3>2 DEF IInv, OnlyOwnBlocks
    <3> QED
      BY <3>1, <3>2
  <2>3. ASSUME NEW g \in File, NEW h \in File \ {g} PROVE Owned(g)' \cap Owned(h)' = {}
    BY <1>4, <1>5
  <2> QED
    BY <2>1, <2>2, <2>3 DEF OnlyOwnBlocks
<1>8. WithinLimit'
  BY <1>1, <1>3 DEF WithinLimit, IInv
<1>9. UnusedEmpty'
  BY <1>1, <1>3 DEF UnusedEmpty, IInv, Exists
<1>10. SizeMatchesBlocks'
  <2> SUFFICES ASSUME "hole" \notin history, NEW g \in File
               PROVE  Len(disk'.inode[g].i_blocks) = Kept(disk'.inode[g].i_file_size)
    BY DEF SizeMatchesBlocks, Kept
  <2>1. \A h \in File : Len(disk.inode[h].i_blocks) = Kept(disk.inode[h].i_file_size)
    BY DEF IInv, SizeMatchesBlocks, Kept
  <2>2. Kept(0) = 0
    BY DEF Kept
  <2> QED
    BY <1>1, <1>3, <2>1, <2>2
<1>11. BlocksAccounted'
  <2> SUFFICES ASSUME history \subseteq {"hole"}
               PROVE  Block = disk'.free \cup UNION {Owned(g)' : g \in File}
    BY DEF BlocksAccounted
  <2>1. Block = disk.free \cup UNION {Owned(g) : g \in File}
    BY DEF IInv, BlocksAccounted
  <2>2. UNION {Owned(g) : g \in File} = Owned(f) \cup UNION {Owned(g) : g \in File \ {f}}
    OBVIOUS
  <2>3. UNION {Owned(g)' : g \in File} = Owned(f)' \cup UNION {Owned(g) : g \in File \ {f}}
    BY <1>4
  <2> QED
    BY <1>3, <1>4, <2>1, <2>2, <2>3
<1>12. TailsClearUnlessCrashed'
  <2> SUFFICES ASSUME "crash" \notin history PROVE \A g \in File : TailOf(disk', g)
    BY <1>3, TailForm, Zenon DEF TailsClearUnlessCrashed, TailsClear, ByteAt
  <2>1. \A g \in File : TailOf(disk, g)
    BY <1>2, TailForm, Zenon DEF IInv, TailsClearUnlessCrashed, TailsClear, ByteAt
  <2>2. TailOf(disk', f)
    <3>1. Len(disk'.inode[f].i_blocks) * BLOCK_SIZE = 0
      BY <1>1, <1>3
    <3> QED
      BY <3>1 DEF TailOf
  <2>3. ASSUME NEW g \in File, g # f PROVE TailOf(disk', g)
    BY <1>3, <2>1, <2>3 DEF TailOf, ByteOf
  <2> QED
    BY <2>2, <2>3
<1> QED
  BY <1>6, <1>7, <1>8, <1>9, <1>10, <1>11, <1>12 DEF IInv

\* Create and Unlink write such an inode.
LEMMA CreateSets ==
    ASSUME IInv, NEW f \in File, Create(f)
    PROVE  InodeSet(disk', disk, f, New, Range(disk.inode[f].i_blocks))
<1>1. disk \in Disk /\ New \in Inode
  BY EmptyInodes DEF IInv, TypeOK
<1>2. Range(disk.inode[f].i_blocks) = {}
  BY DEF Create, IInv, UnusedEmpty, Unused, Range
<1>3. disk' = [disk EXCEPT !.free = @ \cup {}, !.inode[f] = New]
  <2> HIDE DEF New
  <2> QED
    BY <1>1 DEF Create, Disk
<1> QED
  BY <1>1, <1>2, <1>3, InodeSetBy

\* free_inode frees the blocks of the file.
LEMMA UnlinkSets ==
    ASSUME IInv, NEW f \in File, Unlink(f)
    PROVE  InodeSet(disk', disk, f, Unused, Range(disk.inode[f].i_blocks))
<1>1. disk \in Disk /\ Unused \in Inode /\ disk.inode[f].i_blocks \in Seq(Block)
  BY DEF IInv, TypeOK, Unused, Disk, Inode
<1>2. Range(disk.inode[f].i_blocks) \in SUBSET Block
  BY <1>1, RangeOfSeq
<1> QED
  BY <1>1, <1>2, InodeSetBy DEF Unlink

-----------------------------------------------------------------------------
(* The invariant holds *)

\* Every step preserves it, as long as files with contents are not opened with O_TRUNC.
LEMMA NextIInv ==
    ASSUME ~ OpenTruncates, IInv, [Next]_vars
    PROVE  IInv'
<1>1. CASE UNCHANGED vars
  BY <1>1, KeepStep DEF vars, IInv, TypeOK
<1>2. ASSUME NEW f \in File, Create(f) PROVE IInv'
  <2>1. returned' \in Int /\ history' = history
    BY <1>2 DEF Create
  <2> QED
    BY <1>2, <2>1, CreateSets, EmptyStep
<1>3. ASSUME NEW f \in File, Unlink(f) PROVE IInv'
  <2>1. returned' \in Int /\ history' = history
    BY <1>3 DEF Unlink
  <2> QED
    BY <1>3, <2>1, UnlinkSets, EmptyStep
<1>4. ASSUME NEW f \in File, OpenAndTruncate(f) PROVE IInv'
  BY <1>4, OpenStep, KeepStep
<1>5. ASSUME NEW f \in File, NEW length \in Offset, Truncate(f, length) PROVE IInv'
  <2>1. length \in Nat
    BY FileAssumption
  <2>2. PICK order \in Orders(disk.free) : Does(altfs_truncate(disk, order, f, length))
    BY <1>5 DEF Truncate
  <2> QED
    BY <1>5, <2>1, <2>2, TruncateStep DEF Truncate
<1>6. \A data \in Data : data \in Seq(Byte) /\ data # << >>
  BY FileAssumption
<1>7. ASSUME NEW f \in File, NEW offset \in Offset, NEW data \in Data, Write(f, offset, data)
      PROVE  IInv'
  <2>1. offset \in Nat
    BY FileAssumption
  <2>2. PICK order \in Orders(disk.free) : Does(altfs_write(disk, order, f, offset, data))
    BY <1>7 DEF Write
  <2> DEFINE w == altfs_write(disk, order, f, offset, data)
  <2>3. disk' = w.disk /\ returned' = w.returned /\ history' = history \cup Labels(w)
    BY <2>2 DEF Does, Labels
  <2>4. w.returned \in Int
    <3>1. CanWrite(disk, order, f)
      BY MayWrite
    <3>2. \E added \in Nat, allocated \in Nat :
             Wrote(disk, order, f, offset, data, w, added, allocated)
      BY <1>6, <2>1, <3>1, WriteEffect
    <3>3. \E m, added : Fits(m, added, offset, Len(data), w.returned)
      <4> HIDE DEF w
      <4> QED
        BY <3>2 DEF Wrote
    <3> HIDE DEF w
    <3>4. Len(data) \in Nat
      BY <1>6
    <3> QED
      BY <3>3, <3>4 DEF Fits
  <2> HIDE DEF w
  <2> QED
    BY <1>6, <1>7, <2>1, <2>3, <2>4, WriteStep DEF Write, w
<1>8. ASSUME NEW f \in File, NEW offset \in Offset, NEW data \in Data,
             CrashInWrite(f, offset, data)
      PROVE  IInv'
  <2>1. offset \in Nat
    BY FileAssumption
  <2> QED
    BY <1>6, <1>8, <2>1, CrashStep
<1> QED
  BY <1>1, <1>2, <1>3, <1>4, <1>5, <1>7, <1>8 DEF Next

\* The inductive invariant holds in every state.
THEOREM Inductive == ~ OpenTruncates => (Spec => []IInv)
<1> SUFFICES ASSUME ~ OpenTruncates PROVE Spec => []IInv
  OBVIOUS
<1>1. IInv /\ [Next]_vars => IInv'
  BY NextIInv
<1> QED
  BY <1>1, InitIInv, PTL DEF Spec

\* Whatever is read, written, truncated or cut by a crash, disk, result and history
\* stay what they are meant to be; no write puts a value into a block that is no byte.
THEOREM FileTypes == ~ OpenTruncates => (Spec => []TypeOK)
BY Inductive, PTL DEF IInv

\* No data block is in two files, twice in one, or in a file and free.
THEOREM FileBlocksOwned == ~ OpenTruncates => (Spec => []OnlyOwnBlocks)
BY Inductive, PTL DEF IInv

\* Without an unfilled hole a file has exactly the blocks its size needs.
THEOREM FileSizes == ~ OpenTruncates => (Spec => []SizeMatchesBlocks)
BY Inductive, PTL DEF IInv

\* Blocks are lost only by crashes and by a write beyond what an inode can hold.
THEOREM FileBlocksAccounted == ~ OpenTruncates => (Spec => []BlocksAccounted)
BY Inductive, PTL DEF IInv

\* Behind the end of a file its blocks hold zeros, unless there was a crash.
THEOREM FileTails == ~ OpenTruncates => (Spec => []TailsClearUnlessCrashed)
BY Inductive, PTL DEF IInv

-----------------------------------------------------------------------------
(* Reading *)

\* The contents of one file.
LEMMA ContentsOf ==
    ASSUME disk \in Disk, NEW f \in File
    PROVE  Contents[f] = BytesOf(disk, f)
<1>1. ASSUME NEW g \in File
      PROVE  [i \in 1..disk.inode[g].i_file_size |-> ByteAt(g, i)] = BytesOf(disk, g)
  <2>1. \A i \in 1..disk.inode[g].i_file_size : i \in Nat \ {0}
    BY DEF Disk, Inode
  <2> QED
    BY <2>1, AtPlace DEF BytesOf, ByteAt
<1>2. Contents = [g \in File |-> BytesOf(disk, g)]
  BY <1>1, Zenon DEF Contents
<1> QED
  BY <1>2

\* The invariant has the blocks that altfs_read looks for.
LEMMA ReadReturns ==
    ASSUME IInv
    PROVE  ReadReturnsContents
<1> SUFFICES ASSUME "hole" \notin history, NEW f \in File,
                    NEW offset \in Offset, NEW nbytes \in Offset,
                    offset < disk.inode[f].i_file_size
             PROVE  altfs_read(disk, f, offset, nbytes)
                      = SubSeq(Contents[f], offset + 1,
                               LeastOf(offset + nbytes, disk.inode[f].i_file_size))
  BY DEF ReadReturnsContents
<1> DEFINE size == disk.inode[f].i_file_size
           s == BytesOf(disk, f)
<1>1. disk \in Disk /\ offset \in Nat /\ nbytes \in Nat
  BY FileAssumption DEF IInv, TypeOK
<1>2. size \in Nat /\ DOMAIN s = 1..size
      /\ \A i \in 1..size : s[i] = ByteOf(disk, f, i - 1)
  BY <1>1, BytesLength
<1>3. Contents[f] = s
  BY <1>1, ContentsOf
<1>4. Len(disk.inode[f].i_blocks) = Kept(size)
  BY DEF IInv, SizeMatchesBlocks, Kept
<1>5. CASE nbytes = 0
  <2>1. altfs_read(disk, f, offset, nbytes) = << >>
    BY <1>5 DEF altfs_read
  <2>2. LeastOf(offset + nbytes, size) = offset
    BY <1>1, <1>2, <1>5 DEF LeastOf
  <2>3. SubSeq(s, offset + 1, offset) = << >>
    BY <1>1, SubSeqEmpty
  <2> QED
    BY <1>3, <2>1, <2>2, <2>3
<1>6. CASE nbytes # 0
  <2>1. PICK n \in Nat \ {0} :
           /\ offset + n = LeastOf(offset + nbytes, size)
           /\ altfs_read(disk, f, offset, nbytes)
                 = [k \in 1..n |-> ByteOf(disk, f, offset + (k - 1))]
    <3>1. IsRead(altfs_read(disk, f, offset, nbytes), disk, f, offset, nbytes)
      BY <1>1, <1>4, <1>6, ReadEffect
    <3> QED
      BY <3>1 DEF IsRead
  <2> DEFINE t == SubSeq(s, offset + 1, offset + n)
  <2>2. offset + n <= size
    BY <1>1, <1>2, <2>1 DEF LeastOf
  <2> HIDE DEF size, s
  <2>3. \A k \in 1..n : (offset + 1) + k - 1 = offset + k
                        /\ offset + k \in 1..size /\ (offset + k) - 1 = offset + (k - 1)
    BY <1>1, <1>2, <2>2
  <2>4. t \in Seq(Range(s)) /\ Len(t) = n /\ \A k \in 1..n : t[k] = s[offset + k]
    <3>1. \A i \in (offset + 1)..(offset + n) : s[i] \in Range(s)
      <4>1. \A i \in (offset + 1)..(offset + n) : i \in DOMAIN s
        BY <1>1, <1>2, <2>2
      <4> QED
        BY <4>1 DEF Range
    <3>2. offset + 1 \in Int /\ offset + n \in Int /\ offset + 1 <= offset + n
          /\ (offset + n) - (offset + 1) + 1 = n
      BY <1>1
    <3>3. /\ t \in Seq(Range(s)) /\ Len(t) = (offset + n) - (offset + 1) + 1
          /\ \A i \in 1..((offset + n) - (offset + 1) + 1) : t[i] = s[(offset + 1) + i - 1]
      BY <3>1, <3>2, SubSeqProperties
    <3> QED
      BY <2>3, <3>2, <3>3
  <2>5. t = [k \in 1..n |-> ByteOf(disk, f, offset + (k - 1))]
    <3>1. t = [k \in 1..n |-> t[k]]
      <4> HIDE DEF t
      <4> QED
        BY <2>4
    <3>2. \A k \in 1..n : t[k] = ByteOf(disk, f, offset + (k - 1))
      BY <1>2, <2>3, <2>4
    <3> HIDE DEF t
    <3> QED
      BY <3>1, <3>2
  <2> QED
    BY <1>3, <2>1, <2>5 DEF size
<1> QED
  BY <1>5, <1>6

\* altfs_read returns the bytes of the file from the offset on, as many as asked for
\* or as there are.
THEOREM FileReads == ~ OpenTruncates => (Spec => []ReadReturnsContents)
<1> SUFFICES ASSUME ~ OpenTruncates PROVE Spec => []ReadReturnsContents
  OBVIOUS
<1>1. IInv => ReadReturnsContents
  BY ReadReturns
<1> QED
  BY <1>1, Inductive, PTL

-----------------------------------------------------------------------------
(* The calls implement files as sequences of bytes *)

\* Contents, as a function of the disk.
AllBytes(d) == [f \in File |-> BytesOf(d, f)]

\* Contents before and after a step.
LEMMA ContentsAre ==
    ASSUME disk \in Disk, disk' \in Disk
    PROVE  Contents = AllBytes(disk) /\ Contents' = AllBytes(disk')
<1>1. ASSUME NEW d \in Disk, NEW f \in File
      PROVE  [i \in 1..d.inode[f].i_file_size |->
                 d.block[d.inode[f].i_blocks[LastBlock(0, i) + 1]][(i - 1) % BLOCK_SIZE]]
             = BytesOf(d, f)
  <2>1. \A i \in 1..d.inode[f].i_file_size : i \in Nat \ {0}
    BY DEF Disk, Inode
  <2> QED
    BY <2>1, AtPlace DEF BytesOf
<1>2. Contents = [f \in File |-> BytesOf(disk, f)]
  BY <1>1, Zenon DEF Contents, ByteAt
<1>3. Contents' = [f \in File |-> BytesOf(disk', f)]
  BY <1>1, Zenon DEF Contents, ByteAt
<1> QED
  BY <1>2, <1>3 DEF AllBytes

\* A file is as long as its blocks allow.
LEMMA WithinBlocks ==
    ASSUME IInv, "hole" \notin history, NEW f \in File
    PROVE  /\ disk.inode[f].i_file_size \in Nat
           /\ Len(disk.inode[f].i_blocks) \in Nat
           /\ Len(disk.inode[f].i_blocks) = Kept(disk.inode[f].i_file_size)
           /\ Len(disk.inode[f].i_blocks) * BLOCK_SIZE \in Nat
           /\ disk.inode[f].i_file_size <= Len(disk.inode[f].i_blocks) * BLOCK_SIZE
<1> DEFINE size == disk.inode[f].i_file_size
           have == Len(disk.inode[f].i_blocks)
<1>1. size \in Nat /\ have = Kept(size)
  BY DEF IInv, TypeOK, Disk, Inode, SizeMatchesBlocks, Kept
<1> HIDE DEF size, have
<1>2. have \in Nat /\ have * BLOCK_SIZE \in Nat /\ size <= have * BLOCK_SIZE
  BY <1>1, KeptBounds
<1> QED
  BY <1>1, <1>2 DEF size, have

\* An untouched file has the contents it had.
LEMMA SameContents ==
    ASSUME IInv, "hole" \notin history, NEW c, NEW g \in File, Untouched(c, disk, g)
    PROVE  BytesOf(c, g) = BytesOf(disk, g)
<1> DEFINE size == disk.inode[g].i_file_size
           have == Len(disk.inode[g].i_blocks)
           H == have * BLOCK_SIZE
<1>1. SameIn(c, disk, g)
  BY SameBytes DEF IInv, TypeOK
<1>2. size \in Nat /\ H \in Nat /\ size <= H
  BY WithinBlocks
<1>3. c.inode[g].i_file_size = size
  BY DEF Untouched
<1>4. \A p \in Nat : p < H => ByteOf(c, g, p) = ByteOf(disk, g, p)
  BY <1>1 DEF SameIn
<1> HIDE DEF size, H
<1>5. \A i \in 1..size : i - 1 \in Nat /\ i - 1 < H
  BY <1>2
<1>6. [i \in 1..size |-> ByteOf(c, g, i - 1)] = [i \in 1..size |-> ByteOf(disk, g, i - 1)]
  BY <1>4, <1>5
<1> QED
  BY <1>3, <1>6 DEF BytesOf, size

\* A step that touches one file changes the contents of that file.
LEMMA OneFile ==
    ASSUME IInv, "hole" \notin history, disk' \in Disk, NEW f \in File,
           \A g \in File \ {f} : Untouched(disk', disk, g),
           NEW s, BytesOf(disk', f) = s
    PROVE  Contents' = [Contents EXCEPT ![f] = s] /\ Contents[f] = BytesOf(disk, f)
<1>1. disk \in Disk
  BY DEF IInv, TypeOK
<1>2. Contents = AllBytes(disk) /\ Contents' = AllBytes(disk')
  BY <1>1, ContentsAre
<1>3. \A g \in File \ {f} : BytesOf(disk', g) = BytesOf(disk, g)
  BY SameContents, Zenon
<1>4. AllBytes(disk') = [AllBytes(disk) EXCEPT ![f] = s]
  BY <1>3 DEF AllBytes
<1> QED
  BY <1>2, <1>4 DEF AllBytes

\* The write w to file f puts down what it says it wrote, with zeros in front of
\* it where the file ended before, and touches no other file.
WritesBytes(w, d, f, offset, data) ==
    /\ w.returned \in 0..Len(data)
    /\ \A g \in File \ {f} : Untouched(w.disk, d, g)
    /\ Overwritten(BytesOf(w.disk, f), BytesOf(d, f), d.inode[f].i_file_size,
                   offset, data, w.returned)
    /\ BytesOf(w.disk, f) = FS!Overwrite(BytesOf(d, f), offset, SubSeq(data, 1, w.returned))

\* Every write that leaves no hole does, if the tail of the file was clear.
LEMMA WriteContents ==
    ASSUME IInv, "hole" \notin history, NEW f \in File, TailOf(disk, f),
           NEW order, CanWrite(disk, order, f),
           NEW offset \in Nat, NEW data \in Seq(Byte), data # << >>,
           NEW w, NEW added \in Nat, NEW allocated \in Nat,
           Wrote(disk, order, f, offset, data, w, added, allocated), ~ w.hole
    PROVE  WritesBytes(w, disk, f, offset, data)
<1> USE Constants
<1> DEFINE size == disk.inode[f].i_file_size
           have == Len(disk.inode[f].i_blocks)
           H == have * BLOCK_SIZE
           m == have + added
           M == m * BLOCK_SIZE
           n == Len(data)
           r == w.returned
           end == offset + r
           top == IF end > size THEN end ELSE size
           s == BytesOf(disk, f)
<1>1. /\ size \in Nat /\ have \in Nat /\ have = Kept(size) /\ H \in Nat /\ size <= H
      /\ n \in Nat \ {0} /\ disk \in Disk
  BY WithinBlocks, EmptySeq DEF IInv, TypeOK
<1>2. /\ w.hole <=> r = 0 /\ offset > size
      /\ w.disk \in Disk
      /\ \A b \in Block \ (Range(disk.inode[f].i_blocks) \cup disk.free) :
            w.disk.block[b] = disk.block[b]
      /\ Fits(m, added, offset, n, r)
  BY Zenon DEF Wrote
<1>3. InodeWritten(w.disk, disk, f, order, end, added)
  BY WroteInode
<1>4. w.disk.inode[f].i_file_size = top /\ \A g \in File \ {f} : w.disk.inode[g] = disk.inode[g]
  BY <1>3 DEF InodeWritten
<1>5. BytesWritten(w.disk, disk, f, offset, data, added)
  BY WroteBytes
<1>6. r \in 0..n /\ end \in Nat /\ m \in Nat
  <2>1. r = 0 \/ r = n \/ r \in 1..(n - 1)
    BY <1>2 DEF Fits
  <2> HIDE DEF n, r, have
  <2>2. r \in 0..n /\ r \in Nat
    BY <1>1, <2>1
  <2> QED
    BY <1>1, <2>2
<1>7. r = 0 => offset <= size
  BY <1>1, <1>2
<1>8. top \in Nat /\ M \in Nat /\ top <= M
  <2>1. m = Kept(top)
    <3>1. ~ (r = 0 /\ offset > size)
      BY <1>2
    <3>2. r \in Nat
      BY <1>1, <1>6
    <3> HIDE DEF size, have, n, r
    <3> QED
      BY <1>1, <1>2, <3>1, <3>2, SizeAfterWrite
  <2>2. top \in Nat
    BY <1>1, <1>6
  <2> HIDE DEF m, top
  <2> QED
    BY <2>1, <2>2, KeptBounds
<1>9. ASSUME NEW g \in File \ {f} PROVE Untouched(w.disk, disk, g)
  <2>1. disk.inode[g].i_blocks \in Seq(Block)
    BY <1>1 DEF Disk, Inode
  <2>2. Owned(g) \subseteq Block
    BY <2>1, RangeOfSeq DEF Owned
  <2>3. Owned(g) \cap Owned(f) = {} /\ Owned(g) \cap disk.free = {}
    BY DEF IInv, OnlyOwnBlocks
  <2> QED
    BY <1>2, <1>4, <2>2, <2>3 DEF Untouched, Owned
<1> HIDE DEF size, have, H, m, M, n, r, end, top
<1>10. ASSUME NEW p \in Nat, p < M
       PROVE  (offset <= p /\ p < offset + n) <=> (offset <= p /\ p < end)
  <2>1. CASE r = 0 /\ m <= offset \div BLOCK_SIZE
    <3> DEFINE q == offset \div BLOCK_SIZE
               Q == q * BLOCK_SIZE
    <3>1. q \in Nat /\ Q \in Nat /\ Q <= offset
      BY Floor
    <3>2. M <= Q
      <4> HIDE DEF q
      <4>1. CASE m = q
        BY <1>6, <3>1, <4>1 DEF M
      <4>2. CASE m < q
        <5>1. M + BLOCK_SIZE <= Q
          BY <1>6, <3>1, <4>2, Monotone DEF M
        <5> HIDE DEF Q
        <5> QED
          BY <1>8, <3>1, <5>1
      <4> QED
        BY <1>6, <2>1, <3>1, <4>1, <4>2 DEF q
    <3> HIDE DEF q, Q
    <3>3. p < offset
      BY <1>8, <1>10, <3>1, <3>2
    <3> QED
      BY <3>3
  <2>2. CASE r = n
    BY <2>2 DEF end
  <2>3. CASE offset + r = M /\ r \in 1..(n - 1)
    BY <1>1, <1>6, <1>8, <1>10, <2>3 DEF end
  <2> QED
    BY <1>2, <2>1, <2>2, <2>3 DEF Fits, M
<1>11. ASSUME NEW i \in 1..top
       PROVE  ByteOf(w.disk, f, i - 1) =
                 IF i > offset /\ i <= end THEN data[i - offset]
                 ELSE IF i <= size THEN s[i] ELSE 0
  <2> DEFINE p == i - 1
             old == IF p < H THEN ByteOf(disk, f, p) ELSE 0
  <2>1. p \in Nat /\ p < M /\ (p - offset) + 1 = i - offset
        /\ (offset <= p <=> i > offset) /\ (p < end <=> i <= end) /\ (p < size <=> i <= size)
    BY <1>1, <1>6, <1>8
  <2> HIDE DEF p
  <2>2. ByteOf(w.disk, f, p) = After(data, offset, p, old)
    BY <1>5, <2>1 DEF BytesWritten, H, M, m, have
  <2>3. old = IF i <= size THEN s[i] ELSE 0
    <3>1. CASE i <= size
      <4>1. p < H
        BY <1>1, <2>1, <3>1
      <4>2. s[i] = ByteOf(disk, f, p)
        <5>1. i \in 1..size
          BY <1>1, <1>8, <3>1
        <5> QED
          BY <1>1, <5>1, BytesLength DEF p, size
      <4> QED
        BY <3>1, <4>1, <4>2
    <3>2. CASE ~ (i <= size)
      <4>1. size <= p
        BY <1>1, <2>1, <3>2
      <4>2. p < H => ByteOf(disk, f, p) = 0
        BY <2>1, <4>1 DEF TailOf, H, have, size
      <4> QED
        BY <3>2, <4>2
    <3> QED
      BY <3>1, <3>2
  <2> HIDE DEF old
  <2>4. After(data, offset, p, old) = IF offset <= p /\ p < end THEN data[(p - offset) + 1] ELSE old
    <3>1. After(data, offset, p, old)
             = IF offset <= p /\ p < offset + n THEN data[(p - offset) + 1] ELSE old
      BY DEF After, n
    <3> QED
      BY <1>10, <2>1, <3>1
  <2> QED
    BY <2>1, <2>2, <2>3, <2>4 DEF p
<1>12. BytesOf(w.disk, f) = [i \in 1..top |-> IF i > offset /\ i <= end THEN data[i - offset]
                                              ELSE IF i <= size THEN s[i] ELSE 0]
  <2>1. BytesOf(w.disk, f) = [i \in 1..top |-> ByteOf(w.disk, f, i - 1)]
    BY <1>4 DEF BytesOf
  <2> HIDE DEF s
  <2> QED
    BY <1>11, <2>1
<1>13. FS!Overwrite(s, offset, SubSeq(data, 1, r))
         = [i \in 1..top |-> IF i > offset /\ i <= end THEN data[i - offset]
                             ELSE IF i <= size THEN s[i] ELSE 0]
  <2>1. Len(s) = size
    BY <1>1, BytesLength DEF size
  <2>2. s = [i \in 1..size |-> s[i]]
    BY DEF BytesOf, size
  <2> HIDE DEF s
  <2>3. Overwritten(FS!Overwrite(s, offset, SubSeq(data, 1, r)), s, size, offset, data, r)
    BY <1>1, <1>6, <1>7, <2>1, <2>2, Overwriting DEF n
  <2> QED
    BY <2>3 DEF Overwritten, top, end
<1> QED
  <2>1. Overwritten(BytesOf(w.disk, f), s, size, offset, data, r)
    BY <1>12 DEF Overwritten, top, end
  <2> QED
    BY <1>6, <1>9, <1>12, <1>13, <2>1 DEF WritesBytes, n, r, size

\* A write that leaves no hole is a write to a sequence of bytes.
LEMMA WriteRefines ==
    ASSUME IInv, TailsClear, "hole" \notin history', NEW f \in File,
           NEW offset \in Offset, NEW data \in Data, Write(f, offset, data)
    PROVE  FS!Write(f, offset, data)
<1>1. offset \in Nat /\ data \in Seq(Byte) /\ data # << >> /\ disk \in Disk
  BY FileAssumption DEF IInv, TypeOK
<1>2. PICK order \in Orders(disk.free) : Does(altfs_write(disk, order, f, offset, data))
  BY DEF Write
<1> DEFINE w == altfs_write(disk, order, f, offset, data)
<1>3. disk' = w.disk /\ returned' = w.returned /\ history' = history \cup Labels(w)
  BY <1>2 DEF Does, Labels
<1>4. CanWrite(disk, order, f)
  BY MayWrite
<1>5. PICK added \in Nat, allocated \in Nat :
         Wrote(disk, order, f, offset, data, w, added, allocated)
  BY <1>1, <1>4, WriteEffect
<1> HIDE DEF w
<1>6. "hole" \notin history /\ ~ w.hole
  BY <1>3 DEF Labels
<1>7. TailOf(disk, f)
  BY <1>1, TailForm, Zenon DEF TailsClear, ByteAt
<1>8. /\ returned' \in 0..Len(data)
      /\ \A g \in File \ {f} : Untouched(disk', disk, g)
      /\ BytesOf(disk', f)
           = FS!Overwrite(BytesOf(disk, f), offset, SubSeq(data, 1, returned'))
  <2>1. WritesBytes(w, disk, f, offset, data)
    BY <1>1, <1>4, <1>5, <1>6, <1>7, WriteContents
  <2> QED
    BY <1>3, <2>1, Zenon DEF WritesBytes
<1>9. disk' \in Disk
  BY <1>3, <1>5 DEF Wrote
<1> DEFINE t == FS!Overwrite(BytesOf(disk, f), offset, SubSeq(data, 1, returned'))
<1> HIDE DEF t
<1>10. Contents' = [Contents EXCEPT ![f] = t] /\ Contents[f] = BytesOf(disk, f)
  BY <1>6, <1>8, <1>9, OneFile DEF t
<1> QED
  BY <1>8, <1>10 DEF FS!Write, t

\* A file that is cut to a length has the bytes it had up to there.
LEMMA ShrinkContents ==
    ASSUME IInv, NEW f \in File, NEW length \in Nat,
           length <= disk.inode[f].i_file_size,
           Kept(length) <= Len(disk.inode[f].i_blocks),
           NEW c, c = Shrunk(disk, f, length)
    PROVE  /\ BytesOf(c, f) = FS!Resize(BytesOf(disk, f), length)
           /\ c \in Disk
           /\ \A g \in File \ {f} : Untouched(c, disk, g)
<1> USE Constants
<1> DEFINE node == disk.inode[f]
           blocks == node.i_blocks
           size == node.i_file_size
           k == Kept(length)
           s == BytesOf(disk, f)
<1>1. /\ disk \in Disk /\ disk.inode \in [File -> Inode] /\ node \in Inode
      /\ blocks \in Seq(Block) /\ Len(blocks) \in Nat /\ IsInjective(blocks) /\ size \in Nat
  BY DEF IInv, TypeOK, OnlyOwnBlocks, Disk, Inode
<1>2. k \in Nat /\ k \in 0..Len(blocks) /\ k * BLOCK_SIZE \in Nat /\ length <= k * BLOCK_SIZE
  BY <1>1, KeptBounds
<1>3. ShrunkTo(c, disk, f, length)
  BY <1>1, ShrunkEffect
<1>4. /\ c \in Disk
      /\ c.inode = [disk.inode EXCEPT ![f] = [node EXCEPT
             !.i_blocks = SubSeq(blocks, 1, k), !.i_file_size = length]]
      /\ \A b \in Block \ Range(blocks) : c.block[b] = disk.block[b]
      /\ \A l \in 0..(k - 1), o \in 0..(BLOCK_SIZE - 1) :
            c.block[blocks[l + 1]][o] =
                IF l * BLOCK_SIZE + o >= length THEN 0 ELSE disk.block[blocks[l + 1]][o]
  BY <1>3, Zenon DEF ShrunkTo
<1>5. \A i \in 1..k : SubSeq(blocks, 1, k)[i] = blocks[i]
  BY <1>1, <1>2, Prefix
<1>6. /\ c.inode[f].i_blocks = SubSeq(blocks, 1, k)
      /\ c.inode[f].i_file_size = length
      /\ \A g \in File \ {f} : c.inode[g] = disk.inode[g]
  <2> DEFINE t == SubSeq(blocks, 1, k)
  <2> HIDE DEF node, k, blocks, t
  <2>1. c.inode = [disk.inode EXCEPT ![f] = [node EXCEPT !.i_blocks = t, !.i_file_size = length]]
    BY <1>4 DEF t
  <2>2. c.inode[f] = [node EXCEPT !.i_blocks = t, !.i_file_size = length]
        /\ \A g \in File \ {f} : c.inode[g] = disk.inode[g]
    BY <1>1, <2>1
  <2> QED
    BY <1>1, <2>2 DEF Inode, t
<1>7. ASSUME NEW g \in File \ {f} PROVE Untouched(c, disk, g)
  <2>1. disk.inode[g].i_blocks \in Seq(Block)
    BY <1>1 DEF Inode
  <2>2. Owned(g) \subseteq Block
    BY <2>1, RangeOfSeq DEF Owned
  <2>3. Owned(g) \cap Owned(f) = {}
    BY DEF IInv, OnlyOwnBlocks
  <2> QED
    BY <1>4, <1>6, <2>2, <2>3 DEF Untouched, Owned
<1> HIDE DEF node, blocks, k, size, s
<1>8. ASSUME NEW p \in Nat, p < length PROVE ByteOf(c, f, p) = ByteOf(disk, f, p)
  <2> DEFINE l == p \div BLOCK_SIZE
             o == p % BLOCK_SIZE
  <2>1. p < k * BLOCK_SIZE
    <3> DEFINE K == k * BLOCK_SIZE
    <3> HIDE DEF K
    <3> QED
      BY <1>2, <1>8 DEF K
  <2>2. l \in 0..(k - 1) /\ o \in 0..(BLOCK_SIZE - 1) /\ l * BLOCK_SIZE + o = p
    BY <1>2, <2>1, Place
  <2> HIDE DEF l, o
  <2>3. c.block[blocks[l + 1]][o] = disk.block[blocks[l + 1]][o]
    BY <1>4, <1>8, <2>2
  <2>4. SubSeq(blocks, 1, k)[l + 1] = blocks[l + 1]
    <3>1. l + 1 \in 1..k
      BY <1>2, <2>2
    <3> QED
      BY <1>5, <3>1
  <2> QED
    BY <1>6, <2>3, <2>4 DEF ByteOf, l, o, blocks, node
<1>9. BytesOf(c, f) = [i \in 1..length |-> ByteOf(c, f, i - 1)]
  BY <1>6 DEF BytesOf
<1>10. \A i \in 1..length : ByteOf(c, f, i - 1) = IF i <= Len(s) THEN s[i] ELSE 0
  <2>1. Len(s) = size /\ \A i \in 1..size : s[i] = ByteOf(disk, f, i - 1)
    BY <1>1, BytesLength DEF s, size, node
  <2>2. length <= size
    BY DEF size, node
  <2>3. \A i \in 1..length : i \in 1..size /\ i <= size /\ i - 1 \in Nat /\ i - 1 < length
    BY <1>1, <2>2
  <2> QED
    BY <1>8, <2>1, <2>3
<1>11. BytesOf(c, f) = FS!Resize(s, length)
  BY <1>9, <1>10 DEF FS!Resize
<1> QED
  BY <1>4, <1>7, <1>11 DEF s

\* A truncation that leaves no hole cuts a sequence of bytes or fills it up.
LEMMA TruncateRefines ==
    ASSUME IInv, TailsClear, "hole" \notin history', NEW f \in File,
           NEW length \in Offset, Truncate(f, length)
    PROVE  FS!Truncate(f, length)
<1> USE Constants
<1> DEFINE node == disk.inode[f]
           size == node.i_file_size
           have == Len(node.i_blocks)
           s == BytesOf(disk, f)
<1>1. length \in Nat /\ disk \in Disk
  BY FileAssumption DEF IInv, TypeOK
<1>2. PICK order \in Orders(disk.free) : Does(altfs_truncate(disk, order, f, length))
  BY DEF Truncate
<1> DEFINE call == altfs_truncate(disk, order, f, length)
<1>3. disk' = call.disk /\ returned' = call.returned /\ history' = history \cup Labels(call)
  BY <1>2 DEF Does, Labels
<1>4. "hole" \notin history
  BY <1>3
<1>5. size \in Nat /\ have \in Nat /\ Len(s) = size /\ s = [i \in 1..size |-> s[i]]
  BY <1>1, BytesLength, WithinBlocks, <1>4 DEF BytesOf
<1>6. disk' = disk => Contents' = Contents
  BY DEF Contents, ByteAt
<1>7. Contents[f] = s
  BY <1>1, ContentsOf
<1>8. CASE length = 0 /\ size = 0
  <2>1. call = Result(disk, 0)
    BY <1>8 DEF altfs_truncate
  <2>2. disk' = disk /\ returned' = 0
    BY <1>3, <2>1, ResultFields
  <2>3. FS!Resize(s, 0) = s
    <3>1. size = 0
      BY <1>8
    <3> HIDE DEF s, size
    <3> QED
      BY <1>5, <3>1 DEF FS!Resize
  <2>4. Contents = [Contents EXCEPT ![f] = s]
    BY <1>7 DEF Contents
  <2> HIDE DEF s
  <2> QED
    BY <1>6, <1>7, <1>8, <2>2, <2>3, <2>4 DEF FS!Truncate
<1>9. CASE length > size
  <2> DEFINE missing == length - size
             data == [i \in 1..missing |-> 0]
             w == altfs_write(disk, order, f, size, data)
             value == IF w.returned = missing THEN 0 ELSE -1
             r == w.returned
  <2>1. call = [w EXCEPT !.returned = value]
    BY <1>5, <1>9 DEF altfs_truncate
  <2>2. missing \in Nat \ {0}
    BY <1>1, <1>5, <1>9
  <2>3. data \in Seq(Byte) /\ data # << >> /\ Len(data) = missing
    <3> HIDE DEF missing
    <3> QED
      BY <2>2, Filling
  <2>4. call.disk = w.disk /\ call.returned = value /\ Labels(call) = Labels(w)
    <3>1. DOMAIN w = {"returned", "lost", "hole", "disk", "cuts"}
      BY WriteFields
    <3> HIDE DEF value, call, data, w
    <3> QED
      BY <2>1, <3>1 DEF Labels
  <2>5. CanWrite(disk, order, f)
    BY MayWrite
  <2> HIDE DEF data
  <2>6. PICK added \in Nat, allocated \in Nat :
           Wrote(disk, order, f, size, data, w, added, allocated)
    BY <1>5, <2>3, <2>5, WriteEffect
  <2> HIDE DEF w
  <2>7. ~ w.hole
    <3>1. Labels(w) \subseteq history'
      BY <1>3, <2>4
    <3> QED
      BY <3>1 DEF Labels
  <2>8. TailOf(disk, f)
    BY <1>1, TailForm, Zenon DEF TailsClear, ByteAt
  <2>9. WritesBytes(w, disk, f, size, data)
    BY <1>4, <1>5, <2>3, <2>5, <2>6, <2>7, <2>8, WriteContents
  <2>10. /\ r \in 0..missing
         /\ \A g \in File \ {f} : Untouched(w.disk, disk, g)
         /\ Overwritten(BytesOf(w.disk, f), s, size, size, data, r)
    BY <2>3, <2>9 DEF WritesBytes
  <2>11. BytesOf(disk', f) = FS!Resize(s, size + r)
    <3>1. missing \in Nat
      BY <2>2
    <3>2. BytesOf(w.disk, f) = FS!Resize(s, size + r)
      <4> HIDE DEF s, size, missing, r
      <4> QED
        BY <1>5, <2>10, <3>1, ExtendRefines DEF data
    <3> QED
      BY <1>3, <2>4, <3>2
  <2>12. w.disk \in Disk
    BY <2>6 DEF Wrote
  <2> DEFINE t == FS!Resize(s, size + r)
  <2>13. Contents' = [Contents EXCEPT ![f] = t]
    <3> HIDE DEF t
    <3>1. BytesOf(disk', f) = t /\ disk' \in Disk
          /\ \A g \in File \ {f} : Untouched(disk', disk, g)
      BY <1>3, <2>4, <2>10, <2>11, <2>12 DEF t
    <3> QED
      BY <1>4, <3>1, OneFile
  <2>14. CASE r = missing
    <3>1. size + r = length /\ returned' = 0
      BY <1>1, <1>3, <1>5, <2>4, <2>14
    <3> HIDE DEF s, r, size
    <3> QED
      BY <1>7, <2>13, <3>1 DEF FS!Truncate
  <2>15. CASE r # missing
    <3>1. returned' = -1
      BY <1>3, <2>4, <2>15
    <3>2. size + r \in size..(length - 1)
      <4> HIDE DEF r, size
      <4> QED
        BY <1>1, <1>5, <2>2, <2>10, <2>15
    <3> HIDE DEF s, r, size
    <3> QED
      BY <1>5, <1>7, <2>13, <3>1, <3>2 DEF FS!Truncate
  <2> QED
    BY <2>14, <2>15
<1>10. CASE ~ (length = 0 /\ size = 0) /\ ~ (length > size) /\ length > 0
            /\ LastBlock(0, length) >= Len(node.i_blocks)
  <2>1. call = Result(disk, -1)
    BY <1>10 DEF altfs_truncate
  <2>2. disk' = disk /\ returned' = -1
    BY <1>3, <2>1, ResultFields
  <2> QED
    BY <1>6, <2>2 DEF FS!Truncate
<1>11. CASE ~ (length = 0 /\ size = 0) /\ ~ (length > size)
            /\ ~ (length > 0 /\ LastBlock(0, length) >= Len(node.i_blocks))
  <2>1. call = Result(Shrunk(disk, f, length), 0)
    BY <1>11 DEF altfs_truncate
  <2>2. disk' = Shrunk(disk, f, length) /\ returned' = 0
    BY <1>3, <2>1, ResultFields
  <2>3. Kept(length) <= have
    BY <1>1, <1>5, <1>11, ShortEnough
  <2>4. BytesOf(disk', f) = FS!Resize(s, length) /\ disk' \in Disk
        /\ \A g \in File \ {f} : Untouched(disk', disk, g)
    <3>1. length <= size
      BY <1>1, <1>5, <1>11
    <3> QED
      BY <1>1, <2>2, <2>3, <3>1, ShrinkContents
  <2> DEFINE t == FS!Resize(s, length)
  <2> HIDE DEF t
  <2>5. Contents' = [Contents EXCEPT ![f] = t]
    BY <1>4, <2>4, OneFile DEF t
  <2> HIDE DEF s
  <2> QED
    BY <1>7, <2>2, <2>5 DEF FS!Truncate, t
<1> QED
  BY <1>8, <1>9, <1>10, <1>11

\* A crash in a write tears it.
LEMMA CrashRefines ==
    ASSUME IInv, "hole" \notin history, NEW f \in File,
           NEW offset \in Offset, NEW data \in Data, CrashInWrite(f, offset, data)
    PROVE  FS!Torn(f, offset, data)
<1> USE Constants
<1> DEFINE size == disk.inode[f].i_file_size
           blocks == disk.inode[f].i_blocks
           have == Len(blocks)
           H == have * BLOCK_SIZE
           s == BytesOf(disk, f)
           n == Len(data)
<1>1. offset \in Nat /\ data \in Seq(Byte) /\ data # << >> /\ disk \in Disk /\ n \in Nat
  BY FileAssumption DEF IInv, TypeOK
<1>2. PICK order \in Orders(disk.free) :
         disk' \in altfs_write(disk, order, f, offset, data).cuts
  BY DEF CrashInWrite
<1>3. CanWrite(disk, order, f)
  BY MayWrite
<1>4. PICK l \in Int, taken \in Nat : Cut(disk', disk, order, f, offset, data, l, taken)
  BY <1>1, <1>2, <1>3, CutEffect, Zenon
<1>5. /\ disk' \in Disk /\ disk'.inode = disk.inode
      /\ \A b \in Block \ (Range(blocks) \cup disk.free) : disk'.block[b] = disk.block[b]
      /\ \A m \in 0..(have - 1), o \in 0..(BLOCK_SIZE - 1) :
            disk'.block[blocks[m + 1]][o] =
                IF m <= l /\ offset <= m * BLOCK_SIZE + o /\ m * BLOCK_SIZE + o < offset + n
                THEN data[m * BLOCK_SIZE + o - offset + 1]
                ELSE disk.block[blocks[m + 1]][o]
  BY <1>4, Zenon DEF Cut
<1>6. /\ size \in Nat /\ have \in Nat /\ H \in Nat /\ size <= H
      /\ Len(s) = size /\ s = [i \in 1..size |-> s[i]]
      /\ \A i \in 1..size : s[i] = ByteOf(disk, f, i - 1)
  BY <1>1, BytesLength, WithinBlocks DEF BytesOf
<1> DEFINE k == Reached(l, offset, n)
<1>7. /\ k \in 0..n
      /\ \A m \in Nat, o \in 0..(BLOCK_SIZE - 1) :
            (m <= l /\ offset <= m * BLOCK_SIZE + o /\ m * BLOCK_SIZE + o < offset + n)
            <=> (offset <= m * BLOCK_SIZE + o /\ m * BLOCK_SIZE + o < offset + k)
  BY <1>1, ReachedIs
<1> HIDE DEF k, size, blocks, have, H, s, n
<1>8. ASSUME NEW i \in 1..size
      PROVE  ByteOf(disk', f, i - 1) =
                IF i > offset /\ i <= offset + k THEN data[i - offset] ELSE s[i]
  <2> DEFINE p == i - 1
             m == p \div BLOCK_SIZE
             o == p % BLOCK_SIZE
  <2>1. p \in Nat /\ p < H
    BY <1>6
  <2>2. m \in 0..(have - 1) /\ o \in 0..(BLOCK_SIZE - 1) /\ m * BLOCK_SIZE + o = p
    <3> HIDE DEF p
    <3> QED
      BY <1>6, <2>1, Place DEF H
  <2>3. ByteOf(disk', f, p) = disk'.block[blocks[m + 1]][o]
        /\ ByteOf(disk, f, p) = disk.block[blocks[m + 1]][o]
    BY <1>5 DEF ByteOf, blocks
  <2> HIDE DEF p, m, o
  <2>4. m \in Nat
    BY <1>6, <2>2
  <2>5. ByteOf(disk', f, p) = IF offset <= p /\ p < offset + k THEN data[p - offset + 1]
                              ELSE ByteOf(disk, f, p)
    <3>1. disk'.block[blocks[m + 1]][o] =
             IF m <= l /\ offset <= p /\ p < offset + n THEN data[p - offset + 1]
             ELSE disk.block[blocks[m + 1]][o]
      <4> DEFINE P == m * BLOCK_SIZE
      <4>1. disk'.block[blocks[m + 1]][o] =
               IF m <= l /\ offset <= P + o /\ P + o < offset + n THEN data[P + o - offset + 1]
               ELSE disk.block[blocks[m + 1]][o]
        BY <1>5, <2>2
      <4>2. P \in Nat /\ P + o = p
        BY <2>2, <2>4
      <4> HIDE DEF P
      <4>3. P + o - offset + 1 = p - offset + 1
        BY <1>1, <2>2, <4>2
      <4> QED
        BY <4>1, <4>2, <4>3
    <3>2. (m <= l /\ offset <= p /\ p < offset + n) <=> (offset <= p /\ p < offset + k)
      BY <1>7, <2>2, <2>4
    <3> QED
      BY <2>3, <3>1, <3>2
  <2>6. /\ offset <= p <=> i > offset
        /\ p < offset + k <=> i <= offset + k
        /\ p - offset + 1 = i - offset
    BY <1>1, <1>6, <1>7 DEF p
  <2> QED
    BY <1>6, <2>5, <2>6 DEF p
<1>9. BytesOf(disk', f)
        = [i \in 1..size |-> IF i > offset /\ i <= offset + k THEN data[i - offset] ELSE s[i]]
  <2>1. BytesOf(disk', f) = [i \in 1..size |-> ByteOf(disk', f, i - 1)]
    BY <1>5 DEF BytesOf, size
  <2> QED
    BY <1>8, <2>1
<1> DEFINE t == FS!Resize(FS!Overwrite(s, offset, SubSeq(data, 1, k)), Len(s))
<1>10. BytesOf(disk', f) = t
  <2>1. t = [i \in 1..size |-> IF i > offset /\ i <= offset + k THEN data[i - offset] ELSE s[i]]
    <3>1. TornTo(t, s, size, offset, data, k)
      BY <1>1, <1>6, <1>7, Tearing DEF n
    <3> QED
      BY <3>1 DEF TornTo
  <2> QED
    BY <1>9, <2>1
<1>11. ASSUME NEW g \in File \ {f} PROVE Untouched(disk', disk, g)
  <2>1. disk.inode[g].i_blocks \in Seq(Block)
    BY <1>1 DEF Disk, Inode
  <2>2. Owned(g) \subseteq Block
    BY <2>1, RangeOfSeq DEF Owned
  <2>3. Owned(g) \cap Owned(f) = {} /\ Owned(g) \cap disk.free = {}
    BY DEF IInv, OnlyOwnBlocks
  <2> QED
    BY <1>5, <2>2, <2>3 DEF Untouched, Owned, blocks
<1>12. Contents' = [Contents EXCEPT ![f] = t] /\ Contents[f] = s
  <2> HIDE DEF t
  <2> QED
    BY <1>5, <1>10, <1>11, OneFile DEF s
<1> QED
  BY <1>7, <1>12 DEF FS!Torn, CrashInWrite, n

\* Creating, unlinking and opening leave an empty file.
LEMMA EmptyRefines ==
    ASSUME IInv, "hole" \notin history, NEW f \in File, NEW node, node \in {New, Unused},
           InodeSet(disk', disk, f, node, Range(disk.inode[f].i_blocks)), returned' = 0
    PROVE  FS!Remove(f)
<1>1. disk' \in Disk /\ disk'.inode[f].i_file_size = 0
  BY EmptyInodes DEF InodeSet
<1>2. \A g \in File \ {f} : Untouched(disk', disk, g)
  BY DEF InodeSet, Untouched
<1>3. BytesOf(disk', f) = << >>
  BY <1>1 DEF BytesOf
<1>4. Contents' = [Contents EXCEPT ![f] = << >>]
  BY <1>1, <1>2, <1>3, OneFile
<1> QED
  BY <1>4 DEF FS!Remove

\* Opening an empty file with O_TRUNC removes nothing.
LEMMA OpenRefines ==
    ASSUME IInv, ~ OpenTruncates, NEW f \in File, OpenAndTruncate(f)
    PROVE  FS!Remove(f)
<1>1. disk' = disk /\ returned' = 0
  BY OpenStep
<1>2. Contents' = Contents
  BY <1>1 DEF Contents, ByteAt
<1>3. disk \in Disk /\ disk.inode[f].i_file_size = 0
  BY DEF IInv, TypeOK, OpenAndTruncate
<1>4. Contents[f] = << >>
  <2>1. Contents[f] = [i \in 1..0 |-> ByteOf(disk, f, i - 1)]
    BY <1>3, ContentsOf DEF BytesOf
  <2> QED
    BY <2>1
<1>5. Contents = [Contents EXCEPT ![f] = << >>]
  <2>1. DOMAIN Contents = File /\ Contents = [g \in File |-> Contents[g]]
    BY DEF Contents
  <2> QED
    BY <1>4, <2>1
<1> QED
  BY <1>1, <1>2, <1>5 DEF FS!Remove

\* Every file is empty at the start.
LEMMA InitRefines == Init => FS!Init
<1> SUFFICES ASSUME Init PROVE FS!Init
  OBVIOUS
<1>1. \A f \in File : disk.inode[f].i_file_size = 0
  BY EmptyInodes DEF Init
<1>2. Contents = [f \in File |-> << >>]
  BY <1>1 DEF Contents
<1> QED
  BY <1>2 DEF Init, FS!Init

\* Every step is a step of the specification of files, or changes no file.
LEMMA NextRefines ==
    ASSUME ~ OpenTruncates, IInv, [Next]_vars, TailsClear, "hole" \notin history'
    PROVE  [FSNext]_<<Contents, returned>>
<1>0. "hole" \notin history
  BY DEF Next, vars, Create, Unlink, OpenAndTruncate, Truncate, Write, CrashInWrite, Does
<1>1. CASE UNCHANGED vars
  BY <1>1 DEF vars, Contents, ByteAt
<1>2. ASSUME NEW f \in File, Create(f) PROVE FSNext
  <2>1. FS!Remove(f)
    BY <1>0, <1>2, CreateSets, EmptyRefines DEF Create
  <2> QED
    BY <2>1 DEF FSNext
<1>3. ASSUME NEW f \in File, Unlink(f) PROVE FSNext
  <2>1. FS!Remove(f)
    BY <1>0, <1>3, UnlinkSets, EmptyRefines DEF Unlink
  <2> QED
    BY <2>1 DEF FSNext
<1>4. ASSUME NEW f \in File, OpenAndTruncate(f) PROVE FSNext
  BY <1>4, OpenRefines DEF FSNext
<1>5. ASSUME NEW f \in File, NEW length \in Offset, Truncate(f, length) PROVE FSNext
  BY <1>5, TruncateRefines DEF FSNext
<1>6. ASSUME NEW f \in File, NEW offset \in Offset, NEW data \in Data, Write(f, offset, data)
      PROVE  FSNext
  BY <1>6, WriteRefines DEF FSNext
<1>7. ASSUME NEW f \in File, NEW offset \in Offset, NEW data \in Data,
             CrashInWrite(f, offset, data)
      PROVE  FSNext
  BY <1>0, <1>7, CrashRefines DEF FSNext
<1> QED
  BY <1>1, <1>2, <1>3, <1>4, <1>5, <1>6, <1>7 DEF Next

\* The calls implement files as byte sequences: a write puts down exactly the bytes it
\* says it wrote, a truncation cuts or fills up with zeros, a crash tears a write and
\* touches nothing else.
THEOREM FilesImplemented == ~ OpenTruncates => (Spec => ImplementsFiles)
<1> SUFFICES ASSUME ~ OpenTruncates PROVE Spec => ImplementsFiles
  OBVIOUS
<1>1. IInv /\ [Next]_vars
        => [TailsClear /\ "hole" \notin history' => [FSNext]_<<Contents, returned>>]_vars
  BY NextRefines
<1> QED
  BY <1>1, InitRefines, Inductive, PTL DEF Spec, ImplementsFiles
=============================================================================
