--------------------------- MODULE BlockMapProofs ---------------------------
(***************************************************************************)
(* Proofs about the block maps of files, for any number of files, blocks,  *)
(* direct blocks and addresses per block: the safety properties of         *)
(* BlockMap under SpecContained follow from an inductive invariant.        *)
(*                                                                         *)
(* The proofs look at a block map as a set of places. A place is a pointer *)
(* of the map: tree, depth and number at that depth, the direct blocks     *)
(* being tree 0. Val is what is at a place, and First the first logical    *)
(* block at or below it. A call is described by the places it fills (Gets) *)
(* or empties (Dropped, Cut), and the invariant is kept because of what    *)
(* the places are. N, m, free and dat stand for inodes, words, free list   *)
(* and file contents in the middle of a call as well as between calls.     *)
(***************************************************************************)
EXTENDS BlockMap, SequenceTheorems, FiniteSetTheorems, NaturalFacts, TLAPS

-----------------------------------------------------------------------------
(* Places *)

\* A place of a file is a pointer of its block map: its k-th tree, or the direct
\* blocks if k is 0, then the depth d in the tree and the number q at that depth.
Width(k, d) == IF k = 0 THEN D ELSE Span(d)

TreeBase(k) == IF k = 0 THEN 0 ELSE Base(k)

\* What is at the place, 0 if nothing is.
Val(N, m, f, k, d, q) ==
    IF k = 0 THEN N[f].i_direct_blocks[q] ELSE Below(m, N[f].i_indirect[k], d, q)

\* The first logical block at or below the place.
First(k, d, q) == TreeBase(k) + q * Span(k - d)

\* The tree that logical block l is in.
TreeOf(l) == IF l < D THEN 0 ELSE LevelOf(l)

\* The data block of logical block l.
DataAt(N, m, f, l) == Val(N, m, f, TreeOf(l), TreeOf(l), l - TreeBase(TreeOf(l)))

-----------------------------------------------------------------------------
(* The invariant *)

Typed(N, m, free) ==
    /\ N \in [File -> Node]
    /\ m \in [Block -> [Position -> Word]]
    /\ free \in [Block -> 0..1]

\* Two places hold different blocks.
Apart(N, m) ==
    \A f, g \in File : \A k, j \in 0..3 : \A d \in 0..k, e \in 0..j :
    \A q \in 0..(Width(k, d) - 1), p \in 0..(Width(j, e) - 1) :
        Val(N, m, f, k, d, q) # 0 /\ Val(N, m, f, k, d, q) = Val(N, m, g, j, e, p)
            => f = g /\ k = j /\ d = e /\ q = p

\* No block at a place is free.
Taken(N, m, free) ==
    \A f \in File : \A k \in 0..3 : \A d \in 0..k : \A q \in 0..(Width(k, d) - 1) :
        Val(N, m, f, k, d, q) # 0 => free[Val(N, m, f, k, d, q)] = 0

Good(N, m, free) == Typed(N, m, free) /\ Apart(N, m) /\ Taken(N, m, free)

\* File g consists of the blocks in dat.
Mapped(N, m, g, dat) ==
    \A l \in 0..(Len(dat) - 1) : DataAt(N, m, g, l) = dat[l + 1]

\* Behind the n blocks of file g there is nothing, except that tree k may have places
\* for the next block down to depth d; unless strict, only data blocks are meant.
Ends(N, m, g, n, strict, k, d) ==
    \A j \in 0..3 : \A e \in 0..j : \A q \in 0..(Width(j, e) - 1) :
        /\ First(j, e, q) >= n
        /\ e = j \/ strict
        /\ ~ (j = k /\ e <= d /\ First(j, e, q) = n)
        => Val(N, m, g, j, e, q) = 0

\* Every block is free, at a place, or in S.
Full(N, m, free, S) ==
    \A c \in Block :
        \/ free[c] = 1
        \/ c \in S
        \/ \E f \in File : \E k \in 0..3 : \E d \in 0..k : \E q \in 0..(Width(k, d) - 1) :
              Val(N, m, f, k, d, q) = c

\* The disk between calls, when blocks S are in nobody's hands.
Settled(N, m, free, dat, S, strict) ==
    /\ Good(N, m, free)
    /\ \A g \in File : /\ Mapped(N, m, g, dat[g])
                       /\ Ends(N, m, g, Len(dat[g]), strict, 0, -1)
    /\ strict => Full(N, m, free, S)

\* Every file consists of its blocks and ends behind them; tree k of file f may have
\* places for one more.
Files(N, m, dat, strict, f, k, d) ==
    \A g \in File : /\ Mapped(N, m, g, dat[g])
                    /\ Ends(N, m, g, Len(dat[g]), strict, k, IF g = f THEN d ELSE -1)

\* The disk while tree k of file f grows.
Sound(N, m, free, dat, S, strict, f, k, d) ==
    /\ Good(N, m, free)
    /\ Files(N, m, dat, strict, f, k, d)
    /\ strict => Full(N, m, free, S)

\* The file has as many blocks as its inode says, within the limit.
Counts == \A f \in File : /\ node[f].i_blocks_num = Len(data[f])
                          /\ Len(data[f]) <= SizeLimit[f]

IInv ==
    /\ data \in [File -> Seq(Block)]
    /\ failed \in BOOLEAN
    /\ Counts
    /\ Settled(node, mem, listed, data, {}, ~ failed)
-----------------------------------------------------------------------------
(* The arithmetic of trees *)

LEMMA Constants ==
    /\ BlockLimit \in Nat
    /\ D \in Nat /\ D >= 1
    /\ A \in Nat /\ A >= 2 /\ A # 0
    /\ 0 \notin Block
    /\ Block \subseteq Word
    /\ 0 \in Word
BY MapAssumption DEF Block, Word

LEMMA Spans ==
    /\ Span(0) = 1
    /\ Span(1) = A
    /\ Span(2) = A * A
    /\ Span(3) = A * A * A
    /\ \A j \in 0..3 : Span(j) \in Nat /\ Span(j) >= 1
    /\ \A j \in 1..3 : Span(j) = Span(j - 1) * A
<1>1. Span(0) = 1 /\ Span(1) = A /\ Span(2) = A * A /\ Span(3) = A * A * A
  BY DEF Span
<1>2. A * A \in Nat /\ A * A >= 1 /\ A * A * A \in Nat /\ A * A * A >= 1
  <2>1. \A x \in Nat, y \in Nat : x >= 1 /\ y >= 1 => x * y \in Nat /\ x * y >= 1
    OBVIOUS
  <2>2. A * A \in Nat /\ A * A >= 1
    BY <2>1, Constants
  <2> QED
    BY <2>1, <2>2, Constants
<1>3. \A j \in 0..3 : Span(j) \in Nat /\ Span(j) >= 1
  <2> TAKE j \in 0..3
  <2>1. j = 0 \/ j = 1 \/ j = 2 \/ j = 3
    OBVIOUS
  <2> QED
    BY <1>1, <1>2, <2>1, Constants
<1>4. \A j \in 1..3 : Span(j) = Span(j - 1) * A
  <2>1. Span(1) = Span(0) * A /\ Span(2) = Span(1) * A /\ Span(3) = Span(2) * A
    BY <1>1, <1>2, Constants
  <2> TAKE j \in 1..3
  <2>2. (j = 1 /\ j - 1 = 0) \/ (j = 2 /\ j - 1 = 1) \/ (j = 3 /\ j - 1 = 2)
    OBVIOUS
  <2> QED
    BY <2>1, <2>2
<1> QED
  BY <1>1, <1>3, <1>4

\* Each tree starts where the one before it ends.
LEMMA Bases ==
    /\ TreeBase(0) = 0
    /\ TreeBase(1) = D
    /\ TreeBase(2) = D + A
    /\ TreeBase(3) = D + A + A * A
    /\ Base(1) = D /\ Base(2) = D + A /\ Base(3) = D + A + A * A
    /\ \A k \in 0..3 : TreeBase(k) \in Nat
    /\ \A k \in 1..3 : /\ TreeBase(k) = TreeBase(k - 1) + Width(k - 1, k - 1)
                       /\ TreeBase(k) = Base(k)
    /\ \A k \in 0..3 : \A d \in 0..k : Width(k, d) \in Nat /\ Width(k, d) >= 1
<1> USE Constants, Spans
<1>1. /\ TreeBase(0) = 0
      /\ TreeBase(1) = D
      /\ TreeBase(2) = D + A
      /\ TreeBase(3) = D + A + A * A
      /\ Base(1) = D /\ Base(2) = D + A /\ Base(3) = D + A + A * A
  BY DEF TreeBase, Base
<1>2. \A k \in 0..3 : \A d \in 0..k : Width(k, d) \in Nat /\ Width(k, d) >= 1
  BY DEF Width
<1>3. \A k \in 0..3 : TreeBase(k) \in Nat
  <2>1. A * A \in Nat
    BY Spans
  <2> TAKE k \in 0..3
  <2>2. k = 0 \/ k = 1 \/ k = 2 \/ k = 3
    OBVIOUS
  <2> QED
    BY <1>1, <2>1, <2>2
<1>4. \A k \in 1..3 : /\ TreeBase(k) = TreeBase(k - 1) + Width(k - 1, k - 1)
                      /\ TreeBase(k) = Base(k)
  <2>1. Width(0, 0) = D /\ Width(1, 1) = A /\ Width(2, 2) = A * A
    BY DEF Width
  <2>2. /\ TreeBase(1) = TreeBase(0) + Width(0, 0)
        /\ TreeBase(2) = TreeBase(1) + Width(1, 1)
        /\ TreeBase(3) = TreeBase(2) + Width(2, 2)
    BY <1>1, <2>1
  <2> TAKE k \in 1..3
  <2>3. (k = 1 /\ k - 1 = 0) \/ (k = 2 /\ k - 1 = 1) \/ (k = 3 /\ k - 1 = 2)
    OBVIOUS
  <2> QED
    BY <1>1, <2>2, <2>3
<1> QED
  BY <1>1, <1>2, <1>3, <1>4

\* The place above a place, and the entry that leads down.
LEMMA Parent ==
    ASSUME NEW k \in 1..3, NEW d \in 1..k, NEW q \in 0..(Width(k, d) - 1)
    PROVE  /\ k \in 0..3
           /\ d - 1 \in 0..k
           /\ q \in Nat
           /\ q \div A \in 0..(Width(k, d - 1) - 1)
           /\ q % A \in Position
           /\ q = (q \div A) * A + (q % A)
<1>1. Width(k, d) = Span(d) /\ Width(k, d - 1) = Span(d - 1)
  BY DEF Width
<1>2. Span(d) = Span(d - 1) * A /\ Span(d - 1) \in Nat /\ Span(d) \in Nat
  <2>1. d \in 1..3 /\ d \in 0..3 /\ d - 1 \in 0..3
    OBVIOUS
  <2> QED
    BY <2>1, Spans
<1>3. q \in Nat /\ q < Span(d - 1) * A
  BY <1>1, <1>2
<1>4. /\ q \div A \in Nat
      /\ q % A \in 0..(A - 1)
      /\ q = (q \div A) * A + (q % A)
  BY <1>3, DivMod, Constants
<1>5. q \div A < Span(d - 1)
  BY <1>2, <1>3, DivBound, Constants
<1> QED
  BY <1>1, <1>2, <1>3, <1>4, <1>5 DEF Position

\* One entry further down.
LEMMA ValStep ==
    ASSUME NEW N, NEW m, NEW f, NEW k \in 1..3, NEW d \in 1..k, NEW q
    PROVE  Val(N, m, f, k, d, q) = Entry(m, Val(N, m, f, k, d - 1, q \div A), q % A)
<1>1. (d = 1 /\ d - 1 = 0) \/ (d = 2 /\ d - 1 = 1) \/ (d = 3 /\ d - 1 = 2)
  OBVIOUS
<1>2. k # 0
  OBVIOUS
<1>3. CASE d = 1 /\ d - 1 = 0
  BY <1>2, <1>3 DEF Val, Below
<1>4. CASE d = 2 /\ d - 1 = 1
  BY <1>2, <1>4 DEF Val, Below
<1>5. CASE d = 3 /\ d - 1 = 2
  BY <1>2, <1>5 DEF Val, Below
<1> QED
  BY <1>1, <1>3, <1>4, <1>5

\* The root of a tree is in the inode.
LEMMA ValRoot ==
    ASSUME NEW N, NEW m, NEW f, NEW k \in 1..3, NEW q
    PROVE  Val(N, m, f, k, 0, q) = N[f].i_indirect[k]
BY DEF Val, Below

\* Every place holds a block number or 0.
LEMMA ValWord ==
    ASSUME NEW N, NEW m, NEW free, Typed(N, m, free),
           NEW f \in File, NEW k \in 0..3, NEW d \in 0..k, NEW q \in 0..(Width(k, d) - 1)
    PROVE  /\ Val(N, m, f, k, d, q) \in Word
           /\ Val(N, m, f, k, d, q) # 0 => Val(N, m, f, k, d, q) \in Block
<1> USE Constants
<1>0. Word \ {0} = Block
  BY DEF Word, Block
<1>1. CASE k = 0
  BY <1>0, <1>1 DEF Val, Typed, Node, Width
<1>2. CASE k # 0
  <2> DEFINE Ok(e) == \A p \in 0..(Width(k, e) - 1) : Val(N, m, f, k, e, p) \in Word
  <2>1. k \in 1..3
    BY <1>2
  <2>2. Ok(0)
    <3>1. N[f].i_indirect[k] \in Word
      BY <2>1 DEF Typed, Node, Level
    <3> TAKE p \in 0..(Width(k, 0) - 1)
    <3> QED
      BY <2>1, <3>1 DEF Val, Below
  <2>3. ASSUME NEW e \in 1..k, Ok(e - 1) PROVE Ok(e)
    <3> TAKE p \in 0..(Width(k, e) - 1)
    <3>1. /\ p \div A \in 0..(Width(k, e - 1) - 1)
          /\ p % A \in Position
      BY <2>1, Parent
    <3>2. Val(N, m, f, k, e - 1, p \div A) \in Word
      BY <2>3, <3>1
    <3>3. Entry(m, Val(N, m, f, k, e - 1, p \div A), p % A) \in Word
      BY <1>0, <3>1, <3>2 DEF Typed, Entry
    <3> QED
      BY <2>1, <3>3, ValStep
  <2> HIDE DEF Ok
  <2>4. 1 \in 0..k => Ok(1)
    BY <2>1, <2>2, <2>3
  <2>5. 2 \in 0..k => Ok(2)
    BY <2>1, <2>4, <2>3
  <2>6. 3 \in 0..k => Ok(3)
    BY <2>1, <2>5, <2>3
  <2>7. Ok(d)
    <3>1. d = 0 \/ d = 1 \/ d = 2 \/ d = 3
      OBVIOUS
    <3> QED
      BY <2>2, <2>4, <2>5, <2>6, <3>1
  <2> QED
    BY <1>0, <2>7 DEF Ok
<1> QED
  BY <1>1, <1>2

\* The trees of a level: Span(d) places at depth d, with Span(k - d) entries each.
LEMMA SpanProduct ==
    ASSUME NEW k \in 0..3, NEW d \in 0..k
    PROVE  /\ k - d \in 0..3
           /\ Span(d) * Span(k - d) = Span(k)
<1> USE Constants, Spans
<1> DEFINE B == A * A
           C == B * A
<1>1. B \in Nat /\ C \in Nat /\ A * B = C
  OBVIOUS
<1>2. Span(0) = 1 /\ Span(1) = A /\ Span(2) = B /\ Span(3) = C
  OBVIOUS
<1> HIDE DEF B, C
<1>3. d = 0 \/ d = 1 \/ d = 2 \/ d = 3
  OBVIOUS
<1>4. k = 0 \/ k = 1 \/ k = 2 \/ k = 3
  OBVIOUS
<1>5. CASE d = 0
  <2>1. k - d = k
    BY <1>5
  <2> QED
    BY <1>4, <1>5, <2>1, <1>2, <1>1
<1>6. CASE k = d
  <2>1. k - d = 0
    BY <1>6
  <2> QED
    BY <1>4, <1>6, <2>1, <1>2, <1>1
<1>7. CASE d = 1 /\ k = 2
  BY <1>7, <1>2 DEF B
<1>8. CASE d = 1 /\ k = 3
  BY <1>8, <1>2, <1>1
<1>9. CASE d = 2 /\ k = 3
  BY <1>9, <1>2 DEF C
<1> QED
  BY <1>3, <1>4, <1>5, <1>6, <1>7, <1>8, <1>9

\* The first entry below a place, from the place above it.
LEMMA FirstParent ==
    ASSUME NEW k \in 1..3, NEW d \in 1..k, NEW q \in 0..(Width(k, d) - 1)
    PROVE  /\ First(k, d, q) = First(k, d - 1, q \div A) + (q % A) * Span(k - d)
           /\ First(k, d, q) \in Nat
           /\ First(k, d - 1, q \div A) \in Nat
           /\ (q % A) * Span(k - d) \in Nat
<1> DEFINE S == Span(k - d)
           T == TreeBase(k)
           p == q \div A
           o == q % A
<1>1. /\ S \in Nat
      /\ Span(k - (d - 1)) = S * A
  <2>1. k - d \in 0..3 /\ k - (d - 1) \in 1..3 /\ k - (d - 1) - 1 = k - d
    OBVIOUS
  <2> QED
    BY <2>1, Spans
<1>2. p \in Nat /\ o \in Nat /\ q = p * A + o /\ q \in Nat
  BY Parent, Bases, SMTT(20) DEF Position
<1>3. T \in Nat
  BY Bases
<1>4. First(k, d, q) = T + q * S /\ First(k, d - 1, p) = T + p * (S * A)
  BY <1>1 DEF First
<1> HIDE DEF S, T, p, o
<1>5. q * S = p * (S * A) + o * S
  BY ONLY <1>1, <1>2, Constants
<1>6. q * S \in Nat /\ p * (S * A) \in Nat /\ o * S \in Nat
  BY <1>1, <1>2, Constants
<1>7. /\ First(k, d, q) = First(k, d - 1, p) + o * S
      /\ First(k, d, q) \in Nat
      /\ First(k, d - 1, p) \in Nat
  BY <1>3, <1>4, <1>5, <1>6
<1> QED
  BY <1>6, <1>7 DEF S, p, o

\* The first place below a place.
LEMMA FirstChild ==
    ASSUME NEW k \in 1..3, NEW d \in 1..k, NEW p \in 0..(Width(k, d - 1) - 1)
    PROVE  /\ p * A \in 0..(Width(k, d) - 1)
           /\ (p * A) \div A = p
           /\ First(k, d, p * A) = First(k, d - 1, p)
<1>1. Width(k, d) = Width(k, d - 1) * A
  <2>1. d \in 1..3
    OBVIOUS
  <2> QED
    BY <2>1, Spans DEF Width
<1>2. p \in Nat /\ p < Width(k, d - 1) /\ Width(k, d - 1) \in Nat
  <2>1. d - 1 \in 0..k /\ k \in 0..3
    OBVIOUS
  <2> QED
    BY <2>1, Bases
<1>3. p * A + A <= Width(k, d - 1) * A /\ p * A \in Nat /\ Width(k, d - 1) * A \in Nat
  BY <1>2, MultiplesApart, Constants
<1>4. p * A \in 0..(Width(k, d) - 1)
  BY <1>1, <1>3, Constants
<1>5. (p * A) \div A = p
  BY <1>2, DivUnique, Constants
<1>6. (p * A) % A = 0
  BY <1>2, DivUnique, Constants
<1>7. /\ First(k, d, p * A) = First(k, d - 1, p) + 0 * Span(k - d)
      /\ First(k, d - 1, p) \in Nat
  <2> DEFINE q == p * A
  <2>1. q \in 0..(Width(k, d) - 1) /\ q \div A = p /\ q % A = 0
    BY <1>4, <1>5, <1>6
  <2> HIDE DEF q
  <2>2. First(k, d, q) = First(k, d - 1, p) + 0 * Span(k - d) /\ First(k, d - 1, p) \in Nat
    BY <2>1, FirstParent
  <2> QED
    BY <2>2 DEF q
<1>8. k - d \in 0..3 /\ Span(k - d) \in Nat
  <2>1. k - d \in 0..3
    OBVIOUS
  <2> QED
    BY <2>1, Spans
<1> QED
  BY <1>4, <1>5, <1>7, <1>8

\* The tree that holds a logical block.
LEMMA TreeRange ==
    ASSUME NEW l \in Nat, NEW k \in 0..3
    PROVE  /\ l >= TreeBase(k) /\ l < TreeBase(k) + Width(k, k) => TreeOf(l) = k
           /\ l < TreeBase(3) + Width(3, 3) =>
                /\ TreeOf(l) \in 0..3
                /\ l - TreeBase(TreeOf(l)) \in 0..(Width(TreeOf(l), TreeOf(l)) - 1)
           /\ l >= D => TreeOf(l) = LevelOf(l) /\ LevelOf(l) \in 1..3
<1> USE Constants
<1> DEFINE B == A * A
           C == B * A
<1>1. B \in Nat /\ C \in Nat /\ B >= 1 /\ C >= 1
  <2>1. B = Span(2) /\ C = Span(3)
    BY Spans
  <2> QED
    BY <2>1, Spans
<1>2. /\ TreeBase(0) = 0 /\ TreeBase(1) = D /\ TreeBase(2) = D + A /\ TreeBase(3) = D + A + B
      /\ Base(2) = D + A /\ Base(3) = D + A + B
  BY Bases
<1>3. Width(0, 0) = D /\ Width(1, 1) = A /\ Width(2, 2) = B /\ Width(3, 3) = C
  BY Spans DEF Width
<1>4. k = 0 \/ k = 1 \/ k = 2 \/ k = 3
  OBVIOUS
<1> HIDE DEF B, C
<1>5. TreeOf(l) = IF l < D THEN 0 ELSE IF l < D + A THEN 1 ELSE IF l < D + A + B THEN 2 ELSE 3
  BY <1>2 DEF TreeOf, LevelOf
<1>6. l >= TreeBase(k) /\ l < TreeBase(k) + Width(k, k) => TreeOf(l) = k
  BY <1>1, <1>2, <1>3, <1>4, <1>5
<1>7. ASSUME l < TreeBase(3) + Width(3, 3)
      PROVE  l - TreeBase(TreeOf(l)) \in 0..(Width(TreeOf(l), TreeOf(l)) - 1)
  <2>1. TreeOf(l) = 0 \/ TreeOf(l) = 1 \/ TreeOf(l) = 2 \/ TreeOf(l) = 3
    BY <1>5
  <2>2. CASE TreeOf(l) = 0
    BY <1>1, <1>2, <1>3, <1>5, <2>2
  <2>3. CASE TreeOf(l) = 1
    BY <1>1, <1>2, <1>3, <1>5, <2>3
  <2>4. CASE TreeOf(l) = 2
    BY <1>1, <1>2, <1>3, <1>5, <2>4
  <2>5. CASE TreeOf(l) = 3
    BY <1>1, <1>2, <1>3, <1>5, <1>7, <2>5
  <2> QED
    BY <2>1, <2>2, <2>3, <2>4, <2>5
<1>8. TreeOf(l) \in 0..3
  BY <1>5
<1>9. l >= D => TreeOf(l) = LevelOf(l) /\ LevelOf(l) \in 1..3
  BY DEF TreeOf, LevelOf
<1> QED
  BY <1>6, <1>7, <1>8, <1>9

\* The entries below a place are entries of its tree.
LEMMA FirstRange ==
    ASSUME NEW k \in 0..3, NEW d \in 0..k, NEW q \in 0..(Width(k, d) - 1)
    PROVE  /\ First(k, d, q) \in Nat
           /\ First(k, d, q) >= TreeBase(k)
           /\ First(k, d, q) < TreeBase(k) + Width(k, k)
           /\ TreeOf(First(k, d, q)) = k
           /\ d = k => First(k, d, q) = TreeBase(k) + q
<1> DEFINE S == Span(k - d)
<1>1. q \in Nat /\ q < Width(k, d) /\ Width(k, d) \in Nat /\ TreeBase(k) \in Nat
  BY Bases
<1>2. S \in Nat /\ S >= 1 /\ Width(k, d) * S = Width(k, k)
  <2>1. k - d \in 0..3 /\ Span(d) * S = Span(k)
    BY SpanProduct
  <2>2. CASE k = 0
    <3>1. d \in 0..0
      BY <2>2
    <3>2. d = 0
      BY <3>1
    <3>3. k - d = 0
      BY <2>2, <3>2
    <3> QED
      BY <1>1, <2>2, <3>2, <3>3, Spans
  <2>3. CASE k # 0
    BY <2>1, <2>3, Spans DEF Width
  <2> QED
    BY <2>2, <2>3
<1>3. q * S + S <= Width(k, d) * S /\ q * S \in Nat
  BY <1>1, <1>2, MultiplesApart
<1>4. First(k, d, q) = TreeBase(k) + q * S
  BY DEF First
<1>5. Width(k, k) \in Nat
  <2>1. k \in 0..k
    OBVIOUS
  <2> QED
    BY <2>1, Bases
<1>6. d = k => q * S = q
  <2>1. d = k => k - d = 0
    OBVIOUS
  <2> QED
    BY <1>1, <2>1, Spans
<1> HIDE DEF S
<1>7. /\ First(k, d, q) \in Nat
      /\ First(k, d, q) >= TreeBase(k)
      /\ First(k, d, q) < TreeBase(k) + Width(k, k)
  BY <1>1, <1>2, <1>3, <1>4, <1>5
<1> QED
  BY <1>4, <1>6, <1>7, TreeRange

\* A place before the end of the file is in use.
LEMMA NonZero ==
    ASSUME NEW N, NEW m, NEW g, NEW dat \in Seq(Block), Mapped(N, m, g, dat),
           NEW k \in 0..3, NEW d \in 0..k, NEW q \in 0..(Width(k, d) - 1),
           First(k, d, q) < Len(dat)
    PROVE  Val(N, m, g, k, d, q) # 0
<1> DEFINE Ok(e) == \A p \in 0..(Width(k, e) - 1) :
                        First(k, e, p) < Len(dat) => Val(N, m, g, k, e, p) # 0
<1>1. Ok(k)
  <2> SUFFICES ASSUME NEW p \in 0..(Width(k, k) - 1), First(k, k, p) < Len(dat)
               PROVE  Val(N, m, g, k, k, p) # 0
    OBVIOUS
  <2> DEFINE l == First(k, k, p)
  <2>1. k \in 0..k
    OBVIOUS
  <2>a. l \in Nat /\ TreeOf(l) = k /\ l = TreeBase(k) + p
    BY <2>1, FirstRange
  <2>b. TreeBase(k) \in Nat /\ Width(k, k) \in Nat
    BY <2>1, Bases
  <2>2. l \in Nat /\ TreeOf(l) = k /\ l = TreeBase(k) + p /\ TreeBase(k) \in Nat /\ p \in Nat
    BY <2>a, <2>b
  <2> HIDE DEF l
  <2>3. l - TreeBase(k) = p
    BY <2>2
  <2>4. DataAt(N, m, g, l) = Val(N, m, g, k, k, p)
    BY <2>2, <2>3 DEF DataAt
  <2>5. l \in 0..(Len(dat) - 1) /\ l + 1 \in 1..Len(dat)
    BY <2>2 DEF l
  <2>6. DataAt(N, m, g, l) = dat[l + 1] /\ dat[l + 1] \in Block
    BY <2>5, ElementOfSeq DEF Mapped
  <2> QED
    BY <2>4, <2>6, Constants
<1>2. ASSUME NEW e \in 1..k, Ok(e) PROVE Ok(e - 1)
  <2> SUFFICES ASSUME NEW p \in 0..(Width(k, e - 1) - 1), First(k, e - 1, p) < Len(dat)
               PROVE  Val(N, m, g, k, e - 1, p) # 0
    OBVIOUS
  <2>1. k \in 1..3
    OBVIOUS
  <2>2. /\ p * A \in 0..(Width(k, e) - 1)
        /\ (p * A) \div A = p
        /\ First(k, e, p * A) = First(k, e - 1, p)
    BY <2>1, FirstChild
  <2>3. Val(N, m, g, k, e, p * A) # 0
    BY <1>2, <2>2
  <2>4. Val(N, m, g, k, e, p * A)
          = Entry(m, Val(N, m, g, k, e - 1, (p * A) \div A), (p * A) % A)
    BY <2>1, ValStep
  <2> QED
    BY <2>2, <2>3, <2>4 DEF Entry
<1> HIDE DEF Ok
<1>3. d = k \/ d = k - 1 \/ d = k - 2 \/ d = k - 3
  OBVIOUS
<1>4. 1 <= k => Ok(k - 1)
  BY <1>1, <1>2
<1>5. 2 <= k => Ok(k - 2)
  <2>1. 2 <= k => k - 1 \in 1..k /\ k - 1 - 1 = k - 2
    OBVIOUS
  <2> QED
    BY <1>4, <1>2, <2>1
<1>6. 3 <= k => Ok(k - 3)
  <2>1. 3 <= k => k - 2 \in 1..k /\ k - 2 - 1 = k - 3
    OBVIOUS
  <2> QED
    BY <1>5, <1>2, <2>1
<1>7. Ok(d)
  BY <1>1, <1>3, <1>4, <1>5, <1>6
<1> QED
  BY <1>7 DEF Ok

-----------------------------------------------------------------------------
(* What a change of a word or of a pointer does to the places *)

\* The same blocks at all places outside Z.
SameOutside(N, m, N2, m2, Z) ==
    \A g \in File : \A k \in 0..3 : \A d \in 0..k : \A q \in 0..(Width(k, d) - 1) :
        <<g, k, d, q>> \notin Z => Val(N2, m2, g, k, d, q) = Val(N, m, g, k, d, q)

\* With a place, everything below it is in Z.
Closed(Z) ==
    \A g \in File : \A k \in 1..3 : \A d \in 1..k : \A q \in 0..(Width(k, d) - 1) :
        <<g, k, d - 1, q \div A>> \in Z => <<g, k, d, q>> \in Z

\* Outside Z the pointers are the same: direct blocks and roots, then entries.
SameInodes(N, N2, Z) ==
    /\ \A g \in File : \A q \in 0..(D - 1) :
          <<g, 0, 0, q>> \notin Z => N2[g].i_direct_blocks[q] = N[g].i_direct_blocks[q]
    /\ \A g \in File : \A k \in 1..3 :
          <<g, k, 0, 0>> \notin Z => N2[g].i_indirect[k] = N[g].i_indirect[k]

SameWords(N, m, m2, Z) ==
    \A g \in File : \A k \in 1..3 : \A d \in 1..k : \A q \in 0..(Width(k, d) - 1) :
        <<g, k, d, q>> \notin Z /\ Val(N, m, g, k, d - 1, q \div A) # 0
            => m2[Val(N, m, g, k, d - 1, q \div A)][q % A]
                  = m[Val(N, m, g, k, d - 1, q \div A)][q % A]

LEMMA Frame ==
    ASSUME NEW N, NEW m, NEW N2, NEW m2, NEW Z,
           Closed(Z), SameInodes(N, N2, Z), SameWords(N, m, m2, Z)
    PROVE  SameOutside(N, m, N2, m2, Z)
<1> SUFFICES ASSUME NEW g \in File, NEW k \in 0..3, NEW d \in 0..k, NEW q \in 0..(Width(k, d) - 1),
                    <<g, k, d, q>> \notin Z
             PROVE  Val(N2, m2, g, k, d, q) = Val(N, m, g, k, d, q)
  BY DEF SameOutside
<1>1. CASE k = 0
  <2>1. d \in 0..0 /\ q \in 0..(D - 1)
    BY <1>1 DEF Width
  <2>2. d = 0
    BY <2>1
  <2> QED
    BY <1>1, <2>1, <2>2 DEF SameInodes, Val
<1>2. CASE k # 0
  <2>0. k \in 1..3
    BY <1>2
  <2> DEFINE Ok(e) == \A p \in 0..(Width(k, e) - 1) :
                <<g, k, e, p>> \notin Z => Val(N2, m2, g, k, e, p) = Val(N, m, g, k, e, p)
  <2>1. Ok(0)
    <3> TAKE p \in 0..(Width(k, 0) - 1)
    <3>1. p = 0
      <4>1. Width(k, 0) = 1
        BY <2>0, Spans DEF Width
      <4> QED
        BY <4>1
    <3>2. /\ Val(N2, m2, g, k, 0, p) = N2[g].i_indirect[k]
          /\ Val(N, m, g, k, 0, p) = N[g].i_indirect[k]
      BY <2>0 DEF Val, Below
    <3> QED
      BY <2>0, <3>1, <3>2 DEF SameInodes
  <2>2. ASSUME NEW e \in 1..k, Ok(e - 1) PROVE Ok(e)
    <3> SUFFICES ASSUME NEW p \in 0..(Width(k, e) - 1), <<g, k, e, p>> \notin Z
                 PROVE  Val(N2, m2, g, k, e, p) = Val(N, m, g, k, e, p)
      OBVIOUS
    <3>1. p \div A \in 0..(Width(k, e - 1) - 1)
      BY <2>0, Parent
    <3>2. <<g, k, e - 1, p \div A>> \notin Z
      BY <2>0 DEF Closed
    <3> DEFINE c == Val(N, m, g, k, e - 1, p \div A)
    <3>3. Val(N2, m2, g, k, e - 1, p \div A) = c
      BY <2>2, <3>1, <3>2
    <3>4. c # 0 => m2[c][p % A] = m[c][p % A]
      BY <2>0 DEF SameWords
    <3>5. Val(N2, m2, g, k, e, p) = Entry(m2, Val(N2, m2, g, k, e - 1, p \div A), p % A)
      BY <2>0, ValStep
    <3>6. Val(N, m, g, k, e, p) = Entry(m, c, p % A)
      BY <2>0, ValStep
    <3> HIDE DEF c
    <3> QED
      BY <3>3, <3>4, <3>5, <3>6 DEF Entry
  <2> HIDE DEF Ok
  <2>4. 1 \in 0..k => Ok(1)
    BY <2>0, <2>1, <2>2
  <2>5. 2 \in 0..k => Ok(2)
    BY <2>0, <2>4, <2>2
  <2>6. 3 \in 0..k => Ok(3)
    BY <2>0, <2>5, <2>2
  <2>7. Ok(d)
    <3>1. d = 0 \/ d = 1 \/ d = 2 \/ d = 3
      OBVIOUS
    <3> QED
      BY <2>1, <2>4, <2>5, <2>6, <3>1
  <2> QED
    BY <2>7 DEF Ok
<1> QED
  BY <1>1, <1>2

\* The number of the place j steps up.
Up(p, j) == CASE j = 0 -> p
              [] j = 1 -> p \div A
              [] j = 2 -> (p \div A) \div A
              [] j = 3 -> ((p \div A) \div A) \div A

\* A place and everything below it.
Subtree(f, k, d, q) ==
    {x \in {f} \X {k} \X (d..k) \X Nat : Up(x[4], x[3] - d) = q}

LEMMA UpStep ==
    ASSUME NEW p, NEW i \in 1..3
    PROVE  Up(p, 0) = p /\ Up(p, i) = Up(p \div A, i - 1)
<1>1. (i = 1 /\ i - 1 = 0) \/ (i = 2 /\ i - 1 = 1) \/ (i = 3 /\ i - 1 = 2)
  OBVIOUS
<1>2. CASE i = 1 /\ i - 1 = 0
  BY <1>2 DEF Up
<1>3. CASE i = 2 /\ i - 1 = 1
  BY <1>3 DEF Up
<1>4. CASE i = 3 /\ i - 1 = 2
  BY <1>4 DEF Up
<1> QED
  BY <1>1, <1>2, <1>3, <1>4 DEF Up

LEMMA SubtreeClosed ==
    ASSUME NEW f \in File, NEW k \in 1..3, NEW d \in 0..k, NEW q \in 0..(Width(k, d) - 1)
    PROVE  /\ Closed(Subtree(f, k, d, q))
           /\ <<f, k, d, q>> \in Subtree(f, k, d, q)
<1>0. k \in 0..3 /\ q \in Nat
  BY Bases
<1>1. <<f, k, d, q>> \in Subtree(f, k, d, q)
  <2>1. d - d = 0 /\ d \in d..k
    OBVIOUS
  <2> QED
    BY <1>0, <2>1 DEF Subtree, Up
<1>2. ASSUME NEW g \in File, NEW j \in 1..3, NEW e \in 1..j, NEW p \in 0..(Width(j, e) - 1),
             <<g, j, e - 1, p \div A>> \in Subtree(f, k, d, q)
      PROVE  <<g, j, e, p>> \in Subtree(f, k, d, q)
  <2>1. /\ g = f /\ j = k /\ e - 1 \in d..k
        /\ Up(p \div A, (e - 1) - d) = q
    BY <1>0, <1>2 DEF Subtree
  <2>2. p \in Nat
    BY Parent
  <2>3. e \in d..k
    BY <2>1
  <2>4. Up(p, e - d) = Up(p \div A, (e - 1) - d)
    <3>1. e - d \in 1..3 /\ (e - d) - 1 = (e - 1) - d
      BY <2>1
    <3> QED
      BY <3>1, UpStep
  <2> QED
    BY <1>0, <2>1, <2>2, <2>3, <2>4 DEF Subtree
<1> QED
  BY <1>1, <1>2 DEF Closed

\* A place of the subtree that is not its root is below another place of it.
LEMMA SubtreeParent ==
    ASSUME NEW f \in File, NEW k \in 1..3, NEW d \in 0..k, NEW q \in 0..(Width(k, d) - 1),
           NEW e \in 0..k, NEW p \in 0..(Width(k, e) - 1),
           <<f, k, e, p>> \in Subtree(f, k, d, q)
    PROVE  /\ e >= d
           /\ e = d => p = q
           /\ e > d => e \in 1..k /\ <<f, k, e - 1, p \div A>> \in Subtree(f, k, d, q)
<1>0. k \in 0..3
  OBVIOUS
<1>1. e \in d..k /\ Up(p, e - d) = q
  BY <1>0 DEF Subtree
<1>2. e = d => p = q
  <2>1. e = d => e - d = 0
    OBVIOUS
  <2> QED
    BY <1>1, <2>1 DEF Up
<1>3. ASSUME e > d PROVE e \in 1..k /\ <<f, k, e - 1, p \div A>> \in Subtree(f, k, d, q)
  <2>1. e \in 1..k
    BY <1>3
  <2>2. p \div A \in Nat
    <3>1. p \div A \in 0..(Width(k, e - 1) - 1)
      BY <2>1, Parent
    <3>2. Width(k, e - 1) \in Nat
      <4>1. e - 1 \in 0..k
        BY <2>1
      <4> QED
        BY <1>0, <4>1, Bases
    <3> QED
      BY <3>1, <3>2
  <2>3. Up(p, e - d) = Up(p \div A, (e - 1) - d)
    <3>1. e - d \in 1..3 /\ (e - d) - 1 = (e - 1) - d
      BY <1>3
    <3> QED
      BY <3>1, UpStep
  <2>4. e - 1 \in d..k
    BY <1>3
  <2> QED
    BY <1>0, <1>1, <2>1, <2>2, <2>3, <2>4 DEF Subtree
<1> QED
  BY <1>1, <1>2, <1>3

NothingBelow(N, m, f, k, d, q) ==
    \A e \in 0..k : \A p \in 0..(Width(k, e) - 1) :
        <<f, k, e, p>> \in Subtree(f, k, d, q) => Val(N, m, f, k, e, p) = 0

\* The block below nothing is nothing.
LEMMA SubtreeZero ==
    ASSUME NEW N, NEW m, NEW f \in File, NEW k \in 1..3, NEW d \in 0..k,
           NEW q \in 0..(Width(k, d) - 1), Val(N, m, f, k, d, q) = 0
    PROVE  NothingBelow(N, m, f, k, d, q)
<1> DEFINE Ok(e) == \A p \in 0..(Width(k, e) - 1) :
               <<f, k, e, p>> \in Subtree(f, k, d, q) => Val(N, m, f, k, e, p) = 0
<1>1. ASSUME NEW e \in 0..k, e > d => Ok(e - 1) PROVE Ok(e)
  <2> SUFFICES ASSUME NEW p \in 0..(Width(k, e) - 1),
                      <<f, k, e, p>> \in Subtree(f, k, d, q)
               PROVE  Val(N, m, f, k, e, p) = 0
    OBVIOUS
  <2>1. /\ e >= d
        /\ e = d => p = q
        /\ e > d => e \in 1..k /\ <<f, k, e - 1, p \div A>> \in Subtree(f, k, d, q)
    BY SubtreeParent
  <2>2. CASE e = d
    BY <2>1, <2>2
  <2>3. CASE e > d
    <3>1. e \in 1..k
      BY <2>1, <2>3
    <3>2. p \div A \in 0..(Width(k, e - 1) - 1)
      BY <3>1, Parent
    <3>3. Val(N, m, f, k, e - 1, p \div A) = 0
      BY <1>1, <2>1, <2>3, <3>2
    <3>4. Val(N, m, f, k, e, p) = Entry(m, Val(N, m, f, k, e - 1, p \div A), p % A)
      BY <3>1, ValStep
    <3> QED
      BY <3>3, <3>4 DEF Entry
  <2> QED
    BY <2>1, <2>2, <2>3
<1> HIDE DEF Ok
<1>2. Ok(0)
  BY <1>1
<1>3. 1 \in 0..k => Ok(1)
  BY <1>1, <1>2
<1>4. 2 \in 0..k => Ok(2)
  BY <1>1, <1>3
<1>5. 3 \in 0..k => Ok(3)
  BY <1>1, <1>4
<1>6. ASSUME NEW e \in 0..k PROVE Ok(e)
  <2>1. e = 0 \/ e = 1 \/ e = 2 \/ e = 3
    OBVIOUS
  <2> QED
    BY <2>1, <1>2, <1>3, <1>4, <1>5
<1> QED
  BY <1>6 DEF Ok, NothingBelow

\* The entries below a place come after its first one.
LEMMA SubtreeFirst ==
    ASSUME NEW f \in File, NEW k \in 1..3, NEW d \in 0..k, NEW q \in 0..(Width(k, d) - 1)
    PROVE  \A e \in 0..k : \A p \in 0..(Width(k, e) - 1) :
               <<f, k, e, p>> \in Subtree(f, k, d, q) => First(k, e, p) >= First(k, d, q)
<1> DEFINE Ok(e) == \A p \in 0..(Width(k, e) - 1) :
               <<f, k, e, p>> \in Subtree(f, k, d, q) => First(k, e, p) >= First(k, d, q)
<1>0. First(k, d, q) \in Nat
  BY FirstRange
<1>1. ASSUME NEW e \in 0..k, e > d => Ok(e - 1) PROVE Ok(e)
  <2> SUFFICES ASSUME NEW p \in 0..(Width(k, e) - 1),
                      <<f, k, e, p>> \in Subtree(f, k, d, q)
               PROVE  First(k, e, p) >= First(k, d, q)
    OBVIOUS
  <2>1. /\ e >= d
        /\ e = d => p = q
        /\ e > d => e \in 1..k /\ <<f, k, e - 1, p \div A>> \in Subtree(f, k, d, q)
    BY SubtreeParent
  <2>2. CASE e = d
    BY <1>0, <2>1, <2>2
  <2>3. CASE e > d
    <3>1. e \in 1..k
      BY <2>1, <2>3
    <3>2. p \div A \in 0..(Width(k, e - 1) - 1)
      BY <3>1, Parent
    <3>3. First(k, e - 1, p \div A) >= First(k, d, q)
      BY <1>1, <2>1, <2>3, <3>2
    <3>4. /\ First(k, e, p) = First(k, e - 1, p \div A) + (p % A) * Span(k - e)
          /\ First(k, e - 1, p \div A) \in Nat
          /\ (p % A) * Span(k - e) \in Nat
      BY <3>1, FirstParent
    <3> QED
      BY <1>0, <3>3, <3>4
  <2> QED
    BY <2>1, <2>2, <2>3
<1> HIDE DEF Ok
<1>2. Ok(0)
  BY <1>1
<1>3. 1 \in 0..k => Ok(1)
  BY <1>1, <1>2
<1>4. 2 \in 0..k => Ok(2)
  BY <1>1, <1>3
<1>5. 3 \in 0..k => Ok(3)
  BY <1>1, <1>4
<1>6. ASSUME NEW e \in 0..k PROVE Ok(e)
  <2>1. e = 0 \/ e = 1 \/ e = 2 \/ e = 3
    OBVIOUS
  <2> QED
    BY <2>1, <1>2, <1>3, <1>4, <1>5
<1> QED
  BY <1>6 DEF Ok

\* The place gets block b, nothing is below it, and the other places stay.
Gets(N, m, N2, m2, f, k, d, q, b) ==
    \A g \in File : \A j \in 0..3 : \A e \in 0..j : \A p \in 0..(Width(j, e) - 1) :
        Val(N2, m2, g, j, e, p) =
            IF g = f /\ j = k /\ e = d /\ p = q THEN b
            ELSE IF <<g, j, e, p>> \in Subtree(f, k, d, q) THEN 0
            ELSE Val(N, m, g, j, e, p)

\* Block b is at no place.
Unplaced(N, m, b) ==
    \A g \in File : \A j \in 0..3 : \A e \in 0..j : \A p \in 0..(Width(j, e) - 1) :
        Val(N, m, g, j, e, p) # b

\* Nothing is below a block without entries.
LEMMA EmptyBelow ==
    ASSUME NEW N, NEW m, NEW f \in File, NEW k \in 1..3, NEW d \in 0..k,
           NEW q \in 0..(Width(k, d) - 1), NEW b \in Block, Val(N, m, f, k, d, q) = b,
           d < k => \A i \in Position : m[b][i] = 0
    PROVE  \A e \in 0..k : \A p \in 0..(Width(k, e) - 1) :
               /\ <<f, k, e, p>> \in Subtree(f, k, d, q)
               /\ ~ (e = d /\ p = q)
               => Val(N, m, f, k, e, p) = 0
<1> DEFINE Ok(e) == \A p \in 0..(Width(k, e) - 1) :
               <<f, k, e, p>> \in Subtree(f, k, d, q) /\ ~ (e = d /\ p = q)
                   => Val(N, m, f, k, e, p) = 0
<1>1. ASSUME NEW e \in 0..k, e > d => Ok(e - 1) PROVE Ok(e)
  <2> SUFFICES ASSUME NEW p \in 0..(Width(k, e) - 1),
                      <<f, k, e, p>> \in Subtree(f, k, d, q), ~ (e = d /\ p = q)
               PROVE  Val(N, m, f, k, e, p) = 0
    OBVIOUS
  <2>1. /\ e >= d
        /\ e = d => p = q
        /\ e > d => e \in 1..k /\ <<f, k, e - 1, p \div A>> \in Subtree(f, k, d, q)
    BY SubtreeParent
  <2>2. e > d
    BY <2>1
  <2>3. e \in 1..k
    BY <2>1, <2>2
  <2>4. p \div A \in 0..(Width(k, e - 1) - 1) /\ p % A \in Position
    BY <2>3, Parent
  <2>5. Val(N, m, f, k, e, p) = Entry(m, Val(N, m, f, k, e - 1, p \div A), p % A)
    BY <2>3, ValStep
  <2>6. CASE e - 1 = d /\ p \div A = q
    <3>1. Val(N, m, f, k, e, p) = Entry(m, b, p % A)
      BY <2>5, <2>6
    <3>2. m[b][p % A] = 0
      BY <2>4, <2>6
    <3> QED
      BY <3>1, <3>2, Constants DEF Entry
  <2>7. CASE ~ (e - 1 = d /\ p \div A = q)
    <3>1. Val(N, m, f, k, e - 1, p \div A) = 0
      BY <1>1, <2>1, <2>2, <2>4, <2>7
    <3> QED
      BY <2>5, <3>1 DEF Entry
  <2> QED
    BY <2>6, <2>7
<1> HIDE DEF Ok
<1>2. Ok(0)
  BY <1>1
<1>3. 1 \in 0..k => Ok(1)
  BY <1>1, <1>2
<1>4. 2 \in 0..k => Ok(2)
  BY <1>1, <1>3
<1>5. 3 \in 0..k => Ok(3)
  BY <1>1, <1>4
<1>6. ASSUME NEW e \in 0..k PROVE Ok(e)
  <2>1. e = 0 \/ e = 1 \/ e = 2 \/ e = 3
    OBVIOUS
  <2> QED
    BY <2>1, <1>2, <1>3, <1>4, <1>5
<1> QED
  BY <1>6 DEF Ok

\* A block becomes the entry of an index block.
LEMMA AttachWord ==
    ASSUME NEW N, NEW m, NEW free, Good(N, m, free),
           NEW f \in File, NEW k \in 1..3, NEW d \in 1..k, NEW q \in 0..(Width(k, d) - 1),
           NEW c \in Block, c = Val(N, m, f, k, d - 1, q \div A),
           NEW b \in Block, Unplaced(N, m, b),
           d < k => \A i \in Position : m[b][i] = 0
    PROVE  LET m2 == [m EXCEPT ![c][q % A] = b]
           IN  Typed(N, m2, free) /\ Gets(N, m, N, m2, f, k, d, q, b)
<1> DEFINE m2 == [m EXCEPT ![c][q % A] = b]
           Z == Subtree(f, k, d, q)
<1>0. /\ k \in 0..3 /\ d \in 0..k /\ d - 1 \in 0..k
      /\ q \div A \in 0..(Width(k, d - 1) - 1) /\ q % A \in Position
      /\ q = (q \div A) * A + (q % A)
  <2>1. k \in 0..3 /\ d \in 0..k /\ d - 1 \in 0..k
    OBVIOUS
  <2> QED
    BY <2>1, Parent
<1>1. /\ m2 \in [Block -> [Position -> Word]]
      /\ m2[c][q % A] = b
      /\ \A x \in Block : \A i \in Position : x # c \/ i # q % A => m2[x][i] = m[x][i]
  BY <1>0, Constants DEF Good, Typed
<1>2. Typed(N, m2, free)
  BY <1>1 DEF Good, Typed
<1>3. c # b /\ c # 0
  BY <1>0, Constants DEF Unplaced
<1> HIDE DEF m2, Z
<1>4. Closed(Z) /\ <<f, k, d, q>> \in Z
  BY <1>0, SubtreeClosed DEF Z
<1>5. SameInodes(N, N, Z)
  BY DEF SameInodes
<1>6. SameWords(N, m, m2, Z)
  <2> SUFFICES ASSUME NEW g \in File, NEW j \in 1..3, NEW e \in 1..j,
                      NEW p \in 0..(Width(j, e) - 1), <<g, j, e, p>> \notin Z,
                      Val(N, m, g, j, e - 1, p \div A) # 0
               PROVE  m2[Val(N, m, g, j, e - 1, p \div A)][p % A]
                         = m[Val(N, m, g, j, e - 1, p \div A)][p % A]
    BY DEF SameWords
  <2> DEFINE v == Val(N, m, g, j, e - 1, p \div A)
  <2>1. /\ j \in 0..3 /\ e - 1 \in 0..j
        /\ p \div A \in 0..(Width(j, e - 1) - 1) /\ p % A \in Position
        /\ p = (p \div A) * A + (p % A)
    BY Parent
  <2>2. v \in Block
    BY <2>1, ValWord DEF Good
  <2>3. ASSUME v = c, p % A = q % A PROVE FALSE
    <3>1. g = f /\ j = k /\ e - 1 = d - 1 /\ p \div A = q \div A
      BY <1>0, <1>3, <2>1, <2>3 DEF Good, Apart
    <3>2. e = d
      BY <3>1
    <3>3. p = q
      BY <1>0, <2>1, <2>3, <3>1
    <3> QED
      BY <1>4, <3>1, <3>2, <3>3
  <2> HIDE DEF v
  <2>4. m2[v][p % A] = m[v][p % A]
    BY <1>1, <2>1, <2>2, <2>3
  <2> QED
    BY <2>4 DEF v
<1>7. SameOutside(N, m, N, m2, Z)
  BY <1>4, <1>5, <1>6, Frame
<1>8. Val(N, m2, f, k, d, q) = b
  <2>1. <<f, k, d - 1, q \div A>> \notin Z
    BY <1>0 DEF Z, Subtree
  <2>2. Val(N, m2, f, k, d - 1, q \div A) = c
    BY <1>0, <1>7, <2>1 DEF SameOutside
  <2>3. Val(N, m2, f, k, d, q) = Entry(m2, Val(N, m2, f, k, d - 1, q \div A), q % A)
    BY ValStep
  <2> QED
    BY <1>1, <1>3, <2>2, <2>3 DEF Entry
<1>9. d < k => \A i \in Position : m2[b][i] = 0
  BY <1>1, <1>3
<1>10. \A e \in 0..k : \A p \in 0..(Width(k, e) - 1) :
          <<f, k, e, p>> \in Z /\ ~ (e = d /\ p = q) => Val(N, m2, f, k, e, p) = 0
  BY <1>0, <1>8, <1>9, EmptyBelow DEF Z
<1>11. Gets(N, m, N, m2, f, k, d, q, b)
  <2> SUFFICES ASSUME NEW g \in File, NEW j \in 0..3, NEW e \in 0..j,
                      NEW p \in 0..(Width(j, e) - 1)
               PROVE  Val(N, m2, g, j, e, p) =
                        IF g = f /\ j = k /\ e = d /\ p = q THEN b
                        ELSE IF <<g, j, e, p>> \in Z THEN 0
                        ELSE Val(N, m, g, j, e, p)
    BY DEF Gets, Z
  <2>1. CASE <<g, j, e, p>> \notin Z
    BY <1>4, <1>7, <2>1 DEF SameOutside
  <2>2. CASE <<g, j, e, p>> \in Z
    <3>1. g = f /\ j = k
      BY <2>2 DEF Z, Subtree
    <3> QED
      BY <1>8, <1>10, <2>2, <3>1
  <2> QED
    BY <2>1, <2>2
<1> QED
  BY <1>2, <1>11 DEF m2

\* A block becomes the root of a tree.
LEMMA AttachRoot ==
    ASSUME NEW N, NEW m, NEW free, Typed(N, m, free),
           NEW f \in File, NEW k \in 1..3,
           NEW b \in Block, \A i \in Position : m[b][i] = 0
    PROVE  LET N2 == [N EXCEPT ![f].i_indirect[k] = b]
           IN  Typed(N2, m, free) /\ Gets(N, m, N2, m, f, k, 0, 0, b)
<1> DEFINE N2 == [N EXCEPT ![f].i_indirect[k] = b]
           Z == Subtree(f, k, 0, 0)
<1>0. k \in 0..3 /\ 0 \in 0..k /\ 0 \in 0..(Width(k, 0) - 1) /\ Width(k, 0) = 1
  <2>1. Width(k, 0) = 1
    BY Spans DEF Width
  <2> QED
    BY <2>1
<1>1. /\ N2 \in [File -> Node]
      /\ N2[f].i_indirect[k] = b
      /\ \A g \in File : N2[g].i_direct_blocks = N[g].i_direct_blocks
      /\ \A g \in File : \A j \in 1..3 : g # f \/ j # k => N2[g].i_indirect[j] = N[g].i_indirect[j]
  BY <1>0, Constants DEF Typed, Node, Level
<1>2. Typed(N2, m, free)
  BY <1>1 DEF Typed
<1> HIDE DEF N2, Z
<1>4. Closed(Z) /\ <<f, k, 0, 0>> \in Z
  BY <1>0, SubtreeClosed DEF Z
<1>5. SameInodes(N, N2, Z)
  BY <1>1, <1>4 DEF SameInodes
<1>6. SameWords(N, m, m, Z)
  BY DEF SameWords
<1>7. SameOutside(N, m, N2, m, Z)
  BY <1>4, <1>5, <1>6, Frame
<1>8. Val(N2, m, f, k, 0, 0) = b
  BY <1>1 DEF Val, Below
<1>10. \A e \in 0..k : \A p \in 0..(Width(k, e) - 1) :
          <<f, k, e, p>> \in Z /\ ~ (e = 0 /\ p = 0) => Val(N2, m, f, k, e, p) = 0
  BY <1>0, <1>8, EmptyBelow DEF Z
<1>11. Gets(N, m, N2, m, f, k, 0, 0, b)
  <2> SUFFICES ASSUME NEW g \in File, NEW j \in 0..3, NEW e \in 0..j,
                      NEW p \in 0..(Width(j, e) - 1)
               PROVE  Val(N2, m, g, j, e, p) =
                        IF g = f /\ j = k /\ e = 0 /\ p = 0 THEN b
                        ELSE IF <<g, j, e, p>> \in Z THEN 0
                        ELSE Val(N, m, g, j, e, p)
    BY DEF Gets, Z
  <2>1. CASE <<g, j, e, p>> \notin Z
    BY <1>4, <1>7, <2>1 DEF SameOutside
  <2>2. CASE <<g, j, e, p>> \in Z
    <3>1. g = f /\ j = k
      BY <2>2 DEF Z, Subtree
    <3> QED
      BY <1>8, <1>10, <2>2, <3>1
  <2> QED
    BY <2>1, <2>2
<1> QED
  BY <1>2, <1>11 DEF N2

\* A block becomes a direct block.
LEMMA AttachDirect ==
    ASSUME NEW N, NEW m, NEW N2 \in [File -> Node],
           NEW f \in File, NEW q \in 0..(D - 1), NEW b \in Block, N \in [File -> Node],
           \A g \in File : g # f => N2[g] = N[g],
           N2[f].i_indirect = N[f].i_indirect,
           N2[f].i_direct_blocks = [N[f].i_direct_blocks EXCEPT ![q] = b]
    PROVE  Gets(N, m, N2, m, f, 0, 0, q, b)
<1> DEFINE Z == {<<f, 0, 0, q>>}
<1>1. Closed(Z)
  BY DEF Closed
<1>2. SameInodes(N, N2, Z)
  BY DEF SameInodes, Node
<1>3. SameWords(N, m, m, Z)
  BY DEF SameWords
<1>4. SameOutside(N, m, N2, m, Z)
  <2> HIDE DEF Z
  <2> QED
    BY <1>1, <1>2, <1>3, Frame
<1>5. Val(N2, m, f, 0, 0, q) = b
  BY DEF Val, Node
<1>6. \A g, j, e, p : p \in 0..(Width(j, e) - 1) /\ <<g, j, e, p>> \in Subtree(f, 0, 0, q)
          => g = f /\ j = 0 /\ e = 0 /\ p = q
  <2> SUFFICES ASSUME NEW g, NEW j, NEW e, NEW p, <<g, j, e, p>> \in Subtree(f, 0, 0, q)
               PROVE  g = f /\ j = 0 /\ e = 0 /\ p = q
    OBVIOUS
  <2>1. g = f /\ j = 0 /\ e \in 0..0 /\ Up(p, e - 0) = q
    BY DEF Subtree
  <2>2. e = 0 /\ e - 0 = 0
    BY <2>1
  <2> QED
    BY <2>1, <2>2 DEF Up
<1> QED
  BY <1>4, <1>5, <1>6, ZenonT(60) DEF Gets, SameOutside

-----------------------------------------------------------------------------
(* What a change of the places does to the invariant *)

\* Every place holds what it held.
SameVals(N, m, N2, m2) ==
    \A g \in File : \A k \in 0..3 : \A d \in 0..k : \A q \in 0..(Width(k, d) - 1) :
        Val(N2, m2, g, k, d, q) = Val(N, m, g, k, d, q)

LEMMA SameGood ==
    ASSUME NEW N, NEW m, NEW free, NEW N2, NEW m2, NEW free2,
           Good(N, m, free), SameVals(N, m, N2, m2), Typed(N2, m2, free2),
           \A g \in File : \A k \in 0..3 : \A d \in 0..k : \A q \in 0..(Width(k, d) - 1) :
              Val(N, m, g, k, d, q) # 0 => free2[Val(N, m, g, k, d, q)] = 0
    PROVE  Good(N2, m2, free2)
<1>1. Apart(N2, m2)
  <2> SUFFICES ASSUME NEW f \in File, NEW g \in File, NEW k \in 0..3, NEW j \in 0..3,
                      NEW d \in 0..k, NEW e \in 0..j,
                      NEW q \in 0..(Width(k, d) - 1), NEW p \in 0..(Width(j, e) - 1),
                      Val(N2, m2, f, k, d, q) # 0,
                      Val(N2, m2, f, k, d, q) = Val(N2, m2, g, j, e, p)
               PROVE  f = g /\ k = j /\ d = e /\ q = p
    BY DEF Apart
  <2>1. /\ Val(N2, m2, f, k, d, q) = Val(N, m, f, k, d, q)
        /\ Val(N2, m2, g, j, e, p) = Val(N, m, g, j, e, p)
    BY DEF SameVals
  <2>2. Val(N, m, f, k, d, q) # 0 /\ Val(N, m, f, k, d, q) = Val(N, m, g, j, e, p)
    BY <2>1
  <2> QED
    BY <2>2 DEF Good, Apart
<1>2. Taken(N2, m2, free2)
  <2> SUFFICES ASSUME NEW f \in File, NEW k \in 0..3, NEW d \in 0..k,
                      NEW q \in 0..(Width(k, d) - 1), Val(N2, m2, f, k, d, q) # 0
               PROVE  free2[Val(N2, m2, f, k, d, q)] = 0
    BY DEF Taken
  <2>1. Val(N2, m2, f, k, d, q) = Val(N, m, f, k, d, q)
    BY DEF SameVals
  <2> QED
    BY <2>1
<1> QED
  BY <1>1, <1>2 DEF Good

LEMMA Limit ==
    /\ TreeBase(3) \in Nat
    /\ Width(3, 3) \in Nat
    /\ TreeBase(3) + Width(3, 3) \in Nat
<1>1. 3 \in 0..3
  OBVIOUS
<1>2. TreeBase(3) \in Nat /\ Width(3, 3) \in Nat
  BY <1>1, Bases
<1> QED
  BY <1>2

\* Files are within the block map.
Fits(dat) == \A g \in File : /\ dat[g] \in Seq(Block)
                        /\ Len(dat[g]) < TreeBase(3) + Width(3, 3)

LEMMA DataPlace ==
    ASSUME NEW l \in Nat, l < TreeBase(3) + Width(3, 3)
    PROVE  /\ TreeOf(l) \in 0..3
           /\ TreeOf(l) \in 0..TreeOf(l)
           /\ l - TreeBase(TreeOf(l)) \in 0..(Width(TreeOf(l), TreeOf(l)) - 1)
           /\ First(TreeOf(l), TreeOf(l), l - TreeBase(TreeOf(l))) = l
<1>1. /\ TreeOf(l) \in 0..3
      /\ l - TreeBase(TreeOf(l)) \in 0..(Width(TreeOf(l), TreeOf(l)) - 1)
  BY TreeRange
<1> DEFINE k == TreeOf(l)
           q == l - TreeBase(TreeOf(l))
<1> HIDE DEF k, q
<1>2. k \in 0..3 /\ k \in 0..k /\ q \in 0..(Width(k, k) - 1)
  BY <1>1 DEF k, q
<1>3. First(k, k, q) = TreeBase(k) + q
  BY <1>2, FirstRange
<1>4. TreeBase(k) \in Nat
  BY <1>2, Bases
<1>5. TreeBase(k) + q = l
  BY <1>4 DEF k, q
<1> QED
  BY <1>2, <1>3, <1>5 DEF k, q

LEMMA SameFiles ==
    ASSUME NEW N, NEW m, NEW N2, NEW m2, NEW strict, NEW f, NEW k, NEW d,
           NEW dat, Fits(dat), Files(N, m, dat, strict, f, k, d), SameVals(N, m, N2, m2)
    PROVE  Files(N2, m2, dat, strict, f, k, d)
<1> SUFFICES ASSUME NEW g \in File
             PROVE  /\ Mapped(N2, m2, g, dat[g])
                    /\ Ends(N2, m2, g, Len(dat[g]), strict, k, IF g = f THEN d ELSE -1)
  BY DEF Files
<1>1. /\ Mapped(N, m, g, dat[g])
      /\ Ends(N, m, g, Len(dat[g]), strict, k, IF g = f THEN d ELSE -1)
  BY DEF Files
<1>2. Mapped(N2, m2, g, dat[g])
  <2> SUFFICES ASSUME NEW l \in 0..(Len(dat[g]) - 1)
               PROVE  DataAt(N2, m2, g, l) = dat[g][l + 1]
    BY DEF Mapped
  <2>0. Len(dat[g]) \in Nat
    BY LenProperties DEF Fits
  <2>1. l \in Nat /\ l < TreeBase(3) + Width(3, 3)
    BY <2>0, Limit DEF Fits
  <2>2. DataAt(N2, m2, g, l) = DataAt(N, m, g, l)
    BY <2>1, DataPlace DEF SameVals, DataAt
  <2> QED
    BY <1>1, <2>2 DEF Mapped
<1>3. Ends(N2, m2, g, Len(dat[g]), strict, k, IF g = f THEN d ELSE -1)
  BY <1>1 DEF Ends, SameVals
<1> QED
  BY <1>2, <1>3

LEMMA GetsGood ==
    ASSUME NEW N, NEW m, NEW free, NEW N2, NEW m2, Good(N, m, free), Typed(N2, m2, free),
           NEW f, NEW k, NEW d, NEW q, NEW b \in Block,
           Gets(N, m, N2, m2, f, k, d, q, b), Unplaced(N, m, b), free[b] = 0
    PROVE  Good(N2, m2, free)
<1>0. b # 0
  BY Constants
<1>1. Apart(N2, m2)
  <2> SUFFICES ASSUME NEW f1 \in File, NEW g \in File, NEW k1 \in 0..3, NEW j \in 0..3,
                      NEW d1 \in 0..k1, NEW e \in 0..j,
                      NEW q1 \in 0..(Width(k1, d1) - 1), NEW p \in 0..(Width(j, e) - 1),
                      Val(N2, m2, f1, k1, d1, q1) # 0,
                      Val(N2, m2, f1, k1, d1, q1) = Val(N2, m2, g, j, e, p)
               PROVE  f1 = g /\ k1 = j /\ d1 = e /\ q1 = p
    BY DEF Apart
  <2>a. Val(N2, m2, f1, k1, d1, q1) =
            IF f1 = f /\ k1 = k /\ d1 = d /\ q1 = q THEN b
            ELSE IF <<f1, k1, d1, q1>> \in Subtree(f, k, d, q) THEN 0
            ELSE Val(N, m, f1, k1, d1, q1)
    BY DEF Gets
  <2>b. Val(N2, m2, g, j, e, p) =
            IF g = f /\ j = k /\ e = d /\ p = q THEN b
            ELSE IF <<g, j, e, p>> \in Subtree(f, k, d, q) THEN 0
            ELSE Val(N, m, g, j, e, p)
    BY DEF Gets
  <2>1. \/ f1 = f /\ k1 = k /\ d1 = d /\ q1 = q /\ Val(N2, m2, f1, k1, d1, q1) = b
        \/ Val(N2, m2, f1, k1, d1, q1) = Val(N, m, f1, k1, d1, q1)
    BY <2>a
  <2>2. \/ g = f /\ j = k /\ e = d /\ p = q /\ Val(N2, m2, g, j, e, p) = b
        \/ Val(N2, m2, g, j, e, p) = Val(N, m, g, j, e, p)
    BY <2>b
  <2>3. Val(N, m, f1, k1, d1, q1) # b /\ Val(N, m, g, j, e, p) # b
    BY DEF Unplaced
  <2>4. CASE Val(N2, m2, f1, k1, d1, q1) = b
    BY <2>1, <2>2, <2>3, <2>4
  <2>5. CASE Val(N2, m2, f1, k1, d1, q1) # b
    <3>1. /\ Val(N, m, f1, k1, d1, q1) # 0
          /\ Val(N, m, f1, k1, d1, q1) = Val(N, m, g, j, e, p)
      BY <2>1, <2>2, <2>5
    <3> QED
      BY <3>1 DEF Good, Apart
  <2> QED
    BY <2>4, <2>5
<1>2. Taken(N2, m2, free)
  <2> SUFFICES ASSUME NEW f1 \in File, NEW k1 \in 0..3, NEW d1 \in 0..k1,
                      NEW q1 \in 0..(Width(k1, d1) - 1), Val(N2, m2, f1, k1, d1, q1) # 0
               PROVE  free[Val(N2, m2, f1, k1, d1, q1)] = 0
    BY DEF Taken
  <2>a. Val(N2, m2, f1, k1, d1, q1) =
            IF f1 = f /\ k1 = k /\ d1 = d /\ q1 = q THEN b
            ELSE IF <<f1, k1, d1, q1>> \in Subtree(f, k, d, q) THEN 0
            ELSE Val(N, m, f1, k1, d1, q1)
    BY DEF Gets
  <2>1. \/ Val(N2, m2, f1, k1, d1, q1) = b
        \/ Val(N2, m2, f1, k1, d1, q1) = Val(N, m, f1, k1, d1, q1)
    BY <2>a
  <2> QED
    BY <2>1 DEF Good, Taken
<1> QED
  BY <1>1, <1>2 DEF Good

\* If nothing was at the place, b is accounted for and so is everything else.
LEMMA GetsFull ==
    ASSUME NEW N, NEW m, NEW free, NEW N2, NEW m2, NEW S, Full(N, m, free, S),
           NEW f \in File, NEW k \in 0..3, NEW d \in 0..k, NEW q \in 0..(Width(k, d) - 1),
           NEW b \in Block, Gets(N, m, N2, m2, f, k, d, q, b),
           Val(N, m, f, k, d, q) = 0
    PROVE  Full(N2, m2, free, S \ {b})
<1>1. ASSUME NEW g \in File, NEW j \in 0..3, NEW e \in 0..j, NEW p \in 0..(Width(j, e) - 1),
             Val(N, m, g, j, e, p) # 0
      PROVE  Val(N2, m2, g, j, e, p) = Val(N, m, g, j, e, p)
  <2>1. <<g, j, e, p>> \notin Subtree(f, k, d, q)
    <3> SUFFICES ASSUME <<g, j, e, p>> \in Subtree(f, k, d, q) PROVE FALSE
      OBVIOUS
    <3>1. g = f /\ j = k /\ e \in d..k /\ Up(p, e - d) = q
      BY DEF Subtree
    <3>2. CASE k = 0
      <4>1. d \in 0..0 /\ e \in 0..0
        BY <3>1, <3>2
      <4>2. d = 0 /\ e = 0
        BY <4>1
      <4>3. e - d = 0
        BY <4>2
      <4>4. p = q
        BY <3>1, <4>3 DEF Up
      <4> QED
        BY <1>1, <3>1, <4>2, <4>4
    <3>3. CASE k # 0
      <4>1. k \in 1..3
        BY <3>3
      <4>2. <<f, k, e, p>> \in Subtree(f, k, d, q) /\ e \in 0..k /\ p \in 0..(Width(k, e) - 1)
        BY <3>1
      <4>a. NothingBelow(N, m, f, k, d, q)
        BY <4>1, SubtreeZero
      <4>3. Val(N, m, f, k, e, p) = 0
        BY <4>a, <4>2 DEF NothingBelow
      <4> QED
        BY <1>1, <3>1, <4>3
    <3> QED
      BY <3>2, <3>3
  <2>2. ~ (g = f /\ j = k /\ e = d /\ p = q)
    BY <1>1
  <2> QED
    BY <2>1, <2>2 DEF Gets
<1>2. Val(N2, m2, f, k, d, q) = b
  BY DEF Gets
<1> SUFFICES ASSUME NEW c \in Block, free[c] # 1, c \notin S \ {b}
             PROVE  \E g \in File : \E j \in 0..3 : \E e \in 0..j : \E p \in 0..(Width(j, e) - 1) :
                       Val(N2, m2, g, j, e, p) = c
  BY DEF Full
<1>3. CASE c = b
  BY <1>2, <1>3
<1>4. CASE c # b
  <2>1. PICK g \in File, j \in 0..3 : \E e \in 0..j : \E p \in 0..(Width(j, e) - 1) :
           Val(N, m, g, j, e, p) = c
    BY <1>4 DEF Full
  <2>2. PICK e \in 0..j : \E p \in 0..(Width(j, e) - 1) : Val(N, m, g, j, e, p) = c
    BY <2>1
  <2>3. PICK p \in 0..(Width(j, e) - 1) : Val(N, m, g, j, e, p) = c
    BY <2>2
  <2>4. Val(N2, m2, g, j, e, p) = c
    BY <1>1, <2>3, Constants
  <2> QED
    BY <2>4
<1> QED
  BY <1>3, <1>4

\* A file g other than f, or any place with a first entry below n, is not in the subtree of
\* a place of f whose first entry is n.
LEMMA GetsMapped ==
    ASSUME NEW N, NEW m, NEW N2, NEW m2, NEW dat, Fits(dat), NEW g \in File, Mapped(N, m, g, dat[g]),
           NEW f \in File, NEW k \in 0..3, NEW d \in 0..k, NEW q \in 0..(Width(k, d) - 1),
           NEW b, Gets(N, m, N2, m2, f, k, d, q, b),
           g = f => First(k, d, q) = Len(dat[g])
    PROVE  Mapped(N2, m2, g, dat[g])
<1> SUFFICES ASSUME NEW l \in 0..(Len(dat[g]) - 1)
             PROVE  DataAt(N2, m2, g, l) = DataAt(N, m, g, l)
  BY DEF Mapped
<1> DEFINE j == TreeOf(l)
           p == l - TreeBase(j)
<1>0. Len(dat[g]) \in Nat
  BY LenProperties DEF Fits
<1>1. l \in Nat /\ l < TreeBase(3) + Width(3, 3)
  BY <1>0, Limit DEF Fits
<1>2. j \in 0..3 /\ j \in 0..j /\ p \in 0..(Width(j, j) - 1) /\ First(j, j, p) = l
  BY <1>1, DataPlace
<1>3. /\ DataAt(N2, m2, g, l) = Val(N2, m2, g, j, j, p)
      /\ DataAt(N, m, g, l) = Val(N, m, g, j, j, p)
  BY DEF DataAt
<1> HIDE DEF j, p
<1>4. Val(N2, m2, g, j, j, p) =
            IF g = f /\ j = k /\ j = d /\ p = q THEN b
            ELSE IF <<g, j, j, p>> \in Subtree(f, k, d, q) THEN 0
            ELSE Val(N, m, g, j, j, p)
  BY <1>2 DEF Gets
<1>5. ~ (g = f /\ j = k /\ j = d /\ p = q)
  BY <1>0, <1>2
<1>6. <<g, j, j, p>> \notin Subtree(f, k, d, q)
  <2> SUFFICES ASSUME <<g, j, j, p>> \in Subtree(f, k, d, q) PROVE FALSE
    OBVIOUS
  <2>1. g = f /\ j = k /\ j \in d..k /\ Up(p, j - d) = q
    BY DEF Subtree
  <2>2. CASE k = 0
    <3>1. d \in 0..0
      BY <2>2
    <3>2. d = 0 /\ j = 0
      BY <2>1, <2>2, <3>1
    <3>3. j - d = 0
      BY <3>2
    <3>4. p = q
      BY <2>1, <3>3 DEF Up
    <3> QED
      BY <1>5, <2>1, <2>2, <3>2, <3>4
  <2>3. CASE k # 0
    <3>1. k \in 1..3
      BY <2>3
    <3>2. \A e1 \in 0..k : \A p1 \in 0..(Width(k, e1) - 1) :
               <<f, k, e1, p1>> \in Subtree(f, k, d, q) => First(k, e1, p1) >= First(k, d, q)
      BY <3>1, SubtreeFirst
    <3>3. First(j, j, p) >= First(k, d, q)
      BY <1>2, <2>1, <3>2
    <3> QED
      BY <1>0, <1>2, <2>1, <3>3
  <2> QED
    BY <2>2, <2>3
<1> QED
  BY <1>3, <1>4, <1>5, <1>6

\* An index block for the next block of f takes its place.
LEMMA GetsIndex ==
    ASSUME NEW N, NEW m, NEW free, NEW N2, NEW m2, NEW S, NEW strict, NEW dat, Fits(dat),
           NEW f \in File, NEW k \in 1..3, NEW d \in 0..k, NEW q \in 0..(Width(k, d) - 1),
           d < k, First(k, d, q) = Len(dat[f]),
           Sound(N, m, free, dat, S, strict, f, k, d - 1), Typed(N2, m2, free),
           NEW b \in Block, Gets(N, m, N2, m2, f, k, d, q, b), Unplaced(N, m, b), free[b] = 0
    PROVE  Sound(N2, m2, free, dat, S \ {b}, strict, f, k, d)
<1>0. k \in 0..3
  OBVIOUS
<1>1. Good(N2, m2, free)
  BY GetsGood DEF Sound
<1>2. Files(N2, m2, dat, strict, f, k, d)
  <2> SUFFICES ASSUME NEW g \in File
               PROVE  /\ Mapped(N2, m2, g, dat[g])
                      /\ Ends(N2, m2, g, Len(dat[g]), strict, k, IF g = f THEN d ELSE -1)
    BY DEF Files
  <2>1. /\ Mapped(N, m, g, dat[g])
        /\ Ends(N, m, g, Len(dat[g]), strict, k, IF g = f THEN d - 1 ELSE -1)
    BY DEF Sound, Files
  <2>2. Mapped(N2, m2, g, dat[g])
    BY <1>0, <2>1, GetsMapped
  <2>3. ASSUME NEW j \in 0..3, NEW e \in 0..j, NEW p \in 0..(Width(j, e) - 1),
               First(j, e, p) >= Len(dat[g]), e = j \/ strict,
               ~ (j = k /\ e <= (IF g = f THEN d ELSE -1) /\ First(j, e, p) = Len(dat[g]))
        PROVE  Val(N2, m2, g, j, e, p) = 0
    <3>1. Val(N2, m2, g, j, e, p) =
            IF g = f /\ j = k /\ e = d /\ p = q THEN b
            ELSE IF <<g, j, e, p>> \in Subtree(f, k, d, q) THEN 0
            ELSE Val(N, m, g, j, e, p)
      BY DEF Gets
    <3>2. ~ (g = f /\ j = k /\ e = d /\ p = q)
      BY <2>3
    <3>3. ~ (j = k /\ e <= (IF g = f THEN d - 1 ELSE -1) /\ First(j, e, p) = Len(dat[g]))
      BY <2>3
    <3>4. Val(N, m, g, j, e, p) = 0
      BY <2>1, <2>3, <3>3 DEF Ends
    <3> QED
      BY <3>1, <3>2, <3>4
  <2> QED
    BY <2>2, <2>3 DEF Ends
<1>3. ASSUME strict PROVE Full(N2, m2, free, S \ {b})
  <2>1. Ends(N, m, f, Len(dat[f]), strict, k, d - 1)
    BY DEF Sound, Files
  <2>2. First(k, d, q) >= Len(dat[f])
    BY FirstRange, <1>0
  <2>3. Val(N, m, f, k, d, q) = 0
    BY <1>0, <1>3, <2>1, <2>2 DEF Ends
  <2>4. Full(N, m, free, S)
    BY <1>3 DEF Sound
  <2> QED
    BY <1>0, <2>3, <2>4, GetsFull
<1> QED
  BY <1>1, <1>2, <1>3 DEF Sound

LEMMA SettledSound ==
    ASSUME NEW N, NEW m, NEW free, NEW dat, NEW S, NEW strict, NEW f, NEW k,
           Settled(N, m, free, dat, S, strict)
    PROVE  Sound(N, m, free, dat, S, strict, f, k, -1)
<1>1. ASSUME NEW g \in File
      PROVE  Ends(N, m, g, Len(dat[g]), strict, k, IF g = f THEN -1 ELSE -1)
  <2>1. Ends(N, m, g, Len(dat[g]), strict, 0, -1)
    BY DEF Settled
  <2> QED
    BY <2>1 DEF Ends
<1> QED
  BY <1>1 DEF Settled, Sound, Files

\* A tree may have grown less than it might.
LEMMA SoundDeeper ==
    ASSUME NEW N, NEW m, NEW free, NEW dat, NEW S, NEW strict, NEW f, NEW k \in 1..3,
           NEW d \in -1..3, NEW e \in -1..3, d <= e,
           Sound(N, m, free, dat, S, strict, f, k, d)
    PROVE  Sound(N, m, free, dat, S, strict, f, k, e)
<1>1. ASSUME NEW g \in File
      PROVE  Ends(N, m, g, Len(dat[g]), strict, k, IF g = f THEN e ELSE -1)
  <2>1. Ends(N, m, g, Len(dat[g]), strict, k, IF g = f THEN d ELSE -1)
    BY DEF Sound, Files
  <2> QED
    BY <2>1 DEF Ends
<1> QED
  BY <1>1 DEF Sound, Files

\* After a failure, places without data below them may stay behind.
LEMMA SoundFailed ==
    ASSUME NEW N, NEW m, NEW free, NEW dat, NEW S, NEW S2, NEW strict, NEW f, NEW k \in 1..3,
           NEW d \in -1..3, d < k, Sound(N, m, free, dat, S, strict, f, k, d)
    PROVE  Settled(N, m, free, dat, S2, FALSE)
<1>1. ASSUME NEW g \in File
      PROVE  Ends(N, m, g, Len(dat[g]), FALSE, 0, -1)
  <2>1. Ends(N, m, g, Len(dat[g]), strict, k, IF g = f THEN d ELSE -1)
    BY DEF Sound, Files
  <2> SUFFICES ASSUME NEW j \in 0..3, NEW p \in 0..(Width(j, j) - 1),
                      First(j, j, p) >= Len(dat[g])
               PROVE  Val(N, m, g, j, j, p) = 0
    BY DEF Ends
  <2>2. j \in 0..j
    OBVIOUS
  <2>3. ~ (j = k /\ j <= (IF g = f THEN d ELSE -1))
    OBVIOUS
  <2> QED
    BY <2>1, <2>2, <2>3 DEF Ends
<1> QED
  BY <1>1 DEF Sound, Files, Settled

\* The next data block of f takes its place.
LEMMA GetsData ==
    ASSUME NEW N, NEW m, NEW free, NEW N2, NEW m2, NEW S, NEW strict,
           NEW dat \in [File -> Seq(Block)], Fits(dat),
           NEW f \in File, NEW k \in 0..3, NEW q \in 0..(Width(k, k) - 1),
           First(k, k, q) = Len(dat[f]),
           Sound(N, m, free, dat, S, strict, f, k, k - 1), Typed(N2, m2, free),
           NEW b \in Block, Gets(N, m, N2, m2, f, k, k, q, b), Unplaced(N, m, b), free[b] = 0
    PROVE  Settled(N2, m2, free, [dat EXCEPT ![f] = Append(@, b)], S \ {b}, strict)
<1> DEFINE dat2 == [dat EXCEPT ![f] = Append(@, b)]
           n == Len(dat[f])
<1>0. k \in 0..k
  OBVIOUS
<1>1. Good(N2, m2, free)
  BY GetsGood DEF Sound
<1>2. /\ n \in Nat /\ dat2[f] = Append(dat[f], b) /\ Len(dat2[f]) = n + 1
      /\ dat2[f][n + 1] = b
      /\ \A l \in 0..(n - 1) : dat2[f][l + 1] = dat[f][l + 1]
  <2>1. dat[f] \in Seq(Block) /\ dat2[f] = Append(dat[f], b)
    OBVIOUS
  <2> QED
    BY <2>1, LenProperties, AppendProperties
<1>3. \A g \in File : g # f => dat2[g] = dat[g]
  OBVIOUS
<1> HIDE DEF dat2, n
<1>4. ASSUME NEW g \in File
      PROVE  Mapped(N2, m2, g, dat[g])
  <2>1. Mapped(N, m, g, dat[g])
    BY DEF Sound, Files
  <2> QED
    BY <1>0, <2>1, GetsMapped
<1>5. ASSUME NEW g \in File
      PROVE  Ends(N, m, g, Len(dat[g]), strict, k, IF g = f THEN k - 1 ELSE -1)
  BY DEF Sound, Files
<1>6. ASSUME NEW g \in File
      PROVE  Mapped(N2, m2, g, dat2[g]) /\ Ends(N2, m2, g, Len(dat2[g]), strict, 0, -1)
  <2>0. ASSUME NEW j \in 0..3, NEW e \in 0..j, NEW p \in 0..(Width(j, e) - 1)
        PROVE  Val(N2, m2, g, j, e, p) =
                  IF g = f /\ j = k /\ e = k /\ p = q THEN b
                  ELSE IF <<g, j, e, p>> \in Subtree(f, k, k, q) THEN 0
                  ELSE Val(N, m, g, j, e, p)
    BY DEF Gets
  <2>1. CASE g # f
    <3>1. ASSUME NEW j \in 0..3, NEW e \in 0..j, NEW p \in 0..(Width(j, e) - 1)
          PROVE  Val(N2, m2, g, j, e, p) = Val(N, m, g, j, e, p)
      <4>1. <<g, j, e, p>> \notin Subtree(f, k, k, q)
        BY <2>1 DEF Subtree
      <4> QED
        BY <2>0, <2>1, <4>1
    <3>2. Ends(N, m, g, Len(dat[g]), strict, k, -1)
      BY <1>5, <2>1
    <3>3. Ends(N2, m2, g, Len(dat[g]), strict, 0, -1)
      BY <3>1, <3>2 DEF Ends
    <3> QED
      BY <1>3, <1>4, <2>1, <3>3
  <2>2. CASE g = f
    <3>1. TreeOf(n) = k /\ n = TreeBase(k) + q /\ TreeBase(k) \in Nat /\ q \in Nat
      <4>1. TreeBase(k) \in Nat /\ Width(k, k) \in Nat
        BY <1>0, Bases
      <4>2. TreeOf(n) = k /\ n = TreeBase(k) + q
        BY <1>0, FirstRange DEF n
      <4> QED
        BY <4>1, <4>2
    <3>2. DataAt(N2, m2, f, n) = b
      <4>1. n - TreeBase(k) = q
        BY <3>1
      <4>2. Val(N2, m2, f, k, k, q) = b
        BY <1>0, <2>0, <2>2
      <4> QED
        BY <3>1, <4>1, <4>2 DEF DataAt
    <3>3. Mapped(N2, m2, f, dat2[f])
      <4> SUFFICES ASSUME NEW l \in 0..(Len(dat2[f]) - 1)
                   PROVE  DataAt(N2, m2, f, l) = dat2[f][l + 1]
        BY DEF Mapped
      <4>1. l \in 0..(n - 1) \/ l = n
        BY <1>2
      <4>2. ASSUME l \in 0..(n - 1) PROVE DataAt(N2, m2, f, l) = dat[f][l + 1]
        BY <1>4, <2>2, <4>2 DEF Mapped, n
      <4> QED
        BY <1>2, <3>2, <4>1, <4>2
    <3>4. Ends(N2, m2, f, Len(dat2[f]), strict, 0, -1)
      <4> SUFFICES ASSUME NEW j \in 0..3, NEW e \in 0..j, NEW p \in 0..(Width(j, e) - 1),
                          First(j, e, p) >= n + 1, e = j \/ strict
                   PROVE  Val(N2, m2, f, j, e, p) = 0
        BY <1>2 DEF Ends
      <4>1. First(j, e, p) \in Nat
        BY FirstRange
      <4>2. Ends(N, m, f, n, strict, k, k - 1)
        BY <1>5, <2>2 DEF n
      <4>3. First(j, e, p) >= n /\ First(j, e, p) # n
        BY <1>2, <4>1
      <4>4. Val(N, m, f, j, e, p) = 0
        BY <4>2, <4>3 DEF Ends
      <4>5. ~ (j = k /\ e = k /\ p = q)
        BY <4>3 DEF n
      <4> QED
        BY <2>0, <2>2, <4>4, <4>5
    <3> QED
      BY <2>2, <3>3, <3>4
  <2> QED
    BY <2>1, <2>2
<1>7. ASSUME strict PROVE Full(N2, m2, free, S \ {b})
  <2>1. Ends(N, m, f, n, strict, k, k - 1)
    BY <1>5 DEF n
  <2>2. First(k, k, q) >= n
    BY <1>2 DEF n
  <2>3. Val(N, m, f, k, k, q) = 0
    BY <1>0, <1>7, <2>1, <2>2 DEF Ends
  <2>4. Full(N, m, free, S)
    BY <1>7 DEF Sound
  <2> QED
    BY <1>0, <2>3, <2>4, GetsFull
<1> QED
  BY <1>1, <1>6, <1>7 DEF Settled, dat2

LEMMA SameFull ==
    ASSUME NEW N, NEW m, NEW free, NEW N2, NEW m2, NEW free2, NEW S, NEW S2,
           Full(N, m, free, S), SameVals(N, m, N2, m2),
           \A c \in Block : free[c] = 1 \/ c \in S => free2[c] = 1 \/ c \in S2
    PROVE  Full(N2, m2, free2, S2)
<1> SUFFICES ASSUME NEW c \in Block, free2[c] # 1, c \notin S2
             PROVE  \E g \in File : \E j \in 0..3 : \E e \in 0..j : \E p \in 0..(Width(j, e) - 1) :
                       Val(N2, m2, g, j, e, p) = c
  BY DEF Full
<1>1. free[c] # 1 /\ c \notin S
  OBVIOUS
<1>2. PICK g \in File, j \in 0..3 : \E e \in 0..j : \E p \in 0..(Width(j, e) - 1) :
         Val(N, m, g, j, e, p) = c
  BY <1>1 DEF Full
<1>3. PICK e \in 0..j : \E p \in 0..(Width(j, e) - 1) : Val(N, m, g, j, e, p) = c
  BY <1>2
<1>4. PICK p \in 0..(Width(j, e) - 1) : Val(N, m, g, j, e, p) = c
  BY <1>3
<1>5. Val(N2, m2, g, j, e, p) = c
  BY <1>4 DEF SameVals
<1> QED
  BY <1>5

-----------------------------------------------------------------------------
(* The allocator *)

Disk == [mem : [Block -> [Position -> Word]], free : [Block -> 0..1]]

LEMMA MinAvailable ==
    ASSUME NEW free \in [Block -> 0..1], Available(free) # {}
    PROVE  Min(Available(free)) \in Available(free)
<1> DEFINE T == Available(free)
<1>1. T \subseteq Nat /\ T # {}
  BY Constants DEF Available, Block
<1> HIDE DEF T
<1>2. PICK x \in T : \A y \in T : x <= y
  BY <1>1, LeastElement
<1>3. Min(T) \in T
  BY <1>2 DEF Min
<1> QED
  BY <1>3 DEF T

\* What allocate_data_block returns.
LEMMA Alloc ==
    ASSUME NEW N, NEW disk \in Disk, Good(N, disk.mem, disk.free),
           NEW new, new = allocate_data_block(disk), new.block # 0
    PROVE  /\ new.block \in Block /\ new.disk \in Disk
           /\ disk.free[new.block] = 1
           /\ new.disk.free[new.block] = 0
           /\ \A c \in Block : c # new.block => new.disk.free[c] = disk.free[c]
           /\ \A i \in Position : new.disk.mem[new.block][i] = 0
           /\ SameVals(N, disk.mem, N, new.disk.mem)
           /\ Good(N, new.disk.mem, new.disk.free)
           /\ Unplaced(N, new.disk.mem, new.block)
<1> DEFINE b == Min(Available(disk.free))
<1>1. Available(disk.free) # {}
  BY DEF allocate_data_block
<1>2. new = [block |-> b,
             disk |-> [mem |-> [disk.mem EXCEPT ![b] = [i \in Position |-> 0]],
                       free |-> [disk.free EXCEPT ![b] = @ - 1]]]
  BY <1>1 DEF allocate_data_block
<1>3. b \in Block /\ disk.free[b] = 1
  <2>1. disk.free \in [Block -> 0..1]
    BY DEF Disk
  <2>2. b \in Available(disk.free)
    BY <1>1, <2>1, MinAvailable
  <2> HIDE DEF b
  <2> QED
    BY <2>1, <2>2 DEF Available
<1> HIDE DEF b
<1>4. /\ new.block = b
      /\ new.disk \in Disk
      /\ new.disk.free[b] = 0
      /\ \A c \in Block : c # b => new.disk.free[c] = disk.free[c] /\ new.disk.mem[c] = disk.mem[c]
      /\ \A i \in Position : new.disk.mem[b][i] = 0
  BY <1>2, <1>3, Constants DEF Disk
<1>5. Unplaced(N, disk.mem, b)
  BY <1>3, Constants DEF Good, Taken, Unplaced
<1>6. SameVals(N, disk.mem, N, new.disk.mem)
  <2>1. Closed({})
    BY DEF Closed
  <2>2. SameInodes(N, N, {})
    BY DEF SameInodes
  <2>3. SameWords(N, disk.mem, new.disk.mem, {})
    <3> SUFFICES ASSUME NEW g \in File, NEW k \in 1..3, NEW d \in 1..k,
                        NEW q \in 0..(Width(k, d) - 1),
                        Val(N, disk.mem, g, k, d - 1, q \div A) # 0
                 PROVE  new.disk.mem[Val(N, disk.mem, g, k, d - 1, q \div A)][q % A]
                           = disk.mem[Val(N, disk.mem, g, k, d - 1, q \div A)][q % A]
      BY DEF SameWords
    <3>1. k \in 0..3 /\ d - 1 \in 0..k /\ q \div A \in 0..(Width(k, d - 1) - 1)
      BY Parent
    <3>2. /\ Val(N, disk.mem, g, k, d - 1, q \div A) \in Block
          /\ Val(N, disk.mem, g, k, d - 1, q \div A) # b
      BY <1>5, <3>1, ValWord DEF Good, Unplaced
    <3> QED
      BY <1>4, <3>2
  <2>4. SameOutside(N, disk.mem, N, new.disk.mem, {})
    BY <2>1, <2>2, <2>3, Frame
  <2> QED
    BY <2>4 DEF SameOutside, SameVals
<1>7. Unplaced(N, new.disk.mem, b)
  BY <1>5, <1>6 DEF Unplaced, SameVals
<1>8. Good(N, new.disk.mem, new.disk.free)
  <2>1. Typed(N, new.disk.mem, new.disk.free)
    BY <1>4 DEF Good, Typed, Disk
  <2>2. ASSUME NEW g \in File, NEW k \in 0..3, NEW d \in 0..k, NEW q \in 0..(Width(k, d) - 1),
               Val(N, disk.mem, g, k, d, q) # 0
        PROVE  new.disk.free[Val(N, disk.mem, g, k, d, q)] = 0
    <3>1. /\ Val(N, disk.mem, g, k, d, q) \in Block
          /\ Val(N, disk.mem, g, k, d, q) # b
          /\ disk.free[Val(N, disk.mem, g, k, d, q)] = 0
      BY <1>5, <2>2, ValWord DEF Good, Unplaced, Taken
    <3> QED
      BY <1>4, <3>1
  <2> QED
    BY <1>6, <2>1, <2>2, SameGood
<1> QED
  BY <1>3, <1>4, <1>6, <1>7, <1>8

LEMMA AllocSound ==
    ASSUME NEW N, NEW disk \in Disk, NEW dat, Fits(dat), NEW S, NEW strict, NEW f, NEW k, NEW d,
           Sound(N, disk.mem, disk.free, dat, S, strict, f, k, d),
           NEW new, new = allocate_data_block(disk), new.block # 0
    PROVE  Sound(N, new.disk.mem, new.disk.free, dat, S \cup {new.block}, strict, f, k, d)
<1>1. /\ new.block \in Block
      /\ \A c \in Block : c # new.block => new.disk.free[c] = disk.free[c]
      /\ SameVals(N, disk.mem, N, new.disk.mem)
      /\ Good(N, new.disk.mem, new.disk.free)
  BY Alloc DEF Sound
<1>2. Files(N, new.disk.mem, dat, strict, f, k, d)
  BY <1>1, SameFiles DEF Sound
<1>3. ASSUME strict PROVE Full(N, new.disk.mem, new.disk.free, S \cup {new.block})
  <2>1. Full(N, disk.mem, disk.free, S)
    BY <1>3 DEF Sound
  <2>2. \A c \in Block : disk.free[c] = 1 \/ c \in S
            => new.disk.free[c] = 1 \/ c \in S \cup {new.block}
    BY <1>1
  <2> QED
    BY <1>1, <2>1, <2>2, SameFull
<1> QED
  BY <1>1, <1>2, <1>3 DEF Sound

-----------------------------------------------------------------------------
(* The way down to an entry *)

LEMMA DivDiv ==
    ASSUME NEW n \in Nat, NEW s \in Nat \ {0}, NEW a \in Nat \ {0}
    PROVE  n \div (s * a) = (n \div s) \div a
<1> DEFINE x == n \div s
           y == n % s
           u == x \div a
           v == x % a
<1>1. x \in Nat /\ y \in 0..(s - 1) /\ x * s \in Nat /\ n = x * s + y
  BY DivMod
<1>2. u \in Nat /\ v \in 0..(a - 1) /\ u * a \in Nat /\ x = u * a + v
  BY <1>1, DivMod
<1> HIDE DEF x, y, u, v
<1>3. s * a \in Nat /\ s * a # 0 /\ v * s \in Nat /\ u * (s * a) \in Nat
  <2>1. v \in Nat /\ s >= 1 /\ a >= 1
    BY <1>2
  <2>2. s * a >= 1
    BY <2>1
  <2> QED
    BY <1>2, <2>1, <2>2
<1>4. n = u * (s * a) + (v * s + y)
  <2>1. x * s = u * (s * a) + v * s
    BY <1>2
  <2> QED
    BY <1>1, <1>3, <2>1
<1>5. v * s + y \in 0..(s * a - 1)
  <2>1. v * s + s <= a * s
    BY <1>2, MultiplesApart
  <2>2. a * s = s * a
    OBVIOUS
  <2> QED
    BY <1>1, <1>3, <2>1, <2>2
<1>6. (u * (s * a) + (v * s + y)) \div (s * a) = u
  BY <1>2, <1>3, <1>5, DivUnique
<1> QED
  BY <1>4, <1>6 DEF x, u

\* The place at depth d on the way to entry r of a tree.
LEMMA OnTheWay ==
    ASSUME NEW k \in 1..3, NEW r \in 0..(Span(k) - 1), NEW d \in 0..k
    PROVE  /\ k - d \in 0..3
           /\ r \div Span(k - d) \in 0..(Width(k, d) - 1)
           /\ r % Span(k - d) \in Nat
           /\ First(k, d, r \div Span(k - d)) + (r % Span(k - d)) = Base(k) + r
           /\ d >= 1 => (r \div Span(k - d)) \div A = r \div Span(k - (d - 1))
<1> DEFINE S == Span(k - d)
<1>1. k - d \in 0..3 /\ k \in 0..3
  OBVIOUS
<1>2. S \in Nat /\ S >= 1 /\ S # 0 /\ Span(k) \in Nat /\ Span(d) \in Nat
  <2>1. d \in 0..3
    OBVIOUS
  <2> QED
    BY <1>1, <2>1, Spans
<1>3. Span(d) * S = Span(k)
  BY <1>1, SpanProduct
<1>4. r \in Nat /\ r < Span(d) * S
  BY <1>2, <1>3
<1>5. /\ r \div S \in Nat
      /\ r % S \in 0..(S - 1)
      /\ (r \div S) * S \in Nat
      /\ r = (r \div S) * S + (r % S)
  BY <1>2, <1>4, DivMod
<1>6. r \div S < Span(d)
  BY <1>2, <1>4, DivBound
<1>7. r \div S \in 0..(Width(k, d) - 1)
  <2>1. Width(k, d) = Span(d)
    BY DEF Width
  <2> QED
    BY <1>2, <1>5, <1>6, <2>1
<1>8. First(k, d, r \div S) + (r % S) = Base(k) + r
  <2>1. TreeBase(k) = Base(k) /\ TreeBase(k) \in Nat
    BY Bases
  <2>2. First(k, d, r \div S) = TreeBase(k) + (r \div S) * S
    BY DEF First
  <2> QED
    BY <1>5, <2>1, <2>2
<1>9. ASSUME d >= 1 PROVE (r \div S) \div A = r \div Span(k - (d - 1))
  <2>1. k - (d - 1) \in 1..3 /\ k - (d - 1) - 1 = k - d
    BY <1>9
  <2>2. Span(k - (d - 1)) = S * A
    BY <2>1, Spans
  <2> QED
    BY <1>2, <1>4, <2>2, DivDiv, Constants
<1> QED
  BY <1>1, <1>5, <1>7, <1>8, <1>9

\* What a way down has reached, while data block b is in nobody's hands.
OnWay(N, way, dat, b, strict, f, k, r, d) ==
    /\ way \in [ok : BOOLEAN, disk : Disk, block : Block]
    /\ way.ok => /\ Sound(N, way.disk.mem, way.disk.free, dat, {b}, strict, f, k, d)
                 /\ way.block = Val(N, way.disk.mem, f, k, d, r \div Span(k - d))
                 /\ Unplaced(N, way.disk.mem, b)
                 /\ way.disk.free[b] = 0
    /\ ~ way.ok => Settled(N, way.disk.mem, way.disk.free, dat, {}, FALSE)

LEMMA DescendOne ==
    ASSUME NEW N, NEW dat \in [File -> Seq(Block)], Fits(dat), NEW b \in Block,
           NEW strict, NEW f \in File, NEW k \in 1..3, NEW r \in 0..(Span(k) - 1),
           Len(dat[f]) = Base(k) + r,
           NEW e \in 1..(k - 1), NEW way, OnWay(N, way, dat, b, strict, f, k, r, e - 1)
    PROVE  OnWay(N, Descend(way, k - (e - 1), r), dat, b, strict, f, k, r, e)
<1> DEFINE d == e - 1
           level == k - d
           q == r \div Span(k - e)
           slot == Digit(r, level)
           next == way.disk.mem[way.block][slot]
           first == r % Span(level - 1) = 0
           new == allocate_data_block(way.disk)
           down == [new.disk EXCEPT !.mem[way.block][slot] = new.block]
           res == Descend(way, level, r)
<1>0. /\ d \in 0..k /\ e \in 0..k /\ e \in 1..k /\ e < k /\ d < k /\ d <= e
      /\ k \in 0..3 /\ level - 1 = k - e /\ e >= 1
      /\ d \in -1..3 /\ e \in -1..3
  OBVIOUS
<1>1. /\ q \in 0..(Width(k, e) - 1)
      /\ r % Span(k - e) \in Nat
      /\ First(k, e, q) + (r % Span(k - e)) = Len(dat[f])
      /\ q \div A = r \div Span(k - d)
      /\ q % A \in Position
      /\ slot = q % A
      /\ First(k, e, q) \in Nat
  <2>1. /\ q \in 0..(Width(k, e) - 1)
        /\ r % Span(k - e) \in Nat
        /\ First(k, e, q) + (r % Span(k - e)) = Base(k) + r
        /\ q \div A = r \div Span(k - (e - 1))
    BY <1>0, OnTheWay
  <2>2. slot = q % A
    BY <1>0 DEF Digit
  <2>3. q % A \in Position
    BY <1>0, <2>1, Parent
  <2>4. First(k, e, q) \in Nat
    BY <1>0, <2>1, FirstRange
  <2> QED
    BY <1>0, <2>1, <2>2, <2>3, <2>4
<1>2. way \in [ok : BOOLEAN, disk : Disk, block : Block]
  BY DEF OnWay
<1>3. res = CASE ~ way.ok -> way
         [] way.ok /\ first /\ new.block # 0 ->
              [ok |-> TRUE, disk |-> down, block |-> new.block]
         [] way.ok /\ ~ first /\ next # 0 -> [way EXCEPT !.block = next]
         [] OTHER -> [way EXCEPT !.ok = FALSE]
  BY DEF Descend
<1>4. first <=> r % Span(k - e) = 0
  BY <1>0
<1> HIDE DEF d, res, first, slot, level, new, down, q
<1>5. CASE ~ way.ok
  <2>1. res = way
    BY <1>3, <1>5
  <2> QED
    BY <1>5, <2>1 DEF OnWay, res, level, d
<1>6. CASE way.ok
  <2> DEFINE m == way.disk.mem
  <2>1. /\ Sound(N, m, way.disk.free, dat, {b}, strict, f, k, d)
        /\ way.block = Val(N, m, f, k, d, q \div A)
        /\ Unplaced(N, m, b)
        /\ way.disk.free[b] = 0
    BY <1>1, <1>6 DEF OnWay, d
  <2>2. CASE first /\ new.block # 0
    <3> DEFINE m1 == new.disk.mem
               m2 == [m1 EXCEPT ![way.block][q % A] = new.block]
               fr == new.disk.free
    <3>1. res = [ok |-> TRUE, disk |-> down, block |-> new.block]
      BY <1>3, <1>6, <2>2
    <3>2. /\ new.block \in Block /\ new.disk \in Disk
          /\ way.disk.free[new.block] = 1
          /\ fr[new.block] = 0
          /\ \A c \in Block : c # new.block => fr[c] = way.disk.free[c]
          /\ \A i \in Position : m1[new.block][i] = 0
          /\ SameVals(N, m, N, m1)
          /\ Good(N, m1, fr)
          /\ Unplaced(N, m1, new.block)
      BY <1>2, <2>1, <2>2, Alloc DEF Sound, new
    <3>3. Sound(N, m1, fr, dat, {b} \cup {new.block}, strict, f, k, d)
      BY <1>2, <2>1, <2>2, AllocSound DEF new
    <3>4. way.block \in Block /\ way.block = Val(N, m1, f, k, d, q \div A)
      <4>1. q \div A \in 0..(Width(k, d) - 1)
        BY <1>0, <1>1, OnTheWay
      <4> QED
        BY <1>0, <1>2, <2>1, <3>2, <4>1 DEF SameVals
    <3>5. down = [mem |-> m2, free |-> fr]
      <4>1. new.disk = [mem |-> m1, free |-> fr]
        BY <3>2 DEF Disk
      <4> HIDE DEF m1, fr
      <4> QED
        BY <1>1, <4>1, SMTT(20) DEF down
    <3> HIDE DEF m1, fr
    <3>6. Typed(N, m2, fr) /\ Gets(N, m1, N, m2, f, k, e, q, new.block)
      BY <1>0, <1>1, <3>2, <3>4, AttachWord DEF d
    <3>7. b # new.block /\ fr[b] = 0 /\ Unplaced(N, m1, b)
      <4>1. b # new.block /\ fr[b] = 0
        BY <2>1, <3>2
      <4>2. Unplaced(N, m1, b)
        BY <2>1, <3>2 DEF SameVals, Unplaced
      <4> QED
        BY <4>1, <4>2
    <3>8. First(k, e, q) = Len(dat[f])
      BY <1>1, <1>4, <2>2
    <3> HIDE DEF m2
    <3>9. Sound(N, m2, fr, dat, ({b} \cup {new.block}) \ {new.block}, strict, f, k, e)
      <4>1. Sound(N, m1, fr, dat, {b} \cup {new.block}, strict, f, k, e - 1)
        BY <3>3 DEF d
      <4>2. PICK nb \in Block : nb = new.block
        BY <3>2
      <4>3. Sound(N, m1, fr, dat, {b} \cup {nb}, strict, f, k, e - 1)
        BY <4>1, <4>2
      <4>4. /\ Gets(N, m1, N, m2, f, k, e, q, nb)
            /\ Typed(N, m2, fr)
            /\ Unplaced(N, m1, nb)
            /\ fr[nb] = 0
        BY <3>2, <3>6, <4>2
      <4>5. Sound(N, m2, fr, dat, ({b} \cup {nb}) \ {nb}, strict, f, k, e)
        BY <1>0, <1>1, <3>8, <4>3, <4>4, GetsIndex
      <4> QED
        BY <4>2, <4>5
    <3>10. ({b} \cup {new.block}) \ {new.block} = {b}
      BY <3>7
    <3>11. Unplaced(N, m2, b)
      <4> SUFFICES ASSUME NEW g \in File, NEW j \in 0..3, NEW i \in 0..j,
                          NEW p \in 0..(Width(j, i) - 1)
                   PROVE  Val(N, m2, g, j, i, p) # b
        BY DEF Unplaced
      <4>1. \/ Val(N, m2, g, j, i, p) = new.block
            \/ Val(N, m2, g, j, i, p) = 0
            \/ Val(N, m2, g, j, i, p) = Val(N, m1, g, j, i, p)
        BY <3>6, ZenonT(60) DEF Gets
      <4> QED
        BY <3>7, <4>1, Constants DEF Unplaced
    <3>12. new.block = Val(N, m2, f, k, e, q)
      BY <1>0, <1>1, <3>6 DEF Gets
    <3>13. m2 \in [Block -> [Position -> Word]] /\ fr \in [Block -> 0..1]
      BY <3>6 DEF Typed
    <3>14. OnWay(N, res, dat, b, strict, f, k, r, e)
      BY <3>1, <3>2, <3>5, <3>7, <3>9, <3>10, <3>11, <3>12, <3>13 DEF OnWay, q, Disk
    <3> QED
      BY <3>14 DEF res, level, d
  <2>3. CASE ~ first
    <3>1. First(k, e, q) < Len(dat[f])
      BY <1>1, <1>4, <2>3
    <3>2. Mapped(N, m, f, dat[f])
      BY <2>1 DEF Sound, Files
    <3>3. Val(N, m, f, k, e, q) # 0
      BY <1>0, <1>1, <3>1, <3>2, NonZero
    <3>4. Val(N, m, f, k, e, q) = next
      <4>0. Val(N, m, f, k, e, q) = Entry(m, Val(N, m, f, k, e - 1, q \div A), q % A)
        BY ValStep
      <4>1. Val(N, m, f, k, e, q) = Entry(m, Val(N, m, f, k, d, q \div A), q % A)
        BY <4>0 DEF d
      <4>2. way.block # 0
        BY <1>2, Constants
      <4> QED
        BY <1>0, <1>1, <2>1, <4>1, <4>2 DEF Entry
    <3>5. next \in Block
      BY <1>0, <1>1, <2>1, <3>3, <3>4, ValWord, SMTT(20) DEF Sound, Good
    <3>6. res = [way EXCEPT !.block = next]
      BY <1>3, <1>6, <2>3, <3>3, <3>4
    <3>7. Sound(N, m, way.disk.free, dat, {b}, strict, f, k, e)
      BY <1>0, <2>1, SoundDeeper
    <3> HIDE DEF next
    <3>8. /\ res \in [ok : BOOLEAN, disk : Disk, block : Block]
          /\ res.ok /\ res.disk = way.disk /\ res.block = next
      BY <1>2, <1>6, <3>5, <3>6
    <3>9. OnWay(N, res, dat, b, strict, f, k, r, e)
      BY <2>1, <3>4, <3>7, <3>8 DEF OnWay, q
    <3> QED
      BY <3>9 DEF res, level, d
  <2>4. CASE first /\ new.block = 0
    <3>1. res = [way EXCEPT !.ok = FALSE]
      BY <1>3, <1>6, <2>4
    <3>2. Settled(N, m, way.disk.free, dat, {}, FALSE)
      BY <1>0, <2>1, SoundFailed
    <3>3. /\ res \in [ok : BOOLEAN, disk : Disk, block : Block]
          /\ ~ res.ok /\ res.disk = way.disk
      BY <1>2, <3>1
    <3>4. OnWay(N, res, dat, b, strict, f, k, r, e)
      BY <3>2, <3>3 DEF OnWay
    <3> QED
      BY <3>4 DEF res, level, d
  <2> QED
    BY <2>2, <2>3, <2>4
<1> QED
  BY <1>2, <1>5, <1>6

\* The outcome of an insertion.
LEMMA Outcome ==
    ASSUME NEW x \in BOOLEAN, NEW d \in Disk, NEW res, res = [ok |-> x, disk |-> d]
    PROVE  res \in [ok : BOOLEAN, disk : Disk] /\ res.ok = x /\ res.disk = d
OBVIOUS

LEMMA InsertOne ==
    ASSUME NEW N, NEW dat \in [File -> Seq(Block)], Fits(dat), NEW b \in Block,
           NEW strict, NEW f \in File, NEW k \in 1..3, NEW r \in 0..(Span(k) - 1),
           Len(dat[f]) = Base(k) + r,
           NEW disk \in Disk, Sound(N, disk.mem, disk.free, dat, {b}, strict, f, k, 0),
           NEW root \in Block, root = Val(N, disk.mem, f, k, 0, 0),
           Unplaced(N, disk.mem, b), disk.free[b] = 0,
           NEW res, res = Insert(disk, root, k, r, b)
    PROVE  /\ res \in [ok : BOOLEAN, disk : Disk]
           /\ res.ok => Settled(N, res.disk.mem, res.disk.free,
                                [dat EXCEPT ![f] = Append(@, b)], {}, strict)
           /\ ~ res.ok => Settled(N, res.disk.mem, res.disk.free, dat, {}, FALSE)
<1> DEFINE top == [ok |-> TRUE, disk |-> disk, block |-> root]
           leaf == CASE k = 1 -> top
                     [] k = 2 -> Descend(top, 2, r)
                     [] k = 3 -> Descend(Descend(top, 3, r), 2, r)
           q == r \div Span(k - k)
           c == leaf.block
           m2 == [leaf.disk.mem EXCEPT ![c][q % A] = b]
           fr == leaf.disk.free
<1>1. OnWay(N, top, dat, b, strict, f, k, r, 0)
  <2>1. Val(N, disk.mem, f, k, 0, r \div Span(k - 0)) = Val(N, disk.mem, f, k, 0, 0)
    BY DEF Val, Below
  <2> QED
    BY <2>1 DEF OnWay
<1> HIDE DEF top
<1>2. OnWay(N, leaf, dat, b, strict, f, k, r, k - 1)
  <2>1. k = 1 \/ k = 2 \/ k = 3
    OBVIOUS
  <2>2. CASE k = 1
    <3>1. k - 1 = 0 /\ leaf = top
      BY <2>2
    <3> QED
      BY <1>1, <3>1
  <2>3. CASE k = 2
    <3>1. leaf = Descend(top, 2, r)
      BY <2>3
    <3>2. k - 1 = 1 /\ 1 - 1 = 0 /\ k - (1 - 1) = 2 /\ 1 \in 1..(k - 1)
      BY <2>3
    <3>3. OnWay(N, top, dat, b, strict, f, k, r, 1 - 1)
      BY <1>1, <3>2
    <3>4. OnWay(N, Descend(top, k - (1 - 1), r), dat, b, strict, f, k, r, 1)
      BY <3>2, <3>3, DescendOne
    <3> QED
      BY <3>1, <3>2, <3>4
  <2>4. CASE k = 3
    <3> DEFINE mid == Descend(top, 3, r)
    <3>1. leaf = Descend(mid, 2, r)
      BY <2>4
    <3>2. /\ k - 1 = 2 /\ 1 - 1 = 0 /\ k - (1 - 1) = 3 /\ 1 \in 1..(k - 1)
          /\ 2 - 1 = 1 /\ k - (2 - 1) = 2 /\ 2 \in 1..(k - 1)
      BY <2>4
    <3>3. OnWay(N, top, dat, b, strict, f, k, r, 1 - 1)
      BY <1>1, <3>2
    <3>4. OnWay(N, Descend(top, k - (1 - 1), r), dat, b, strict, f, k, r, 1)
      BY <3>2, <3>3, DescendOne
    <3>5. OnWay(N, mid, dat, b, strict, f, k, r, 2 - 1)
      BY <3>2, <3>4
    <3> HIDE DEF mid
    <3>6. OnWay(N, Descend(mid, k - (2 - 1), r), dat, b, strict, f, k, r, 2)
      BY <3>2, <3>5, DescendOne
    <3> QED
      BY <3>1, <3>2, <3>6
  <2> QED
    BY <2>1, <2>2, <2>3, <2>4
<1>3. leaf \in [ok : BOOLEAN, disk : Disk, block : Block]
  BY <1>2 DEF OnWay
<1>4. res = IF leaf.ok
            THEN [ok |-> TRUE, disk |-> [leaf.disk EXCEPT !.mem[c][Digit(r, 1)] = b]]
            ELSE [ok |-> FALSE, disk |-> leaf.disk]
  BY DEF Insert, top
<1> HIDE DEF leaf
<1>5. CASE ~ leaf.ok
  <2>1. res = [ok |-> FALSE, disk |-> leaf.disk]
    BY <1>4, <1>5
  <2>2. Settled(N, leaf.disk.mem, leaf.disk.free, dat, {}, FALSE)
    BY <1>2, <1>5 DEF OnWay
  <2>a. leaf.disk \in Disk
    BY <1>3
  <2>3. res \in [ok : BOOLEAN, disk : Disk] /\ res.ok = FALSE /\ res.disk = leaf.disk
    <3> DEFINE dd == leaf.disk
    <3>1. dd \in Disk /\ res = [ok |-> FALSE, disk |-> dd]
      BY <2>1, <2>a
    <3> HIDE DEF dd
    <3>2. res \in [ok : BOOLEAN, disk : Disk] /\ res.ok = FALSE /\ res.disk = dd
      BY <3>1, Outcome
    <3> QED
      BY <3>2 DEF dd
  <2> QED
    BY <2>2, <2>3
<1>6. CASE leaf.ok
  <2>0. k \in 0..3 /\ k \in 0..k /\ k \in 1..k /\ k - 1 \in 0..k /\ k - 1 \in -1..3 /\ k >= 1 /\ k - k = 0
    OBVIOUS
  <2>1. /\ Sound(N, leaf.disk.mem, fr, dat, {b}, strict, f, k, k - 1)
        /\ c = Val(N, leaf.disk.mem, f, k, k - 1, r \div Span(k - (k - 1)))
        /\ Unplaced(N, leaf.disk.mem, b)
        /\ fr[b] = 0
    BY <1>2, <1>6 DEF OnWay
  <2>2. /\ q \in 0..(Width(k, k) - 1)
        /\ q \div A = r \div Span(k - (k - 1))
        /\ First(k, k, q) + (r % Span(k - k)) = Base(k) + r
    BY <2>0, OnTheWay
  <2>3. r % Span(k - k) = 0
    <3>1. Span(k - k) = 1 /\ Span(k) \in Nat
      BY <2>0, Spans
    <3>2. r \in Nat
      BY <3>1
    <3>3. r % 1 \in 0..(1 - 1)
      BY <3>2, DivMod
    <3> QED
      BY <3>1, <3>3
  <2>4. First(k, k, q) = Len(dat[f])
    <3>1. First(k, k, q) \in Nat
      BY <2>0, <2>2, FirstRange
    <3> QED
      BY <2>2, <2>3, <3>1
  <2>5. Digit(r, 1) = q % A
    <3>1. 1 - 1 = k - k
      OBVIOUS
    <3> QED
      BY <3>1 DEF Digit
  <2>6. c \in Block /\ q % A \in Position
    BY <1>3, <2>0, <2>2, Parent
  <2>7. res = [ok |-> TRUE, disk |-> [mem |-> m2, free |-> fr]]
    <3>1. leaf.disk = [mem |-> leaf.disk.mem, free |-> leaf.disk.free]
      BY <1>3 DEF Disk
    <3> DEFINE lm == leaf.disk.mem
    <3> HIDE DEF fr, c, q, lm
    <3>2. leaf.disk = [mem |-> lm, free |-> fr]
      BY <3>1 DEF fr, lm
    <3>3. [leaf.disk EXCEPT !.mem[c][q % A] = b]
            = [mem |-> [lm EXCEPT ![c][q % A] = b], free |-> fr]
      BY <3>2, SMTT(20)
    <3> QED
      BY <1>4, <1>6, <2>5, <3>3 DEF lm
  <2> HIDE DEF fr, c, q
  <2>8. Typed(N, m2, fr) /\ Gets(N, leaf.disk.mem, N, m2, f, k, k, q, b)
    <3>1. Good(N, leaf.disk.mem, fr) /\ c = Val(N, leaf.disk.mem, f, k, k - 1, q \div A)
      BY <2>1, <2>2 DEF Sound
    <3>2. ~ (k < k)
      OBVIOUS
    <3> QED
      BY <2>0, <2>1, <2>2, <2>6, <3>1, <3>2, AttachWord
  <2> HIDE DEF m2
  <2>9. Settled(N, m2, fr, [dat EXCEPT ![f] = Append(@, b)], {b} \ {b}, strict)
    BY <2>0, <2>1, <2>2, <2>4, <2>8, GetsData, ZenonT(60)
  <2>10. {b} \ {b} = {}
    OBVIOUS
  <2>11. m2 \in [Block -> [Position -> Word]] /\ fr \in [Block -> 0..1]
    BY <2>8 DEF Typed
  <2>a. /\ [mem |-> m2, free |-> fr] \in Disk
        /\ [mem |-> m2, free |-> fr].mem = m2 /\ [mem |-> m2, free |-> fr].free = fr
    BY <2>11 DEF Disk
  <2> DEFINE dd == [mem |-> m2, free |-> fr]
  <2> HIDE DEF dd
  <2>b. dd \in Disk /\ dd.mem = m2 /\ dd.free = fr /\ res = [ok |-> TRUE, disk |-> dd]
    BY <2>7, <2>a DEF dd
  <2>c. res \in [ok : BOOLEAN, disk : Disk] /\ res.ok = TRUE /\ res.disk = dd
    BY <2>b, Outcome
  <2>12. /\ res \in [ok : BOOLEAN, disk : Disk]
         /\ res.ok /\ res.disk = dd /\ res.disk.mem = m2 /\ res.disk.free = fr
    BY <2>b, <2>c
  <2>13. Settled(N, m2, fr, [dat EXCEPT ![f] = Append(@, b)], {}, strict)
    BY <2>9, <2>10
  <2> QED
    BY <2>12, <2>13
<1> QED
  BY <1>3, <1>5, <1>6

\* The number of blocks in an inode is not a place.
LEMMA CountSettled ==
    ASSUME NEW N, NEW m, NEW free, NEW dat, NEW S, NEW strict, Fits(dat),
           Settled(N, m, free, dat, S, strict),
           NEW f \in File, NEW n \in Node,
           n.i_direct_blocks = N[f].i_direct_blocks, n.i_indirect = N[f].i_indirect
    PROVE  Settled([N EXCEPT ![f] = n], m, free, dat, S, strict)
<1> DEFINE N2 == [N EXCEPT ![f] = n]
<1>0. N \in [File -> Node]
  BY DEF Settled, Good, Typed
<1>1. N2 \in [File -> Node]
  BY <1>0
<1>2. \A g \in File : /\ N2[g].i_direct_blocks = N[g].i_direct_blocks
                      /\ N2[g].i_indirect = N[g].i_indirect
  BY <1>0
<1> HIDE DEF N2
<1>3. SameVals(N, m, N2, m)
  <2>1. Closed({})
    BY DEF Closed
  <2>2. SameInodes(N, N2, {})
    BY <1>2 DEF SameInodes
  <2>3. SameWords(N, m, m, {})
    BY DEF SameWords
  <2>4. SameOutside(N, m, N2, m, {})
    BY <2>1, <2>2, <2>3, Frame
  <2> QED
    BY <2>4 DEF SameOutside, SameVals
<1>4. Good(N2, m, free)
  <2>1. Typed(N2, m, free)
    BY <1>1 DEF Settled, Good, Typed
  <2> QED
    BY <1>3, <2>1, SameGood DEF Settled, Good, Taken
<1>5. Files(N2, m, dat, strict, f, 0, -1)
  <2>1. Files(N, m, dat, strict, f, 0, -1)
    BY SettledSound DEF Sound
  <2> QED
    BY <1>3, <2>1, SameFiles
<1>6. ASSUME strict PROVE Full(N2, m, free, S)
  <2>1. Full(N, m, free, S)
    BY <1>6 DEF Settled
  <2> QED
    BY <1>3, <2>1, SameFull
<1> QED
  BY <1>4, <1>5, <1>6 DEF Settled, Files, N2

-----------------------------------------------------------------------------
(* Appending *)

\* The outcome of an append: file f of N has block b at its end, or what it had.
Added(N, f, res, dat, b, strict) ==
    /\ res.ok \in BOOLEAN
    /\ res.node \in Node
    /\ res.ok => /\ Settled([N EXCEPT ![f] = res.node], res.disk.mem, res.disk.free,
                            [dat EXCEPT ![f] = Append(@, b)], {}, strict)
                 /\ res.node.i_blocks_num = Len(dat[f]) + 1
    /\ ~ res.ok => /\ Settled([N EXCEPT ![f] = res.node], res.disk.mem, res.disk.free,
                              dat, {}, FALSE)
                   /\ res.node.i_blocks_num = Len(dat[f])

\* The file keeps its new block if its entry was stored.
LEMMA CountedSettled ==
    ASSUME NEW N, NEW f \in File, NEW dat, Fits(dat), NEW b, NEW strict,
           Fits([dat EXCEPT ![f] = Append(@, b)]),
           N \in [File -> Node], NEW n, n = N[f], n.i_blocks_num = Len(dat[f]),
           NEW ins, ins \in [ok : BOOLEAN, disk : Disk],
           ins.ok => Settled(N, ins.disk.mem, ins.disk.free,
                             [dat EXCEPT ![f] = Append(@, b)], {}, strict),
           ~ ins.ok => Settled(N, ins.disk.mem, ins.disk.free, dat, {}, FALSE)
    PROVE  Added(N, f, Counted(n, ins), dat, b, strict)
<1> DEFINE res == Counted(n, ins)
           more == [n EXCEPT !.i_blocks_num = @ + 1]
           dat2 == [dat EXCEPT ![f] = Append(@, b)]
<1>1. /\ n \in Node /\ more \in Node
      /\ more.i_direct_blocks = n.i_direct_blocks /\ more.i_indirect = n.i_indirect
      /\ more.i_blocks_num = n.i_blocks_num + 1
  BY DEF Node
<1>2. res = [node |-> IF ins.ok THEN more ELSE n, disk |-> ins.disk, ok |-> ins.ok]
  BY DEF Counted
<1>3. CASE ins.ok
  <2> DEFINE N2 == [N EXCEPT ![f] = more]
  <2>2. Settled(N2, ins.disk.mem, ins.disk.free, dat2, {}, strict)
    <3> HIDE DEF more, dat2
    <3> QED
      BY <1>1, <1>3, CountSettled DEF dat2
  <2> HIDE DEF res, more, dat2, N2
  <2>1. res.node = more /\ res.disk = ins.disk /\ res.ok = TRUE
    BY <1>2, <1>3
  <2>3. N2 = [N EXCEPT ![f] = res.node]
    BY <2>1 DEF N2
  <2>4. Added(N, f, res, dat, b, strict)
    BY <1>1, <2>1, <2>2, <2>3 DEF Added, dat2
  <2> QED
    BY <2>4 DEF res
<1>4. CASE ~ ins.ok
  <2> HIDE DEF res, more, dat2
  <2>1. res.node = n /\ res.disk = ins.disk /\ res.ok = FALSE
    BY <1>2, <1>4
  <2>2. [N EXCEPT ![f] = res.node] = N
    BY <2>1
  <2>3. Added(N, f, res, dat, b, strict)
    BY <1>1, <1>4, <2>1, <2>2 DEF Added
  <2> QED
    BY <2>3 DEF res
<1> QED
  BY <1>3, <1>4

\* The inode with its blocks counted.
LEMMA AddOne ==
    ASSUME NEW N, NEW dat \in [File -> Seq(Block)], Fits(dat), NEW b \in Block,
           NEW strict, NEW f \in File, N[f].i_blocks_num = Len(dat[f]),
           NEW disk \in Disk, Settled(N, disk.mem, disk.free, dat, {b}, strict),
           Unplaced(N, disk.mem, b), disk.free[b] = 0,
           NEW res, res = add_datablock_to_inode(N[f], disk, b),
           Len(dat[f]) + 1 < TreeBase(3) + Width(3, 3)
    PROVE  Added(N, f, res, dat, b, strict)
<1> DEFINE n == N[f]
           l == n.i_blocks_num
           k == LevelOf(l)
           r == l - Base(k)
           new == allocate_data_block(disk)
           rooted == [n EXCEPT !.i_indirect[k] = new.block]
           dat2 == [dat EXCEPT ![f] = Append(@, b)]
<1>0. /\ N \in [File -> Node] /\ n \in Node /\ l \in Nat /\ l = Len(dat[f])
      /\ l < TreeBase(3) + Width(3, 3)
  <2>1. N \in [File -> Node]
    BY DEF Settled, Good, Typed
  <2>2. Len(dat[f]) \in Nat
    BY LenProperties
  <2> QED
    BY <2>1, <2>2 DEF Fits
<1>a. Fits(dat2)
  <2> SUFFICES ASSUME NEW g \in File
               PROVE  dat2[g] \in Seq(Block) /\ Len(dat2[g]) < TreeBase(3) + Width(3, 3)
    BY DEF Fits
  <2>1. CASE g = f
    <3>1. dat[f] \in Seq(Block) /\ dat2[f] = Append(dat[f], b)
      OBVIOUS
    <3>2. dat2[f] \in Seq(Block) /\ Len(dat2[f]) = Len(dat[f]) + 1
      BY <3>1, AppendProperties
    <3> QED
      BY <2>1, <3>2
  <2>2. CASE g # f
    BY <2>2 DEF Fits
  <2> QED
    BY <2>1, <2>2
<1>1. res = CASE l < D ->
              [node |-> [n EXCEPT !.i_direct_blocks[l] = b, !.i_blocks_num = l + 1],
               disk |-> disk, ok |-> TRUE]
         [] l >= D /\ r = 0 /\ new.block = 0 ->
              [node |-> n, disk |-> disk, ok |-> FALSE]
         [] l >= D /\ r = 0 /\ new.block # 0 ->
              Counted(rooted, Insert(new.disk, new.block, k, r, b))
         [] l >= D /\ r # 0 ->
              Counted(n, Insert(disk, n.i_indirect[k], k, r, b))
  BY DEF add_datablock_to_inode
<1>2. CASE l < D
  <2> DEFINE n2 == [n EXCEPT !.i_direct_blocks[l] = b, !.i_blocks_num = l + 1]
  <2>1. res = [node |-> n2, disk |-> disk, ok |-> TRUE]
    <3>1. ~ (l >= D)
      BY <1>0, <1>2, Constants
    <3> HIDE DEF l, r, k, new, rooted, n2, n
    <3> QED
      BY <1>1, <1>2, <3>1, Zenon DEF n2
  <2>2. /\ n2 \in Node /\ n2.i_indirect = n.i_indirect /\ n2.i_blocks_num = l + 1
        /\ n2.i_direct_blocks = [n.i_direct_blocks EXCEPT ![l] = b]
    <3> DEFINE db == n.i_direct_blocks
    <3> HIDE DEF n, l
    <3>1. db \in [0..(D - 1) -> Word] /\ l + 1 \in Nat /\ b \in Word
      BY <1>0, Constants DEF Node
    <3>2. [db EXCEPT ![l] = b] \in [0..(D - 1) -> Word]
      BY <3>1
    <3>3. n2 = [n EXCEPT !.i_direct_blocks = [db EXCEPT ![l] = b], !.i_blocks_num = l + 1]
      BY <1>0 DEF Node
    <3> HIDE DEF db, n2
    <3> QED
      BY <1>0, <3>1, <3>2, <3>3 DEF Node, db
  <2> HIDE DEF n2
  <2> DEFINE N3 == [N EXCEPT ![f] = n2]
  <2>3. /\ N3 \in [File -> Node] /\ N3[f] = n2
        /\ \A g \in File : g # f => N3[g] = N[g]
    BY <1>0, <2>2
  <2> HIDE DEF N3
  <2>4. l \in 0..(D - 1) /\ l \in 0..(Width(0, 0) - 1) /\ First(0, 0, l) = Len(dat[f])
    <3>1. l \in 0..(D - 1) /\ l \in 0..(Width(0, 0) - 1)
      BY <1>0, <1>2, Constants DEF Width
    <3>2. 0 \in 0..3 /\ 0 \in 0..0
      OBVIOUS
    <3>3. First(0, 0, l) = TreeBase(0) + l
      BY <3>1, <3>2, FirstRange
    <3>4. TreeBase(0) = 0
      BY Bases
    <3> QED
      BY <1>0, <3>1, <3>3, <3>4
  <2>5. Gets(N, disk.mem, N3, disk.mem, f, 0, 0, l, b)
    BY <1>0, <2>2, <2>3, <2>4, AttachDirect
  <2>6. Typed(N3, disk.mem, disk.free)
    BY <2>3 DEF Settled, Good, Typed
  <2>7. Sound(N, disk.mem, disk.free, dat, {b}, strict, f, 0, 0 - 1)
    <3>1. 0 - 1 = -1
      OBVIOUS
    <3> QED
      BY <3>1, SettledSound
  <2>8. Settled(N3, disk.mem, disk.free, dat2, {b} \ {b}, strict)
    <3>1. 0 \in 0..3
      OBVIOUS
    <3> QED
      BY <2>4, <2>5, <2>6, <2>7, <3>1, GetsData
  <2>9. {b} \ {b} = {}
    OBVIOUS
  <2>10. Settled(N3, disk.mem, disk.free, dat2, {}, strict)
    BY <2>8, <2>9
  <2>11. res.node = n2 /\ res.disk = disk /\ res.ok = TRUE
    BY <2>1
  <2>12. N3 = [N EXCEPT ![f] = res.node]
    BY <2>11 DEF N3
  <2> HIDE DEF n, l
  <2> QED
    BY <1>0, <2>2, <2>10, <2>11, <2>12 DEF Added
<1>3. CASE l >= D
  <2>0. /\ k \in 1..3 /\ r \in 0..(Span(k) - 1) /\ Len(dat[f]) = Base(k) + r
        /\ k \in Level /\ k \in 0..3 /\ 0 \in 0..k /\ 0 \in 0..(Width(k, 0) - 1)
        /\ Span(k) \in Nat /\ Base(k) \in Nat
    <3>1. TreeOf(l) = k /\ k \in 1..3
      BY <1>0, <1>3, TreeRange
    <3>2. /\ l - TreeBase(k) \in 0..(Width(k, k) - 1)
          /\ First(k, k, l - TreeBase(k)) = l
      BY <1>0, <3>1, DataPlace
    <3>3. Width(k, k) = Span(k) /\ TreeBase(k) = Base(k) /\ Width(k, 0) = 1
      BY <3>1, Spans DEF Width, TreeBase
    <3>4. TreeBase(k) \in Nat /\ Span(k) \in Nat
      <4>1. k \in 0..3
        BY <3>1
      <4> QED
        BY <4>1, Spans, Bases
    <3> HIDE DEF k, l
    <3>5. l = Base(k) + r
      BY <1>0, <3>3, <3>4
    <3>6. r \in 0..(Span(k) - 1)
      BY <3>2, <3>3 DEF r
    <3>7. Len(dat[f]) = Base(k) + r
      BY <1>0, <3>5
    <3>8. k \in Level /\ k \in 0..3 /\ 0 \in 0..k
      BY <3>1 DEF Level
    <3>9. 0 \in 0..(Width(k, 0) - 1)
      BY <3>3
    <3>10. Base(k) \in Nat
      BY <3>3, <3>4
    <3> QED
      BY <3>1, <3>4, <3>6, <3>7, <3>8, <3>9, <3>10
  <2> HIDE DEF k, l, r
  <2>1. Sound(N, disk.mem, disk.free, dat, {b}, strict, f, k, -1)
    BY SettledSound
  <2>2. CASE r = 0 /\ new.block = 0
    <3>1. res = [node |-> n, disk |-> disk, ok |-> FALSE]
      BY <1>1, <1>3, <2>2
    <3>2. res.node = n /\ res.disk = disk /\ res.ok = FALSE /\ [N EXCEPT ![f] = res.node] = N
      BY <1>0, <3>1
    <3>3. Settled(N, disk.mem, disk.free, dat, {}, FALSE)
      <4>1. -1 \in -1..3 /\ -1 < k
        BY <2>0
      <4> QED
        BY <2>0, <2>1, <4>1, SoundFailed
    <3> QED
      BY <1>0, <3>2, <3>3 DEF Added, l
  <2>3. CASE r = 0 /\ new.block # 0
    <3> DEFINE root == new.block
               dk == new.disk
               ins == Insert(dk, root, k, r, b)
               N3 == [N EXCEPT ![f].i_indirect[k] = root]
    <3>1. res = Counted(rooted, ins)
      BY <1>1, <1>3, <2>3
    <3>2. /\ root \in Block /\ dk \in Disk
          /\ disk.free[root] = 1
          /\ dk.free[root] = 0
          /\ \A c \in Block : c # root => dk.free[c] = disk.free[c]
          /\ \A i \in Position : dk.mem[root][i] = 0
          /\ SameVals(N, disk.mem, N, dk.mem)
          /\ Good(N, dk.mem, dk.free)
          /\ Unplaced(N, dk.mem, root)
      BY <2>3, Alloc DEF Settled
    <3>3. Sound(N, dk.mem, dk.free, dat, {b} \cup {root}, strict, f, k, -1)
      BY <2>1, <2>3, AllocSound
    <3> HIDE DEF root, dk
    <3>4. b # root /\ dk.free[b] = 0 /\ Unplaced(N, dk.mem, b)
      <4>1. b # root /\ dk.free[b] = 0
        BY <3>2
      <4>2. Unplaced(N, dk.mem, b)
        BY <3>2 DEF SameVals, Unplaced
      <4> QED
        BY <4>1, <4>2
    <3>5. Typed(N3, dk.mem, dk.free) /\ Gets(N, dk.mem, N3, dk.mem, f, k, 0, 0, root)
      BY <2>0, <3>2, AttachRoot DEF Good
    <3>6. N3 = [N EXCEPT ![f] = rooted] /\ N3[f] = rooted /\ rooted \in Node
      BY <1>0, <2>0, <3>2, Constants DEF root, Node
    <3> HIDE DEF N3
    <3>7. First(k, 0, 0) = Len(dat[f])
      <4>1. First(k, 0, 0) = TreeBase(k) + 0 * Span(k - 0) /\ k - 0 = k
        BY <2>0 DEF First
      <4>2. TreeBase(k) = Base(k)
        BY <2>0, Bases
      <4> QED
        BY <2>0, <2>3, <4>1, <4>2
    <3>8. Sound(N3, dk.mem, dk.free, dat, ({b} \cup {root}) \ {root}, strict, f, k, 0)
      <4>1. Sound(N, dk.mem, dk.free, dat, {b} \cup {root}, strict, f, k, 0 - 1)
        <5>1. 0 - 1 = -1
          OBVIOUS
        <5> QED
          BY <3>3, <5>1
      <4>2. 0 < k
        BY <2>0
      <4> QED
        BY <2>0, <3>2, <3>5, <3>7, <4>1, <4>2, GetsIndex
    <3>9. ({b} \cup {root}) \ {root} = {b}
      BY <3>4
    <3>10. Unplaced(N3, dk.mem, b)
      <4> SUFFICES ASSUME NEW g \in File, NEW j \in 0..3, NEW e \in 0..j,
                          NEW p \in 0..(Width(j, e) - 1)
                   PROVE  Val(N3, dk.mem, g, j, e, p) # b
        BY DEF Unplaced
      <4>0. Val(N3, dk.mem, g, j, e, p) =
               IF g = f /\ j = k /\ e = 0 /\ p = 0 THEN root
               ELSE IF <<g, j, e, p>> \in Subtree(f, k, 0, 0) THEN 0
               ELSE Val(N, dk.mem, g, j, e, p)
        <5>1. \A gg \in File : \A jj \in 0..3 : \A ee \in 0..jj : \A pp \in 0..(Width(jj, ee) - 1) :
                 Val(N3, dk.mem, gg, jj, ee, pp) =
                   IF gg = f /\ jj = k /\ ee = 0 /\ pp = 0 THEN root
                   ELSE IF <<gg, jj, ee, pp>> \in Subtree(f, k, 0, 0) THEN 0
                   ELSE Val(N, dk.mem, gg, jj, ee, pp)
          BY <3>5 DEF Gets
        <5> QED
          BY <5>1
      <4>1. \/ Val(N3, dk.mem, g, j, e, p) = root
            \/ Val(N3, dk.mem, g, j, e, p) = 0
            \/ Val(N3, dk.mem, g, j, e, p) = Val(N, dk.mem, g, j, e, p)
        BY <4>0
      <4> QED
        BY <3>4, <4>1, Constants DEF Unplaced
    <3>11. root = Val(N3, dk.mem, f, k, 0, 0)
      BY <2>0, <3>5 DEF Gets
    <3>12. Sound(N3, dk.mem, dk.free, dat, {b}, strict, f, k, 0)
      BY <3>8, <3>9
    <3> HIDE DEF ins
    <3>13. /\ ins \in [ok : BOOLEAN, disk : Disk]
           /\ ins.ok => Settled(N3, ins.disk.mem, ins.disk.free, dat2, {}, strict)
           /\ ~ ins.ok => Settled(N3, ins.disk.mem, ins.disk.free, dat, {}, FALSE)
      BY <2>0, <3>2, <3>4, <3>10, <3>11, <3>12, InsertOne DEF ins
    <3>14. rooted.i_blocks_num = l
      BY <1>0, <2>0 DEF Node, l
    <3>15. [N3 EXCEPT ![f] = res.node] = [N EXCEPT ![f] = res.node]
      BY <1>0, <3>6
    <3> HIDE DEF rooted, n
    <3>16. N3 \in [File -> Node] /\ rooted = N3[f] /\ rooted.i_blocks_num = Len(dat[f])
      BY <1>0, <3>5, <3>6, <3>14 DEF Typed
    <3>17. Added(N3, f, Counted(rooted, ins), dat, b, strict)
      BY <1>a, <3>13, <3>16, CountedSettled
    <3>18. Added(N3, f, res, dat, b, strict)
      BY <3>1, <3>17
    <3> QED
      BY <3>15, <3>18 DEF Added
  <2>4. CASE r # 0
    <3> DEFINE root == n.i_indirect[k]
               ins == Insert(disk, root, k, r, b)
    <3>1. res = Counted(n, ins)
      BY <1>1, <1>3, <2>4
    <3>2. root = Val(N, disk.mem, f, k, 0, 0)
      BY <2>0 DEF Val, Below
    <3>3. root \in Block
      <4>1. First(k, 0, 0) = TreeBase(k) + 0 * Span(k - 0) /\ k - 0 = k
        BY <2>0 DEF First
      <4>2. TreeBase(k) = Base(k)
        BY <2>0, Bases
      <4>3. First(k, 0, 0) < Len(dat[f])
        BY <2>0, <2>4, <4>1, <4>2
      <4>4. Mapped(N, disk.mem, f, dat[f])
        BY DEF Settled
      <4>5. Val(N, disk.mem, f, k, 0, 0) # 0
        BY <2>0, <4>3, <4>4, NonZero
      <4> QED
        BY <2>0, <3>2, <4>5, ValWord DEF Settled, Good
    <3>4. Sound(N, disk.mem, disk.free, dat, {b}, strict, f, k, 0)
      <4>1. -1 \in -1..3 /\ 0 \in -1..3 /\ -1 <= 0
        OBVIOUS
      <4> QED
        BY <2>0, <2>1, <4>1, SoundDeeper
    <3> HIDE DEF root, ins
    <3>5. /\ ins \in [ok : BOOLEAN, disk : Disk]
          /\ ins.ok => Settled(N, ins.disk.mem, ins.disk.free, dat2, {}, strict)
          /\ ~ ins.ok => Settled(N, ins.disk.mem, ins.disk.free, dat, {}, FALSE)
      BY <2>0, <3>2, <3>3, <3>4, InsertOne DEF ins
    <3>6. n.i_blocks_num = l
      BY DEF l
    <3>7. n = N[f] /\ n.i_blocks_num = Len(dat[f])
      BY <1>0 DEF n, l
    <3> HIDE DEF n
    <3>8. Added(N, f, Counted(n, ins), dat, b, strict)
      BY <1>0, <1>a, <3>5, <3>7, CountedSettled
    <3> QED
      BY <3>1, <3>8
  <2> QED
    BY <2>2, <2>3, <2>4
<1> QED
  BY <1>0, <1>2, <1>3, Constants

\* A disk that satisfies the strict invariant satisfies the other one.
LEMMA SettledWeak ==
    ASSUME NEW N, NEW m, NEW free, NEW dat, NEW S, NEW strict, NEW weak,
           weak => strict, Settled(N, m, free, dat, S, strict)
    PROVE  Settled(N, m, free, dat, S, weak)
<1>1. ASSUME NEW g \in File PROVE Ends(N, m, g, Len(dat[g]), weak, 0, -1)
  <2>1. Ends(N, m, g, Len(dat[g]), strict, 0, -1)
    BY DEF Settled
  <2> QED
    BY <2>1 DEF Ends
<1> QED
  BY <1>1 DEF Settled

\* The files of a state of the system are within the block map.
LEMMA CountsFit ==
    ASSUME IInv
    PROVE  /\ Fits(data)
           /\ \A f \in File : /\ SizeLimit[f] < TreeBase(3) + Width(3, 3)
                              /\ SizeLimit[f] \in Nat
                              /\ Len(data[f]) \in Nat
                              /\ node[f].i_blocks_num = Len(data[f])
<1>1. \A f \in File : SizeLimit[f] \in 0..(Base(3) + Span(3) - 1)
  BY MapAssumption
<1>2. /\ Base(3) = TreeBase(3) /\ Span(3) = Width(3, 3)
      /\ TreeBase(3) \in Nat /\ Width(3, 3) \in Nat
  BY Bases, Limit DEF Width
<1>3. \A f \in File : data[f] \in Seq(Block) /\ Len(data[f]) \in Nat
  BY LenProperties DEF IInv
<1>4. \A f \in File : SizeLimit[f] \in Nat /\ SizeLimit[f] < TreeBase(3) + Width(3, 3)
  BY <1>1, <1>2
<1>5. \A f \in File : Len(data[f]) <= SizeLimit[f] /\ node[f].i_blocks_num = Len(data[f])
  BY DEF IInv, Counts
<1>6. Fits(data)
  BY <1>2, <1>3, <1>4, <1>5 DEF Fits
<1> QED
  BY <1>3, <1>4, <1>5, <1>6

LEMMA AppendStep ==
    ASSUME IInv, NEW f \in File, Append_(f)
    PROVE  IInv'
<1> DEFINE disk == [mem |-> mem, free |-> listed]
           new == allocate_data_block(disk)
           b == new.block
           dk == new.disk
           res == add_datablock_to_inode(node[f], dk, b)
           strict == ~ failed
           longer == [data EXCEPT ![f] = Append(@, b)]
<1>1. /\ node[f].i_blocks_num < SizeLimit[f]
      /\ b # 0
      /\ node' = [node EXCEPT ![f] = res.node]
      /\ mem' = res.disk.mem
      /\ listed' = res.disk.free
      /\ data' = IF res.ok THEN longer ELSE data
      /\ failed' = (failed \/ ~ res.ok)
  BY DEF Append_
<1>2. /\ Settled(node, mem, listed, data, {}, ~ failed)
      /\ data \in [File -> Seq(Block)] /\ failed \in BOOLEAN
  BY DEF IInv
<1>3. /\ node \in [File -> Node]
      /\ disk \in Disk /\ disk.mem = mem /\ disk.free = listed
  BY <1>2 DEF Settled, Good, Typed, Disk
<1> HIDE DEF disk
<1>4. Good(node, disk.mem, disk.free)
  BY <1>2, <1>3 DEF Settled
<1>5. /\ b \in Block /\ dk \in Disk
      /\ dk.free[b] = 0
      /\ Unplaced(node, dk.mem, b)
  BY <1>1, <1>3, <1>4, Alloc
<1>6. Fits(data)
  BY CountsFit
<1>7. Settled(node, dk.mem, dk.free, data, {b}, strict)
  <2>1. Sound(node, disk.mem, disk.free, data, {}, strict, f, 0, -1)
    BY <1>2, <1>3, SettledSound
  <2>2. Sound(node, dk.mem, dk.free, data, {} \cup {b}, strict, f, 0, -1)
    BY <1>1, <1>3, <1>6, <2>1, AllocSound
  <2>3. {} \cup {b} = {b}
    OBVIOUS
  <2> HIDE DEF strict, dk, b
  <2>4. Sound(node, dk.mem, dk.free, data, {b}, strict, f, 0, -1)
    BY <2>2, <2>3
  <2> QED
    BY <2>4 DEF Sound, Settled, Files
<1> HIDE DEF b, dk, strict
<1>8. node[f].i_blocks_num = Len(data[f]) /\ Len(data[f]) + 1 < TreeBase(3) + Width(3, 3)
      /\ Len(data[f]) \in Nat /\ Len(data[f]) + 1 <= SizeLimit[f] /\ SizeLimit[f] \in Nat
  BY <1>1, CountsFit, Limit
<1>9. Added(node, f, res, data, b, strict)
  BY <1>2, <1>5, <1>6, <1>7, <1>8, AddOne
<1> HIDE DEF res
<1>10. res.ok \in BOOLEAN
  BY <1>9 DEF Added
<1>11. CASE res.ok
  <2>1. data' = longer /\ (failed' <=> failed)
    BY <1>1, <1>11
  <2>2. Settled(node', mem', listed', longer, {}, strict) /\ res.node.i_blocks_num = Len(data[f]) + 1
    BY <1>1, <1>9, <1>11 DEF Added
  <2>3. longer \in [File -> Seq(Block)] /\ \A g \in File : Len(longer[g]) = IF g = f THEN Len(data[f]) + 1 ELSE Len(data[g])
    <3>1. \A g \in File : data[g] \in Seq(Block)
      BY <1>2
    <3>2. Append(data[f], b) \in Seq(Block) /\ Len(Append(data[f], b)) = Len(data[f]) + 1
      BY <1>5, <3>1, AppendProperties
    <3> QED
      BY <1>2, <3>1, <3>2
  <2>4. Counts'
    <3> SUFFICES ASSUME NEW g \in File
                 PROVE  node'[g].i_blocks_num = Len(data'[g]) /\ Len(data'[g]) <= SizeLimit[g]
      BY DEF Counts
    <3> HIDE DEF longer
    <3>1. CASE g = f
      <4>1. node'[g] = res.node
        BY <1>1, <1>3, <3>1
      <4> QED
        BY <1>8, <2>1, <2>2, <2>3, <3>1, <4>1
    <3>2. CASE g # f
      <4>1. node'[g] = node[g]
        BY <1>1, <1>3, <3>2
      <4> QED
        BY <2>1, <2>3, <3>2, <4>1 DEF IInv, Counts
    <3> QED
      BY <3>1, <3>2
  <2> HIDE DEF longer
  <2>5. Settled(node', mem', listed', data', {}, ~ failed')
    <3>1. ~ failed' => strict
      BY <2>1 DEF strict
    <3>2. Settled(node', mem', listed', data', {}, strict)
      BY <2>1, <2>2
    <3> QED
      BY <3>1, <3>2, SettledWeak
  <2>6. failed' \in BOOLEAN
    BY <1>1
  <2> QED
    BY <2>1, <2>3, <2>4, <2>5, <2>6 DEF IInv
<1>12. CASE ~ res.ok
  <2>1. data' = data /\ failed'
    BY <1>1, <1>12
  <2>2. Settled(node', mem', listed', data', {}, FALSE) /\ res.node.i_blocks_num = Len(data[f])
    BY <1>1, <1>9, <1>12, <2>1 DEF Added
  <2>4. Counts'
    <3> SUFFICES ASSUME NEW g \in File
                 PROVE  node'[g].i_blocks_num = Len(data'[g]) /\ Len(data'[g]) <= SizeLimit[g]
      BY DEF Counts
    <3>1. node'[g] = IF g = f THEN res.node ELSE node[g]
      BY <1>1, <1>3
    <3> QED
      BY <2>1, <2>2, <3>1 DEF IInv, Counts
  <2>5. Settled(node', mem', listed', data', {}, ~ failed')
    <3>1. ~ failed' => FALSE
      BY <2>1
    <3> QED
      BY <2>2, <3>1, SettledWeak
  <2>6. failed' \in BOOLEAN
    BY <1>1
  <2> QED
    BY <1>2, <2>1, <2>4, <2>5, <2>6 DEF IInv
<1> QED
  BY <1>10, <1>11, <1>12

-----------------------------------------------------------------------------
(* Freeing *)

\* Blocks in use that are freed once each are free, and no others.
LEMMA FreedOnce ==
    ASSUME NEW free \in [Block -> 0..1], NEW F,
           \A x \in DOMAIN F : F[x] \in Block /\ free[F[x]] = 0,
           \A x, y \in DOMAIN F : F[x] = F[y] => x = y,
           NEW free2, free2 = Freed(free, F)
    PROVE  /\ free2 \in [Block -> 0..1]
           /\ \A x \in DOMAIN F : free2[F[x]] = 1
           /\ \A c \in Block : (\A x \in DOMAIN F : F[x] # c) => free2[c] = free[c]
<1> DEFINE At(c) == {i \in DOMAIN F : F[i] = c}
<1>1. free2 = [c \in Block |-> free[c] + Cardinality(At(c))]
  BY DEF Freed
<1>2. ASSUME NEW c \in Block, \A x \in DOMAIN F : F[x] # c PROVE free2[c] = free[c]
  <2>1. At(c) = {}
    BY <1>2
  <2>2. Cardinality(At(c)) = 0
    BY <2>1, FS_EmptySet
  <2> HIDE DEF At
  <2>3. free2[c] = free[c] + 0
    BY <1>1, <2>2
  <2> QED
    BY <2>3
<1>3. ASSUME NEW x \in DOMAIN F PROVE free2[F[x]] = 1
  <2> DEFINE c == F[x]
  <2>1. At(c) = {x}
    OBVIOUS
  <2>2. Cardinality(At(c)) = 1
    BY <2>1, FS_Singleton
  <2>3. c \in Block /\ free[c] = 0
    OBVIOUS
  <2> HIDE DEF At, c
  <2>4. free2[c] = free[c] + 1
    BY <1>1, <2>2, <2>3
  <2>5. free2[c] = 1
    BY <2>3, <2>4
  <2> QED
    BY <2>5 DEF c
<1>4. ASSUME NEW c \in Block PROVE free2[c] \in 0..1
  <2>1. CASE \A x \in DOMAIN F : F[x] # c
    BY <1>2, <2>1
  <2>2. CASE \E x \in DOMAIN F : F[x] = c
    BY <1>3, <2>2
  <2> QED
    BY <2>1, <2>2
<1> HIDE DEF At
<1>5. free2 \in [Block -> 0..1]
  BY <1>1, <1>4
<1> QED
  BY <1>2, <1>3, <1>5

\* No block is below no block.
LEMMA Hollow ==
    ASSUME NEW m, NEW k \in 0..3, NEW d \in 0..k, NEW q
    PROVE  Below(m, 0, d, q) = 0
<1>1. d = 0 \/ d = 1 \/ d = 2 \/ d = 3
  OBVIOUS
<1> QED
  BY <1>1 DEF Below, Entry

\* The loops over a tree come to every place before a place in use.
Dense(N, m, f, k) ==
    \A d \in 0..k : \A q \in 0..(Width(k, d) - 1) : Val(N, m, f, k, d, q) # 0 =>
        \A i \in 0..q : Val(N, m, f, k, d, i) # 0

LEMMA GroupStart ==
    ASSUME NEW q \in Nat
    PROVE  A * (q \div A) \in Nat /\ A * (q \div A) <= q
<1>1. q \div A \in Nat /\ q % A \in 0..(A - 1) /\ q = (q \div A) * A + (q % A) /\ (q \div A) * A \in Nat
  BY Constants, DivMod
<1>2. A * (q \div A) = (q \div A) * A
  BY <1>1, Constants
<1> QED
  BY <1>1, <1>2, Constants

\* The places of a tree that are in use, or those that the loops over it come to.
TreeFreed(N, m, f, k, T) ==
    /\ \A x \in DOMAIN T : \E d \in 0..k : \E q \in 0..(Width(k, d) - 1) :
          x = <<d, q>> /\ T[x] = Val(N, m, f, k, d, q) /\ T[x] # 0
    /\ Dense(N, m, f, k) => \A d \in 0..k : \A q \in 0..(Width(k, d) - 1) :
          Val(N, m, f, k, d, q) # 0 => <<d, q>> \in DOMAIN T

\* What is freed with the tree of level k.
LEMMA TreePlaces ==
    ASSUME NEW N, NEW m, NEW f \in File, NEW k \in 1..3, N[f].i_indirect[k] # 0,
           NEW T, T = Tree(m, N[f].i_indirect[k], k)
    PROVE  TreeFreed(N, m, f, k, T)
<1> DEFINE b == N[f].i_indirect[k]
           Reached(x) == \A e \in 1..x[1] : InUse(m, b, e, x[2] \div Span(x[1] - e))
           found == {x \in (0..k) \X (0..(Span(k) - 1)) : x[2] < Span(x[1]) /\ Reached(x)}
<1>1. T = [x \in found |-> Below(m, b, x[1], x[2])]
  BY DEF Tree
<1>2. k \in 0..3 /\ k # 0 /\ 0 \in 0..k
  OBVIOUS
<1>3. \A d, q : Val(N, m, f, k, d, q) = Below(m, b, d, q)
  BY <1>2 DEF Val
<1>4. ASSUME NEW d \in 0..k PROVE Width(k, d) = Span(d) /\ Span(d) \in Nat /\ d \in 0..3 /\ Span(d) <= Span(k) /\ Span(k) \in Nat
  <2>1. d \in 0..3
    OBVIOUS
  <2>2. Span(d) \in Nat /\ Span(d) >= 1 /\ Span(k) \in Nat
    BY <1>2, <2>1, Spans
  <2>3. Span(k - d) \in Nat /\ Span(k - d) >= 1 /\ Span(d) * Span(k - d) = Span(k)
    BY <1>2, SpanProduct, Spans
  <2>4. \A x \in Nat, y \in Nat : y >= 1 => x <= x * y
    OBVIOUS
  <2> QED
    BY <1>2, <2>1, <2>2, <2>3, <2>4 DEF Width
<1> HIDE DEF b
<1>5. ASSUME NEW x \in DOMAIN T
      PROVE  \E d \in 0..k : \E q \in 0..(Width(k, d) - 1) :
                 x = <<d, q>> /\ T[x] = Val(N, m, f, k, d, q) /\ T[x] # 0
  <2>0. x \in found
    BY <1>1
  <2>1. PICK d \in 0..k, q \in 0..(Span(k) - 1) : x = <<d, q>> /\ q < Span(d) /\ Reached(<<d, q>>)
    BY <2>0
  <2>2. q \in 0..(Width(k, d) - 1)
    BY <1>4, <2>1
  <2>3. T[x] = Below(m, b, d, q)
    BY <1>1, <2>0, <2>1
  <2>4. Below(m, b, d, q) # 0
    <3>1. CASE d = 0
      BY <3>1 DEF Below, b
    <3>2. CASE d # 0
      <4>1. d \in 1..d /\ q \in Nat
        BY <2>1, <3>2, <1>4
      <4>2. InUse(m, b, d, q \div Span(d - d))
        BY <2>1, <4>1
      <4>3. d - d = 0 /\ Span(0) = 1
        BY Spans
      <4>4. q \div 1 = q
        BY <4>1
      <4>5. InUse(m, b, d, q)
        BY <4>2, <4>3, <4>4
      <4>6. q \in (A * (q \div A))..q
        BY <4>1, GroupStart
      <4> QED
        BY <4>5, <4>6 DEF InUse
    <3> QED
      BY <3>1, <3>2
  <2> QED
    BY <1>3, <2>1, <2>2, <2>3, <2>4
<1>6. ASSUME Dense(N, m, f, k), NEW d \in 0..k, NEW q \in 0..(Width(k, d) - 1),
             Val(N, m, f, k, d, q) # 0
      PROVE  <<d, q>> \in DOMAIN T
  <2>1. d \in 0..3 /\ q \in 0..(Span(k) - 1) /\ q < Span(d) /\ q \in Nat
    BY <1>4
  <2>2. ASSUME NEW e \in 1..d PROVE InUse(m, b, e, q \div Span(d - e))
    <3> DEFINE p == q \div Span(d - e)
    <3>1. p \in 0..(Width(k, e) - 1) /\ e \in 0..k
      <4>1. e \in 0..d /\ e \in 0..k /\ d - e \in 0..3
        OBVIOUS
      <4>2. Span(e) * Span(d - e) = Span(d) /\ Span(d - e) \in Nat /\ Span(d - e) >= 1 /\ Span(e) \in Nat
        BY <2>1, <4>1, SpanProduct, Spans, <1>4
      <4>3. p \in Nat /\ p * Span(d - e) \in Nat /\ p * Span(d - e) <= q
        <5> DEFINE s == Span(d - e)
        <5>1. s \in Nat \ {0}
          BY <4>2
        <5> HIDE DEF s
        <5>2. /\ q \div s \in Nat /\ q % s \in 0..(s - 1)
              /\ (q \div s) * s \in Nat /\ q = (q \div s) * s + (q % s)
          BY <2>1, <5>1, DivMod
        <5> QED
          BY <2>1, <5>1, <5>2 DEF s
      <4>4. p < Span(e)
        <5> HIDE DEF p
        <5>1. SUFFICES ASSUME Span(e) <= p PROVE FALSE
          BY <4>2, <4>3
        <5>2. \A x \in Nat, y \in Nat, z \in Nat : x <= y => x * z <= y * z
          OBVIOUS
        <5>3. Span(e) * Span(d - e) <= p * Span(d - e)
          BY <4>2, <4>3, <5>1, <5>2
        <5> QED
          BY <1>4, <2>1, <4>2, <4>3, <5>3
      <4> QED
        BY <1>4, <4>1, <4>3, <4>4
    <3>2. Val(N, m, f, k, e, p) # 0
      <4>1. Val(N, m, f, k, 0, 0) # 0
        BY <1>3 DEF Below, b
      <4>2. ASSUME Val(N, m, f, k, e, p) = 0 PROVE FALSE
        <5>1. Val(N, m, f, k, d, q) = 0
          <6>1. Val(N, m, f, k, d, q) = Val(N, m, f, k, e + (d - e), q)
            OBVIOUS
          <6> DEFINE Up0(j) == \A i \in 0..(Width(k, e + j) - 1) :
                                  e + j \in 0..d /\ i \div Span(j) = p => Val(N, m, f, k, e + j, i) = 0
          <6>2. Up0(0)
            <7>1. Span(0) = 1 /\ e + 0 = e
              BY Spans
            <7>2. ASSUME NEW i \in 0..(Width(k, e) - 1), i \div 1 = p PROVE Val(N, m, f, k, e, i) = 0
              <8>1. i \in Nat
                BY <3>1, <1>4
              <8>2. i \div 1 = i
                BY <8>1
              <8> QED
                BY <4>2, <7>2, <8>2
            <7> QED
              BY <7>1, <7>2
          <6>3. ASSUME NEW j \in 1..3, Up0(j - 1) PROVE Up0(j)
            <7> SUFFICES ASSUME NEW i \in 0..(Width(k, e + j) - 1), e + j \in 0..d, i \div Span(j) = p
                         PROVE  Val(N, m, f, k, e + j, i) = 0
              OBVIOUS
            <7> DEFINE dj == e + j
            <7>1. /\ dj \in 1..k /\ dj - 1 = e + (j - 1) /\ e + (j - 1) \in 0..d
                  /\ j - 1 \in 0..3 /\ j \in 0..3
              OBVIOUS
            <7>2. i \div A \in 0..(Width(k, dj - 1) - 1) /\ i \in Nat
              BY <7>1, Parent
            <7>3. (i \div A) \div Span(j - 1) = p
              <8>1. Span(j) = Span(j - 1) * A /\ Span(j - 1) \in Nat \ {0} /\ A \in Nat \ {0}
                BY <7>1, Spans, Constants
              <8>2. A * Span(j - 1) = Span(j - 1) * A
                BY <8>1
              <8>3. i \div (A * Span(j - 1)) = (i \div A) \div Span(j - 1)
                BY <7>2, <8>1, DivDiv
              <8> QED
                BY <8>1, <8>2, <8>3
            <7>4. Val(N, m, f, k, dj - 1, i \div A) = 0
              BY <6>3, <7>1, <7>2, <7>3
            <7>5. Val(N, m, f, k, dj, i) = Entry(m, Val(N, m, f, k, dj - 1, i \div A), i % A)
              BY <7>1, ValStep
            <7> QED
              BY <7>4, <7>5 DEF Entry
          <6> HIDE DEF Up0
          <6>4. Up0(1) /\ Up0(2)
            <7>1. Up0(1 - 1) => Up0(1)
              BY <6>3
            <7>2. Up0(2 - 1) => Up0(2)
              BY <6>3
            <7> QED
              BY <6>2, <7>1, <7>2
          <6>5. d - e = 0 \/ d - e = 1 \/ d - e = 2
            OBVIOUS
          <6>6. Up0(d - e)
            BY <6>2, <6>4, <6>5
          <6>7. e + (d - e) = d /\ d \in 0..d
            OBVIOUS
          <6> QED
            BY <6>6, <6>7 DEF Up0
        <5> QED
          BY <1>6, <5>1
      <4> QED
        BY <4>2
    <3>3. p \in Nat
      BY <3>1, <1>4
    <3> HIDE DEF p
    <3>4. \A i \in 0..p : Val(N, m, f, k, e, i) # 0
      BY <1>6, <3>1, <3>2 DEF Dense
    <3>5. \A i \in (A * (p \div A))..p : Below(m, b, e, i) # 0
      <4>1. A * (p \div A) \in Nat
        BY <3>3, GroupStart
      <4>2. \A i \in (A * (p \div A))..p : i \in 0..p
        BY <3>3, <4>1
      <4> QED
        BY <1>3, <3>4, <4>2
    <3>6. InUse(m, b, e, p)
      BY <3>5 DEF InUse
    <3> QED
      BY <3>6 DEF p
  <2>3. Reached(<<d, q>>)
    BY <2>2
  <2> HIDE DEF Reached
  <2>4. <<d, q>> \in found
    BY <2>1, <2>3
  <2> QED
    BY <1>1, <2>4
<1> QED
  BY <1>5, <1>6 DEF TreeFreed

\* The places of a file that are in use, or those that the loops over it come to.
FileFreed(N, m, f, F) ==
    /\ \A x \in DOMAIN F :
          \E k \in 0..3 : \E d \in 0..k : \E q \in 0..(Width(k, d) - 1) :
              x = <<k, d, q>> /\ F[x] = Val(N, m, f, k, d, q) /\ F[x] # 0
    /\ \A k \in 0..3 : Dense(N, m, f, k) =>
          \A d \in 0..k : \A q \in 0..(Width(k, d) - 1) :
              Val(N, m, f, k, d, q) # 0 => <<k, d, q>> \in DOMAIN F

\* What is freed with an inode.
LEMMA FootprintPlaces ==
    ASSUME NEW N, NEW m, NEW f \in File,
           NEW F, F = Footprint(N[f], m)
    PROVE  FileFreed(N, m, f, F)
<1> DEFINE n == N[f]
           direct == {i \in 0..(D - 1) : \A j \in 0..i : n.i_direct_blocks[j] # 0}
           tree(k) == IF n.i_indirect[k] = 0 THEN << >> ELSE Tree(m, n.i_indirect[k], k)
           places == {<<0, 0, i>> : i \in direct}
                        \cup UNION {{<<k, x[1], x[2]>> : x \in DOMAIN tree(k)} : k \in Level}
<1>1. F = [x \in places |-> IF x[1] = 0 THEN n.i_direct_blocks[x[3]]
                                        ELSE tree(x[1])[<<x[2], x[3]>>]]
  BY DEF Footprint
<1>2. \A q : Val(N, m, f, 0, 0, q) = n.i_direct_blocks[q]
  BY DEF Val
<1>3. Width(0, 0) = D /\ 0 \in 0..3 /\ 0 \in 0..0
  BY DEF Width
<1>4. ASSUME NEW k \in 1..3, n.i_indirect[k] # 0
      PROVE  /\ tree(k) = Tree(m, N[f].i_indirect[k], k)
             /\ TreeFreed(N, m, f, k, tree(k))
  <2>1. tree(k) = Tree(m, N[f].i_indirect[k], k)
    BY <1>4
  <2> DEFINE T == tree(k)
  <2>2. N[f].i_indirect[k] # 0 /\ T = Tree(m, N[f].i_indirect[k], k)
    BY <1>4
  <2> HIDE DEF T
  <2>3. TreeFreed(N, m, f, k, T)
    BY <2>2, TreePlaces
  <2> HIDE DEF tree
  <2> QED
    BY <2>2, <2>3 DEF T
<1>5. ASSUME NEW k \in 1..3, n.i_indirect[k] = 0 PROVE DOMAIN tree(k) = {}
  BY <1>5
<1>6. ASSUME NEW k \in 1..3, n.i_indirect[k] = 0, NEW d \in 0..k, NEW q
      PROVE  Val(N, m, f, k, d, q) = 0
  <2>1. k \in 0..3 /\ k # 0
    OBVIOUS
  <2>2. Val(N, m, f, k, d, q) = Below(m, 0, d, q)
    BY <1>6, <2>1 DEF Val
  <2> QED
    BY <2>1, <2>2, Hollow
<1> HIDE DEF n, tree
<1>7. ASSUME NEW x \in DOMAIN F
      PROVE  \E k \in 0..3 : \E d \in 0..k : \E q \in 0..(Width(k, d) - 1) :
                     x = <<k, d, q>> /\ F[x] = Val(N, m, f, k, d, q) /\ F[x] # 0
  <2>0. x \in places
    BY <1>1
  <2>1. CASE x \in {<<0, 0, i>> : i \in direct}
    <3>1. PICK i \in 0..(D - 1) : x = <<0, 0, i>> /\ \A j \in 0..i : n.i_direct_blocks[j] # 0
      BY <2>1
    <3>2. i \in 0..i /\ i \in 0..(Width(0, 0) - 1)
      BY <1>3, Constants
    <3>3. F[x] = n.i_direct_blocks[i]
      BY <1>1, <2>0, <3>1
    <3>4. F[x] = Val(N, m, f, 0, 0, i) /\ F[x] # 0
      BY <1>2, <3>1, <3>2, <3>3
    <3> QED
      BY <1>3, <3>1, <3>2, <3>4
  <2>2. CASE x \in UNION {{<<k, y[1], y[2]>> : y \in DOMAIN tree(k)} : k \in Level}
    <3>1. PICK k \in Level : x \in {<<k, y[1], y[2]>> : y \in DOMAIN tree(k)}
      BY <2>2
    <3>2. PICK y \in DOMAIN tree(k) : x = <<k, y[1], y[2]>>
      BY <3>1
    <3>3. k \in 1..3 /\ k \in 0..3 /\ k # 0
      BY DEF Level
    <3>4. n.i_indirect[k] # 0
      BY <1>5, <3>2, <3>3
    <3>4a. PICK d \in 0..k : \E q \in 0..(Width(k, d) - 1) :
             y = <<d, q>> /\ tree(k)[y] = Val(N, m, f, k, d, q) /\ tree(k)[y] # 0
      BY <1>4, <3>3, <3>4 DEF TreeFreed
    <3>5. PICK q \in 0..(Width(k, d) - 1) :
             y = <<d, q>> /\ tree(k)[y] = Val(N, m, f, k, d, q) /\ tree(k)[y] # 0
      BY <3>4a
    <3>6. x = <<k, d, q>> /\ <<x[2], x[3]>> = y /\ x[1] = k
      BY <3>2, <3>5
    <3>7. F[x] = tree(k)[y]
      BY <1>1, <2>0, <3>3, <3>6
    <3> QED
      BY <3>3, <3>5, <3>6, <3>7
  <2> QED
    BY <2>0, <2>1, <2>2
<1>8. ASSUME NEW k \in 0..3, Dense(N, m, f, k), NEW d \in 0..k, NEW q \in 0..(Width(k, d) - 1),
             Val(N, m, f, k, d, q) # 0
      PROVE  <<k, d, q>> \in DOMAIN F
  <2>1. CASE k = 0
    <3>1. d = 0 /\ q \in 0..(D - 1)
      BY <1>3, <2>1
    <3>2. \A i \in 0..q : n.i_direct_blocks[i] # 0
      BY <1>2, <1>8, <2>1, <3>1 DEF Dense
    <3>3. q \in direct
      BY <3>1, <3>2
    <3>4. <<k, d, q>> \in places
      BY <2>1, <3>1, <3>3
    <3> QED
      BY <1>1, <3>4
  <2>2. CASE k # 0
    <3>1. k \in 1..3 /\ k \in Level
      BY <2>2 DEF Level
    <3>2. n.i_indirect[k] # 0
      BY <1>6, <1>8, <3>1
    <3>3. <<d, q>> \in DOMAIN tree(k)
      BY <1>4, <1>8, <3>1, <3>2 DEF TreeFreed
    <3> DEFINE y == <<d, q>>
    <3>4. <<k, y[1], y[2]>> = <<k, d, q>>
      OBVIOUS
    <3>5. y \in DOMAIN tree(k)
      BY <3>3
    <3> HIDE DEF y
    <3>6. <<k, y[1], y[2]>> \in places
      BY <3>1, <3>5
    <3> QED
      BY <1>1, <3>4, <3>6
  <2> QED
    BY <2>1, <2>2
<1> QED
  BY <1>7, <1>8 DEF FileFreed

\* A file that consists of its blocks and ends behind them is dense.
LEMMA FileDense ==
    ASSUME NEW N, NEW m, NEW g, NEW dat \in Seq(Block), Mapped(N, m, g, dat),
           Ends(N, m, g, Len(dat), TRUE, 0, -1), NEW k \in 0..3
    PROVE  Dense(N, m, g, k)
<1> SUFFICES ASSUME NEW d \in 0..k, NEW q \in 0..(Width(k, d) - 1), Val(N, m, g, k, d, q) # 0,
                    NEW i \in 0..q
             PROVE  Val(N, m, g, k, d, i) # 0
  BY DEF Dense
<1>0. Width(k, d) \in Nat /\ Len(dat) \in Nat
  BY Bases, LenProperties
<1>1. i \in 0..(Width(k, d) - 1)
  BY <1>0
<1>2. /\ First(k, d, q) \in Nat /\ First(k, d, i) \in Nat
  BY <1>1, FirstRange
<1>3. First(k, d, q) < Len(dat)
  <2>1. ASSUME First(k, d, q) >= Len(dat) PROVE FALSE
    <3>1. ~ (k = 0 /\ d <= -1 /\ First(k, d, q) = Len(dat))
      OBVIOUS
    <3> QED
      BY <2>1, <3>1 DEF Ends
  <2> QED
    BY <1>0, <1>2, <2>1
<1>4. First(k, d, i) <= First(k, d, q)
  <2>1. Span(k - d) \in Nat /\ TreeBase(k) \in Nat
    <3>1. k - d \in 0..3
      BY SpanProduct
    <3> QED
      BY <3>1, Spans, Bases
  <2>2. \A x \in Nat, y \in Nat, z \in Nat : x <= y => x * z <= y * z /\ x * z \in Nat /\ y * z \in Nat
    OBVIOUS
  <2>3. i \in Nat /\ q \in Nat /\ i <= q
    BY <1>0
  <2>4. i * Span(k - d) <= q * Span(k - d) /\ i * Span(k - d) \in Nat /\ q * Span(k - d) \in Nat
    BY <2>1, <2>2, <2>3
  <2> QED
    BY <2>1, <2>4 DEF First
<1>5. First(k, d, i) < Len(dat)
  BY <1>0, <1>2, <1>3, <1>4
<1> QED
  BY <1>1, <1>5, NonZero

-----------------------------------------------------------------------------
(* Dropping places *)

\* The places in Z hold nothing any more, the others what they held.
Cleared(N, m, N2, m2, Z) ==
    \A g \in File : \A k \in 0..3 : \A d \in 0..k : \A q \in 0..(Width(k, d) - 1) :
        Val(N2, m2, g, k, d, q) =
            IF <<g, k, d, q>> \in Z THEN 0 ELSE Val(N, m, g, k, d, q)

\* Block c is at a place in Z.
InZone(N, m, Z, c) ==
    \E g \in File : \E k \in 0..3 : \E d \in 0..k : \E q \in 0..(Width(k, d) - 1) :
        <<g, k, d, q>> \in Z /\ Val(N, m, g, k, d, q) = c

\* The places in Z were cleared, and their blocks were freed: if strict all of them.
Dropped(N, m, free, N2, m2, free2, Z, strict) ==
    /\ Typed(N2, m2, free2)
    /\ Cleared(N, m, N2, m2, Z)
    /\ \A c \in Block : free[c] = 1 => free2[c] = 1
    /\ \A c \in Block : free2[c] = 1 => free[c] = 1 \/ InZone(N, m, Z, c)
    /\ strict => \A c \in Block : InZone(N, m, Z, c) => free2[c] = 1

LEMMA FreedDropped ==
    ASSUME NEW N, NEW m, NEW free, Good(N, m, free), NEW N2, NEW m2,
           N2 \in [File -> Node], m2 \in [Block -> [Position -> Word]],
           NEW Z, Cleared(N, m, N2, m2, Z), NEW F, NEW strict,
           \A x \in DOMAIN F : F[x] # 0 /\ InZone(N, m, Z, F[x]),
           \A x, y \in DOMAIN F : F[x] = F[y] => x = y,
           strict => \A c \in Block : InZone(N, m, Z, c) => \E x \in DOMAIN F : F[x] = c,
           NEW free2, free2 = Freed(free, F)
    PROVE  Dropped(N, m, free, N2, m2, free2, Z, strict)
<1>1. free \in [Block -> 0..1]
  BY DEF Good, Typed
<1>2. ASSUME NEW x \in DOMAIN F PROVE F[x] \in Block /\ free[F[x]] = 0
  <2>1. PICK g \in File : \E k \in 0..3 : \E d \in 0..k : \E q \in 0..(Width(k, d) - 1) :
            <<g, k, d, q>> \in Z /\ Val(N, m, g, k, d, q) = F[x]
    BY <1>2 DEF InZone
  <2>2. PICK k \in 0..3 : \E d \in 0..k : \E q \in 0..(Width(k, d) - 1) :
            <<g, k, d, q>> \in Z /\ Val(N, m, g, k, d, q) = F[x]
    BY <2>1
  <2>3. PICK d \in 0..k : \E q \in 0..(Width(k, d) - 1) :
            <<g, k, d, q>> \in Z /\ Val(N, m, g, k, d, q) = F[x]
    BY <2>2
  <2>4. PICK q \in 0..(Width(k, d) - 1) : Val(N, m, g, k, d, q) = F[x]
    BY <2>3
  <2>5. F[x] # 0
    BY <1>2
  <2>6. Val(N, m, g, k, d, q) \in Block
    BY <2>4, <2>5, ValWord DEF Good
  <2>7. free[Val(N, m, g, k, d, q)] = 0
    BY <2>4, <2>5 DEF Good, Taken
  <2> QED
    BY <2>4, <2>6, <2>7
<1>3. /\ free2 \in [Block -> 0..1]
      /\ \A x \in DOMAIN F : free2[F[x]] = 1
      /\ \A c \in Block : (\A x \in DOMAIN F : F[x] # c) => free2[c] = free[c]
  BY <1>1, <1>2, FreedOnce
<1>4. Typed(N2, m2, free2)
  BY <1>3 DEF Typed
<1>5. ASSUME NEW c \in Block, free[c] = 1 PROVE free2[c] = 1
  <2>1. \A x \in DOMAIN F : F[x] # c
    BY <1>2, <1>5
  <2> QED
    BY <1>3, <1>5, <2>1
<1>6. ASSUME NEW c \in Block, free2[c] = 1 PROVE free[c] = 1 \/ InZone(N, m, Z, c)
  <2>1. CASE \A x \in DOMAIN F : F[x] # c
    BY <1>3, <1>6, <2>1
  <2>2. CASE \E x \in DOMAIN F : F[x] = c
    BY <2>2
  <2> QED
    BY <2>1, <2>2
<1>7. ASSUME strict, NEW c \in Block, InZone(N, m, Z, c) PROVE free2[c] = 1
  BY <1>3, <1>7
<1> QED
  BY <1>4, <1>5, <1>6, <1>7 DEF Dropped

\* Nothing dropped.
LEMMA DroppedNone ==
    ASSUME NEW N, NEW m, NEW free, Typed(N, m, free), NEW strict
    PROVE  Dropped(N, m, free, N, m, free, {}, strict)
BY DEF Dropped, Cleared, InZone

LEMMA DroppedTrans ==
    ASSUME NEW N, NEW m, NEW free, NEW N2, NEW m2, NEW free2, NEW N3, NEW m3, NEW free3,
           NEW Z, NEW Y, NEW strict, Typed(N2, m2, free2),
           Dropped(N, m, free, N2, m2, free2, Z, strict),
           Dropped(N2, m2, free2, N3, m3, free3, Y, strict)
    PROVE  Dropped(N, m, free, N3, m3, free3, Z \cup Y, strict)
<1>1. Cleared(N, m, N3, m3, Z \cup Y)
  BY DEF Dropped, Cleared
<1>2. ASSUME NEW c \in Block, InZone(N2, m2, Y, c) PROVE InZone(N, m, Z \cup Y, c)
  <2>1. PICK g \in File : \E k \in 0..3 : \E d \in 0..k : \E q \in 0..(Width(k, d) - 1) :
            <<g, k, d, q>> \in Y /\ Val(N2, m2, g, k, d, q) = c
    BY <1>2 DEF InZone
  <2>2. PICK k \in 0..3 : \E d \in 0..k : \E q \in 0..(Width(k, d) - 1) :
            <<g, k, d, q>> \in Y /\ Val(N2, m2, g, k, d, q) = c
    BY <2>1
  <2>3. PICK d \in 0..k : \E q \in 0..(Width(k, d) - 1) :
            <<g, k, d, q>> \in Y /\ Val(N2, m2, g, k, d, q) = c
    BY <2>2
  <2>4. PICK q \in 0..(Width(k, d) - 1) : <<g, k, d, q>> \in Y /\ Val(N2, m2, g, k, d, q) = c
    BY <2>3
  <2>5. Val(N, m, g, k, d, q) = c
    BY <2>4, Constants DEF Dropped, Cleared
  <2> QED
    BY <2>4, <2>5 DEF InZone
<1>3. ASSUME NEW c \in Block, InZone(N, m, Z, c) PROVE InZone(N, m, Z \cup Y, c)
  BY <1>3 DEF InZone
<1>4. ASSUME NEW c \in Block, InZone(N, m, Z \cup Y, c)
      PROVE  InZone(N, m, Z, c) \/ InZone(N2, m2, Y, c)
  <2>1. PICK g \in File : \E k \in 0..3 : \E d \in 0..k : \E q \in 0..(Width(k, d) - 1) :
            <<g, k, d, q>> \in Z \cup Y /\ Val(N, m, g, k, d, q) = c
    BY <1>4 DEF InZone
  <2>2. PICK k \in 0..3 : \E d \in 0..k : \E q \in 0..(Width(k, d) - 1) :
            <<g, k, d, q>> \in Z \cup Y /\ Val(N, m, g, k, d, q) = c
    BY <2>1
  <2>3. PICK d \in 0..k : \E q \in 0..(Width(k, d) - 1) :
            <<g, k, d, q>> \in Z \cup Y /\ Val(N, m, g, k, d, q) = c
    BY <2>2
  <2>4. PICK q \in 0..(Width(k, d) - 1) :
            <<g, k, d, q>> \in Z \cup Y /\ Val(N, m, g, k, d, q) = c
    BY <2>3
  <2>5. CASE <<g, k, d, q>> \in Z
    BY <2>4, <2>5 DEF InZone
  <2>6. CASE <<g, k, d, q>> \notin Z
    <3>1. Val(N2, m2, g, k, d, q) = c /\ <<g, k, d, q>> \in Y
      BY <2>4, <2>6 DEF Dropped, Cleared
    <3> QED
      BY <3>1 DEF InZone
  <2> QED
    BY <2>5, <2>6
<1> QED
  BY <1>1, <1>2, <1>3, <1>4 DEF Dropped

LEMMA DroppedGood ==
    ASSUME NEW N, NEW m, NEW free, NEW N2, NEW m2, NEW free2, NEW Z, NEW strict,
           Good(N, m, free), Dropped(N, m, free, N2, m2, free2, Z, strict)
    PROVE  Good(N2, m2, free2)
<1>1. Typed(N2, m2, free2)
  BY DEF Dropped
<1>2. Apart(N2, m2)
  <2> SUFFICES ASSUME NEW f \in File, NEW g \in File, NEW k \in 0..3, NEW j \in 0..3,
                      NEW d \in 0..k, NEW e \in 0..j,
                      NEW q \in 0..(Width(k, d) - 1), NEW p \in 0..(Width(j, e) - 1),
                      Val(N2, m2, f, k, d, q) # 0,
                      Val(N2, m2, f, k, d, q) = Val(N2, m2, g, j, e, p)
               PROVE  f = g /\ k = j /\ d = e /\ q = p
    BY DEF Apart
  <2>1. Val(N2, m2, f, k, d, q) = Val(N, m, f, k, d, q)
    BY DEF Dropped, Cleared
  <2>2. Val(N2, m2, g, j, e, p) = Val(N, m, g, j, e, p)
    BY DEF Dropped, Cleared
  <2>3. Apart(N, m)
    BY DEF Good
  <2>4. Val(N, m, f, k, d, q) # 0 /\ Val(N, m, f, k, d, q) = Val(N, m, g, j, e, p)
    BY <2>1, <2>2
  <2> QED
    BY <2>3, <2>4 DEF Apart
<1>3. Taken(N2, m2, free2)
  <2> SUFFICES ASSUME NEW f \in File, NEW k \in 0..3, NEW d \in 0..k,
                      NEW q \in 0..(Width(k, d) - 1), Val(N2, m2, f, k, d, q) # 0
               PROVE  free2[Val(N2, m2, f, k, d, q)] = 0
    BY DEF Taken
  <2> DEFINE c == Val(N, m, f, k, d, q)
  <2>1. Val(N2, m2, f, k, d, q) = c /\ <<f, k, d, q>> \notin Z /\ c # 0
    BY DEF Dropped, Cleared
  <2>2. c \in Block
    BY <2>1, ValWord DEF Good
  <2>3. free[c] = 0
    BY <2>1 DEF Good, Taken
  <2>4. ~ InZone(N, m, Z, c)
    <3> SUFFICES ASSUME NEW g \in File, NEW j \in 0..3, NEW e \in 0..j,
                        NEW p \in 0..(Width(j, e) - 1), <<g, j, e, p>> \in Z,
                        Val(N, m, g, j, e, p) = c
                 PROVE  FALSE
      BY DEF InZone
    <3>1. Apart(N, m)
      BY DEF Good
    <3>2. f = g /\ k = j /\ d = e /\ q = p
      BY <2>1, <3>1 DEF Apart
    <3> QED
      BY <2>1, <3>2
  <2> HIDE DEF c
  <2>5. free2[c] # 1
    BY <2>2, <2>3, <2>4 DEF Dropped
  <2>6. free2[c] \in 0..1
    BY <1>1, <2>2 DEF Typed
  <2> QED
    BY <2>1, <2>5, <2>6
<1> QED
  BY <1>1, <1>2, <1>3 DEF Good

LEMMA DroppedFull ==
    ASSUME NEW N, NEW m, NEW free, NEW N2, NEW m2, NEW free2, NEW Z, NEW strict, strict,
           Full(N, m, free, {}), Dropped(N, m, free, N2, m2, free2, Z, strict)
    PROVE  Full(N2, m2, free2, {})
<1> SUFFICES ASSUME NEW c \in Block, free2[c] # 1
             PROVE  \E f \in File : \E k \in 0..3 : \E d \in 0..k : \E q \in 0..(Width(k, d) - 1) :
                        Val(N2, m2, f, k, d, q) = c
  BY DEF Full
<1>1. free[c] # 1 /\ ~ InZone(N, m, Z, c)
  BY DEF Dropped
<1>2. PICK f \in File : \E k \in 0..3 : \E d \in 0..k : \E q \in 0..(Width(k, d) - 1) :
          Val(N, m, f, k, d, q) = c
  BY <1>1 DEF Full
<1>3. PICK k \in 0..3 : \E d \in 0..k : \E q \in 0..(Width(k, d) - 1) :
          Val(N, m, f, k, d, q) = c
  BY <1>2
<1>4. PICK d \in 0..k : \E q \in 0..(Width(k, d) - 1) : Val(N, m, f, k, d, q) = c
  BY <1>3
<1>5. PICK q \in 0..(Width(k, d) - 1) : Val(N, m, f, k, d, q) = c
  BY <1>4
<1>6. <<f, k, d, q>> \notin Z
  BY <1>1, <1>5 DEF InZone
<1>7. Val(N2, m2, f, k, d, q) = c
  BY <1>5, <1>6 DEF Dropped, Cleared
<1> QED
  BY <1>7

\* The places in Z lie behind the first s blocks of file f.
Behind(Z, f, s) ==
    \A g \in File : \A k \in 0..3 : \A d \in 0..k : \A q \in 0..(Width(k, d) - 1) :
        <<g, k, d, q>> \in Z => g = f /\ First(k, d, q) >= s

\* File f keeps its first s blocks.
Keeps(dat, dat2, f, s) ==
    /\ \A g \in File : g # f => dat2[g] = dat[g]
    /\ Len(dat2[f]) = s
    /\ \A l \in 1..s : dat2[f][l] = dat[f][l]

\* File f is cut down to its first blocks.
LEMMA DroppedSettled ==
    ASSUME NEW N, NEW m, NEW free, NEW N2, NEW m2, NEW free2, NEW Z, NEW strict,
           NEW dat, Fits(dat), NEW f \in File, NEW s \in Nat, s <= Len(dat[f]),
           Settled(N, m, free, dat, {}, strict),
           Dropped(N, m, free, N2, m2, free2, Z, strict),
           Behind(Z, f, s), Ends(N2, m2, f, s, strict, 0, -1),
           NEW dat2, Keeps(dat, dat2, f, s)
    PROVE  Settled(N2, m2, free2, dat2, {}, strict)
<1>0. Good(N, m, free) /\ \A g \in File : dat[g] \in Seq(Block) /\ Len(dat[g]) \in Nat
  BY LenProperties DEF Settled, Fits
<1>a. /\ \A g \in File : g # f => dat2[g] = dat[g]
      /\ Len(dat2[f]) = s
      /\ \A l \in 1..s : dat2[f][l] = dat[f][l]
  BY DEF Keeps
<1>1. Good(N2, m2, free2)
  BY <1>0, DroppedGood
<1>2. strict => Full(N2, m2, free2, {})
  <2> SUFFICES ASSUME strict PROVE Full(N2, m2, free2, {})
    OBVIOUS
  <2>1. Full(N, m, free, {})
    BY DEF Settled
  <2> QED
    BY <2>1, DroppedFull
<1>3. ASSUME NEW g \in File PROVE Mapped(N2, m2, g, dat2[g]) /\ Ends(N2, m2, g, Len(dat2[g]), strict, 0, -1)
  <2>1. Mapped(N, m, g, dat[g]) /\ Ends(N, m, g, Len(dat[g]), strict, 0, -1)
    BY DEF Settled
  <2>2. CASE g = f
    <3>1. Mapped(N2, m2, f, dat2[f])
      <4> SUFFICES ASSUME NEW l \in 0..(Len(dat2[f]) - 1)
                   PROVE  DataAt(N2, m2, f, l) = dat2[f][l + 1]
        BY DEF Mapped
      <4>1. l \in Nat /\ l < s /\ l < TreeBase(3) + Width(3, 3) /\ l \in 0..(Len(dat[f]) - 1)
            /\ l + 1 \in 1..s
        BY <1>0, <1>a, Limit DEF Fits
      <4> DEFINE k == TreeOf(l)
                 q == l - TreeBase(k)
      <4>2. k \in 0..3 /\ k \in 0..k /\ q \in 0..(Width(k, k) - 1) /\ First(k, k, q) = l
        BY <4>1, DataPlace
      <4>3. DataAt(N2, m2, f, l) = Val(N2, m2, f, k, k, q) /\ DataAt(N, m, f, l) = Val(N, m, f, k, k, q)
        BY DEF DataAt
      <4> HIDE DEF k, q
      <4>4. <<f, k, k, q>> \notin Z
        BY <4>1, <4>2 DEF Behind
      <4>5. Val(N2, m2, f, k, k, q) = Val(N, m, f, k, k, q)
        BY <4>2, <4>4 DEF Dropped, Cleared
      <4>6. DataAt(N, m, f, l) = dat[f][l + 1]
        BY <2>1, <2>2, <4>1 DEF Mapped
      <4> QED
        BY <1>a, <4>1, <4>3, <4>5, <4>6
    <3> QED
      BY <1>a, <2>1, <2>2, <3>1
  <2>3. CASE g # f
    <3>1. \A k \in 0..3 : \A d \in 0..k : \A q \in 0..(Width(k, d) - 1) :
             Val(N2, m2, g, k, d, q) = Val(N, m, g, k, d, q)
      <4> TAKE k \in 0..3
      <4> TAKE d \in 0..k
      <4> TAKE q \in 0..(Width(k, d) - 1)
      <4>1. <<g, k, d, q>> \notin Z
        BY <2>3 DEF Behind
      <4> QED
        BY <4>1 DEF Dropped, Cleared
    <3>2. dat2[g] = dat[g]
      BY <1>a, <2>3
    <3>3. Ends(N2, m2, g, Len(dat[g]), strict, 0, -1)
      BY <2>1, <3>1 DEF Ends
    <3>4. Mapped(N2, m2, g, dat[g])
      <4> SUFFICES ASSUME NEW l \in 0..(Len(dat[g]) - 1)
                   PROVE  DataAt(N2, m2, g, l) = dat[g][l + 1]
        BY DEF Mapped
      <4>1. l \in Nat /\ l < TreeBase(3) + Width(3, 3)
        BY <1>0, Limit DEF Fits
      <4>2. DataAt(N2, m2, g, l) = DataAt(N, m, g, l)
        BY <3>1, <4>1, DataPlace DEF DataAt
      <4> QED
        BY <2>1, <4>2 DEF Mapped
    <3> QED
      BY <3>2, <3>3, <3>4
  <2> QED
    BY <2>2, <2>3
<1> QED
  BY <1>1, <1>2, <1>3 DEF Settled

-----------------------------------------------------------------------------
(* Deletion *)

\* All places of a file.
FileZone(f) == {f} \X (0..3) \X (0..3) \X Nat

LEMMA EmptyNodeCleared ==
    ASSUME NEW N \in [File -> Node], NEW m, NEW f \in File
    PROVE  /\ EmptyNode \in Node
           /\ [N EXCEPT ![f] = EmptyNode] \in [File -> Node]
           /\ Cleared(N, m, [N EXCEPT ![f] = EmptyNode], m, FileZone(f))
<1> DEFINE N2 == [N EXCEPT ![f] = EmptyNode]
<1>1. /\ EmptyNode \in Node
      /\ \A q \in 0..(D - 1) : EmptyNode.i_direct_blocks[q] = 0
      /\ \A k \in 1..3 : EmptyNode.i_indirect[k] = 0
  BY Constants DEF EmptyNode, Node, Level
<1>2. N2 \in [File -> Node] /\ N2[f] = EmptyNode /\ \A g \in File : g # f => N2[g] = N[g]
  BY <1>1
<1> HIDE DEF N2
<1>3. Cleared(N, m, N2, m, FileZone(f))
  <2> SUFFICES ASSUME NEW g \in File, NEW k \in 0..3, NEW d \in 0..k,
                      NEW q \in 0..(Width(k, d) - 1)
               PROVE  Val(N2, m, g, k, d, q) =
                        IF <<g, k, d, q>> \in FileZone(f) THEN 0 ELSE Val(N, m, g, k, d, q)
    BY DEF Cleared
  <2>1. d \in 0..3 /\ q \in Nat
    <3>1. Width(k, d) \in Nat
      BY Bases
    <3> QED
      BY <3>1
  <2>2. CASE g # f
    <3>1. <<g, k, d, q>> \notin FileZone(f)
      BY <2>2 DEF FileZone
    <3>2. N2[g] = N[g]
      BY <1>2, <2>2
    <3> QED
      BY <3>1, <3>2 DEF Val
  <2>3. CASE g = f
    <3>1. <<g, k, d, q>> \in FileZone(f)
      BY <2>1, <2>3 DEF FileZone
    <3>2. Val(N2, m, g, k, d, q) = 0
      <4>1. CASE k = 0
        <5>1. q \in 0..(D - 1)
          BY <4>1 DEF Width
        <5> QED
          BY <1>1, <1>2, <2>3, <4>1, <5>1 DEF Val
      <4>2. CASE k # 0
        <5>1. k \in 1..3
          BY <4>2
        <5>2. N2[g].i_indirect[k] = 0
          BY <1>1, <1>2, <2>3, <5>1
        <5>3. Val(N2, m, g, k, d, q) = Below(m, 0, d, q)
          BY <4>2, <5>2 DEF Val
        <5> QED
          BY <5>3, Hollow
      <4> QED
        BY <4>1, <4>2
    <3> QED
      BY <3>1, <3>2
  <2> QED
    BY <2>2, <2>3
<1> QED
  BY <1>1, <1>2, <1>3 DEF N2

\* The blocks freed with an inode are different.
LEMMA FootprintApart ==
    ASSUME NEW N, NEW m, Apart(N, m), NEW f \in File,
           NEW F, F = Footprint(N[f], m),
           NEW x \in DOMAIN F, NEW y \in DOMAIN F, F[x] = F[y]
    PROVE  x = y
<1>1. FileFreed(N, m, f, F)
  BY FootprintPlaces
<1>2. PICK k \in 0..3 : \E d \in 0..k : \E q \in 0..(Width(k, d) - 1) :
          x = <<k, d, q>> /\ F[x] = Val(N, m, f, k, d, q) /\ F[x] # 0
  BY <1>1 DEF FileFreed
<1>3. PICK d \in 0..k : \E q \in 0..(Width(k, d) - 1) :
          x = <<k, d, q>> /\ F[x] = Val(N, m, f, k, d, q) /\ F[x] # 0
  BY <1>2
<1>4. PICK q \in 0..(Width(k, d) - 1) :
          x = <<k, d, q>> /\ F[x] = Val(N, m, f, k, d, q) /\ F[x] # 0
  BY <1>3
<1>5. PICK j \in 0..3 : \E e \in 0..j : \E p \in 0..(Width(j, e) - 1) :
          y = <<j, e, p>> /\ F[y] = Val(N, m, f, j, e, p) /\ F[y] # 0
  BY <1>1 DEF FileFreed
<1>6. PICK e \in 0..j : \E p \in 0..(Width(j, e) - 1) :
          y = <<j, e, p>> /\ F[y] = Val(N, m, f, j, e, p) /\ F[y] # 0
  BY <1>5
<1>7. PICK p \in 0..(Width(j, e) - 1) :
          y = <<j, e, p>> /\ F[y] = Val(N, m, f, j, e, p) /\ F[y] # 0
  BY <1>6
<1>8. Val(N, m, f, k, d, q) # 0 /\ Val(N, m, f, k, d, q) = Val(N, m, f, j, e, p)
  BY <1>4, <1>7
<1>9. k = j /\ d = e /\ q = p
  BY <1>8 DEF Apart
<1> QED
  BY <1>4, <1>7, <1>9

\* Every block that is at a place of a file is freed with it, and no other.
LEMMA FootprintHeld ==
    ASSUME NEW N, NEW m, NEW f \in File, NEW F, F = Footprint(N[f], m)
    PROVE  /\ \A x \in DOMAIN F : F[x] # 0 /\ InZone(N, m, FileZone(f), F[x])
           /\ \A k \in 0..3 : Dense(N, m, f, k) =>
                 \A d \in 0..k : \A q \in 0..(Width(k, d) - 1) :
                     Val(N, m, f, k, d, q) # 0 =>
                         \E x \in DOMAIN F : F[x] = Val(N, m, f, k, d, q)
<1>1. FileFreed(N, m, f, F)
  BY FootprintPlaces
<1>2. ASSUME NEW x \in DOMAIN F PROVE F[x] # 0 /\ InZone(N, m, FileZone(f), F[x])
  <2>1. PICK k \in 0..3 : \E d \in 0..k : \E q \in 0..(Width(k, d) - 1) :
            x = <<k, d, q>> /\ F[x] = Val(N, m, f, k, d, q) /\ F[x] # 0
    BY <1>1 DEF FileFreed
  <2>2. PICK d \in 0..k : \E q \in 0..(Width(k, d) - 1) :
            x = <<k, d, q>> /\ F[x] = Val(N, m, f, k, d, q) /\ F[x] # 0
    BY <2>1
  <2>3. PICK q \in 0..(Width(k, d) - 1) :
            x = <<k, d, q>> /\ F[x] = Val(N, m, f, k, d, q) /\ F[x] # 0
    BY <2>2
  <2>4. d \in 0..3 /\ q \in Nat
    <3>1. Width(k, d) \in Nat
      BY Bases
    <3> QED
      BY <3>1
  <2>5. <<f, k, d, q>> \in FileZone(f)
    BY <2>4 DEF FileZone
  <2> QED
    BY <2>3, <2>5 DEF InZone
<1>3. ASSUME NEW k \in 0..3, Dense(N, m, f, k), NEW d \in 0..k, NEW q \in 0..(Width(k, d) - 1),
             Val(N, m, f, k, d, q) # 0
      PROVE  \E x \in DOMAIN F : F[x] = Val(N, m, f, k, d, q)
  <2> DEFINE x == <<k, d, q>>
  <2>1. x \in DOMAIN F
    BY <1>1, <1>3 DEF FileFreed
  <2>2. PICK j \in 0..3 : \E e \in 0..j : \E p \in 0..(Width(j, e) - 1) :
            x = <<j, e, p>> /\ F[x] = Val(N, m, f, j, e, p)
    BY <1>1, <2>1 DEF FileFreed
  <2>3. F[x] = Val(N, m, f, k, d, q)
    BY <2>2
  <2> QED
    BY <2>1, <2>3
<1> QED
  BY <1>2, <1>3

LEMMA FreeStep ==
    ASSUME IInv, NEW f \in File, free_inode(f)
    PROVE  IInv'
<1> DEFINE F == Footprint(node[f], mem)
           Z == FileZone(f)
           strict == ~ failed
<1>1. /\ listed' = Freed(listed, F)
      /\ node' = [node EXCEPT ![f] = EmptyNode]
      /\ data' = [data EXCEPT ![f] = << >>]
      /\ mem' = mem /\ failed' = failed
  BY DEF free_inode
<1>2. /\ Settled(node, mem, listed, data, {}, ~ failed)
      /\ data \in [File -> Seq(Block)] /\ failed \in BOOLEAN
  BY DEF IInv
<1>3. /\ node \in [File -> Node] /\ mem \in [Block -> [Position -> Word]]
      /\ Good(node, mem, listed) /\ Apart(node, mem)
  BY <1>2 DEF Settled, Good, Typed
<1>4. /\ EmptyNode \in Node /\ node' \in [File -> Node]
      /\ Cleared(node, mem, node', mem', Z)
  BY <1>1, <1>3, EmptyNodeCleared
<1> HIDE DEF F
<1>5. \A x, y \in DOMAIN F : F[x] = F[y] => x = y
  <2> SUFFICES ASSUME NEW x \in DOMAIN F, NEW y \in DOMAIN F, F[x] = F[y]
               PROVE  x = y
    OBVIOUS
  <2>1. F = Footprint(node[f], mem)
    BY DEF F
  <2>2. Apart(node, mem)
    BY <1>3
  <2> QED
    BY <2>1, <2>2, FootprintApart
<1>6. \A x \in DOMAIN F : F[x] # 0 /\ InZone(node, mem, Z, F[x])
  BY FootprintHeld DEF F
<1>7. ASSUME strict, NEW c \in Block, InZone(node, mem, Z, c) PROVE \E x \in DOMAIN F : F[x] = c
  <2>1. PICK g \in File : \E k \in 0..3 : \E d \in 0..k : \E q \in 0..(Width(k, d) - 1) :
            <<g, k, d, q>> \in Z /\ Val(node, mem, g, k, d, q) = c
    BY <1>7 DEF InZone
  <2>2. PICK k \in 0..3 : \E d \in 0..k : \E q \in 0..(Width(k, d) - 1) :
            <<g, k, d, q>> \in Z /\ Val(node, mem, g, k, d, q) = c
    BY <2>1
  <2>3. PICK d \in 0..k : \E q \in 0..(Width(k, d) - 1) :
            <<g, k, d, q>> \in Z /\ Val(node, mem, g, k, d, q) = c
    BY <2>2
  <2>4. PICK q \in 0..(Width(k, d) - 1) : <<g, k, d, q>> \in Z /\ Val(node, mem, g, k, d, q) = c
    BY <2>3
  <2>5. g = f /\ c # 0
    BY <2>4, Constants DEF FileZone
  <2>6. Mapped(node, mem, f, data[f]) /\ Ends(node, mem, f, Len(data[f]), strict, 0, -1)
    BY <1>2 DEF Settled
  <2>7. Ends(node, mem, f, Len(data[f]), TRUE, 0, -1)
    BY <1>7, <2>6 DEF Ends
  <2>8. data[f] \in Seq(Block)
    BY <1>2
  <2>9. Dense(node, mem, f, k)
    BY <2>6, <2>7, <2>8, FileDense
  <2>10. Val(node, mem, f, k, d, q) # 0
    BY <2>4, <2>5
  <2> QED
    BY <2>4, <2>5, <2>9, <2>10, FootprintHeld DEF F
<1>8. Dropped(node, mem, listed, node', mem', listed', Z, strict)
  <2>1. mem' \in [Block -> [Position -> Word]]
    BY <1>1, <1>3
  <2> HIDE DEF Z, strict
  <2> QED
    BY <1>1, <1>3, <1>4, <1>5, <1>6, <1>7, <2>1, FreedDropped
<1>9. Fits(data)
  BY CountsFit
<1>10. Behind(Z, f, 0)
  BY FirstRange DEF Behind, FileZone
<1>11. Ends(node', mem', f, 0, strict, 0, -1)
  <2> SUFFICES ASSUME NEW j \in 0..3, NEW e \in 0..j, NEW q \in 0..(Width(j, e) - 1)
               PROVE  Val(node', mem', f, j, e, q) = 0
    BY DEF Ends
  <2>1. e \in 0..3 /\ q \in Nat
    <3>1. Width(j, e) \in Nat
      BY Bases
    <3> QED
      BY <3>1
  <2>2. <<f, j, e, q>> \in Z
    BY <2>1 DEF FileZone
  <2> QED
    BY <1>4, <2>2 DEF Cleared
<1>12. /\ \A g \in File : g # f => data'[g] = data[g]
       /\ data'[f] = << >> /\ Len(data'[f]) = 0
       /\ data' \in [File -> Seq(Block)]
  BY <1>1, <1>2
<1>13. Settled(node', mem', listed', data', {}, strict)
  <2>1. 0 \in Nat /\ 0 <= Len(data[f])
    BY CountsFit
  <2>2. Keeps(data, data', f, 0)
    BY <1>12 DEF Keeps
  <2> HIDE DEF Z, strict
  <2>3. Settled(node, mem, listed, data, {}, strict)
    BY <1>2 DEF strict
  <2> QED
    BY <1>8, <1>9, <1>10, <1>11, <2>1, <2>2, <2>3, DroppedSettled
<1>14. Counts'
  <2> SUFFICES ASSUME NEW g \in File
               PROVE  node'[g].i_blocks_num = Len(data'[g]) /\ Len(data'[g]) <= SizeLimit[g]
    BY DEF Counts
  <2>1. CASE g = f
    <3>1. node'[g].i_blocks_num = 0
      BY <1>1, <1>3, <2>1 DEF EmptyNode
    <3>2. SizeLimit[g] \in Nat
      BY CountsFit
    <3> QED
      BY <1>12, <2>1, <3>1, <3>2
  <2>2. CASE g # f
    <3>1. node'[g] = node[g]
      BY <1>1, <1>3, <2>2
    <3> QED
      BY <1>12, <2>2, <3>1 DEF IInv, Counts
  <2> QED
    BY <2>1, <2>2
<1> QED
  BY <1>1, <1>2, <1>12, <1>13, <1>14 DEF IInv

-----------------------------------------------------------------------------
(* Truncation: clearing entries and dropping trees *)

\* The state of a truncation under way.
State == [node : Node, mem : [Block -> [Position -> Word]], free : [Block -> 0..1],
          ok : BOOLEAN, left : Int, done : BOOLEAN]

\* A truncation of file f that has dropped the places in Z.
Cut(N, m, free, f, st, Z, strict) ==
    /\ st \in State
    /\ st.ok = TRUE
    /\ Dropped(N, m, free, [N EXCEPT ![f] = st.node], st.mem, st.free, Z, strict)

\* Entries from..to-1 of the p-th index block above the data blocks of tree k.
LeafZone(f, k, p, from, to) == {<<f, k, k, p * A + i>> : i \in from..(to - 1)}

LEMMA LeafIndex ==
    ASSUME NEW k \in 1..3, NEW p \in 0..(Width(k, k - 1) - 1), NEW i \in Position
    PROVE  /\ k \in 0..3 /\ k - 1 \in 0..k /\ k \in 1..k /\ k \in 0..k /\ p \in Nat /\ p * A \in Nat
           /\ p * A + i \in 0..(Width(k, k) - 1)
           /\ (p * A + i) \div A = p
           /\ (p * A + i) % A = i
           /\ First(k, k, p * A + i) = TreeBase(k) + p * A + i
<1>1. k \in 0..3 /\ k - 1 \in 0..k /\ k \in 1..k /\ k \in 0..k /\ k - 1 \in 0..3 /\ k # 0
  OBVIOUS
<1>2. /\ Width(k, k) = Span(k) /\ Width(k, k - 1) = Span(k - 1)
      /\ Span(k - 1) \in Nat /\ Span(k) = Span(k - 1) * A /\ Span(k) \in Nat
  BY <1>1, Spans DEF Width
<1>3. p \in Nat /\ p < Span(k - 1) /\ i \in 0..(A - 1) /\ i \in Nat /\ p * A \in Nat
  BY <1>2, Constants DEF Position
<1>4. p * A + A <= Span(k - 1) * A
  BY <1>2, <1>3, Constants, MultiplesApart
<1>5. p * A + i \in 0..(Width(k, k) - 1)
  BY <1>2, <1>3, <1>4, Constants
<1>6. (p * A + i) \div A = p /\ (p * A + i) % A = i
  BY <1>3, Constants, DivUnique
<1>7. First(k, k, p * A + i) = TreeBase(k) + (p * A + i)
  BY <1>1, <1>5, FirstRange
<1>8. TreeBase(k) \in Nat
  BY <1>1, Bases
<1> QED
  BY <1>1, <1>3, <1>5, <1>6, <1>7, <1>8

\* The words of block c with entries from..to-1 cleared.
Wiped(m, c, from, to) ==
    [m EXCEPT ![c] = [i \in Position |-> IF i \in from..(to - 1) THEN 0 ELSE @[i]]]

LEMMA LeafCleared ==
    ASSUME NEW N, NEW m, NEW free, Good(N, m, free), NEW f \in File, NEW k \in 1..3,
           NEW p \in 0..(Width(k, k - 1) - 1), NEW from \in Nat, NEW to \in 0..A,
           NEW c, c = Val(N, m, f, k, k - 1, p), c # 0
    PROVE  /\ c \in Block
           /\ Wiped(m, c, from, to) \in [Block -> [Position -> Word]]
           /\ Cleared(N, m, N, Wiped(m, c, from, to), LeafZone(f, k, p, from, to))
<1> DEFINE m2 == Wiped(m, c, from, to)
           Z == LeafZone(f, k, p, from, to)
<1>0. k \in 0..3 /\ k - 1 \in 0..k /\ k \in 1..k /\ k \in 0..k /\ p \in Nat
  <2>1. Width(k, k - 1) \in Nat
    BY Bases
  <2> QED
    BY <2>1
<1>1. c \in Block
  BY <1>0, ValWord DEF Good
<1>2. /\ m2 \in [Block -> [Position -> Word]]
      /\ \A x \in Block : x # c => m2[x] = m[x]
      /\ \A i \in Position : m2[c][i] = IF i \in from..(to - 1) THEN 0 ELSE m[c][i]
  BY <1>1, Constants DEF Good, Typed, Wiped
<1> HIDE DEF m2
<1>3. ASSUME NEW i \in from..(to - 1) PROVE i \in Position
  BY Constants DEF Position
<1>4. ASSUME NEW g, NEW j, NEW e, NEW q, <<g, j, e, q>> \in Z
      PROVE  g = f /\ j = k /\ e = k /\ \E i \in from..(to - 1) : q = p * A + i
  BY <1>4 DEF LeafZone
<1>5. Closed(Z)
  <2> SUFFICES ASSUME NEW g \in File, NEW j \in 1..3, NEW e \in 1..j,
                      NEW q \in 0..(Width(j, e) - 1), <<g, j, e - 1, q \div A>> \in Z
               PROVE  FALSE
    BY DEF Closed
  <2>1. j = k /\ e - 1 = k
    BY <1>4
  <2> QED
    BY <2>1
<1>6. SameInodes(N, N, Z)
  BY DEF SameInodes
<1>7. SameWords(N, m, m2, Z)
  <2> SUFFICES ASSUME NEW g \in File, NEW j \in 1..3, NEW e \in 1..j,
                      NEW q \in 0..(Width(j, e) - 1), <<g, j, e, q>> \notin Z,
                      Val(N, m, g, j, e - 1, q \div A) # 0
               PROVE  m2[Val(N, m, g, j, e - 1, q \div A)][q % A]
                         = m[Val(N, m, g, j, e - 1, q \div A)][q % A]
    BY DEF SameWords
  <2> DEFINE v == Val(N, m, g, j, e - 1, q \div A)
  <2>1. /\ j \in 0..3 /\ e - 1 \in 0..j
        /\ q \div A \in 0..(Width(j, e - 1) - 1) /\ q % A \in Position
        /\ q = (q \div A) * A + (q % A)
    BY Parent
  <2>2. v \in Block
    BY <2>1, ValWord DEF Good
  <2>3. ASSUME v = c, q % A \in from..(to - 1) PROVE FALSE
    <3>1. g = f /\ j = k /\ e - 1 = k - 1 /\ q \div A = p
      BY <1>0, <2>1, <2>3 DEF Good, Apart
    <3>2. e = k
      BY <3>1
    <3>3. q = p * A + (q % A)
      BY <2>1, <3>1
    <3>4. <<g, j, e, q>> \in Z
      BY <2>3, <3>1, <3>2, <3>3 DEF LeafZone
    <3> QED
      BY <3>4
  <2> HIDE DEF v
  <2>4. m2[v][q % A] = m[v][q % A]
    BY <1>2, <2>1, <2>2, <2>3
  <2> QED
    BY <2>4 DEF v
<1> HIDE DEF Z
<1>8. SameOutside(N, m, N, m2, Z)
  BY <1>5, <1>6, <1>7, Frame
<1>9. Cleared(N, m, N, m2, Z)
  <2> SUFFICES ASSUME NEW g \in File, NEW j \in 0..3, NEW e \in 0..j,
                      NEW q \in 0..(Width(j, e) - 1)
               PROVE  Val(N, m2, g, j, e, q) =
                        IF <<g, j, e, q>> \in Z THEN 0 ELSE Val(N, m, g, j, e, q)
    BY DEF Cleared
  <2>1. CASE <<g, j, e, q>> \notin Z
    BY <1>8, <2>1 DEF SameOutside
  <2>2. CASE <<g, j, e, q>> \in Z
    <3>1. /\ g = f /\ j = k /\ e = k
          /\ \E i \in from..(to - 1) : q = p * A + i
      BY <1>4, <2>2
    <3>2. PICK i \in from..(to - 1) : q = p * A + i
      BY <3>1
    <3>3. i \in Position
      BY <1>3
    <3>4. q \div A = p /\ q % A = i
      BY <3>2, <3>3, LeafIndex
    <3>5. <<f, k, k - 1, p>> \notin Z
      <4>1. k - 1 # k
        OBVIOUS
      <4> QED
        BY <1>4, <4>1
    <3>6. Val(N, m2, f, k, k - 1, p) = c
      BY <1>0, <1>8, <3>5 DEF SameOutside
    <3>7. Val(N, m2, f, k, k, q) = Entry(m2, Val(N, m2, f, k, k - 1, q \div A), q % A)
      BY <1>0, ValStep
    <3>8. m2[c][i] = 0
      BY <1>2, <3>3
    <3> QED
      BY <2>2, <3>1, <3>4, <3>6, <3>7, <3>8 DEF Entry
  <2> QED
    BY <2>1, <2>2
<1> QED
  BY <1>1, <1>2, <1>9 DEF m2, Z

\* The blocks in entries from..to-1 of block b.
Entries(m, b, from, to) == [i \in from..(to - 1) |-> m[b][i]]

LEMMA ClearLeafRecord ==
    ASSUME NEW st \in State, NEW b \in Block, NEW from \in Nat, NEW to \in 0..A,
           \A i \in from..(to - 1) : st.mem[b][i] # 0
    PROVE  ClearLeaf(st, b, from, to) =
             [node |-> st.node, mem |-> Wiped(st.mem, b, from, to),
              free |-> Freed(st.free, Entries(st.mem, b, from, to)),
              ok |-> TRUE, left |-> st.left, done |-> st.done]
<1> DEFINE unused == {i \in from..(to - 1) : st.mem[b][i] = 0}
           end == IF unused = {} THEN to ELSE Min(unused)
           fr == Freed(st.free, [i \in from..(end - 1) |-> st.mem[b][i]])
           cleared == [i \in Position |-> IF i \in from..(to - 1) THEN 0 ELSE st.mem[b][i]]
<1>1. unused = {}
  OBVIOUS
<1>2. ClearLeaf(st, b, from, to) =
        [st EXCEPT !.free = fr, !.ok = unused = {},
                   !.mem[b] = IF unused = {} THEN cleared ELSE @]
  BY DEF ClearLeaf, State
<1>3. end = to
  BY <1>1
<1>4. fr = Freed(st.free, Entries(st.mem, b, from, to))
  BY <1>3 DEF Entries
<1> HIDE DEF unused, end, fr, cleared
<1>5. [st.mem EXCEPT ![b] = cleared] = Wiped(st.mem, b, from, to)
  BY DEF Wiped, cleared, State
<1> DEFINE m2 == [st.mem EXCEPT ![b] = cleared]
<1>6. ClearLeaf(st, b, from, to) = [st EXCEPT !.free = fr, !.ok = TRUE, !.mem = m2]
  <2>1. ClearLeaf(st, b, from, to) = [st EXCEPT !.free = fr, !.ok = TRUE, !.mem[b] = cleared]
    BY <1>1, <1>2
  <2> QED
    BY <2>1 DEF State
<1> HIDE DEF m2
<1>7. ClearLeaf(st, b, from, to) =
        [node |-> st.node, mem |-> m2, free |-> fr, ok |-> TRUE,
         left |-> st.left, done |-> st.done]
  BY <1>6 DEF State
<1> QED
  BY <1>4, <1>5, <1>7 DEF m2

LEMMA CutFields ==
    ASSUME NEW st, NEW n \in Node, NEW m \in [Block -> [Position -> Word]],
           NEW free \in [Block -> 0..1], NEW left \in Int, NEW done, done \in BOOLEAN,
           st = [node |-> n, mem |-> m, free |-> free, ok |-> TRUE, left |-> left, done |-> done]
    PROVE  /\ st \in State
           /\ st.node = n /\ st.mem = m /\ st.free = free /\ st.ok = TRUE
           /\ st.left = left /\ st.done = done
BY DEF State

\* The state goes on from st to st2 with other words and another free list.
GoesOn(st, st2, m2, fr) ==
    /\ st2 \in State
    /\ st2.node = st.node /\ st2.mem = m2 /\ st2.free = fr /\ st2.ok = TRUE
    /\ st2.left = st.left /\ st2.done = st.done

\* ClearLeaf when all its entries are used.
LEMMA ClearLeafUsed ==
    ASSUME NEW st \in State, NEW b \in Block, NEW from \in Nat, NEW to \in 0..A,
           NEW sm, sm = st.mem, \A i \in from..(to - 1) : sm[b][i] # 0,
           NEW m2 \in [Block -> [Position -> Word]], m2 = Wiped(sm, b, from, to),
           NEW fr \in [Block -> 0..1], fr = Freed(st.free, Entries(sm, b, from, to)),
           NEW st2, st2 = ClearLeaf(st, b, from, to)
    PROVE  GoesOn(st, st2, m2, fr)
<1> DEFINE n == st.node
           l == st.left
           d == st.done
<1>1. n \in Node /\ l \in Int /\ d \in BOOLEAN
  BY DEF State
<1>2. st2 = [node |-> st.node, mem |-> Wiped(st.mem, b, from, to),
              free |-> Freed(st.free, Entries(st.mem, b, from, to)),
              ok |-> TRUE, left |-> st.left, done |-> st.done]
  <2>1. \A i \in from..(to - 1) : st.mem[b][i] # 0
    OBVIOUS
  <2> QED
    BY <2>1, ClearLeafRecord
<1>3. st2 = [node |-> n, mem |-> m2, free |-> fr, ok |-> TRUE, left |-> l, done |-> d]
  BY <1>2
<1> HIDE DEF n, l, d
<1>4. /\ st2 \in State
      /\ st2.node = n /\ st2.mem = m2 /\ st2.free = fr /\ st2.ok = TRUE
      /\ st2.left = l /\ st2.done = d
  BY <1>1, <1>3 DEF State
<1> QED
  BY <1>4 DEF n, l, d, GoesOn

\* The entries of a leaf are used, and none is in Z.
LeafUsed(N, m, f, k, p, from, to, Z) ==
    \A i \in from..(to - 1) : /\ <<f, k, k, p * A + i>> \notin Z
                              /\ Val(N, m, f, k, k, p * A + i) # 0

LEMMA LeafEntry ==
    ASSUME NEW N, NEW m, NEW f, NEW k \in 1..3, NEW p, NEW i, NEW q, q \div A = p, q % A = i
    PROVE  Val(N, m, f, k, k, q) = Entry(m, Val(N, m, f, k, k - 1, p), i)
<1>1. k \in 1..k
  OBVIOUS
<1> QED
  BY <1>1, ValStep

\* The entries from..to-1 of block b are the data blocks of a leaf.
LeafWords(N, m, f, k, p, from, to, b) ==
    \A i \in from..(to - 1) : /\ i \in Position
                              /\ p * A + i \in 0..(Width(k, k) - 1)
                              /\ Val(N, m, f, k, k, p * A + i) = m[b][i]
                              /\ m[b][i] # 0

LEMMA LeafIsUsed ==
    ASSUME NEW N, NEW m, NEW N2, NEW m2, NEW f \in File, NEW k \in 1..3,
           NEW p \in 0..(Width(k, k - 1) - 1), NEW from \in Nat, NEW to \in 0..A,
           NEW Z, Cleared(N, m, N2, m2, Z), LeafUsed(N, m, f, k, p, from, to, Z),
           NEW b, b = Val(N2, m2, f, k, k - 1, p), b # 0
    PROVE  LeafWords(N2, m2, f, k, p, from, to, b)
<1> SUFFICES ASSUME NEW i \in from..(to - 1)
             PROVE  /\ i \in Position
                    /\ p * A + i \in 0..(Width(k, k) - 1)
                    /\ Val(N2, m2, f, k, k, p * A + i) = m2[b][i]
                    /\ m2[b][i] # 0
  BY DEF LeafWords
<1>1. i \in Position
  BY Constants DEF Position
<1> DEFINE q == p * A + i
<1>2. q \in 0..(Width(k, k) - 1) /\ q \div A = p /\ q % A = i
  BY <1>1, LeafIndex
<1>3. <<f, k, k, q>> \notin Z /\ Val(N, m, f, k, k, q) # 0
  BY DEF LeafUsed
<1> HIDE DEF q
<1>4. Val(N2, m2, f, k, k, q) # 0
  <2>1. k \in 0..3 /\ k \in 0..k
    OBVIOUS
  <2> QED
    BY <1>2, <1>3, <2>1 DEF Cleared
<1>5. Val(N2, m2, f, k, k, q) = Entry(m2, Val(N2, m2, f, k, k - 1, p), i)
  BY <1>2, LeafEntry
<1>6. Val(N2, m2, f, k, k, q) = m2[b][i]
  BY <1>5 DEF Entry
<1> QED
  BY <1>1, <1>2, <1>4, <1>6 DEF q

\* What ClearLeafCut needs.
LeafPlaced(N, m, free, f, k, p, from, to, Z, strict, st, b) ==
    /\ Good(N, m, free)
    /\ f \in File /\ k \in 1..3 /\ p \in 0..(Width(k, k - 1) - 1)
    /\ from \in Nat /\ to \in 0..A
    /\ Cut(N, m, free, f, st, Z, strict)
    /\ b = Val(N, m, f, k, k - 1, p) /\ b # 0
    /\ <<f, k, k - 1, p>> \notin Z
    /\ LeafUsed(N, m, f, k, p, from, to, Z)

\* What ClearLeaf then leaves.
LeafGone(N, m, free, f, k, p, from, to, Z, strict, st, st2) ==
    /\ Cut(N, m, free, f, st2, Z \cup LeafZone(f, k, p, from, to), strict)
    /\ st2.left = st.left /\ st2.done = st.done /\ st2.node = st.node

LEMMA ClearLeafCut ==
    ASSUME NEW N, NEW m, NEW free, NEW f, NEW k, NEW p, NEW from, NEW to, NEW Z, NEW strict,
           NEW st, NEW b, LeafPlaced(N, m, free, f, k, p, from, to, Z, strict, st, b)
    PROVE  LeafGone(N, m, free, f, k, p, from, to, Z, strict, st, ClearLeaf(st, b, from, to))
<1> SUFFICES ASSUME Good(N, m, free),
                    f \in File, k \in 1..3, p \in 0..(Width(k, k - 1) - 1),
                    from \in Nat, to \in 0..A,
                    Cut(N, m, free, f, st, Z, strict),
                    b = Val(N, m, f, k, k - 1, p), b # 0,
                    <<f, k, k - 1, p>> \notin Z,
                    LeafUsed(N, m, f, k, p, from, to, Z),
                    NEW st2, st2 = ClearLeaf(st, b, from, to)
             PROVE  /\ Cut(N, m, free, f, st2, Z \cup LeafZone(f, k, p, from, to), strict)
                    /\ st2.left = st.left /\ st2.done = st.done /\ st2.node = st.node
  BY DEF LeafPlaced, LeafGone
<1> DEFINE N2 == [N EXCEPT ![f] = st.node]
           sm == st.mem
           sf == st.free
           Y == LeafZone(f, k, p, from, to)
           G == Entries(sm, b, from, to)
           m3 == Wiped(sm, b, from, to)
           free3 == Freed(sf, G)
<1>0. /\ k \in 0..3 /\ k - 1 \in 0..k /\ k \in 1..k /\ k \in 0..k /\ k # 0
      /\ st \in State /\ st.ok = TRUE
  BY DEF Cut
<1>a. Dropped(N, m, free, N2, sm, sf, Z, strict)
  BY DEF Cut
<1> HIDE DEF N2, sm, sf
<1>1. Good(N2, sm, sf)
  BY <1>a, DroppedGood
<1>2. N2 \in [File -> Node] /\ sm \in [Block -> [Position -> Word]]
  BY <1>1 DEF Good, Typed
<1>3. b = Val(N2, sm, f, k, k - 1, p)
  BY <1>0, <1>a DEF Dropped, Cleared
<1>4. /\ b \in Block /\ m3 \in [Block -> [Position -> Word]]
      /\ Cleared(N2, sm, N2, m3, Y)
  BY <1>1, <1>3, LeafCleared
<1>b. Cleared(N, m, N2, sm, Z)
  BY <1>a DEF Dropped
<1>c. LeafWords(N2, sm, f, k, p, from, to, b)
  BY <1>3, <1>b, LeafIsUsed
<1>5. \A i \in from..(to - 1) :
             /\ i \in Position
             /\ p * A + i \in 0..(Width(k, k) - 1)
             /\ Val(N2, sm, f, k, k, p * A + i) = sm[b][i]
             /\ sm[b][i] # 0
  BY <1>c DEF LeafWords
<1>7. ASSUME NEW x \in DOMAIN G PROVE G[x] # 0 /\ InZone(N2, sm, Y, G[x])
  <2>1. x \in from..(to - 1) /\ G[x] = sm[b][x]
    BY <1>7 DEF Entries
  <2>2. <<f, k, k, p * A + x>> \in Y
    BY <2>1 DEF LeafZone
  <2> HIDE DEF Y, G
  <2> QED
    BY <1>0, <1>5, <2>1, <2>2 DEF InZone
<1>8. ASSUME NEW x \in DOMAIN G, NEW y \in DOMAIN G, G[x] = G[y] PROVE x = y
  <2>1. /\ x \in from..(to - 1) /\ y \in from..(to - 1)
        /\ G[x] = sm[b][x] /\ G[y] = sm[b][y]
    BY <1>8 DEF Entries
  <2>2. /\ p * A + x \in 0..(Width(k, k) - 1) /\ p * A + y \in 0..(Width(k, k) - 1)
        /\ Val(N2, sm, f, k, k, p * A + x) # 0
        /\ Val(N2, sm, f, k, k, p * A + x) = Val(N2, sm, f, k, k, p * A + y)
    BY <1>5, <1>8, <2>1
  <2>3. p * A + x = p * A + y
    BY <1>0, <1>1, <2>2 DEF Good, Apart
  <2>4. x \in Nat /\ y \in Nat /\ p * A \in Nat
    BY <1>5, <2>1, LeafIndex
  <2> QED
    BY <2>3, <2>4
<1>9. ASSUME NEW c \in Block, InZone(N2, sm, Y, c) PROVE \E x \in DOMAIN G : G[x] = c
  <2>1. PICK g \in File : \E j \in 0..3 : \E d \in 0..j : \E q \in 0..(Width(j, d) - 1) :
            <<g, j, d, q>> \in Y /\ Val(N2, sm, g, j, d, q) = c
    BY <1>9 DEF InZone
  <2>2. PICK j \in 0..3 : \E d \in 0..j : \E q \in 0..(Width(j, d) - 1) :
            <<g, j, d, q>> \in Y /\ Val(N2, sm, g, j, d, q) = c
    BY <2>1
  <2>3. PICK d \in 0..j : \E q \in 0..(Width(j, d) - 1) :
            <<g, j, d, q>> \in Y /\ Val(N2, sm, g, j, d, q) = c
    BY <2>2
  <2>4. PICK q \in 0..(Width(j, d) - 1) :
            <<g, j, d, q>> \in Y /\ Val(N2, sm, g, j, d, q) = c
    BY <2>3
  <2>5. PICK i \in from..(to - 1) : <<g, j, d, q>> = <<f, k, k, p * A + i>>
    BY <2>4 DEF LeafZone
  <2>6. c = sm[b][i]
    BY <1>5, <2>4, <2>5
  <2> QED
    BY <2>5, <2>6 DEF Entries
<1> HIDE DEF G, m3, Y
<1>10. Dropped(N2, sm, sf, N2, m3, free3, Y, strict)
  BY <1>1, <1>2, <1>4, <1>7, <1>8, <1>9, FreedDropped
<1> HIDE DEF free3
<1>11. Dropped(N, m, free, N2, m3, free3, Z \cup Y, strict)
  <2>1. Typed(N2, sm, sf)
    BY <1>1 DEF Good
  <2> QED
    BY <1>a, <1>10, <2>1, DroppedTrans
<1>12. free3 \in [Block -> 0..1]
  BY <1>10 DEF Dropped, Typed
<1>13. GoesOn(st, st2, m3, free3)
  <2>1. \A i \in from..(to - 1) : sm[b][i] # 0
    BY <1>5
  <2>2. /\ st \in State /\ b \in Block /\ sm = st.mem
        /\ m3 \in [Block -> [Position -> Word]] /\ m3 = Wiped(sm, b, from, to)
        /\ free3 = Freed(st.free, Entries(sm, b, from, to))
    BY <1>0, <1>4 DEF sm, m3, free3, sf, G
  <2> QED
    BY <1>12, <2>1, <2>2, ClearLeafUsed
<1>14. N2 = [N EXCEPT ![f] = st2.node]
  BY <1>13 DEF N2, GoesOn
<1> QED
  BY <1>11, <1>13, <1>14 DEF Cut, Y, GoesOn

\* All places of a tree.
TreeZone(f, k) == {f} \X {k} \X (0..3) \X Nat

\* The inode without tree k.
Rootless(n, k) == [n EXCEPT !.i_indirect[k] = 0]

LEMMA TreeCleared ==
    ASSUME NEW N \in [File -> Node], NEW m, NEW f \in File, NEW k \in 1..3,
           NEW n2, n2 = Rootless(N[f], k), NEW N2, N2 = [N EXCEPT ![f] = n2]
    PROVE  /\ n2 \in Node
           /\ N2 \in [File -> Node]
           /\ Cleared(N, m, N2, m, TreeZone(f, k))
<1>1. /\ n2 \in Node
      /\ n2.i_direct_blocks = N[f].i_direct_blocks
      /\ n2.i_indirect[k] = 0
      /\ \A j \in 1..3 : j # k => n2.i_indirect[j] = N[f].i_indirect[j]
  BY Constants DEF Rootless, Node, Level
<1>2. N2 \in [File -> Node] /\ N2[f] = n2 /\ \A g \in File : g # f => N2[g] = N[g]
  BY <1>1
<1>3. Cleared(N, m, N2, m, TreeZone(f, k))
  <2> SUFFICES ASSUME NEW g \in File, NEW j \in 0..3, NEW d \in 0..j,
                      NEW q \in 0..(Width(j, d) - 1)
               PROVE  Val(N2, m, g, j, d, q) =
                        IF <<g, j, d, q>> \in TreeZone(f, k) THEN 0 ELSE Val(N, m, g, j, d, q)
    BY DEF Cleared
  <2>1. d \in 0..3 /\ q \in Nat
    <3>1. Width(j, d) \in Nat
      BY Bases
    <3> QED
      BY <3>1
  <2>2. CASE g # f
    <3>1. <<g, j, d, q>> \notin TreeZone(f, k)
      BY <2>2 DEF TreeZone
    <3>2. N2[g] = N[g]
      BY <1>2, <2>2
    <3> QED
      BY <3>1, <3>2 DEF Val
  <2>3. CASE g = f /\ j # k
    <3>1. <<g, j, d, q>> \notin TreeZone(f, k)
      BY <2>3 DEF TreeZone
    <3>2. Val(N2, m, g, j, d, q) = Val(N, m, g, j, d, q)
      <4>1. CASE j = 0
        BY <1>1, <1>2, <2>3, <4>1 DEF Val
      <4>2. CASE j # 0
        <5>1. N2[g].i_indirect[j] = N[g].i_indirect[j]
          BY <1>1, <1>2, <2>3, <4>2
        <5> QED
          BY <4>2, <5>1 DEF Val
      <4> QED
        BY <4>1, <4>2
    <3> QED
      BY <3>1, <3>2
  <2>4. CASE g = f /\ j = k
    <3>1. <<g, j, d, q>> \in TreeZone(f, k)
      BY <2>1, <2>4 DEF TreeZone
    <3>2. N2[g].i_indirect[j] = 0 /\ j # 0
      BY <1>1, <1>2, <2>4
    <3>3. Val(N2, m, g, j, d, q) = Below(m, 0, d, q)
      BY <3>2 DEF Val
    <3> QED
      BY <3>1, <3>3, Hollow
  <2> QED
    BY <2>2, <2>3, <2>4
<1> QED
  BY <1>1, <1>2, <1>3

LEMMA TreeApart ==
    ASSUME NEW N, NEW m, Apart(N, m), NEW f \in File, NEW k \in 0..3, NEW T, TreeFreed(N, m, f, k, T),
           NEW x \in DOMAIN T, NEW y \in DOMAIN T, T[x] = T[y]
    PROVE  x = y
<1>1. PICK d \in 0..k : \E q \in 0..(Width(k, d) - 1) :
          x = <<d, q>> /\ T[x] = Val(N, m, f, k, d, q) /\ T[x] # 0
  BY DEF TreeFreed
<1>2. PICK q \in 0..(Width(k, d) - 1) :
          x = <<d, q>> /\ T[x] = Val(N, m, f, k, d, q) /\ T[x] # 0
  BY <1>1
<1>3. PICK e \in 0..k : \E p \in 0..(Width(k, e) - 1) :
          y = <<e, p>> /\ T[y] = Val(N, m, f, k, e, p) /\ T[y] # 0
  BY DEF TreeFreed
<1>4. PICK p \in 0..(Width(k, e) - 1) :
          y = <<e, p>> /\ T[y] = Val(N, m, f, k, e, p) /\ T[y] # 0
  BY <1>3
<1>5. Val(N, m, f, k, d, q) # 0 /\ Val(N, m, f, k, d, q) = Val(N, m, f, k, e, p)
  BY <1>2, <1>4
<1>6. d = e /\ q = p
  BY <1>5 DEF Apart
<1> QED
  BY <1>2, <1>4, <1>6

LEMMA TreeHeld ==
    ASSUME NEW N, NEW m, NEW f \in File, NEW k \in 0..3, NEW T, TreeFreed(N, m, f, k, T)
    PROVE  /\ \A x \in DOMAIN T : T[x] # 0 /\ InZone(N, m, TreeZone(f, k), T[x])
           /\ Dense(N, m, f, k) =>
                 \A c \in Block : InZone(N, m, TreeZone(f, k), c) => \E x \in DOMAIN T : T[x] = c
<1>1. ASSUME NEW x \in DOMAIN T PROVE T[x] # 0 /\ InZone(N, m, TreeZone(f, k), T[x])
  <2>1. PICK d \in 0..k : \E q \in 0..(Width(k, d) - 1) :
            x = <<d, q>> /\ T[x] = Val(N, m, f, k, d, q) /\ T[x] # 0
    BY DEF TreeFreed
  <2>2. PICK q \in 0..(Width(k, d) - 1) :
            x = <<d, q>> /\ T[x] = Val(N, m, f, k, d, q) /\ T[x] # 0
    BY <2>1
  <2>3. d \in 0..3 /\ q \in Nat
    <3>1. Width(k, d) \in Nat
      BY Bases
    <3> QED
      BY <3>1
  <2>4. <<f, k, d, q>> \in TreeZone(f, k)
    BY <2>3 DEF TreeZone
  <2> QED
    BY <2>2, <2>4 DEF InZone
<1>2. ASSUME Dense(N, m, f, k), NEW c \in Block, InZone(N, m, TreeZone(f, k), c)
      PROVE  \E x \in DOMAIN T : T[x] = c
  <2>1. PICK g \in File : \E j \in 0..3 : \E d \in 0..j : \E q \in 0..(Width(j, d) - 1) :
            <<g, j, d, q>> \in TreeZone(f, k) /\ Val(N, m, g, j, d, q) = c
    BY <1>2 DEF InZone
  <2>2. PICK j \in 0..3 : \E d \in 0..j : \E q \in 0..(Width(j, d) - 1) :
            <<g, j, d, q>> \in TreeZone(f, k) /\ Val(N, m, g, j, d, q) = c
    BY <2>1
  <2>3. PICK d \in 0..j : \E q \in 0..(Width(j, d) - 1) :
            <<g, j, d, q>> \in TreeZone(f, k) /\ Val(N, m, g, j, d, q) = c
    BY <2>2
  <2>4. PICK q \in 0..(Width(j, d) - 1) :
            <<g, j, d, q>> \in TreeZone(f, k) /\ Val(N, m, g, j, d, q) = c
    BY <2>3
  <2>5. g = f /\ j = k
    BY <2>4 DEF TreeZone
  <2>6. /\ d \in 0..k /\ q \in 0..(Width(k, d) - 1)
        /\ Val(N, m, f, k, d, q) = c /\ Val(N, m, f, k, d, q) # 0
    BY <2>4, <2>5, Constants
  <2> DEFINE x == <<d, q>>
  <2>7. x \in DOMAIN T
    BY <1>2, <2>6 DEF TreeFreed
  <2>8. PICK e \in 0..k : \E p \in 0..(Width(k, e) - 1) :
            x = <<e, p>> /\ T[x] = Val(N, m, f, k, e, p)
    BY <2>7 DEF TreeFreed
  <2>9. T[x] = c
    BY <2>6, <2>8
  <2> QED
    BY <2>7, <2>9
<1> QED
  BY <1>1, <1>2

\* The state goes on from st to st2 with another inode and another free list.
GoesOnWith(st, st2, n2, fr) ==
    /\ st2 \in State
    /\ st2.node = n2 /\ st2.mem = st.mem /\ st2.free = fr /\ st2.ok = TRUE

LEMMA DropTreeRecord ==
    ASSUME NEW st \in State, st.ok = TRUE, NEW k \in 1..3, st.node.i_indirect[k] # 0,
           NEW n2 \in Node, n2 = Rootless(st.node, k),
           NEW fr \in [Block -> 0..1],
           fr = Freed(st.free, Tree(st.mem, st.node.i_indirect[k], k)),
           NEW st2, st2 = DropTree(st, k)
    PROVE  GoesOnWith(st, st2, n2, fr)
<1>1. st2 = [st EXCEPT !.free = fr, !.node.i_indirect[k] = 0]
  BY DEF DropTree, State
<1>2. st2 = [st EXCEPT !.free = fr, !.node = n2]
  BY <1>1 DEF State, Rootless
<1> QED
  BY <1>2 DEF State, GoesOnWith

\* No place of tree k is in Z.
Untouched(Z, f, k) ==
    \A d \in 0..k : \A q \in 0..(Width(k, d) - 1) : <<f, k, d, q>> \notin Z

LEMMA DropTreeCut ==
    ASSUME NEW N, NEW m, NEW free, Good(N, m, free), NEW f \in File, NEW k \in 1..3,
           NEW Z, NEW strict, NEW st, Cut(N, m, free, f, st, Z, strict),
           Untouched(Z, f, k), Val(N, m, f, k, 0, 0) # 0, strict => Dense(N, m, f, k),
           NEW st2, st2 = DropTree(st, k)
    PROVE  Cut(N, m, free, f, st2, Z \cup TreeZone(f, k), strict)
<1> DEFINE sn == st.node
           N2 == [N EXCEPT ![f] = sn]
           sm == st.mem
           sf == st.free
           Y == TreeZone(f, k)
           root == sn.i_indirect[k]
           T == Tree(sm, root, k)
           n3 == Rootless(sn, k)
           N3 == [N2 EXCEPT ![f] = n3]
           free3 == Freed(sf, T)
<1>0. /\ k \in 0..3 /\ 0 \in 0..k /\ 0 \in 0..(Width(k, 0) - 1) /\ k # 0
      /\ st \in State /\ st.ok = TRUE
  <2>1. k \in 0..3 /\ 0 \in 0..k /\ k # 0
    OBVIOUS
  <2>2. Width(k, 0) \in Nat /\ Width(k, 0) >= 1
    BY <2>1, Bases
  <2> QED
    BY <2>1, <2>2 DEF Cut
<1>a. Dropped(N, m, free, N2, sm, sf, Z, strict)
  BY DEF Cut
<1>b. sn \in Node /\ N \in [File -> Node]
  BY <1>0 DEF State, Good, Typed
<1>c. N2[f] = sn
  BY <1>b
<1> HIDE DEF sn, sm, sf
<1>d. root = N2[f].i_indirect[k] /\ N3 = [N2 EXCEPT ![f] = n3] /\ n3 = Rootless(N2[f], k)
  BY <1>c
<1> HIDE DEF N2, n3, N3
<1>1. Good(N2, sm, sf)
  BY <1>a, DroppedGood
<1>2. N2 \in [File -> Node] /\ sm \in [Block -> [Position -> Word]] /\ Apart(N2, sm)
  BY <1>1 DEF Good, Typed
<1>3. ASSUME NEW d \in 0..k, NEW q \in 0..(Width(k, d) - 1)
      PROVE  Val(N2, sm, f, k, d, q) = Val(N, m, f, k, d, q)
  BY <1>0, <1>a DEF Dropped, Cleared, Untouched
<1>4. root # 0
  <2>1. Val(N2, sm, f, k, 0, 0) # 0
    BY <1>0, <1>3
  <2>2. Val(N2, sm, f, k, 0, 0) = N2[f].i_indirect[k]
    BY <1>0 DEF Val, Below
  <2> HIDE DEF root
  <2> QED
    BY <1>d, <2>1, <2>2
<1>5. strict => Dense(N2, sm, f, k)
  <2>1. ASSUME Dense(N, m, f, k) PROVE Dense(N2, sm, f, k)
    <3> SUFFICES ASSUME NEW d \in 0..k, NEW q \in 0..(Width(k, d) - 1), Val(N2, sm, f, k, d, q) # 0,
                        NEW i \in 0..q
                 PROVE  Val(N2, sm, f, k, d, i) # 0
      BY DEF Dense
    <3>1. Width(k, d) \in Nat
      BY <1>0, Bases
    <3>2. i \in 0..(Width(k, d) - 1)
      BY <3>1
    <3>3. Val(N, m, f, k, d, q) # 0
      BY <1>3
    <3>4. Val(N, m, f, k, d, i) # 0
      BY <2>1, <3>3 DEF Dense
    <3> QED
      BY <1>3, <3>2, <3>4
  <2> QED
    BY <2>1
<1> HIDE DEF root, T, free3, Y
<1>6. TreeFreed(N2, sm, f, k, T)
  BY <1>4, <1>d, TreePlaces DEF T
<1>7. \A x \in DOMAIN T : T[x] # 0 /\ InZone(N2, sm, Y, T[x])
  BY <1>0, <1>6, TreeHeld DEF Y
<1>8. ASSUME NEW x \in DOMAIN T, NEW y \in DOMAIN T, T[x] = T[y] PROVE x = y
  BY <1>0, <1>2, <1>6, <1>8, TreeApart
<1>9. strict => \A c \in Block : InZone(N2, sm, Y, c) => \E x \in DOMAIN T : T[x] = c
  BY <1>0, <1>5, <1>6, TreeHeld DEF Y
<1>10. n3 \in Node /\ N3 \in [File -> Node] /\ Cleared(N2, sm, N3, sm, Y)
  BY <1>2, <1>d, TreeCleared DEF Y
<1>11. Dropped(N2, sm, sf, N3, sm, free3, Y, strict)
  BY <1>1, <1>2, <1>7, <1>8, <1>9, <1>10, FreedDropped DEF free3
<1>12. Dropped(N, m, free, N3, sm, free3, Z \cup Y, strict)
  <2>1. Typed(N2, sm, sf)
    BY <1>1 DEF Good
  <2> QED
    BY <1>a, <1>11, <2>1, DroppedTrans
<1>13. free3 \in [Block -> 0..1]
  BY <1>11 DEF Dropped, Typed
<1>14. GoesOnWith(st, st2, n3, free3)
  <2>1. st.node.i_indirect[k] # 0
    BY <1>4 DEF root, sn
  <2>2. n3 = Rootless(st.node, k)
    BY DEF n3, sn
  <2>3. free3 = Freed(st.free, Tree(st.mem, st.node.i_indirect[k], k))
    BY DEF free3, sf, T, sm, root, sn
  <2> QED
    BY <1>0, <1>10, <1>13, <2>1, <2>2, <2>3, DropTreeRecord
<1>15. N3 = [N EXCEPT ![f] = st2.node]
  BY <1>14, <1>b DEF N3, N2, GoesOnWith
<1> QED
  BY <1>12, <1>14, <1>15 DEF Cut, Y, GoesOnWith, sm

-----------------------------------------------------------------------------
(* Truncation: the whole call *)

LEMMA StartFields ==
    ASSUME NEW st, NEW n \in Node, NEW m \in [Block -> [Position -> Word]],
           NEW free \in [Block -> 0..1],
           st = [node |-> n, mem |-> m, free |-> free, ok |-> TRUE, left |-> 0, done |-> FALSE]
    PROVE  /\ st \in State
           /\ st.node = n /\ st.mem = m /\ st.free = free /\ st.ok = TRUE
           /\ st.left = 0 /\ st.done = FALSE
BY DEF State

\* Truncation of file f starts in state st.
Started(N, m, free, f, st, strict) ==
    /\ Cut(N, m, free, f, st, {}, strict)
    /\ st.node = N[f] /\ st.left = 0 /\ st.done = FALSE

LEMMA StartCut ==
    ASSUME NEW N, NEW m, NEW free, Typed(N, m, free), NEW f \in File, NEW strict,
           NEW disk, disk = [mem |-> m, free |-> free],
           NEW st, st = Start(N[f], disk)
    PROVE  Started(N, m, free, f, st, strict)
<1>1. /\ st \in State
      /\ st.node = N[f] /\ st.mem = m /\ st.free = free /\ st.ok = TRUE
      /\ st.left = 0 /\ st.done = FALSE
  <2>1. N[f] \in Node /\ m \in [Block -> [Position -> Word]] /\ free \in [Block -> 0..1]
    BY DEF Typed
  <2>2. st = [node |-> N[f], mem |-> m, free |-> free, ok |-> TRUE, left |-> 0, done |-> FALSE]
    BY DEF Start
  <2> DEFINE n == N[f]
  <2>3. n \in Node /\ st = [node |-> n, mem |-> m, free |-> free, ok |-> TRUE, left |-> 0, done |-> FALSE]
    BY <2>1, <2>2
  <2> HIDE DEF n
  <2>4. /\ st \in State
        /\ st.node = n /\ st.mem = m /\ st.free = free /\ st.ok = TRUE
        /\ st.left = 0 /\ st.done = FALSE
    BY <2>1, <2>3, StartFields, ZenonT(60)
  <2> QED
    BY <2>4 DEF n
<1>2. [N EXCEPT ![f] = st.node] = N
  BY <1>1 DEF Typed
<1> QED
  BY <1>1, <1>2, DroppedNone DEF Cut, Started

\* The places of tree k, if a file of end blocks has one.
LevelZone(f, k, end) == IF end <= Base(k) THEN {} ELSE TreeZone(f, k)

LEMMA DropLevelCut ==
    ASSUME NEW N, NEW m, NEW free, NEW dat, NEW strict, Settled(N, m, free, dat, {}, strict),
           Fits(dat), NEW f \in File, NEW k \in 1..3, NEW Z, NEW st,
           Cut(N, m, free, f, st, Z, strict), Untouched(Z, f, k),
           NEW end, end = Len(dat[f]), NEW st2, st2 = DropLevel(st, k, end)
    PROVE  Cut(N, m, free, f, st2, Z \cup LevelZone(f, k, end), strict)
<1>1. st.ok = TRUE
  BY DEF Cut
<1>2. CASE end <= Base(k)
  <2>1. st2 = st
    BY <1>1, <1>2 DEF DropLevel
  <2>2. Z \cup LevelZone(f, k, end) = Z
    BY <1>2 DEF LevelZone
  <2> QED
    BY <2>1, <2>2
<1>3. CASE ~ (end <= Base(k))
  <2>1. st2 = DropTree(st, k)
    BY <1>1, <1>3 DEF DropLevel
  <2>2. LevelZone(f, k, end) = TreeZone(f, k)
    BY <1>3 DEF LevelZone
  <2>3. Good(N, m, free) /\ Mapped(N, m, f, dat[f]) /\ Ends(N, m, f, Len(dat[f]), strict, 0, -1)
    BY DEF Settled
  <2>4. dat[f] \in Seq(Block) /\ end \in Nat
    BY LenProperties DEF Fits
  <2>5. Val(N, m, f, k, 0, 0) # 0
    <3>1. k \in 0..3 /\ 0 \in 0..k
      OBVIOUS
    <3>2. 0 \in 0..(Width(k, 0) - 1)
      <4>1. Width(k, 0) \in Nat /\ Width(k, 0) >= 1
        BY <3>1, Bases
      <4> QED
        BY <4>1
    <3>3. First(k, 0, 0) < Len(dat[f])
      <4>1. TreeBase(k) = Base(k) /\ TreeBase(k) \in Nat
        BY <3>1, Bases
      <4>2. Span(k) \in Nat /\ k - 0 = k
        BY <3>1, Spans
      <4>3. First(k, 0, 0) = TreeBase(k)
        BY <4>1, <4>2 DEF First
      <4> QED
        BY <1>3, <2>4, <4>1, <4>3
    <3> QED
      BY <2>3, <2>4, <3>1, <3>2, <3>3, NonZero
  <2>6. strict => Dense(N, m, f, k)
    <3> SUFFICES ASSUME strict PROVE Dense(N, m, f, k)
      OBVIOUS
    <3>1. Ends(N, m, f, Len(dat[f]), TRUE, 0, -1)
      BY <2>3 DEF Ends
    <3>2. k \in 0..3
      OBVIOUS
    <3> QED
      BY <2>3, <2>4, <3>1, <3>2, FileDense
  <2>7. Cut(N, m, free, f, st2, Z \cup TreeZone(f, k), strict)
    BY <2>1, <2>3, <2>5, <2>6, DropTreeCut
  <2> QED
    BY <2>2, <2>7
<1> QED
  BY <1>2, <1>3

\* Z has all places of file f from block start to the end.
Covers(Z, f, start, end) ==
    \A k \in 0..3 : \A d \in 0..k : \A q \in 0..(Width(k, d) - 1) :
        First(k, d, q) >= start /\ First(k, d, q) < end => <<f, k, d, q>> \in Z

LEMMA CutEnds ==
    ASSUME NEW N, NEW m, NEW N2, NEW m2, NEW f \in File, NEW start \in Nat, NEW end \in Nat,
           NEW strict, NEW Z, Ends(N, m, f, end, strict, 0, -1), Cleared(N, m, N2, m2, Z),
           Covers(Z, f, start, end)
    PROVE  Ends(N2, m2, f, start, strict, 0, -1)
<1> SUFFICES ASSUME NEW j \in 0..3, NEW e \in 0..j, NEW q \in 0..(Width(j, e) - 1),
                    First(j, e, q) >= start, e = j \/ strict
             PROVE  Val(N2, m2, f, j, e, q) = 0
  BY DEF Ends
<1>0. First(j, e, q) \in Nat
  BY FirstRange
<1>1. CASE <<f, j, e, q>> \in Z
  BY <1>1 DEF Cleared
<1>2. CASE <<f, j, e, q>> \notin Z
  <2>1. First(j, e, q) >= end
    BY <1>0, <1>2 DEF Covers
  <2>2. ~ (j = 0 /\ e <= -1 /\ First(j, e, q) = end)
    OBVIOUS
  <2>3. Val(N, m, f, j, e, q) = 0
    BY <2>1, <2>2 DEF Ends
  <2> QED
    BY <1>2, <2>3 DEF Cleared
<1> QED
  BY <1>1, <1>2

\* What truncation leaves behind.
Truncated(N, f, res, dat, start, strict) ==
    /\ Settled([N EXCEPT ![f] = res.node], res.mem, res.free,
               [dat EXCEPT ![f] = SubSeq(@, 1, start)], {}, strict)
    /\ res.node.i_blocks_num = start

LEMMA CutSettled ==
    ASSUME NEW N, NEW m, NEW free, NEW dat \in [File -> Seq(Block)], NEW strict,
           Settled(N, m, free, dat, {}, strict), Fits(dat), NEW f \in File,
           NEW start \in Nat, start < Len(dat[f]), NEW Z, NEW st,
           Cut(N, m, free, f, st, Z, strict),
           Covers(Z, f, start, Len(dat[f])), Behind(Z, f, start),
           NEW res, res = IF st.ok THEN [st EXCEPT !.node.i_blocks_num = start] ELSE st
    PROVE  Truncated(N, f, res, dat, start, strict)
<1> DEFINE n1 == st.node
           N1 == [N EXCEPT ![f] = n1]
           n2 == [n1 EXCEPT !.i_blocks_num = start]
           N2 == [N1 EXCEPT ![f] = n2]
           dat2 == [dat EXCEPT ![f] = SubSeq(@, 1, start)]
           sm == st.mem
           sf == st.free
<1>0. st \in State /\ st.ok = TRUE /\ N \in [File -> Node] /\ n1 \in Node
  BY DEF Cut, State, Settled, Good, Typed
<1>1. Dropped(N, m, free, N1, sm, sf, Z, strict)
  BY DEF Cut
<1>2. /\ res.node = n2 /\ res.mem = sm /\ res.free = sf
  <2>1. res = [st EXCEPT !.node.i_blocks_num = start]
    BY <1>0
  <2> QED
    BY <1>0, <2>1 DEF State
<1> HIDE DEF sm, sf, n1
<1>3. /\ n2 \in Node /\ n2.i_blocks_num = start
      /\ n2.i_direct_blocks = n1.i_direct_blocks /\ n2.i_indirect = n1.i_indirect
  BY <1>0 DEF Node
<1> HIDE DEF n2
<1>4. N2 = [N EXCEPT ![f] = res.node] /\ N1[f] = n1
  <2>1. N1[f] = n1 /\ DOMAIN N1 = File /\ \A g \in File : g # f => N1[g] = N[g]
    BY <1>0
  <2> DEFINE N3 == [N EXCEPT ![f] = n2]
  <2>2. N2 = N3
    <3> HIDE DEF N1
    <3>1. N2 \in [File -> {N2[g] : g \in File}]
      BY <2>1
    <3>2. \A g \in File : N2[g] = N3[g]
      BY <1>0, <2>1
    <3>3. DOMAIN N2 = File /\ DOMAIN N3 = File
      BY <1>0, <2>1
    <3>4. N3 \in [File -> {N3[g] : g \in File}]
      BY <1>0
    <3> HIDE DEF N2, N3
    <3> QED
      BY <3>1, <3>2, <3>3, <3>4
  <2> HIDE DEF n2
  <2> QED
    BY <1>2, <2>1, <2>2
<1> HIDE DEF N1, N2
<1>5. dat[f] \in Seq(Block) /\ Len(dat[f]) \in Nat /\ start <= Len(dat[f])
  <2>1. dat[f] \in Seq(Block)
    OBVIOUS
  <2>2. Len(dat[f]) \in Nat
    BY <2>1, LenProperties
  <2> QED
    BY <2>1, <2>2
<1>6. /\ SubSeq(dat[f], 1, start) \in Seq(Block)
      /\ Len(SubSeq(dat[f], 1, start)) = start
      /\ \A l \in 1..start : SubSeq(dat[f], 1, start)[l] = dat[f][l]
  <2>1. start = 0 \/ start \in 1..Len(dat[f])
    BY <1>5
  <2>2. \A l \in 1..start : l \in 1..Len(dat[f]) /\ l + 1 - 1 = l
    BY <1>5
  <2>3. 1 \in 1..(Len(dat[f]) + 1) /\ start \in (1 - 1)..Len(dat[f])
    BY <1>5
  <2> QED
    BY <1>5, <2>1, <2>2, <2>3, SubSeqProperties
<1>7. dat2 \in [File -> Seq(Block)] /\ Keeps(dat, dat2, f, start)
  BY <1>6 DEF Keeps
<1> HIDE DEF dat2
<1>8. Ends(N1, sm, f, start, strict, 0, -1)
  <2>1. Ends(N, m, f, Len(dat[f]), strict, 0, -1) /\ Cleared(N, m, N1, sm, Z)
    BY <1>1 DEF Settled, Dropped
  <2> QED
    BY <1>5, <2>1, CutEnds
<1>9. Settled(N1, sm, sf, dat2, {}, strict)
  BY <1>1, <1>5, <1>7, <1>8, DroppedSettled
<1>10. Fits(dat2)
  <2> SUFFICES ASSUME NEW g \in File
               PROVE  dat2[g] \in Seq(Block) /\ Len(dat2[g]) < TreeBase(3) + Width(3, 3)
    BY DEF Fits
  <2>1. dat2[g] \in Seq(Block) /\ Len(dat[f]) < TreeBase(3) + Width(3, 3)
    BY <1>7 DEF Fits
  <2>2. CASE g = f
    BY <1>5, <1>7, <2>1, <2>2, Limit DEF Keeps
  <2>3. CASE g # f
    BY <1>7, <2>1, <2>3 DEF Keeps, Fits
  <2> QED
    BY <2>2, <2>3
<1>11. Settled(N2, sm, sf, dat2, {}, strict)
  <2>1. n2.i_direct_blocks = N1[f].i_direct_blocks /\ n2.i_indirect = N1[f].i_indirect
    BY <1>3, <1>4
  <2> QED
    BY <1>3, <1>9, <1>10, <2>1, CountSettled DEF N2
<1> QED
  BY <1>2, <1>3, <1>4, <1>11 DEF Truncated, dat2

LEMMA MinTwo ==
    ASSUME NEW a \in Nat, NEW b \in Nat
    PROVE  /\ Min({a, b}) \in Nat
           /\ Min({a, b}) <= a
           /\ Min({a, b}) <= b
           /\ Min({a, b}) = a \/ Min({a, b}) = b
<1>1. \E x \in {a, b} : \A y \in {a, b} : x <= y
  OBVIOUS
<1>2. Min({a, b}) \in {a, b} /\ \A y \in {a, b} : Min({a, b}) <= y
  BY <1>1 DEF Min
<1> QED
  BY <1>2

LEMMA MaxTwo ==
    ASSUME NEW a \in Nat, NEW b \in Nat
    PROVE  /\ Max({a, b}) \in Nat
           /\ Max({a, b}) >= a
           /\ Max({a, b}) >= b
           /\ Max({a, b}) = a \/ Max({a, b}) = b
<1>1. \E x \in {a, b} : \A y \in {a, b} : x >= y
  OBVIOUS
<1>2. Max({a, b}) \in {a, b} /\ \A y \in {a, b} : Max({a, b}) >= y
  BY <1>1 DEF Max
<1> QED
  BY <1>2

\* Direct blocks from..to-1 of a file.
DirectZone(f, from, to) == {<<f, 0, 0, i>> : i \in from..(to - 1)}

\* The inode without them.
Shortened(n, gone) ==
    [n EXCEPT !.i_direct_blocks = [i \in DOMAIN @ |-> IF i \in gone THEN 0 ELSE @[i]]]

LEMMA DirectCleared ==
    ASSUME NEW N \in [File -> Node], NEW m, NEW f \in File, NEW from \in Nat, NEW to \in 0..D,
           NEW n2, n2 = Shortened(N[f], from..(to - 1)), NEW N2, N2 = [N EXCEPT ![f] = n2]
    PROVE  /\ n2 \in Node
           /\ N2 \in [File -> Node]
           /\ Cleared(N, m, N2, m, DirectZone(f, from, to))
<1>1. /\ n2 \in Node
      /\ n2.i_indirect = N[f].i_indirect
      /\ \A i \in 0..(D - 1) :
            n2.i_direct_blocks[i] = IF i \in from..(to - 1) THEN 0 ELSE N[f].i_direct_blocks[i]
  <2> DEFINE n == N[f]
             db == n.i_direct_blocks
             new == [i \in 0..(D - 1) |-> IF i \in from..(to - 1) THEN 0 ELSE db[i]]
  <2>1. n \in Node /\ db \in [0..(D - 1) -> Word]
    BY DEF Node
  <2>2. n2 = [n EXCEPT !.i_direct_blocks = new]
    BY <2>1 DEF Shortened, Node
  <2>3. new \in [0..(D - 1) -> Word]
    BY <2>1, Constants
  <2>4. n2 \in Node /\ n2.i_indirect = n.i_indirect /\ n2.i_direct_blocks = new
    <3> HIDE DEF n, new
    <3> QED
      BY <2>1, <2>2, <2>3 DEF Node
  <2> QED
    BY <2>4
<1>2. N2 \in [File -> Node] /\ N2[f] = n2 /\ \A g \in File : g # f => N2[g] = N[g]
  BY <1>1
<1>3. Cleared(N, m, N2, m, DirectZone(f, from, to))
  <2> SUFFICES ASSUME NEW g \in File, NEW j \in 0..3, NEW d \in 0..j,
                      NEW q \in 0..(Width(j, d) - 1)
               PROVE  Val(N2, m, g, j, d, q) =
                        IF <<g, j, d, q>> \in DirectZone(f, from, to) THEN 0
                        ELSE Val(N, m, g, j, d, q)
    BY DEF Cleared
  <2>1. CASE g # f
    <3>1. <<g, j, d, q>> \notin DirectZone(f, from, to)
      BY <2>1 DEF DirectZone
    <3>2. N2[g] = N[g]
      BY <1>2, <2>1
    <3> QED
      BY <3>1, <3>2 DEF Val
  <2>2. CASE g = f /\ j # 0
    <3>1. <<g, j, d, q>> \notin DirectZone(f, from, to)
      BY <2>2 DEF DirectZone
    <3>2. N2[g].i_indirect = N[g].i_indirect
      BY <1>1, <1>2, <2>2
    <3> QED
      BY <2>2, <3>1, <3>2 DEF Val
  <2>3. CASE g = f /\ j = 0
    <3>1. d = 0 /\ q \in 0..(D - 1)
      BY <2>3 DEF Width
    <3>2. <<g, j, d, q>> \in DirectZone(f, from, to) <=> q \in from..(to - 1)
      BY <2>3, <3>1 DEF DirectZone
    <3> QED
      BY <1>1, <1>2, <2>3, <3>1, <3>2 DEF Val
  <2> QED
    BY <2>1, <2>2, <2>3
<1> QED
  BY <1>1, <1>2, <1>3

\* The direct blocks that are cleared.
Directs(n, from, to) == [i \in from..(to - 1) |-> n.i_direct_blocks[i]]

LEMMA DirectFields ==
    ASSUME NEW st \in State, st.ok = TRUE, NEW gone,
           NEW n2 \in Node, n2 = Shortened(st.node, gone), NEW fr \in [Block -> 0..1],
           NEW st2, st2 = [st EXCEPT !.free = fr, !.node.i_direct_blocks =
                             [i \in DOMAIN st.node.i_direct_blocks |->
                                 IF i \in gone THEN 0 ELSE st.node.i_direct_blocks[i]]]
    PROVE  GoesOnWith(st, st2, n2, fr)
<1>1. st2 = [st EXCEPT !.free = fr, !.node = n2]
  BY DEF State, Shortened
<1> QED
  BY <1>1 DEF State, GoesOnWith

LEMMA DirectCut ==
    ASSUME NEW N, NEW m, NEW free, Good(N, m, free), NEW f \in File, NEW strict,
           NEW from \in Nat, NEW to \in 0..D,
           \A i \in from..(to - 1) : Val(N, m, f, 0, 0, i) # 0,
           NEW fr, fr = Freed(free, Directs(N[f], from, to)),
           NEW n2, n2 = Shortened(N[f], from..(to - 1)), NEW N2, N2 = [N EXCEPT ![f] = n2]
    PROVE  /\ Dropped(N, m, free, N2, m, fr, DirectZone(f, from, to), strict)
           /\ fr \in [Block -> 0..1] /\ n2 \in Node
<1> DEFINE Y == DirectZone(f, from, to)
           G == Directs(N[f], from, to)
<1>1. N \in [File -> Node] /\ m \in [Block -> [Position -> Word]] /\ Apart(N, m)
  BY DEF Good, Typed
<1>2. n2 \in Node /\ N2 \in [File -> Node] /\ Cleared(N, m, N2, m, Y)
  BY <1>1, DirectCleared
<1>3. 0 \in 0..3 /\ 0 \in 0..0 /\ Width(0, 0) = D
  BY DEF Width
<1>4. \A i \in from..(to - 1) : i \in 0..(Width(0, 0) - 1) /\ <<f, 0, 0, i>> \in Y
  BY <1>3, Constants DEF DirectZone
<1>5. DOMAIN G = from..(to - 1) /\ \A i \in from..(to - 1) : G[i] = Val(N, m, f, 0, 0, i)
  BY DEF Directs, Val
<1> HIDE DEF G, Y
<1>6. \A x \in DOMAIN G : G[x] # 0 /\ InZone(N, m, Y, G[x])
  <2> SUFFICES ASSUME NEW x \in from..(to - 1)
               PROVE  G[x] # 0 /\ InZone(N, m, Y, G[x])
    BY <1>5
  <2> QED
    BY <1>3, <1>4, <1>5 DEF InZone
<1>7. ASSUME NEW x \in DOMAIN G, NEW y \in DOMAIN G, G[x] = G[y] PROVE x = y
  <2>1. /\ x \in 0..(Width(0, 0) - 1) /\ y \in 0..(Width(0, 0) - 1)
        /\ Val(N, m, f, 0, 0, x) # 0 /\ Val(N, m, f, 0, 0, x) = Val(N, m, f, 0, 0, y)
    BY <1>4, <1>5, <1>7
  <2> QED
    BY <1>1, <1>3, <2>1 DEF Apart
<1>8. ASSUME NEW c \in Block, InZone(N, m, Y, c) PROVE \E x \in DOMAIN G : G[x] = c
  <2>1. PICK g \in File : \E j \in 0..3 : \E d \in 0..j : \E q \in 0..(Width(j, d) - 1) :
            <<g, j, d, q>> \in Y /\ Val(N, m, g, j, d, q) = c
    BY <1>8 DEF InZone
  <2>2. PICK j \in 0..3 : \E d \in 0..j : \E q \in 0..(Width(j, d) - 1) :
            <<g, j, d, q>> \in Y /\ Val(N, m, g, j, d, q) = c
    BY <2>1
  <2>3. PICK d \in 0..j : \E q \in 0..(Width(j, d) - 1) :
            <<g, j, d, q>> \in Y /\ Val(N, m, g, j, d, q) = c
    BY <2>2
  <2>4. PICK q \in 0..(Width(j, d) - 1) :
            <<g, j, d, q>> \in Y /\ Val(N, m, g, j, d, q) = c
    BY <2>3
  <2>5. PICK i \in from..(to - 1) : <<g, j, d, q>> = <<f, 0, 0, i>>
    BY <2>4 DEF DirectZone, Y
  <2> QED
    BY <1>5, <2>4, <2>5
<1>9. Dropped(N, m, free, N2, m, fr, Y, strict)
  BY <1>1, <1>2, <1>6, <1>7, <1>8, FreedDropped DEF G
<1>10. fr \in [Block -> 0..1]
  BY <1>9 DEF Dropped, Typed
<1> QED
  BY <1>2, <1>9, <1>10 DEF Y

LEMMA LevelUntouched ==
    ASSUME NEW f, NEW Z, NEW k \in 1..3, NEW j \in 1..3, j # k, Untouched(Z, f, j), NEW end,
           NEW gone2, gone2 = Z \cup LevelZone(f, k, end)
    PROVE  Untouched(gone2, f, j)
BY DEF Untouched, LevelZone, TreeZone

LEMMA LevelBehind ==
    ASSUME NEW f \in File, NEW Z, NEW k \in 1..3, NEW s \in Nat, s <= Base(k), Behind(Z, f, s),
           NEW end, NEW gone2, gone2 = Z \cup LevelZone(f, k, end)
    PROVE  Behind(gone2, f, s)
<1>0. /\ k \in 0..3 /\ TreeBase(k) = Base(k) /\ TreeBase(k) \in Nat
      /\ \A j \in 0..3 : \A d \in 0..j : Width(j, d) \in Nat
  BY Bases
<1> SUFFICES ASSUME NEW g \in File, NEW j \in 0..3, NEW d \in 0..j, NEW q \in 0..(Width(j, d) - 1),
                    <<g, j, d, q>> \in gone2
             PROVE  g = f /\ First(j, d, q) >= s
  BY DEF Behind
<1>1. CASE <<g, j, d, q>> \in Z
  BY <1>1 DEF Behind
<1>2. CASE <<g, j, d, q>> \in LevelZone(f, k, end)
  <2>1. g = f /\ j = k
    BY <1>2 DEF LevelZone, TreeZone
  <2>2. First(j, d, q) >= TreeBase(j) /\ First(j, d, q) \in Nat
    BY FirstRange
  <2> QED
    BY <1>0, <2>1, <2>2
<1> QED
  BY <1>1, <1>2

LEMMA LevelCovers ==
    ASSUME NEW f \in File, NEW k \in 1..3, NEW end \in Nat,
           NEW d \in 0..k, NEW q \in 0..(Width(k, d) - 1), First(k, d, q) < end
    PROVE  <<f, k, d, q>> \in LevelZone(f, k, end)
<1>0. /\ k \in 0..3 /\ TreeBase(k) = Base(k) /\ TreeBase(k) \in Nat /\ Width(k, d) \in Nat
  BY Bases
<1>1. First(k, d, q) >= TreeBase(k) /\ First(k, d, q) \in Nat
  BY <1>0, FirstRange
<1>2. ~ (end <= Base(k))
  BY <1>0, <1>1
<1>3. d \in 0..3 /\ q \in Nat
  BY <1>0
<1> QED
  BY <1>2, <1>3 DEF LevelZone, TreeZone

\* A truncation that drops what lies behind block start, and nothing else.
Cuts(N, m, free, f, st, start, end, strict) ==
    \E Z : /\ Cut(N, m, free, f, st, Z, strict)
           /\ Covers(Z, f, start, end)
           /\ Behind(Z, f, start)

LEMMA RemoveDirect ==
    ASSUME NEW N, NEW m, NEW free, NEW dat \in [File -> Seq(Block)], NEW strict,
           Settled(N, m, free, dat, {}, strict), Fits(dat), NEW f \in File,
           NEW end, end = Len(dat[f]), NEW start \in Nat, start < end, start <= D,
           NEW st, Cut(N, m, free, f, st, {}, strict), st.node = N[f], st.mem = m, st.free = free,
           NEW after, after = RemoveFromDirect(st, start, end)
    PROVE  Cuts(N, m, free, f, after, start, end, strict)
<1> DEFINE to == Min({D, end})
           gone == start..(to - 1)
           direct == st.node.i_direct_blocks
           cleared == [st EXCEPT !.free = Freed(@, [i \in gone |-> direct[i]]),
                                 !.node.i_direct_blocks =
                                     [i \in DOMAIN direct |-> IF i \in gone THEN 0 ELSE direct[i]]]
           st1 == DropLevel(cleared, 1, end)
           st2 == DropLevel(st1, 2, end)
           st3 == DropLevel(st2, 3, end)
           Z0 == DirectZone(f, start, to)
           gone1 == Z0 \cup LevelZone(f, 1, end)
           gone2 == gone1 \cup LevelZone(f, 2, end)
           gone3 == gone2 \cup LevelZone(f, 3, end)
<1>1. after = st3
  BY DEF RemoveFromDirect
<1>2. end \in Nat /\ D \in Nat /\ dat[f] \in Seq(Block)
  BY LenProperties, Constants
<1>3. to \in Nat /\ to <= D /\ to <= end /\ (to = D \/ to = end) /\ to \in 0..D
  <2>1. /\ Min({D, end}) \in Nat /\ Min({D, end}) <= D /\ Min({D, end}) <= end
        /\ Min({D, end}) = D \/ Min({D, end}) = end
    BY <1>2, MinTwo
  <2>2. to = Min({D, end})
    OBVIOUS
  <2> HIDE DEF to
  <2> QED
    BY <1>2, <2>1, <2>2
<1> HIDE DEF to
<1>4. Good(N, m, free) /\ Mapped(N, m, f, dat[f])
  BY DEF Settled
<1>5. 0 \in 0..3 /\ 0 \in 0..0 /\ Width(0, 0) = D /\ TreeBase(0) = 0
  BY Bases DEF Width
<1>6. ASSUME NEW q \in 0..(D - 1)
      PROVE  q \in 0..(Width(0, 0) - 1) /\ First(0, 0, q) = q
  <2>1. q \in 0..(Width(0, 0) - 1)
    BY <1>5
  <2>2. First(0, 0, q) = TreeBase(0) + q
    BY <1>5, <2>1, FirstRange
  <2> QED
    BY <1>2, <1>5, <2>1, <2>2
<1>7. \A i \in start..(to - 1) : Val(N, m, f, 0, 0, i) # 0
  <2> TAKE i \in start..(to - 1)
  <2>1. i \in 0..(D - 1) /\ i < end
    BY <1>2, <1>3
  <2>2. i \in 0..(Width(0, 0) - 1) /\ First(0, 0, i) < Len(dat[f])
    BY <1>6, <2>1
  <2> QED
    BY <1>2, <1>4, <1>5, <2>2, NonZero
<1> DEFINE fr == Freed(free, Directs(N[f], start, to))
           n2 == Shortened(N[f], start..(to - 1))
           N2 == [N EXCEPT ![f] = n2]
<1>8. /\ Dropped(N, m, free, N2, m, fr, Z0, strict)
      /\ fr \in [Block -> 0..1] /\ n2 \in Node
  BY <1>3, <1>4, <1>7, DirectCut
<1>9. Cut(N, m, free, f, cleared, Z0, strict)
  <2>1. st \in State /\ st.ok = TRUE
    BY DEF Cut
  <2>2. fr = Freed(st.free, [i \in gone |-> direct[i]]) /\ n2 = Shortened(st.node, gone)
    BY DEF Directs
  <2>3. cleared = [st EXCEPT !.free = fr, !.node.i_direct_blocks =
                             [i \in DOMAIN st.node.i_direct_blocks |->
                                 IF i \in gone THEN 0 ELSE st.node.i_direct_blocks[i]]]
    BY <2>1, <2>2 DEF State
  <2> HIDE DEF fr, n2, cleared, gone
  <2>4. GoesOnWith(st, cleared, n2, fr)
    BY <1>8, <2>1, <2>2, <2>3, DirectFields, ZenonT(60)
  <2>5. cleared \in State /\ cleared.node = n2 /\ cleared.mem = m /\ cleared.free = fr /\ cleared.ok = TRUE
    BY <2>4 DEF GoesOnWith
  <2> QED
    BY <1>8, <2>5 DEF Cut
<1> HIDE DEF cleared, Z0
<1>10. /\ Untouched(Z0, f, 1) /\ Untouched(Z0, f, 2) /\ Untouched(Z0, f, 3)
       /\ Behind(Z0, f, start)
  <2>1. ASSUME NEW k \in 1..3 PROVE Untouched(Z0, f, k)
    BY DEF Untouched, Z0, DirectZone
  <2>2. Behind(Z0, f, start)
    <3> SUFFICES ASSUME NEW g \in File, NEW j \in 0..3, NEW d \in 0..j, NEW q \in 0..(Width(j, d) - 1),
                        <<g, j, d, q>> \in Z0
                 PROVE  g = f /\ First(j, d, q) >= start
      BY DEF Behind
    <3>1. g = f /\ j = 0 /\ d = 0 /\ q \in start..(to - 1)
      BY DEF Z0, DirectZone
    <3>2. q \in 0..(D - 1)
      BY <1>2, <1>3, <3>1
    <3> QED
      BY <1>6, <3>1, <3>2
  <2> QED
    BY <2>1, <2>2
<1>11. start <= Base(1) /\ start <= Base(2) /\ start <= Base(3)
  <2>1. Base(1) = D /\ Base(2) = D + A /\ Base(3) = D + A + A * A /\ A * A \in Nat /\ A \in Nat
    BY Bases, Constants, Spans
  <2> QED
    BY <1>2, <2>1
<1> HIDE DEF gone1, gone2, gone3, st1, st2, st3
<1>12. Cut(N, m, free, f, st1, gone1, strict)
  <2>1. 1 \in 1..3
    OBVIOUS
  <2> QED
    BY <1>9, <1>10, <2>1, DropLevelCut DEF st1, gone1
<1>13. Untouched(gone1, f, 2) /\ Untouched(gone1, f, 3) /\ Behind(gone1, f, start)
  <2>1. 1 \in 1..3 /\ 2 \in 1..3 /\ 3 \in 1..3 /\ 2 # 1 /\ 3 # 1
    OBVIOUS
  <2>2. Untouched(gone1, f, 2) /\ Untouched(gone1, f, 3)
    BY <1>10, <2>1, LevelUntouched DEF gone1
  <2>3. Behind(gone1, f, start)
    BY <1>10, <1>11, <2>1, LevelBehind DEF gone1
  <2> QED
    BY <2>2, <2>3
<1>14. Cut(N, m, free, f, st2, gone2, strict)
  <2>1. 2 \in 1..3
    OBVIOUS
  <2> QED
    BY <1>12, <1>13, <2>1, DropLevelCut DEF st2, gone2
<1>15. Untouched(gone2, f, 3) /\ Behind(gone2, f, start)
  <2>1. 2 \in 1..3 /\ 3 \in 1..3 /\ 3 # 2
    OBVIOUS
  <2>2. Untouched(gone2, f, 3)
    BY <1>13, <2>1, LevelUntouched DEF gone2
  <2>3. Behind(gone2, f, start)
    BY <1>11, <1>13, <2>1, LevelBehind DEF gone2
  <2> QED
    BY <2>2, <2>3
<1>16. Cut(N, m, free, f, st3, gone3, strict)
  <2>1. 3 \in 1..3
    OBVIOUS
  <2> QED
    BY <1>14, <1>15, <2>1, DropLevelCut DEF st3, gone3
<1>17. Behind(gone3, f, start)
  <2>1. 3 \in 1..3
    OBVIOUS
  <2> QED
    BY <1>11, <1>15, <2>1, LevelBehind DEF gone3
<1>18. Covers(gone3, f, start, end)
  <2> SUFFICES ASSUME NEW k \in 0..3, NEW d \in 0..k, NEW q \in 0..(Width(k, d) - 1),
                      First(k, d, q) >= start, First(k, d, q) < end
               PROVE  <<f, k, d, q>> \in gone3
    BY DEF Covers
  <2>1. CASE k = 0
    <3>1. d = 0 /\ q \in 0..(D - 1)
      BY <1>5, <2>1
    <3>2. First(0, 0, q) = q
      BY <1>6, <3>1
    <3>3. q >= start /\ q < end
      BY <2>1, <3>1, <3>2
    <3>4. q \in start..(to - 1)
      BY <1>2, <1>3, <3>1, <3>3
    <3>5. <<f, k, d, q>> \in Z0
      BY <2>1, <3>1, <3>4 DEF Z0, DirectZone
    <3> QED
      BY <3>5 DEF gone1, gone2, gone3
  <2>2. CASE k # 0
    <3>1. k \in 1..3
      BY <2>2
    <3>2. <<f, k, d, q>> \in LevelZone(f, k, end)
      BY <1>2, <2>2, <3>1, LevelCovers
    <3>3. k = 1 \/ k = 2 \/ k = 3
      BY <3>1
    <3> QED
      BY <3>2, <3>3 DEF gone1, gone2, gone3
  <2> QED
    BY <2>1, <2>2
<1> QED
  BY <1>1, <1>16, <1>17, <1>18 DEF Cuts

\* The first block below an index block above the data blocks.
LEMMA LeafFirst ==
    ASSUME NEW k \in 1..3, NEW p \in 0..(Width(k, k - 1) - 1)
    PROVE  /\ k \in 0..3 /\ k - 1 \in 0..k
           /\ p \in Nat /\ p * A \in Nat
           /\ TreeBase(k) = Base(k) /\ Base(k) \in Nat
           /\ First(k, k - 1, p) = Base(k) + p * A
<1>1. k \in 0..3 /\ k - 1 \in 0..k /\ k - (k - 1) = 1
  OBVIOUS
<1>2. Width(k, k - 1) \in Nat /\ TreeBase(k) = Base(k) /\ Base(k) \in Nat
  BY <1>1, Bases
<1>3. p \in Nat /\ p * A \in Nat
  BY <1>2, Constants
<1>4. First(k, k - 1, p) = TreeBase(k) + p * A
  BY <1>1, Spans DEF First
<1> QED
  BY <1>1, <1>2, <1>3, <1>4

\* Of the places at or behind a block below an index block, none but the entries of
\* that index block comes before its end.
LEMMA InLeaf ==
    ASSUME NEW k \in 1..3, NEW p \in 0..(Width(k, k - 1) - 1),
           NEW d \in 0..k, NEW q \in 0..(Width(k, d) - 1),
           First(k, d, q) > Base(k) + p * A, First(k, d, q) < Base(k) + p * A + A
    PROVE  /\ d = k
           /\ \E i \in Position : q = p * A + i /\ First(k, d, q) = Base(k) + p * A + i
<1>0. /\ k \in 0..3 /\ p \in Nat /\ p * A \in Nat
      /\ TreeBase(k) = Base(k) /\ Base(k) \in Nat
  BY LeafFirst
<1>1. Width(k, d) \in Nat /\ q \in Nat
  <2>1. Width(k, d) \in Nat
    BY <1>0, Bases
  <2> QED
    BY <2>1
<1>2. CASE d = k
  <2>1. First(k, d, q) = Base(k) + q
    BY <1>0, <1>2, FirstRange
  <2>2. q - p * A \in Position /\ q = p * A + (q - p * A)
    BY <1>0, <1>1, <2>1, Constants DEF Position
  <2>3. First(k, d, q) = Base(k) + p * A + (q - p * A)
    BY <1>0, <1>1, <2>1
  <2> QED
    BY <1>2, <2>2, <2>3
<1>3. CASE d # k
  <2> DEFINE s == Span(k - d - 1)
             w == q * s
  <2>1. k - d \in 1..3 /\ k - d - 1 \in 0..3
    BY <1>3
  <2>2. Span(k - d) = s * A /\ s \in Nat
    BY <2>1, Spans
  <2>3. w \in Nat /\ q * (s * A) = w * A
    BY <1>1, <2>2, Constants
  <2> HIDE DEF s, w
  <2>4. First(k, d, q) = Base(k) + w * A
    BY <1>0, <2>2, <2>3 DEF First
  <2>5. w * A \in Nat /\ A \in Nat
    BY <2>3, Constants
  <2>6. w * A > p * A /\ w * A < p * A + A
    BY <1>0, <2>4, <2>5
  <2>7. ~ (w < p)
    <3> SUFFICES ASSUME w < p PROVE FALSE
      OBVIOUS
    <3>1. w * A + A <= p * A
      BY <1>0, <2>3, <2>5, MultiplesApart
    <3> QED
      BY <1>0, <2>5, <2>6, <3>1
  <2>8. ~ (p < w)
    <3> SUFFICES ASSUME p < w PROVE FALSE
      OBVIOUS
    <3>1. p * A + A <= w * A
      BY <1>0, <2>3, <2>5, MultiplesApart
    <3> QED
      BY <1>0, <2>5, <2>6, <3>1
  <2>9. w = p
    BY <1>0, <2>3, <2>7, <2>8
  <2> QED
    BY <1>0, <2>5, <2>6, <2>9
<1> QED
  BY <1>2, <1>3

\* A truncation from block start clears entries from..to-1 of the p-th index block
\* above the data blocks of tree k, but not the entries before them.
Cutting(k, p, from, to, start, end) ==
    /\ start = Base(k) + p * A + from
    /\ start < end
    /\ Base(k) + p * A + to <= end

LEMMA LeafStep ==
    ASSUME NEW N, NEW m, NEW free, NEW dat, NEW strict, Settled(N, m, free, dat, {}, strict),
           Fits(dat), NEW f \in File, NEW k \in 1..3, NEW p \in 0..(Width(k, k - 1) - 1),
           NEW from \in 1..A, NEW to \in 0..A,
           NEW start \in Nat, NEW end, end = Len(dat[f]), Cutting(k, p, from, to, start, end),
           NEW st, Cut(N, m, free, f, st, {}, strict),
           NEW b, b = Val(N, m, f, k, k - 1, p),
           NEW st2, st2 = ClearLeaf(st, b, from, to)
    PROVE  /\ b \in Block /\ b # 0
           /\ Cut(N, m, free, f, st2, LeafZone(f, k, p, from, to), strict)
           /\ Behind(LeafZone(f, k, p, from, to), f, start)
           /\ st2.left = st.left /\ st2.done = st.done /\ st2.node = st.node
<1>0. /\ k \in 0..3 /\ k - 1 \in 0..k /\ k \in 0..k /\ p \in Nat /\ p * A \in Nat
      /\ TreeBase(k) = Base(k) /\ Base(k) \in Nat
      /\ First(k, k - 1, p) = Base(k) + p * A
  BY LeafFirst
<1>1. dat[f] \in Seq(Block) /\ end \in Nat /\ A \in Nat
  BY LenProperties, Constants DEF Fits
<1>2. Good(N, m, free) /\ Mapped(N, m, f, dat[f])
  BY DEF Settled
<1>3. b # 0
  <2>1. First(k, k - 1, p) < Len(dat[f])
    BY <1>0, <1>1 DEF Cutting
  <2> QED
    BY <1>0, <1>1, <1>2, <2>1, NonZero
<1>4. b \in Block
  BY <1>0, <1>2, <1>3, ValWord DEF Good
<1>5. \A i \in from..(to - 1) : /\ i \in Position
                                /\ p * A + i \in 0..(Width(k, k) - 1)
                                /\ First(k, k, p * A + i) = Base(k) + p * A + i
  <2> TAKE i \in from..(to - 1)
  <2>1. i \in Position
    BY <1>1 DEF Position
  <2> QED
    BY <1>0, <2>1, LeafIndex
<1> DEFINE Z == {}
<1> HIDE DEF Z
<1>6. LeafUsed(N, m, f, k, p, from, to, Z)
  <2> SUFFICES ASSUME NEW i \in from..(to - 1) PROVE Val(N, m, f, k, k, p * A + i) # 0
    BY DEF LeafUsed, Z
  <2>0. First(k, k, p * A + i) = Base(k) + p * A + i /\ i \in Nat /\ i < to
    BY <1>5, <1>1
  <2>1. First(k, k, p * A + i) < Len(dat[f])
    BY <1>0, <1>1, <2>0, SMTT(20) DEF Cutting
  <2> QED
    BY <1>0, <1>1, <1>2, <1>5, <2>1, NonZero
<1>7. /\ Cut(N, m, free, f, st2, Z \cup LeafZone(f, k, p, from, to), strict)
      /\ st2.left = st.left /\ st2.done = st.done /\ st2.node = st.node
  <2>1. from \in Nat /\ <<f, k, k - 1, p>> \notin Z /\ Cut(N, m, free, f, st, Z, strict)
    BY <1>1 DEF Z
  <2>2. Good(N, m, free)
    BY <1>2
  <2>3. LeafPlaced(N, m, free, f, k, p, from, to, Z, strict, st, b)
    BY <1>3, <1>6, <2>1, <2>2 DEF LeafPlaced
  <2>4. LeafGone(N, m, free, f, k, p, from, to, Z, strict, st, ClearLeaf(st, b, from, to))
    BY <2>3, ClearLeafCut
  <2>5. LeafGone(N, m, free, f, k, p, from, to, Z, strict, st, st2)
    BY <2>4
  <2> QED
    BY <2>5 DEF LeafGone
<1>8. Behind(LeafZone(f, k, p, from, to), f, start)
  <2> SUFFICES ASSUME NEW g \in File, NEW j \in 0..3, NEW d \in 0..j, NEW q \in 0..(Width(j, d) - 1),
                      <<g, j, d, q>> \in LeafZone(f, k, p, from, to)
               PROVE  g = f /\ First(j, d, q) >= start
    BY DEF Behind
  <2>1. PICK i \in from..(to - 1) : <<g, j, d, q>> = <<f, k, k, p * A + i>>
    BY DEF LeafZone
  <2>2. g = f /\ j = k /\ d = k /\ q = p * A + i
    BY <2>1
  <2>3. First(j, d, q) = Base(k) + p * A + i
    BY <1>5, <2>2
  <2> QED
    BY <1>0, <1>1, <2>2, <2>3 DEF Cutting
<1>9. Z \cup LeafZone(f, k, p, from, to) = LeafZone(f, k, p, from, to)
  BY DEF Z
<1> QED
  BY <1>3, <1>4, <1>7, <1>8, <1>9

LEMMA RemoveSingle ==
    ASSUME NEW N, NEW m, NEW free, NEW dat \in [File -> Seq(Block)], NEW strict,
           Settled(N, m, free, dat, {}, strict), Fits(dat), NEW f \in File,
           NEW end, end = Len(dat[f]), NEW start \in Nat, start < end,
           D < start, start <= Base(2),
           NEW st, Cut(N, m, free, f, st, {}, strict), st.node = N[f],
           NEW after, after = RemoveFromSingle(st, start, end)
    PROVE  Cuts(N, m, free, f, after, start, end, strict)
<1> DEFINE from == start - D
           to == Min({end - D, A})
           b == st.node.i_indirect[1]
           cleared == ClearLeaf(st, b, from, to)
           st2 == DropLevel(cleared, 2, end)
           st3 == DropLevel(st2, 3, end)
           Z0 == LeafZone(f, 1, 0, from, to)
           Z1 == Z0 \cup LevelZone(f, 2, end)
           Z2 == Z1 \cup LevelZone(f, 3, end)
<1>1. after = IF b = 0 THEN Fail(st) ELSE st3
  BY DEF RemoveFromSingle
<1>2. /\ end \in Nat /\ D \in Nat /\ A \in Nat /\ D >= 1 /\ A >= 2
      /\ Base(1) = D /\ Base(2) = D + A /\ Base(3) = D + A + A * A /\ A * A \in Nat
      /\ TreeBase(0) = 0 /\ TreeBase(1) = D /\ Width(0, 0) = D /\ Width(1, 1) = A /\ Width(1, 0) = 1
  <2>1. dat[f] \in Seq(Block)
    OBVIOUS
  <2> QED
    BY <2>1, LenProperties, Constants, Bases, Spans DEF Width
<1>3. from \in 1..A /\ from \in Nat /\ start = D + from
  BY <1>2
<1>4. to \in 0..A /\ to <= end - D /\ (to = A \/ to = end - D)
  <2>1. end - D \in Nat
    BY <1>2
  <2>2. /\ Min({end - D, A}) \in Nat /\ Min({end - D, A}) <= end - D /\ Min({end - D, A}) <= A
        /\ Min({end - D, A}) = end - D \/ Min({end - D, A}) = A
    BY <1>2, <2>1, MinTwo
  <2>3. to = Min({end - D, A})
    OBVIOUS
  <2> HIDE DEF to
  <2> QED
    BY <1>2, <2>2, <2>3
<1> HIDE DEF from, to
<1>5. b = Val(N, m, f, 1, 1 - 1, 0)
  BY DEF Val, Below
<1>6. 1 \in 1..3 /\ 2 \in 1..3 /\ 3 \in 1..3 /\ 1 # 2 /\ 1 # 3 /\ 2 # 3 /\ 0 \in 0..(Width(1, 1 - 1) - 1)
  BY <1>2
<1>7. Cutting(1, 0, from, to, start, end)
  BY <1>2, <1>3, <1>4 DEF Cutting
<1> HIDE DEF b, cleared
<1>8. /\ b # 0
      /\ Cut(N, m, free, f, cleared, Z0, strict)
      /\ Behind(Z0, f, start)
  BY <1>3, <1>4, <1>5, <1>6, <1>7, LeafStep DEF cleared
<1>9. Untouched(Z0, f, 2) /\ Untouched(Z0, f, 3)
  BY <1>6 DEF Untouched, Z0, LeafZone
<1> HIDE DEF Z0, Z1, Z2, st2, st3
<1>10. Cut(N, m, free, f, st2, Z1, strict)
  BY <1>6, <1>8, <1>9, DropLevelCut DEF st2, Z1
<1>11. Untouched(Z1, f, 3) /\ Behind(Z1, f, start)
  <2>1. Untouched(Z1, f, 3)
    BY <1>6, <1>9, LevelUntouched DEF Z1
  <2>2. Behind(Z1, f, start)
    BY <1>6, <1>8, LevelBehind DEF Z1
  <2> QED
    BY <2>1, <2>2
<1>12. Cut(N, m, free, f, st3, Z2, strict)
  BY <1>6, <1>10, <1>11, DropLevelCut DEF st3, Z2
<1>13. Behind(Z2, f, start)
  <2>1. start <= Base(3)
    BY <1>2
  <2> QED
    BY <1>6, <1>11, <2>1, LevelBehind DEF Z2
<1>14. Covers(Z2, f, start, end)
  <2> SUFFICES ASSUME NEW k \in 0..3, NEW d \in 0..k, NEW q \in 0..(Width(k, d) - 1),
                      First(k, d, q) >= start, First(k, d, q) < end
               PROVE  <<f, k, d, q>> \in Z2
    BY DEF Covers
  <2>0. First(k, d, q) \in Nat /\ First(k, d, q) < TreeBase(k) + Width(k, k)
    BY FirstRange
  <2>1. CASE k = 0
    BY <1>2, <2>0, <2>1
  <2>2. CASE k = 1
    <3>0. d \in 0..1 /\ q \in 0..(Width(1, d) - 1)
      BY <2>2
    <3>1. First(1, d, q) > Base(1) + 0 * A /\ First(1, d, q) < Base(1) + 0 * A + A
      BY <1>2, <2>0, <2>2
    <3>2. d = 1 /\ \E i \in Position : q = 0 * A + i /\ First(1, d, q) = Base(1) + 0 * A + i
      BY <1>6, <3>0, <3>1, InLeaf
    <3>3. PICK i \in Position : q = 0 * A + i /\ First(1, d, q) = Base(1) + 0 * A + i
      BY <3>2
    <3>4. i \in from..(to - 1)
      BY <1>2, <1>3, <1>4, <2>2, <3>3 DEF Position
    <3>5. <<f, k, d, q>> \in Z0
      BY <2>2, <3>2, <3>3, <3>4 DEF Z0, LeafZone
    <3> QED
      BY <3>5 DEF Z1, Z2
  <2>3. CASE k = 2 \/ k = 3
    <3>1. k \in 1..3
      BY <2>3
    <3>2. <<f, k, d, q>> \in LevelZone(f, k, end)
      BY <1>2, <3>1, LevelCovers
    <3> QED
      BY <2>3, <3>2 DEF Z1, Z2
  <2> QED
    BY <2>1, <2>2, <2>3
<1> QED
  BY <1>1, <1>8, <1>12, <1>13, <1>14 DEF Cuts

\* A loop of A turns in which the turn at slot brings about the end.
LEMMA LoopValue ==
    ASSUME NEW T, NEW slot \in 0..(A - 1), NEW fin, T[slot + 1] = fin,
           \A i \in (slot + 1)..(A - 1) : T[i] = fin => T[i + 1] = fin
    PROVE  T[A] = fin
<1> DEFINE S == {i \in Nat : slot + 1 + i <= A => T[slot + 1 + i] = fin}
<1>0. A \in Nat /\ slot \in Nat
  BY Constants
<1>1. 0 \in S
  BY <1>0
<1>2. \A n \in Nat : n \in S => n + 1 \in S
  <2> SUFFICES ASSUME NEW n \in Nat, n \in S, slot + 1 + (n + 1) <= A
               PROVE  T[slot + 1 + (n + 1)] = fin
    BY <1>0
  <2>1. slot + 1 + n \in (slot + 1)..(A - 1) /\ slot + 1 + n <= A /\ slot + 1 + (n + 1) = slot + 1 + n + 1
    BY <1>0
  <2>2. T[slot + 1 + n] = fin
    BY <2>1
  <2>3. T[slot + 1 + n + 1] = fin
    BY <2>1, <2>2
  <2> QED
    BY <2>1, <2>3
<1> HIDE DEF S
<1>3. Nat \subseteq S
  BY <1>1, <1>2, SetInduction
<1>4. A - slot - 1 \in Nat /\ slot + 1 + (A - slot - 1) = A
  BY <1>0
<1>5. A - slot - 1 \in S
  BY <1>3, <1>4
<1> QED
  BY <1>0, <1>4, <1>5 DEF S

\* The loop over an index block as a function of its turns.
LEMMA SinglesLoop ==
    ASSUME NEW st, NEW words, NEW slot \in 0..(A - 1), NEW entry, NEW level, NEW fin,
           SinglesTurn(st, words, slot, slot, entry, level) = fin,
           \A i \in (slot + 1)..(A - 1) : SinglesTurn(fin, words, i, slot, entry, level) = fin
    PROVE  RemoveSingles(st, words, slot, slot, entry, level) = fin
<1>0. A \in Nat /\ slot \in Nat /\ slot + 1 \in 0..A /\ slot \in 0..A /\ A \in 0..A
  BY Constants
<1> DEFINE T[i \in 0..A] == IF i <= slot THEN st
                            ELSE SinglesTurn(T[i - 1], words, i - 1, slot, entry, level)
           w == [i \in 0..A |-> IF i <= slot THEN st ELSE fin]
<1>1. RemoveSingles(st, words, slot, slot, entry, level) = T[A]
  BY DEF RemoveSingles
<1>2. w = [i \in 0..A |-> IF i <= slot THEN st
                          ELSE SinglesTurn(w[i - 1], words, i - 1, slot, entry, level)]
  <2> SUFFICES ASSUME NEW i \in 0..A, ~ (i <= slot)
               PROVE  fin = SinglesTurn(w[i - 1], words, i - 1, slot, entry, level)
    OBVIOUS
  <2>1. i - 1 \in 0..A /\ (i - 1 = slot \/ i - 1 \in (slot + 1)..(A - 1))
    BY <1>0
  <2>2. CASE i - 1 = slot
    <3>1. w[i - 1] = st
      BY <1>0, <2>1, <2>2
    <3> QED
      BY <2>2, <3>1
  <2>3. CASE i - 1 \in (slot + 1)..(A - 1)
    <3>1. w[i - 1] = fin
      BY <1>0, <2>1, <2>3
    <3> QED
      BY <2>3, <3>1
  <2> QED
    BY <2>1, <2>2, <2>3
<1>3. T = [i \in 0..A |-> IF i <= slot THEN st
                          ELSE SinglesTurn(T[i - 1], words, i - 1, slot, entry, level)]
  <2> HIDE DEF w
  <2> QED
    BY <1>2
<1> HIDE DEF T
<1>4. ASSUME NEW i \in 0..A
      PROVE  T[i] = IF i <= slot THEN st
                    ELSE SinglesTurn(T[i - 1], words, i - 1, slot, entry, level)
  BY <1>3
<1>5. T[slot] = st
  BY <1>0, <1>4
<1>6. T[slot + 1] = fin
  <2>1. ~ (slot + 1 <= slot) /\ slot + 1 - 1 = slot
    BY <1>0
  <2>2. T[slot + 1] = SinglesTurn(T[slot + 1 - 1], words, slot + 1 - 1, slot, entry, level)
    BY <1>0, <1>4, <2>1
  <2> QED
    BY <1>5, <2>1, <2>2
<1>7. ASSUME NEW i \in (slot + 1)..(A - 1), T[i] = fin PROVE T[i + 1] = fin
  <2>1. i + 1 \in 0..A /\ ~ (i + 1 <= slot) /\ i + 1 - 1 = i
    BY <1>0
  <2>2. T[i + 1] = SinglesTurn(T[i + 1 - 1], words, i + 1 - 1, slot, entry, level)
    BY <1>4, <2>1
  <2> QED
    BY <1>7, <2>1, <2>2
<1>8. T[A] = fin
  BY <1>6, <1>7, LoopValue
<1> QED
  BY <1>1, <1>8

LEMMA DoublesLoop ==
    ASSUME NEW st, NEW words, NEW top \in 0..(A - 1), NEW slot, NEW entry, NEW fin,
           DoublesTurn(st, words, top, top, slot, entry) = fin,
           \A i \in (top + 1)..(A - 1) : DoublesTurn(fin, words, i, top, slot, entry) = fin
    PROVE  RemoveDoubles(st, words, top, slot, entry) = fin
<1>0. A \in Nat /\ top \in Nat /\ top + 1 \in 0..A /\ top \in 0..A /\ A \in 0..A
  BY Constants
<1> DEFINE T[i \in 0..A] == IF i <= top THEN st
                            ELSE DoublesTurn(T[i - 1], words, i - 1, top, slot, entry)
           w == [i \in 0..A |-> IF i <= top THEN st ELSE fin]
<1>1. RemoveDoubles(st, words, top, slot, entry) = T[A]
  BY DEF RemoveDoubles
<1>2. w = [i \in 0..A |-> IF i <= top THEN st
                          ELSE DoublesTurn(w[i - 1], words, i - 1, top, slot, entry)]
  <2> SUFFICES ASSUME NEW i \in 0..A, ~ (i <= top)
               PROVE  fin = DoublesTurn(w[i - 1], words, i - 1, top, slot, entry)
    OBVIOUS
  <2>1. i - 1 \in 0..A /\ (i - 1 = top \/ i - 1 \in (top + 1)..(A - 1))
    BY <1>0
  <2>2. CASE i - 1 = top
    <3>1. w[i - 1] = st
      BY <1>0, <2>1, <2>2
    <3> QED
      BY <2>2, <3>1
  <2>3. CASE i - 1 \in (top + 1)..(A - 1)
    <3>1. w[i - 1] = fin
      BY <1>0, <2>1, <2>3
    <3> QED
      BY <2>3, <3>1
  <2> QED
    BY <2>1, <2>2, <2>3
<1>3. T = [i \in 0..A |-> IF i <= top THEN st
                          ELSE DoublesTurn(T[i - 1], words, i - 1, top, slot, entry)]
  <2> HIDE DEF w
  <2> QED
    BY <1>2
<1> HIDE DEF T
<1>4. ASSUME NEW i \in 0..A
      PROVE  T[i] = IF i <= top THEN st
                    ELSE DoublesTurn(T[i - 1], words, i - 1, top, slot, entry)
  BY <1>3
<1>5. T[top] = st
  BY <1>0, <1>4
<1>6. T[top + 1] = fin
  <2>1. ~ (top + 1 <= top) /\ top + 1 - 1 = top
    BY <1>0
  <2>2. T[top + 1] = DoublesTurn(T[top + 1 - 1], words, top + 1 - 1, top, slot, entry)
    BY <1>0, <1>4, <2>1
  <2> QED
    BY <1>5, <2>1, <2>2
<1>7. ASSUME NEW i \in (top + 1)..(A - 1), T[i] = fin PROVE T[i + 1] = fin
  <2>1. i + 1 \in 0..A /\ ~ (i + 1 <= top) /\ i + 1 - 1 = i
    BY <1>0
  <2>2. T[i + 1] = DoublesTurn(T[i + 1 - 1], words, i + 1 - 1, top, slot, entry)
    BY <1>4, <2>1
  <2> QED
    BY <1>7, <2>1, <2>2
<1>8. T[A] = fin
  BY <1>6, <1>7, LoopValue
<1> QED
  BY <1>1, <1>8

\* The call has come to its end.
Finished(st) == [st EXCEPT !.done = TRUE]

LEMMA FinishedFields ==
    ASSUME NEW st \in State, NEW fin, fin = Finished(st)
    PROVE  /\ fin \in State
           /\ fin.node = st.node /\ fin.mem = st.mem /\ fin.free = st.free
           /\ fin.ok = st.ok /\ fin.left = st.left /\ fin.done = TRUE
BY DEF State, Finished

\* What the call does when it starts and ends in the same index block.
\* Entries entry..to-1 of the index block in a slot are all that is left to clear.
Last(st, words, slot, entry, to, cleared) ==
    /\ st.ok = TRUE /\ st.done = FALSE /\ st.left = to
    /\ slot \in 0..(A - 1) /\ entry \in 1..A /\ to \in 0..A /\ entry < to
    /\ words[slot] # 0
    /\ cleared \in State /\ cleared.ok = TRUE
    /\ cleared = ClearLeaf(st, words[slot], entry, to)

LEMMA SinglesOnce ==
    ASSUME NEW st, NEW words, NEW slot, NEW entry, NEW to, NEW cleared,
           Last(st, words, slot, entry, to, cleared), NEW level, NEW fin, fin = Finished(cleared)
    PROVE  RemoveSingles(st, words, slot, slot, entry, level) = fin
<1>a. /\ st.ok = TRUE /\ st.done = FALSE /\ st.left = to
      /\ slot \in 0..(A - 1) /\ entry \in 1..A /\ to \in 0..A /\ entry < to
      /\ words[slot] # 0
      /\ cleared \in State /\ cleared.ok = TRUE
      /\ cleared = ClearLeaf(st, words[slot], entry, to)
  BY DEF Last
<1>0. entry \in Nat /\ to \in Nat /\ A \in Nat
  BY <1>a, Constants
<1>1. Max({entry, Min({st.left, A})}) = to
  <2>1. /\ Min({to, A}) \in Nat /\ Min({to, A}) <= to /\ Min({to, A}) <= A
        /\ Min({to, A}) = to \/ Min({to, A}) = A
    BY <1>0, MinTwo
  <2>2. Min({to, A}) = to
    BY <1>0, <1>a, <2>1
  <2>3. Max({entry, to}) \in Nat /\ Max({entry, to}) >= to
        /\ (Max({entry, to}) = entry \/ Max({entry, to}) = to)
    BY <1>0, MaxTwo
  <2>4. Max({entry, to}) = to
    BY <1>0, <1>a, <2>3
  <2> QED
    BY <1>a, <2>2, <2>4
<1>2. SinglesTurn(st, words, slot, slot, entry, level) = fin
  <2> DEFINE from == IF slot = slot THEN entry ELSE 0
             j == Max({from, Min({st.left, A})})
             c == ClearLeaf(st, words[slot], from, j)
  <2>1. from = entry
    OBVIOUS
  <2>2. j = to
    BY <1>1, <2>1
  <2>3. c = cleared
    BY <1>a, <2>1, <2>2
  <2> HIDE DEF c, j, from
  <2>4. SinglesTurn(st, words, slot, slot, entry, level)
          = IF ~ c.ok THEN c
            ELSE IF j = st.left
                 THEN [c EXCEPT !.done = TRUE]
                 ELSE [(IF KeepSingle(level, slot, slot, from, entry, j)
                        THEN c ELSE FreeOne(c, words[slot])) EXCEPT !.left = @ - A]
    BY <1>a DEF SinglesTurn, c, j, from
  <2> QED
    BY <1>a, <2>2, <2>3, <2>4 DEF Finished
<1>3. fin.done = TRUE
  BY <1>a, FinishedFields
<1>4. \A i \in (slot + 1)..(A - 1) : SinglesTurn(fin, words, i, slot, entry, level) = fin
  BY <1>3 DEF SinglesTurn
<1> QED
  BY <1>a, <1>2, <1>4, SinglesLoop

\* Such a call clears all it has to.
LEMMA TailCovers ==
    ASSUME NEW f \in File, NEW k \in 1..3, NEW p \in 0..(Width(k, k - 1) - 1),
           NEW from \in 1..A, NEW to \in 0..A,
           NEW start \in Nat, start = Base(k) + p * A + from,
           NEW end \in Nat, end = Base(k) + p * A + to
    PROVE  Covers(LeafZone(f, k, p, from, to), f, start, end)
<1>0. /\ k \in 0..3 /\ k - 1 \in 0..k /\ k - 1 \in 0..3 /\ p \in Nat /\ p * A \in Nat
      /\ TreeBase(k) = Base(k) /\ Base(k) \in Nat /\ A \in Nat /\ k # 0
  BY LeafFirst, Constants
<1>1. p * A + A <= Width(k, k) /\ Width(k, k) \in Nat
  <2>1. Width(k, k) = Span(k) /\ Width(k, k - 1) = Span(k - 1) /\ Span(k - 1) \in Nat
        /\ Span(k) = Span(k - 1) * A /\ Span(k) \in Nat
    BY <1>0, Spans DEF Width
  <2>2. p < Span(k - 1)
    BY <1>0, <2>1
  <2>3. p * A + A <= Span(k - 1) * A
    BY <1>0, <2>1, <2>2, MultiplesApart
  <2> QED
    BY <2>1, <2>3
<1> SUFFICES ASSUME NEW j \in 0..3, NEW d \in 0..j, NEW q \in 0..(Width(j, d) - 1),
                    First(j, d, q) >= start, First(j, d, q) < end
             PROVE  <<f, j, d, q>> \in LeafZone(f, k, p, from, to)
  BY DEF Covers
<1>2. First(j, d, q) \in Nat /\ TreeOf(First(j, d, q)) = j
  BY FirstRange
<1>3. First(j, d, q) > Base(k) + p * A /\ First(j, d, q) < Base(k) + p * A + A
  BY <1>0, <1>2
<1>4. j = k
  <2>1. First(j, d, q) >= TreeBase(k) /\ First(j, d, q) < TreeBase(k) + Width(k, k)
    BY <1>0, <1>1, <1>2, <1>3
  <2>2. TreeOf(First(j, d, q)) = k
    BY <1>0, <1>2, <2>1, TreeRange
  <2> QED
    BY <1>2, <2>2
<1>5. d \in 0..k /\ q \in 0..(Width(k, d) - 1)
  BY <1>4
<1>6. /\ d = k
      /\ \E i \in Position : q = p * A + i /\ First(k, d, q) = Base(k) + p * A + i
  BY <1>3, <1>4, <1>5, InLeaf
<1>7. PICK i \in Position : q = p * A + i /\ First(k, d, q) = Base(k) + p * A + i
  BY <1>6
<1>8. i \in from..(to - 1)
  BY <1>0, <1>4, <1>7 DEF Position
<1> QED
  BY <1>4, <1>6, <1>7, <1>8 DEF LeafZone

\* The truncation from block start to the end stays inside the p-th index block above
\* the data blocks of tree k, and clears its entries from..to-1.
OneLeaf(k, start, end, p, from, to) ==
    /\ p \in 0..(Width(k, k - 1) - 1)
    /\ from \in 1..A
    /\ to \in 0..A
    /\ from < to
    /\ start = Base(k) + p * A + from
    /\ end = Base(k) + p * A + to

Ended(st, left) == st.ok = TRUE /\ st.done = TRUE /\ st.left = left

LEMMA TailCut ==
    ASSUME NEW N, NEW m, NEW free, NEW dat, NEW strict, Settled(N, m, free, dat, {}, strict),
           Fits(dat), NEW f \in File, NEW k \in 1..3, NEW p \in 0..(Width(k, k - 1) - 1),
           NEW from \in 1..A, NEW to \in 0..A,
           NEW start \in Nat, NEW end, end = Len(dat[f]), OneLeaf(k, start, end, p, from, to),
           NEW st, Cut(N, m, free, f, st, {}, strict), st.done = FALSE, st.left = to,
           NEW words, NEW slot \in 0..(A - 1), words[slot] = Val(N, m, f, k, k - 1, p),
           NEW level, NEW after, after = RemoveSingles(st, words, slot, slot, from, level)
    PROVE  Cuts(N, m, free, f, after, start, end, strict) /\ Ended(after, to)
<1> DEFINE b == Val(N, m, f, k, k - 1, p)
           cleared == ClearLeaf(st, b, from, to)
           fin == Finished(cleared)
           Z == LeafZone(f, k, p, from, to)
<1>0. /\ k \in 0..3 /\ k - 1 \in 0..k /\ p \in Nat /\ p * A \in Nat /\ Base(k) \in Nat
      /\ A \in Nat /\ from \in Nat /\ to \in Nat
  BY LeafFirst, Constants
<1>1. end \in Nat /\ Cutting(k, p, from, to, start, end)
  BY <1>0 DEF OneLeaf, Cutting
<1> HIDE DEF b, cleared
<1>2. /\ b # 0
      /\ Cut(N, m, free, f, cleared, Z, strict)
      /\ Behind(Z, f, start)
      /\ cleared.left = st.left /\ cleared.done = st.done /\ cleared.node = st.node
  <2>1. b = Val(N, m, f, k, k - 1, p) /\ cleared = ClearLeaf(st, b, from, to)
    BY DEF b, cleared
  <2> QED
    BY <1>1, <2>1, LeafStep
<1>3. st \in State /\ st.ok = TRUE /\ cleared \in State /\ cleared.ok = TRUE
  BY <1>2 DEF Cut
<1>4. after = fin
  <2>1. words[slot] = b
    BY DEF b
  <2>2. words[slot] # 0 /\ cleared = ClearLeaf(st, words[slot], from, to)
    BY <1>2, <2>1 DEF cleared
  <2> HIDE DEF fin
  <2>3. fin = Finished(cleared) /\ from < to
    BY DEF fin, OneLeaf
  <2>4. Last(st, words, slot, from, to, cleared)
    BY <1>3, <2>2, <2>3 DEF Last
  <2>5. RemoveSingles(st, words, slot, slot, from, level) = fin
    BY <2>3, <2>4, SinglesOnce
  <2> QED
    BY <2>5
<1>5. /\ fin \in State
      /\ fin.node = cleared.node /\ fin.mem = cleared.mem /\ fin.free = cleared.free
      /\ fin.ok = TRUE /\ fin.left = to /\ fin.done = TRUE
  BY <1>2, <1>3, FinishedFields
<1> HIDE DEF fin
<1>6. Cut(N, m, free, f, fin, Z, strict)
  BY <1>2, <1>5 DEF Cut
<1>7. Covers(Z, f, start, end)
  <2>1. start = Base(k) + p * A + from /\ end = Base(k) + p * A + to
    BY DEF OneLeaf
  <2> QED
    BY <1>1, <2>1, TailCovers
<1> HIDE DEF Z
<1>8. Cuts(N, m, free, f, fin, start, end, strict)
  BY <1>2, <1>6, <1>7 DEF Cuts
<1> QED
  BY <1>4, <1>5, <1>8 DEF Ended

Leaving(st, left) == [st EXCEPT !.left = left]

\* The state only leaves another number of entries.
Leaves(st, st2, left) ==
    /\ st2 \in State /\ st2.node = st.node /\ st2.mem = st.mem /\ st2.free = st.free
    /\ st2.ok = st.ok /\ st2.left = left /\ st2.done = st.done

LEMMA LeavingFields ==
    ASSUME NEW st \in State, NEW left \in Int, NEW st2, st2 = Leaving(st, left)
    PROVE  Leaves(st, st2, left)
BY DEF State, Leaving, Leaves

\* An index block above one that is used is used.
LEMMA AboveUsed ==
    ASSUME NEW N, NEW m, NEW f, NEW k \in 1..3, NEW d \in 1..k, NEW q, Val(N, m, f, k, d, q) # 0
    PROVE  /\ Val(N, m, f, k, d - 1, q \div A) # 0
           /\ Val(N, m, f, k, d, q) = m[Val(N, m, f, k, d - 1, q \div A)][q % A]
<1>1. Val(N, m, f, k, d, q) = Entry(m, Val(N, m, f, k, d - 1, q \div A), q % A)
  BY ValStep
<1> QED
  BY <1>1 DEF Entry

\* The index block above a block of the file is used.
LEMMA LeafThere ==
    ASSUME NEW N, NEW m, NEW free, NEW dat, NEW strict, Settled(N, m, free, dat, {}, strict),
           Fits(dat), NEW f \in File, NEW k \in 1..3, NEW p \in 0..(Width(k, k - 1) - 1),
           Base(k) + p * A < Len(dat[f])
    PROVE  Val(N, m, f, k, k - 1, p) # 0
<1>1. /\ k \in 0..3 /\ k - 1 \in 0..k
      /\ First(k, k - 1, p) = Base(k) + p * A
  BY LeafFirst
<1>2. dat[f] \in Seq(Block) /\ Mapped(N, m, f, dat[f])
  BY DEF Fits, Settled
<1>3. First(k, k - 1, p) < Len(dat[f])
  BY <1>1
<1> QED
  BY <1>1, <1>2, <1>3, NonZero

LEMMA ByA ==
    ASSUME NEW r \in Nat, NEW p, p = r \div A, NEW o, o = r % A
    PROVE  /\ p \in Nat /\ o \in 0..(A - 1) /\ o \in Nat /\ p * A \in Nat
           /\ r = p * A + o
<1>1. A \in Nat \ {0}
  BY Constants
<1>2. /\ r \div A \in Nat /\ r % A \in 0..(A - 1) /\ (r \div A) * A \in Nat
      /\ r = (r \div A) * A + (r % A)
  BY <1>1, DivMod
<1> QED
  BY <1>1, <1>2

\* Where such a truncation starts and ends.
Split(k, start, end, p, from, to) ==
    /\ p = (start - Base(k)) \div A
    /\ from = (start - Base(k)) % A
    /\ to = end - Base(k) - A * p

LEMMA OneLeafNumbers ==
    ASSUME NEW k \in 1..3, NEW start \in Nat, NEW end \in Nat, start < end,
           NEW p \in Nat, p < Width(k, k - 1), NEW from \in 1..(A - 1),
           start = Base(k) + p * A + from, end <= Base(k) + A * (p + 1),
           NEW to, to = end - Base(k) - A * p
    PROVE  OneLeaf(k, start, end, p, from, to)
<1>1. Width(k, k - 1) \in Nat /\ Base(k) \in Nat /\ A \in Nat
  <2>1. k \in 0..3 /\ k - 1 \in 0..k
    OBVIOUS
  <2> QED
    BY <2>1, Bases, Constants
<1>2. A * p = p * A /\ p * A \in Nat /\ A * (p + 1) = p * A + A
  BY <1>1
<1>3. p \in 0..(Width(k, k - 1) - 1) /\ from \in 1..A
  BY <1>1
<1>4. to = end - Base(k) - p * A /\ end <= Base(k) + p * A + A
  <2>1. end <= Base(k) + (p * A + A)
    BY <1>2
  <2> QED
    BY <1>1, <1>2, <2>1
<1>5. to \in 0..A /\ from < to /\ end = Base(k) + p * A + to
  <2> DEFINE w == p * A
  <2>1. w \in Nat /\ start = Base(k) + w + from /\ to = end - Base(k) - w /\ end <= Base(k) + w + A
    BY <1>2, <1>4
  <2> HIDE DEF w
  <2>2. to \in 0..A /\ from < to /\ end = Base(k) + w + to
    BY <1>1, <2>1
  <2> QED
    BY <2>2 DEF w
<1> QED
  BY <1>3, <1>5 DEF OneLeaf

LEMMA OneLeafHolds ==
    ASSUME NEW k \in 1..3, NEW start \in Nat, NEW end \in Nat, start < end, Base(k) < start,
           start - Base(k) < Span(k), NEW p, NEW from, NEW to, Split(k, start, end, p, from, to),
           from # 0, end <= Base(k) + A * (p + 1)
    PROVE  OneLeaf(k, start, end, p, from, to)
<1> DEFINE r == start - Base(k)
<1>1. /\ A \in Nat /\ A # 0 /\ Base(k) \in Nat /\ Width(k, k - 1) = Span(k - 1)
      /\ Span(k - 1) \in Nat /\ Span(k) = Span(k - 1) * A
  <2>1. k - 1 \in 0..3 /\ k # 0
    OBVIOUS
  <2> QED
    BY <2>1, Constants, Bases, Spans DEF Width
<1>2. r \in Nat
  BY <1>1
<1>3. p = r \div A /\ from = r % A /\ to = end - Base(k) - A * p
  BY DEF Split
<1>4. r < Span(k - 1) * A /\ start = Base(k) + r
  BY <1>1
<1> HIDE DEF r
<1>5. p \in Nat /\ from \in 0..(A - 1) /\ p * A \in Nat /\ r = p * A + from
  BY <1>2, <1>3, ByA
<1>6. p < Width(k, k - 1)
  BY <1>1, <1>2, <1>3, <1>4, DivBound
<1>7. from \in 1..(A - 1)
  BY <1>1, <1>5
<1>8. start = Base(k) + p * A + from
  <2> DEFINE w == p * A
  <2>1. w \in Nat /\ r = w + from
    BY <1>5
  <2> HIDE DEF w
  <2>2. start = Base(k) + w + from
    BY <1>1, <1>4, <1>7, <2>1
  <2> QED
    BY <2>2 DEF w
<1> QED
  BY <1>3, <1>5, <1>6, <1>7, <1>8, OneLeafNumbers

\* The index block a truncation stays inside is there.
LEMMA LeafUnder ==
    ASSUME NEW N, NEW m, NEW free, NEW dat, NEW strict, Settled(N, m, free, dat, {}, strict),
           Fits(dat), NEW f \in File, NEW k \in 1..3, NEW start, NEW end, end = Len(dat[f]),
           NEW p, NEW from, NEW to, OneLeaf(k, start, end, p, from, to)
    PROVE  Val(N, m, f, k, k - 1, p) # 0
<1>1. /\ p \in 0..(Width(k, k - 1) - 1) /\ from \in 1..A /\ to \in 0..A /\ from < to
      /\ end = Base(k) + p * A + to
  BY DEF OneLeaf
<1>2. p * A \in Nat /\ Base(k) \in Nat /\ A \in Nat
  BY <1>1, LeafFirst, Constants
<1>3. Base(k) + p * A < Len(dat[f])
  BY <1>1, <1>2
<1> QED
  BY <1>1, <1>3, LeafThere

\* p has the digits x and y in base a, and b is a squared.
TwoDigits(a, b, p, x, y) ==
    a \in Nat /\ x \in Nat /\ y \in 0..(a - 1) /\ p = x * a + y /\ b = a * a

LEMMA Distributed ==
    ASSUME NEW a, NEW b, NEW p, NEW x, NEW y, TwoDigits(a, b, p, x, y)
    PROVE  a * p = b * x + a * y
BY DEF TwoDigits

LEMMA NextTurn ==
    ASSUME NEW a \in Nat, NEW p \in Nat, NEW o \in Nat
    PROVE  /\ (p + a) * a + o = a * a + (p * a + o)
           /\ a * (p + a + 1) = a * a + a * (p + 1)
           /\ a * (p + 1) \in Nat
OBVIOUS

\* The ways down to the index blocks of the upper levels.
LEMMA OneDown ==
    ASSUME NEW N, NEW m, NEW f \in File, NEW slot \in 0..(A - 1), Val(N, m, f, 2, 1, slot) # 0
    PROVE  /\ N[f].i_indirect[2] # 0
           /\ m[N[f].i_indirect[2]][slot] = Val(N, m, f, 2, 1, slot)
<1>1. 2 \in 1..3 /\ 1 \in 1..2
  OBVIOUS
<1>2. /\ Val(N, m, f, 2, 1 - 1, slot \div A) # 0
      /\ Val(N, m, f, 2, 1, slot) = m[Val(N, m, f, 2, 1 - 1, slot \div A)][slot % A]
  <2> DEFINE k == 2
             d == 1
  <2>1. k \in 1..3 /\ d \in 1..k /\ Val(N, m, f, k, d, slot) # 0
    BY <1>1
  <2> HIDE DEF k, d
  <2>2. /\ Val(N, m, f, k, d - 1, slot \div A) # 0
        /\ Val(N, m, f, k, d, slot) = m[Val(N, m, f, k, d - 1, slot \div A)][slot % A]
    BY <2>1, AboveUsed
  <2> QED
    BY <2>2 DEF k, d
<1>3. Val(N, m, f, 2, 1 - 1, slot \div A) = N[f].i_indirect[2]
  BY DEF Val, Below
<1>4. slot % A = slot
  BY Constants
<1> QED
  BY <1>2, <1>3, <1>4

LEMMA TwoDown ==
    ASSUME NEW N, NEW m, NEW f \in File, NEW top \in 0..(A - 1), NEW slot \in 0..(A - 1),
           NEW p, p \div A = top, p % A = slot, Val(N, m, f, 3, 2, p) # 0
    PROVE  LET root == N[f].i_indirect[3]
           IN  /\ root # 0 /\ m[root][top] # 0
               /\ m[m[root][top]][slot] = Val(N, m, f, 3, 2, p)
<1> DEFINE root == N[f].i_indirect[3]
<1>1. Val(N, m, f, 3, 2, p) = Entry(m, Entry(m, root, (p \div A) % A), p % A)
  BY DEF Val, Below
<1>2. (p \div A) % A = top
  BY Constants
<1> HIDE DEF root
<1>3. Val(N, m, f, 3, 2, p) = Entry(m, Entry(m, root, top), slot)
  BY <1>1, <1>2
<1>4. Entry(m, root, top) # 0
  BY <1>3 DEF Entry
<1>5. root # 0
  BY <1>4 DEF Entry
<1> QED
  BY <1>3, <1>4, <1>5 DEF Entry, root

LEMMA RemoveDouble ==
    ASSUME NEW N, NEW m, NEW free, NEW dat, NEW strict,
           Settled(N, m, free, dat, {}, strict), Fits(dat), NEW f \in File,
           NEW end, end = Len(dat[f]), NEW start \in Nat, NEW p, NEW from, NEW to,
           Split(2, start, end, p, from, to), OneLeaf(2, start, end, p, from, to),
           NEW st, Cut(N, m, free, f, st, {}, strict), st.node = N[f], st.mem = m, st.done = FALSE,
           NEW after, after = RemoveFromDouble(st, start, end)
    PROVE  Cuts(N, m, free, f, after, start, end, strict)
<1> DEFINE root == st.node.i_indirect[2]
           words == st.mem[root]
           st2 == Leaving(st, to)
           tail == RemoveSingles(st2, words, p, p, from, 2)
<1>1. after = IF root = 0 THEN Fail(st)
              ELSE IF ~ tail.ok \/ tail.left <= Span(2) THEN tail ELSE DropTree(tail, 3)
  BY DEF RemoveFromDouble, Leaving, Split
<1> HIDE DEF st2, tail
<1>2. p \in 0..(A - 1) /\ from \in 1..A /\ to \in 0..A /\ to \in Int /\ A \in Nat
  BY Constants, Spans DEF OneLeaf, Width
<1>3. Val(N, m, f, 2, 2 - 1, p) # 0
  BY LeafUnder
<1>4. root # 0 /\ words[p] = Val(N, m, f, 2, 2 - 1, p)
  <2>1. Val(N, m, f, 2, 1, p) # 0
    BY <1>3
  <2>2. /\ N[f].i_indirect[2] # 0
        /\ m[N[f].i_indirect[2]][p] = Val(N, m, f, 2, 1, p)
    BY <1>2, <2>1, OneDown
  <2> QED
    BY <2>2
<1> HIDE DEF root, words
<1>5. /\ Cut(N, m, free, f, st2, {}, strict)
      /\ st2.left = to /\ st2.done = FALSE
  <2>1. st2 = Leaving(st, to)
    BY DEF st2
  <2>2. st \in State /\ st.ok = TRUE
    BY DEF Cut
  <2>3. Leaves(st, st2, to)
    BY <1>2, <2>1, <2>2, LeavingFields
  <2> QED
    BY <2>2, <2>3 DEF Cut, Leaves
<1>6. Cuts(N, m, free, f, tail, start, end, strict) /\ Ended(tail, to)
  <2> DEFINE k == 2
  <2>1. /\ k \in 1..3 /\ p \in 0..(Width(k, k - 1) - 1) /\ words[p] = Val(N, m, f, k, k - 1, p)
        /\ OneLeaf(k, start, end, p, from, to)
    BY <1>4 DEF OneLeaf
  <2> HIDE DEF k
  <2>2. tail = RemoveSingles(st2, words, p, p, from, 2)
    BY DEF tail
  <2> QED
    BY <1>2, <1>5, <2>1, <2>2, TailCut
<1>7. tail.left <= Span(2)
  <2>1. tail.left = to
    BY <1>6 DEF Ended
  <2>2. A <= A * A /\ Span(2) = A * A /\ A * A \in Nat
    BY Constants, Spans
  <2> QED
    BY <1>2, <2>1, <2>2
<1> QED
  BY <1>1, <1>4, <1>6, <1>7

LEMMA DivTwice ==
    ASSUME NEW r \in Nat, NEW b, b = A * A
    PROVE  r \div b = (r \div A) \div A
<1>1. A \in Nat \ {0}
  BY Constants
<1> QED
  BY <1>1, DivDiv

LEMMA TopSlot ==
    ASSUME NEW p \in Nat, NEW b, b = A * A, p < b, NEW top, top = p \div A, NEW slot, slot = p % A
    PROVE  /\ top \in 0..(A - 1) /\ slot \in 0..(A - 1)
           /\ A * p = b * top + A * slot
<1>1. A \in Nat /\ A # 0 /\ A \in Nat \ {0}
  BY Constants
<1>2. top < A
  BY <1>1, DivBound
<1>3. top \in Nat /\ slot \in 0..(A - 1) /\ p = top * A + slot
  BY ByA
<1>4. A * p = b * top + A * slot
  <2>1. TwoDigits(A, b, p, top, slot)
    BY <1>1, <1>3 DEF TwoDigits
  <2> QED
    BY <2>1, Distributed
<1> QED
  BY <1>1, <1>2, <1>3, <1>4

LEMMA Digits ==
    ASSUME NEW r \in Nat, NEW p, p = r \div A, p < A * A
    PROVE  /\ r \div Span(2) \in 0..(A - 1) /\ Digit(r, 2) \in 0..(A - 1)
           /\ p \div A = r \div Span(2) /\ p % A = Digit(r, 2)
           /\ A * p = Span(2) * (r \div Span(2)) + A * Digit(r, 2)
<1> DEFINE b == Span(2)
<1>1. b = A * A
  BY Spans
<1>2. Digit(r, 2) = p % A
  BY Spans DEF Digit
<1> HIDE DEF b
<1>3. r \div b = p \div A
  BY <1>1, DivTwice
<1>4. p \in Nat
  BY ByA
<1>5. /\ p \div A \in 0..(A - 1) /\ p % A \in 0..(A - 1)
      /\ A * p = b * (p \div A) + A * (p % A)
  BY <1>1, <1>4, TopSlot
<1> QED
  BY <1>2, <1>3, <1>5 DEF b

LEMMA TripleNumbers ==
    ASSUME NEW start \in Nat, NEW end \in Nat, NEW p, NEW from, NEW to,
           Split(3, start, end, p, from, to), OneLeaf(3, start, end, p, from, to),
           NEW r, r = start - Base(3), NEW top, top = r \div Span(2), NEW slot, slot = Digit(r, 2)
    PROVE  /\ top \in 0..(A - 1) /\ slot \in 0..(A - 1)
           /\ p \div A = top /\ p % A = slot
           /\ to = end - Base(3) - Span(2) * top - A * slot
<1>1. /\ A \in Nat /\ A * A \in Nat /\ Width(3, 3 - 1) = A * A /\ Base(3) \in Nat /\ Span(2) \in Nat
  BY Constants, Spans, Bases DEF Width
<1>2. p \in 0..(A * A - 1) /\ from \in 1..A /\ start = Base(3) + p * A + from
  BY <1>1 DEF OneLeaf
<1>3. r \in Nat
  <2> DEFINE w == p * A
  <2>1. w \in Nat /\ start = Base(3) + w + from
    BY <1>1, <1>2
  <2> HIDE DEF w
  <2> QED
    BY <1>1, <1>2, <2>1
<1>4. p = r \div A /\ to = end - Base(3) - A * p
  BY DEF Split
<1>5. p < A * A
  BY <1>1, <1>2
<1>6. /\ top \in 0..(A - 1) /\ slot \in 0..(A - 1)
      /\ p \div A = top /\ p % A = slot
      /\ A * p = Span(2) * top + A * slot
  BY <1>3, <1>4, <1>5, Digits
<1>7. to = end - Base(3) - Span(2) * top - A * slot
  <2> DEFINE x == A * p
             y == Span(2) * top
             z == A * slot
  <2>1. y \in Nat /\ z \in Nat
    BY <1>1, <1>6
  <2>2. x = y + z /\ to = end - Base(3) - x
    BY <1>4, <1>6
  <2> HIDE DEF x, y, z
  <2>3. to = end - Base(3) - y - z
    BY <1>1, <2>1, <2>2
  <2> QED
    BY <2>3 DEF y, z
<1> QED
  BY <1>6, <1>7

LEMMA RemoveTriple ==
    ASSUME NEW N, NEW m, NEW free, NEW dat, NEW strict,
           Settled(N, m, free, dat, {}, strict), Fits(dat), NEW f \in File,
           NEW end \in Nat, end = Len(dat[f]), NEW start \in Nat, NEW p, NEW from, NEW to,
           Split(3, start, end, p, from, to), OneLeaf(3, start, end, p, from, to),
           NEW st, Cut(N, m, free, f, st, {}, strict), st.node = N[f], st.mem = m, st.done = FALSE,
           NEW after, after = RemoveFromTriple(st, start, end)
    PROVE  Cuts(N, m, free, f, after, start, end, strict)
<1> DEFINE r == start - Base(3)
           top == r \div Span(2)
           slot == Digit(r, 2)
           root == st.node.i_indirect[3]
           words == st.mem[root]
           inner == st.mem[words[top]]
           st2 == Leaving(st, to)
           tail == RemoveSingles(st2, inner, slot, slot, from, 3)
<1>1. /\ top \in 0..(A - 1) /\ slot \in 0..(A - 1)
      /\ p \div A = top /\ p % A = slot
      /\ to = end - Base(3) - Span(2) * top - A * slot
  <2> HIDE DEF top, slot, r
  <2>1. r = start - Base(3) /\ top = r \div Span(2) /\ slot = Digit(r, 2)
    BY DEF top, slot, r
  <2> QED
    BY <2>1, TripleNumbers
<1>2. root # 0 => after = RemoveDoubles(st2, words, top, slot, from)
  <2>1. from = r % A
    BY DEF Split
  <2> QED
    BY <1>1, <2>1 DEF RemoveFromTriple, Leaving
<1> HIDE DEF r, top, slot, st2, tail
<1>3. from \in 1..A /\ to \in 0..A /\ to \in Int /\ A \in Nat
  BY Constants DEF OneLeaf
<1>4. Val(N, m, f, 3, 3 - 1, p) # 0
  BY LeafUnder
<1>5. root # 0 /\ words[top] # 0 /\ inner[slot] = Val(N, m, f, 3, 3 - 1, p)
  <2>1. Val(N, m, f, 3, 2, p) # 0
    BY <1>4
  <2>2. /\ N[f].i_indirect[3] # 0 /\ m[N[f].i_indirect[3]][top] # 0
        /\ m[m[N[f].i_indirect[3]][top]][slot] = Val(N, m, f, 3, 2, p)
    BY <1>1, <2>1, TwoDown
  <2> QED
    BY <2>2
<1> HIDE DEF root, words, inner
<1>6. /\ Cut(N, m, free, f, st2, {}, strict)
      /\ st2.left = to /\ st2.done = FALSE
  <2>1. st2 = Leaving(st, to)
    BY DEF st2
  <2>2. st \in State /\ st.ok = TRUE
    BY DEF Cut
  <2>3. Leaves(st, st2, to)
    BY <1>3, <2>1, <2>2, LeavingFields
  <2> QED
    BY <2>2, <2>3 DEF Cut, Leaves
<1>7. Cuts(N, m, free, f, tail, start, end, strict) /\ Ended(tail, to)
  <2> DEFINE k == 3
  <2>1. /\ k \in 1..3 /\ p \in 0..(Width(k, k - 1) - 1) /\ inner[slot] = Val(N, m, f, k, k - 1, p)
        /\ OneLeaf(k, start, end, p, from, to)
    BY <1>5 DEF OneLeaf
  <2> HIDE DEF k
  <2>2. tail = RemoveSingles(st2, inner, slot, slot, from, 3)
    BY DEF tail
  <2> QED
    BY <1>1, <1>3, <1>6, <2>1, <2>2, TailCut, ZenonT(60)
<1>8. st2.ok = TRUE /\ st2.mem = st.mem
  <2>1. st \in State
    BY DEF Cut
  <2> QED
    BY <1>6, <2>1 DEF Cut, st2, Leaving, State
<1>9. DoublesTurn(st2, words, top, top, slot, from) = tail
  <2> DEFINE first == IF top = top THEN slot ELSE 0
             next == RemoveSingles(st2, st2.mem[words[top]], first, slot, from, 3)
  <2>1. first = slot
    OBVIOUS
  <2>2. next = tail
    BY <1>8, <2>1 DEF tail, inner
  <2> HIDE DEF next
  <2>3. DoublesTurn(st2, words, top, top, slot, from)
           = IF ~ next.ok \/ next.done \/ first = slot THEN next ELSE FreeOne(next, words[top])
    BY <1>5, <1>6, <1>8 DEF DoublesTurn, next
  <2> QED
    BY <2>1, <2>2, <2>3
<1>10. \A i \in (top + 1)..(A - 1) : DoublesTurn(tail, words, i, top, slot, from) = tail
  BY <1>7 DEF DoublesTurn, Ended
<1>11. RemoveDoubles(st2, words, top, slot, from) = tail
  BY <1>1, <1>9, <1>10, DoublesLoop
<1> QED
  BY <1>2, <1>5, <1>7, <1>11

\* A contained truncation behind the single indirect block stays inside one index block.
LEMMA InOneLeaf ==
    ASSUME NEW start \in Nat, NEW end \in Nat, start < end, Contained(start, end), Base(2) < start,
           end < TreeBase(3) + Width(3, 3),
           NEW k, k = IF start <= Base(3) THEN 2 ELSE 3,
           NEW p, NEW from, NEW to, Split(k, start, end, p, from, to)
    PROVE  OneLeaf(k, start, end, p, from, to)
<1> DEFINE r == start - Base(k)
<1>1. /\ A \in Nat /\ A # 0 /\ A * A \in Nat
      /\ Base(2) \in Nat /\ Base(3) \in Nat /\ Base(3) = Base(2) + A * A
      /\ Span(2) = A * A /\ TreeBase(3) = Base(3) /\ Width(3, 3) = Span(3) /\ Span(3) \in Nat
  BY Constants, Bases, Spans DEF Width
<1>2. k \in 1..3 /\ Base(k) < start /\ Base(k) \in Nat /\ r \in Nat
  BY <1>1
<1>3. p = r \div A /\ from = r % A
  BY DEF Split
<1>4. from # 0 /\ end <= Base(k) + A * (p + 1)
  <2>1. PICK j \in {2, 3} : /\ start > Base(j) /\ (start - Base(j)) % A # 0
                            /\ end <= Base(j) + A * ((start - Base(j)) \div A + 1)
    BY <1>1 DEF Contained
  <2>2. CASE j = k
    BY <1>3, <2>1, <2>2
  <2>3. CASE j # k
    <3>1. j = 2 /\ k = 3
      BY <1>1, <2>1, <2>3
    <3> DEFINE s == start - Base(2)
    <3>2. s % A # 0 /\ end <= Base(2) + A * (s \div A + 1)
      BY <2>1, <3>1
    <3>3. s = A * A + r
      BY <1>1, <1>2, <3>1
    <3> HIDE DEF s, r
    <3>4. p \in Nat /\ from \in 0..(A - 1) /\ p * A \in Nat /\ r = p * A + from /\ from \in Nat
      BY <1>2, <1>3, ByA
    <3>5. /\ (p + A) * A + from = A * A + (p * A + from)
          /\ A * (p + A + 1) = A * A + A * (p + 1)
          /\ A * (p + 1) \in Nat
      BY <1>1, <3>4, NextTurn
    <3>6. s = (p + A) * A + from /\ p + A \in Nat
      BY <1>1, <3>3, <3>4, <3>5
    <3>7. s \div A = p + A /\ s % A = from
      BY <1>1, <3>4, <3>6, DivUnique
    <3>8. end <= Base(2) + A * (p + A + 1)
      BY <3>2, <3>7
    <3>9. end <= Base(3) + A * (p + 1)
      <4> DEFINE x == A * (p + 1)
                 y == A * A
      <4>1. end <= Base(2) + (y + x) /\ x \in Nat /\ y \in Nat /\ Base(3) = Base(2) + y
        BY <1>1, <3>5, <3>8
      <4> HIDE DEF x, y
      <4>2. end <= Base(3) + x
        BY <1>1, <4>1
      <4> QED
        BY <4>2 DEF x
    <3> QED
      BY <3>1, <3>2, <3>7, <3>9
  <2> QED
    BY <2>2, <2>3
<1>5. start - Base(k) < Span(k)
  <2>1. CASE k = 3
    BY <1>1, <1>2, <2>1
  <2>2. CASE k = 2
    <3>1. r <= A * A
      BY <1>1, <1>2, <2>2
    <3>2. r # A * A
      <4>1. (A * A) % A = 0
        BY <1>1, DivUnique
      <4> QED
        BY <1>3, <1>4, <4>1
    <3> DEFINE y == A * A
    <3>3. r <= y /\ r # y /\ y \in Nat /\ Span(k) = y
      BY <1>1, <2>2, <3>1, <3>2
    <3> HIDE DEF y
    <3>4. r < y
      BY <1>2, <3>3
    <3> QED
      BY <3>3, <3>4
  <2> QED
    BY <1>2, <2>1, <2>2
<1> QED
  BY <1>2, <1>4, <1>5, OneLeafHolds

LEMMA RemoveCuts ==
    ASSUME NEW N, NEW m, NEW free, NEW dat \in [File -> Seq(Block)], NEW strict,
           Settled(N, m, free, dat, {}, strict), Fits(dat), NEW f \in File,
           NEW end, end = Len(dat[f]), N[f].i_blocks_num = end,
           NEW start \in Nat, start < end, Contained(start, end),
           NEW res, res = remove_datablocks_from_inode(N[f], [mem |-> m, free |-> free], start)
    PROVE  Truncated(N, f, res, dat, start, strict)
<1> DEFINE st == Start(N[f], [mem |-> m, free |-> free])
           after == CASE start <= D -> RemoveFromDirect(st, start, end)
                      [] start > D /\ start <= Base(2) -> RemoveFromSingle(st, start, end)
                      [] start > Base(2) /\ start <= Base(3) -> RemoveFromDouble(st, start, end)
                      [] start > Base(3) -> RemoveFromTriple(st, start, end)
<1>1. res = IF after.ok THEN [after EXCEPT !.node.i_blocks_num = start] ELSE after
  BY DEF remove_datablocks_from_inode
<1>2. /\ end \in Nat /\ D \in Nat /\ Base(2) \in Nat /\ Base(3) \in Nat
      /\ D < Base(2) /\ Base(2) < Base(3) /\ end < TreeBase(3) + Width(3, 3)
  <2>1. dat[f] \in Seq(Block)
    OBVIOUS
  <2>2. A \in Nat /\ A >= 2 /\ A * A \in Nat /\ A * A > 0
    BY Constants
  <2>3. Base(2) = D + A /\ Base(3) = D + A + A * A /\ D \in Nat
    BY Bases, Constants
  <2> QED
    BY <2>1, <2>2, <2>3, LenProperties DEF Fits
<1>3. Typed(N, m, free)
  BY DEF Settled, Good
<1> HIDE DEF st
<1>4. Cut(N, m, free, f, st, {}, strict) /\ st.node = N[f] /\ st.done = FALSE
  <2> DEFINE dk == [mem |-> m, free |-> free]
  <2>1. st = Start(N[f], dk)
    BY DEF st
  <2> HIDE DEF dk
  <2>2. dk = [mem |-> m, free |-> free]
    BY DEF dk
  <2>3. Started(N, m, free, f, st, strict)
    BY <1>3, <2>1, <2>2, StartCut
  <2> QED
    BY <2>3 DEF Started
<1>5. st.mem = m /\ st.free = free
  BY DEF st, Start
<1>6. Cuts(N, m, free, f, after, start, end, strict)
  <2>1. CASE start <= D
    <3>1. after = RemoveFromDirect(st, start, end)
      BY <2>1, <1>2
    <3> HIDE DEF after
    <3> QED
      BY <1>4, <1>5, <2>1, <3>1, RemoveDirect
  <2>2. CASE D < start /\ start <= Base(2)
    <3>1. after = RemoveFromSingle(st, start, end)
      BY <2>2, <1>2
    <3> HIDE DEF after
    <3> QED
      BY <1>4, <2>2, <3>1, RemoveSingle
  <2>3. CASE Base(2) < start /\ start <= Base(3)
    <3>1. after = RemoveFromDouble(st, start, end)
      BY <2>3, <1>2
    <3> DEFINE p == (start - Base(2)) \div A
               from == (start - Base(2)) % A
               to == end - Base(2) - A * p
    <3>2. Base(2) < start /\ 2 = IF start <= Base(3) THEN 2 ELSE 3
      BY <1>2, <2>3
    <3>3. Split(2, start, end, p, from, to)
      BY DEF Split
    <3> HIDE DEF after, p, from, to
    <3>4. OneLeaf(2, start, end, p, from, to)
      BY <1>2, <3>2, <3>3, InOneLeaf
    <3> QED
      BY <1>2, <1>4, <1>5, <3>1, <3>3, <3>4, RemoveDouble
  <2>4. CASE Base(3) < start
    <3>1. after = RemoveFromTriple(st, start, end)
      BY <2>4, <1>2
    <3> DEFINE p == (start - Base(3)) \div A
               from == (start - Base(3)) % A
               to == end - Base(3) - A * p
    <3>2. Base(2) < start /\ 3 = IF start <= Base(3) THEN 2 ELSE 3
      BY <1>2, <2>4
    <3>3. Split(3, start, end, p, from, to)
      BY DEF Split
    <3> HIDE DEF after, p, from, to
    <3>4. OneLeaf(3, start, end, p, from, to)
      BY <1>2, <3>2, <3>3, InOneLeaf
    <3> QED
      BY <1>2, <1>4, <1>5, <3>1, <3>3, <3>4, RemoveTriple
  <2> QED
    BY <1>2, <2>1, <2>2, <2>3, <2>4
<1> HIDE DEF after
<1>7. PICK Z : /\ Cut(N, m, free, f, after, Z, strict)
               /\ Covers(Z, f, start, end)
               /\ Behind(Z, f, start)
  BY <1>6 DEF Cuts
<1> QED
  BY <1>1, <1>7, CutSettled

LEMMA TruncateStep ==
    ASSUME IInv, NEW f \in File, NEW start \in 0..(SizeLimit[f] - 1),
           Contained(start, node[f].i_blocks_num), Truncate(f, start)
    PROVE  IInv'
<1> DEFINE disk == [mem |-> mem, free |-> listed]
           res == remove_datablocks_from_inode(node[f], disk, start)
           shorter == [data EXCEPT ![f] = SubSeq(@, 1, start)]
           strict == ~ failed
<1>1. /\ start < node[f].i_blocks_num
      /\ node' = [node EXCEPT ![f] = res.node]
      /\ mem' = res.mem
      /\ listed' = res.free
      /\ data' = shorter
      /\ failed' = failed
  BY DEF Truncate
<1>2. /\ Settled(node, mem, listed, data, {}, ~ failed)
      /\ data \in [File -> Seq(Block)] /\ failed \in BOOLEAN
  BY DEF IInv
<1>3. /\ Fits(data)
      /\ node[f].i_blocks_num = Len(data[f]) /\ Len(data[f]) \in Nat
      /\ SizeLimit[f] \in Nat /\ start \in Nat
      /\ node \in [File -> Node]
  <2>1. SizeLimit[f] \in Nat
    BY CountsFit
  <2> QED
    BY <1>2, <2>1, CountsFit DEF Settled, Good, Typed
<1> HIDE DEF res, disk
<1>4. Truncated(node, f, res, data, start, strict)
  <2>1. res = remove_datablocks_from_inode(node[f], [mem |-> mem, free |-> listed], start)
    BY DEF disk, res
  <2> QED
    BY <1>1, <1>2, <1>3, <2>1, RemoveCuts
<1>5. Settled(node', mem', listed', data', {}, ~ failed') /\ res.node.i_blocks_num = start
  BY <1>1, <1>4 DEF Truncated
<1>6. /\ data' \in [File -> Seq(Block)]
      /\ \A g \in File : Len(data'[g]) = IF g = f THEN start ELSE Len(data[g])
  <2>1. data[f] \in Seq(Block) /\ start <= Len(data[f])
    BY <1>1, <1>2, <1>3
  <2>2. SubSeq(data[f], 1, start) \in Seq(Block) /\ Len(SubSeq(data[f], 1, start)) = start
    <3>1. \A l \in 1..start : l \in 1..Len(data[f])
      BY <1>3, <2>1
    <3>2. 1 \in 1..(Len(data[f]) + 1) /\ start \in (1 - 1)..Len(data[f])
      BY <1>3, <2>1
    <3> QED
      BY <1>3, <2>1, <3>1, <3>2, SubSeqProperties
  <2> QED
    BY <1>1, <1>2, <2>2
<1>7. Counts'
  <2> SUFFICES ASSUME NEW g \in File
               PROVE  node'[g].i_blocks_num = Len(data'[g]) /\ Len(data'[g]) <= SizeLimit[g]
    BY DEF Counts
  <2>1. node'[g] = IF g = f THEN res.node ELSE node[g]
    BY <1>1, <1>3
  <2>2. CASE g = f
    BY <1>3, <1>5, <1>6, <2>1, <2>2
  <2>3. CASE g # f
    BY <1>6, <2>1, <2>3 DEF IInv, Counts
  <2> QED
    BY <2>2, <2>3
<1> QED
  BY <1>1, <1>2, <1>5, <1>6, <1>7 DEF IInv

-----------------------------------------------------------------------------
(* The invariant holds *)

LEMMA NothingYet ==
    ASSUME NEW N, N = [f \in File |-> EmptyNode], NEW m, NEW f \in File,
           NEW k \in 0..3, NEW d \in 0..k, NEW q \in 0..(Width(k, d) - 1)
    PROVE  Val(N, m, f, k, d, q) = 0
<1>1. N[f].i_direct_blocks = [i \in 0..(D - 1) |-> 0] /\ N[f].i_indirect = [j \in Level |-> 0]
  BY DEF EmptyNode
<1>2. CASE k = 0
  <2>1. q \in 0..(D - 1)
    BY <1>2 DEF Width
  <2> QED
    BY <1>1, <1>2, <2>1 DEF Val
<1>3. CASE k # 0
  <2>1. k \in Level /\ N[f].i_indirect[k] = 0
    BY <1>1, <1>3 DEF Level
  <2> QED
    BY <1>3, <2>1, Hollow DEF Val
<1> QED
  BY <1>2, <1>3

LEMMA InitStep ==
    ASSUME Init
    PROVE  IInv
<1>1. /\ node = [f \in File |-> EmptyNode]
      /\ mem = [b \in Block |-> [i \in Position |-> 0]]
      /\ listed = [b \in Block |-> 1]
      /\ data = [f \in File |-> << >>]
      /\ failed = FALSE
  BY DEF Init
<1>2. Typed(node, mem, listed)
  <2>1. EmptyNode \in Node
    BY Constants DEF EmptyNode, Node
  <2> QED
    BY <1>1, <2>1, Constants DEF Typed
<1>3. Apart(node, mem) /\ Taken(node, mem, listed)
  <2>1. \A f \in File : \A k \in 0..3 : \A d \in 0..k : \A q \in 0..(Width(k, d) - 1) :
            Val(node, mem, f, k, d, q) = 0
    BY <1>1, NothingYet
  <2>2. Apart(node, mem)
    BY <2>1 DEF Apart
  <2>3. Taken(node, mem, listed)
    BY <2>1 DEF Taken
  <2> QED
    BY <2>2, <2>3
<1>4. data \in [File -> Seq(Block)] /\ \A g \in File : Len(data[g]) = 0
  BY <1>1
<1>5. ASSUME NEW g \in File
      PROVE  Mapped(node, mem, g, data[g]) /\ Ends(node, mem, g, Len(data[g]), ~ failed, 0, -1)
  <2>1. Mapped(node, mem, g, data[g])
    BY <1>4 DEF Mapped
  <2>2. Ends(node, mem, g, Len(data[g]), ~ failed, 0, -1)
    BY <1>1, NothingYet DEF Ends
  <2> QED
    BY <2>1, <2>2
<1>6. Full(node, mem, listed, {})
  BY <1>1 DEF Full
<1>7. Counts
  <2> SUFFICES ASSUME NEW g \in File
               PROVE  node[g].i_blocks_num = Len(data[g]) /\ Len(data[g]) <= SizeLimit[g]
    BY DEF Counts
  <2>1. node[g].i_blocks_num = 0
    BY <1>1 DEF EmptyNode
  <2>2. SizeLimit[g] \in Nat
    <3>1. SizeLimit[g] \in 0..(Base(3) + Span(3) - 1)
      BY MapAssumption
    <3> QED
      BY <3>1
  <2> QED
    BY <1>4, <2>1, <2>2
<1> QED
  BY <1>1, <1>2, <1>3, <1>4, <1>5, <1>6, <1>7 DEF IInv, Settled, Good

LEMMA NextStep ==
    ASSUME IInv, [NextWith(Contained)]_vars
    PROVE  IInv'
<1>1. ASSUME NEW f \in File, Append_(f) PROVE IInv'
  BY <1>1, AppendStep
<1>2. ASSUME NEW f \in File, free_inode(f) PROVE IInv'
  BY <1>2, FreeStep
<1>3. ASSUME NEW f \in File, NEW start \in 0..(SizeLimit[f] - 1),
             Contained(start, node[f].i_blocks_num), Truncate(f, start)
      PROVE  IInv'
  BY <1>3, TruncateStep
<1>4. ASSUME UNCHANGED vars PROVE IInv'
  BY <1>4 DEF vars, IInv, Counts
<1> QED
  BY <1>1, <1>2, <1>3, <1>4 DEF NextWith

\* Appends, contained truncations and deletions keep the block maps of all files
\* together: every place of every file has the block it should have, no block is at
\* two places, and unless an append failed every block is free or at a place.
THEOREM MapInvariant == SpecContained => []IInv
<1>1. Init => IInv
  BY InitStep
<1>2. IInv /\ [NextWith(Contained)]_vars => IInv'
  BY NextStep
<1> QED
  BY <1>1, <1>2, PTL DEF SpecContained

\* Inodes, words of blocks, free list and file contents keep their types: block
\* numbers never leave the disk, and the free list never counts below zero.
THEOREM MapTypeOK == SpecContained => []TypeOK
<1>1. IInv => TypeOK
  <2> SUFFICES ASSUME IInv PROVE TypeOK
    OBVIOUS
  <2>1. Typed(node, mem, listed)
    BY DEF IInv, Settled, Good
  <2>2. listed \in [Block -> Nat]
    BY <2>1 DEF Typed
  <2> QED
    BY <2>1, <2>2 DEF IInv, Typed, TypeOK
<1> QED
  BY <1>1, MapInvariant, PTL

\* What a file holds is at a place of the file.
LEMMA HeldPlace ==
    ASSUME NEW f \in File, NEW b \in Held(f)
    PROVE  /\ b # 0
           /\ \E k \in 0..3 : \E d \in 0..k : \E q \in 0..(Width(k, d) - 1) :
                 Val(node, mem, f, k, d, q) = b
<1> DEFINE F == Footprint(node[f], mem)
<1>1. PICK x \in DOMAIN F : F[x] = b
  BY DEF Held, Range
<1>2. F[x] # 0 /\ InZone(node, mem, FileZone(f), F[x])
  BY FootprintHeld
<1> HIDE DEF F
<1>3. PICK g \in File : \E k \in 0..3 : \E d \in 0..k : \E q \in 0..(Width(k, d) - 1) :
          <<g, k, d, q>> \in FileZone(f) /\ Val(node, mem, g, k, d, q) = b
  BY <1>1, <1>2 DEF InZone
<1>4. g = f
  BY <1>3 DEF FileZone
<1> QED
  BY <1>1, <1>2, <1>3, <1>4

\* No block belongs to two places: free_inode never frees a block twice, deleting one
\* file never frees a block of another one, and no block of a file is on the free
\* list, where a later append would take it.
THEOREM MapNoSharing == SpecContained => []NoSharing
<1>1. IInv => NoSharing
  <2> SUFFICES ASSUME IInv PROVE NoSharing
    OBVIOUS
  <2>1. Typed(node, mem, listed) /\ Apart(node, mem) /\ Taken(node, mem, listed)
    BY DEF IInv, Settled, Good
  <2>2. ASSUME NEW f \in File PROVE IsInjective(Footprint(node[f], mem))
    <3> DEFINE F == Footprint(node[f], mem)
    <3>1. ASSUME NEW x \in DOMAIN F, NEW y \in DOMAIN F, F[x] = F[y] PROVE x = y
      BY <2>1, <3>1, FootprintApart
    <3> HIDE DEF F
    <3>2. IsInjective(F)
      BY <3>1 DEF IsInjective
    <3> QED
      BY <3>2 DEF F
  <2>3. ASSUME NEW f \in File, NEW g \in File, NEW b \in Held(f), b \in Held(g) PROVE f = g
    <3>1. /\ b # 0
          /\ \E k \in 0..3 : \E d \in 0..k : \E q \in 0..(Width(k, d) - 1) :
                Val(node, mem, f, k, d, q) = b
      BY HeldPlace
    <3>2. \E j \in 0..3 : \E e \in 0..j : \E p \in 0..(Width(j, e) - 1) :
              Val(node, mem, g, j, e, p) = b
      BY <2>3, HeldPlace
    <3>3. PICK k \in 0..3 : \E d \in 0..k : \E q \in 0..(Width(k, d) - 1) :
              Val(node, mem, f, k, d, q) = b
      BY <3>1
    <3>4. PICK d \in 0..k : \E q \in 0..(Width(k, d) - 1) : Val(node, mem, f, k, d, q) = b
      BY <3>3
    <3>5. PICK q \in 0..(Width(k, d) - 1) : Val(node, mem, f, k, d, q) = b
      BY <3>4
    <3>6. PICK j \in 0..3 : \E e \in 0..j : \E p \in 0..(Width(j, e) - 1) :
              Val(node, mem, g, j, e, p) = b
      BY <3>2
    <3>7. PICK e \in 0..j : \E p \in 0..(Width(j, e) - 1) : Val(node, mem, g, j, e, p) = b
      BY <3>6
    <3>8. PICK p \in 0..(Width(j, e) - 1) : Val(node, mem, g, j, e, p) = b
      BY <3>7
    <3> QED
      BY <2>1, <3>1, <3>5, <3>8 DEF Apart
  <2>4. ASSUME NEW f \in File, NEW b \in Held(f) PROVE listed[b] = 0
    <3>1. /\ b # 0
          /\ \E k \in 0..3 : \E d \in 0..k : \E q \in 0..(Width(k, d) - 1) :
                Val(node, mem, f, k, d, q) = b
      BY HeldPlace
    <3> QED
      BY <2>1, <3>1 DEF Taken
  <2>5. \A b \in Block : listed[b] <= 1
    BY <2>1 DEF Typed
  <2> QED
    BY <2>2, <2>3, <2>4, <2>5 DEF NoSharing
<1> QED
  BY <1>1, MapInvariant, PTL

\* Unless an append failed, every block is on the free list or belongs to a file:
\* truncation and deletion free all they cut off.
THEOREM MapNoBlockLost == SpecContained => []NoBlockLost
<1>1. IInv => NoBlockLost
  <2> SUFFICES ASSUME IInv, ~ failed, NEW b \in Block, ~ (listed[b] > 0)
               PROVE  \E f \in File : b \in Held(f)
    BY DEF NoBlockLost
  <2>1. Settled(node, mem, listed, data, {}, ~ failed) /\ data \in [File -> Seq(Block)]
    BY DEF IInv
  <2>2. Full(node, mem, listed, {}) /\ listed[b] # 1
    BY <2>1 DEF Settled
  <2>3. PICK f \in File : \E k \in 0..3 : \E d \in 0..k : \E q \in 0..(Width(k, d) - 1) :
            Val(node, mem, f, k, d, q) = b
    BY <2>2 DEF Full
  <2>4. PICK k \in 0..3 : \E d \in 0..k : \E q \in 0..(Width(k, d) - 1) :
            Val(node, mem, f, k, d, q) = b
    BY <2>3
  <2>5. PICK d \in 0..k : \E q \in 0..(Width(k, d) - 1) : Val(node, mem, f, k, d, q) = b
    BY <2>4
  <2>6. PICK q \in 0..(Width(k, d) - 1) : Val(node, mem, f, k, d, q) = b
    BY <2>5
  <2>7. Mapped(node, mem, f, data[f]) /\ Ends(node, mem, f, Len(data[f]), ~ failed, 0, -1)
        /\ data[f] \in Seq(Block)
    BY <2>1 DEF Settled
  <2>8. Ends(node, mem, f, Len(data[f]), TRUE, 0, -1)
    BY <2>7 DEF Ends
  <2>9. Dense(node, mem, f, k)
    BY <2>7, <2>8, FileDense
  <2>10. Val(node, mem, f, k, d, q) # 0
    BY <2>6, Constants
  <2> DEFINE F == Footprint(node[f], mem)
  <2>11. \E x \in DOMAIN F : F[x] = b
    BY <2>6, <2>9, <2>10, FootprintHeld
  <2>12. b \in Held(f)
    BY <2>11 DEF Held, Range
  <2> QED
    BY <2>12
<1> QED
  BY <1>1, MapInvariant, PTL

\* Unless an append failed, a file has the root of a tree exactly when its size says
\* so: truncation clears every root it leaves without blocks, the one of the level
\* that starts at the cut included.
THEOREM MapRootsMatchSize == SpecContained => []RootsMatchSize
<1>1. IInv => RootsMatchSize
  <2> SUFFICES ASSUME IInv, ~ failed, NEW f \in File, NEW k \in Level
               PROVE  node[f].i_indirect[k] # 0 <=> node[f].i_blocks_num > Base(k)
    BY DEF RootsMatchSize
  <2>1. Settled(node, mem, listed, data, {}, ~ failed) /\ data \in [File -> Seq(Block)]
    BY DEF IInv
  <2>2. Mapped(node, mem, f, data[f]) /\ Ends(node, mem, f, Len(data[f]), ~ failed, 0, -1)
        /\ data[f] \in Seq(Block)
    BY <2>1 DEF Settled
  <2>3. node[f].i_blocks_num = Len(data[f]) /\ Len(data[f]) \in Nat
    BY CountsFit
  <2>4. /\ k \in 1..3 /\ k \in 0..3 /\ 0 \in 0..k /\ k # 0
        /\ 0 \in 0..(Width(k, 0) - 1) /\ First(k, 0, 0) = Base(k) /\ Base(k) \in Nat
    <3>1. k \in 1..3 /\ k \in 0..3 /\ 0 \in 0..k /\ k # 0 /\ k - 0 = k
      BY DEF Level
    <3>2. Width(k, 0) \in Nat /\ Width(k, 0) >= 1 /\ TreeBase(k) = Base(k) /\ TreeBase(k) \in Nat
      BY <3>1, Bases
    <3>3. Span(k) \in Nat
      BY <3>1, Spans
    <3> QED
      BY <3>1, <3>2, <3>3 DEF First
  <2>5. Val(node, mem, f, k, 0, 0) = node[f].i_indirect[k]
    BY <2>4 DEF Val, Below
  <2>6. CASE Len(data[f]) > Base(k)
    <3>1. Val(node, mem, f, k, 0, 0) # 0
      BY <2>2, <2>3, <2>4, <2>6, NonZero
    <3> QED
      BY <2>3, <2>5, <2>6, <3>1
  <2>7. CASE ~ (Len(data[f]) > Base(k))
    <3>1. Val(node, mem, f, k, 0, 0) = 0
      BY <2>2, <2>3, <2>4, <2>7 DEF Ends
    <3> QED
      BY <2>3, <2>5, <2>7, <3>1
  <2> QED
    BY <2>6, <2>7
<1> QED
  BY <1>1, MapInvariant, PTL

\* The index block above logical block x.
LeafOf(f, x) == Leaf(node[f].i_indirect[LevelOf(x)], LevelOf(x), x - Base(LevelOf(x)))

LEMMA LeafVal ==
    ASSUME NEW N, NEW f \in File, NEW k \in 1..3, NEW r \in 0..(Span(k) - 1)
    PROVE  Leaf(N[f].i_indirect[k], k, r) = Val(N, mem, f, k, k - 1, r \div A)
<1> DEFINE b == N[f].i_indirect[k]
<1>0. A \in Nat \ {0} /\ Span(1) = A /\ Span(2) = A * A /\ Span(k) \in Nat /\ r \in Nat /\ A * A \in Nat
  BY Constants, Spans
<1>1. CASE k = 1
  BY <1>1 DEF Leaf, Val, Below
<1>2. CASE k = 2
  <2>1. Digit(r, 2) = (r \div A) % A
    BY <1>0 DEF Digit
  <2>2. Leaf(b, k, r) = Entry(mem, b, (r \div A) % A)
    BY <1>2, <2>1 DEF Leaf, Follow, Entry
  <2>3. Val(N, mem, f, k, k - 1, r \div A) = Entry(mem, b, (r \div A) % A)
    BY <1>2 DEF Val, Below
  <2> QED
    BY <2>2, <2>3
<1>3. CASE k = 3
  <2>1. Digit(r, 2) = (r \div A) % A
    BY <1>0 DEF Digit
  <2>2. Digit(r, 3) = ((r \div A) \div A) % A
    <3>1. Digit(r, 3) = (r \div (A * A)) % A
      BY <1>0 DEF Digit
    <3>2. r \div (A * A) = (r \div A) \div A
      BY <1>0, DivDiv
    <3> QED
      BY <3>1, <3>2
  <2>3. Leaf(b, k, r) = Entry(mem, Entry(mem, b, ((r \div A) \div A) % A), (r \div A) % A)
    BY <1>3, <2>1, <2>2 DEF Leaf, Follow, Entry
  <2>4. Val(N, mem, f, k, k - 1, r \div A)
          = Entry(mem, Entry(mem, b, ((r \div A) \div A) % A), (r \div A) % A)
    BY <1>3 DEF Val, Below
  <2> QED
    BY <2>3, <2>4
<1> QED
  BY <1>1, <1>2, <1>3

\* Where a logical block behind the direct blocks is.
LEMMA BehindDirect ==
    ASSUME NEW l \in Nat, D <= l, l < TreeBase(3) + Width(3, 3)
    PROVE  LET k == LevelOf(l)
           IN  /\ k \in 1..3 /\ k = TreeOf(l)
               /\ Base(k) \in Nat /\ Base(k) = TreeBase(k) /\ Base(k) <= l
               /\ l - Base(k) \in 0..(Span(k) - 1)
               /\ k > 1 <=> Base(2) <= l
<1> DEFINE k == LevelOf(l)
<1>0. D \in Nat /\ A \in Nat /\ A * A \in Nat /\ Base(2) = D + A /\ Base(3) = D + A + A * A
  BY Constants, Bases
<1>1. k \in 1..3 /\ k = TreeOf(l)
  <2>1. 1 \in 0..3
    OBVIOUS
  <2> QED
    BY <1>0, <2>1, TreeRange
<1>2. Base(k) = TreeBase(k) /\ Base(k) \in Nat /\ Width(k, k) = Span(k) /\ Span(k) \in Nat
  <2>1. k \in 0..3 /\ k # 0
    BY <1>1
  <2> HIDE DEF k
  <2> QED
    BY <1>1, <2>1, Bases, Spans DEF Width
<1>3. l - TreeBase(TreeOf(l)) \in 0..(Width(TreeOf(l), TreeOf(l)) - 1)
  BY DataPlace
<1>4. l - Base(k) \in 0..(Span(k) - 1)
  BY <1>1, <1>2, <1>3
<1>5. k > 1 <=> Base(2) <= l
  BY <1>0 DEF LevelOf
<1> QED
  BY <1>1, <1>2, <1>4, <1>5

LEMMA LeafValue ==
    ASSUME NEW f \in File, NEW k \in 1..3, NEW r \in 0..(Span(k) - 1)
    PROVE  LET leaf == Leaf(node[f].i_indirect[k], k, r)
           IN  Val(node, mem, f, k, k, r) = IF leaf = 0 THEN 0 ELSE mem[leaf][r % A]
<1>1. Leaf(node[f].i_indirect[k], k, r) = Val(node, mem, f, k, k - 1, r \div A)
  BY LeafVal
<1>2. k \in 1..k
  OBVIOUS
<1>3. Val(node, mem, f, k, k, r) = Entry(mem, Val(node, mem, f, k, k - 1, r \div A), r % A)
  BY <1>2, ValStep
<1> QED
  BY <1>1, <1>3 DEF Entry

\* Blocks of one index block follow each other.
LEMMA SameLeaf ==
    ASSUME NEW f \in File, NEW x \in Nat, x < TreeBase(3) + Width(3, 3), Base(2) < x,
           (x - Base(LevelOf(x))) % A # 0
    PROVE  LeafOf(f, x - 1) = LeafOf(f, x)
<1> DEFINE k == LevelOf(x)
           r == x - Base(k)
<1>0. /\ D \in Nat /\ A \in Nat /\ A # 0 /\ A * A \in Nat
      /\ Base(2) = D + A /\ Base(3) = D + A + A * A /\ TreeBase(3) + Width(3, 3) \in Nat
  BY Constants, Bases, Limit
<1>1. k \in 1..3 /\ Base(k) \in Nat /\ Base(k) <= x /\ r \in 0..(Span(k) - 1) /\ k > 1
  <2>1. D <= x /\ Base(2) <= x
    BY <1>0
  <2> QED
    BY <2>1, BehindDirect
<1>2. r # 0
  <2>1. 0 % A = 0
    BY <1>0
  <2> QED
    BY <2>1
<1>3. LevelOf(x - 1) = k
  <2>1. k = IF x < Base(3) THEN 2 ELSE 3
    BY <1>0 DEF LevelOf
  <2>2. x # Base(k)
    BY <1>1, <1>2
  <2>3. x - 1 >= Base(2)
    BY <1>0
  <2> HIDE DEF k, r
  <2>4. LevelOf(x - 1) = IF x - 1 < Base(3) THEN 2 ELSE 3
    BY <1>0, <2>3 DEF LevelOf
  <2> QED
    BY <1>0, <2>1, <2>2, <2>4
<1>4. r \in Nat /\ r - 1 \in Nat /\ x - 1 - Base(k) = r - 1 /\ r - 1 \in 0..(Span(k) - 1)
  <2>1. Span(k) \in Nat
    BY <1>1, Spans
  <2> QED
    BY <1>1, <1>2, <2>1
<1> HIDE DEF k, r
<1>5. (r - 1) \div A = r \div A
  <2> DEFINE q == r \div A
             o == r % A
  <2>1. q \in Nat /\ o \in 0..(A - 1) /\ q * A \in Nat /\ r = q * A + o /\ o # 0
    BY <1>0, <1>4, DivMod DEF r, k
  <2> HIDE DEF q, o
  <2>2. o - 1 \in 0..(A - 1) /\ r - 1 = q * A + (o - 1)
    BY <1>0, <1>4, <2>1
  <2>3. (q * A + (o - 1)) \div A = q
    BY <1>0, <2>1, <2>2, DivUnique
  <2> QED
    BY <2>2, <2>3 DEF q
<1>6. LeafOf(f, x) = Val(node, mem, f, k, k - 1, r \div A)
  BY <1>1, LeafVal DEF LeafOf, k, r
<1>7. LeafOf(f, x - 1) = Val(node, mem, f, k, k - 1, (r - 1) \div A)
  <2>1. LeafOf(f, x - 1) = Leaf(node[f].i_indirect[k], k, r - 1)
    BY <1>3, <1>4 DEF LeafOf
  <2> QED
    BY <1>1, <1>4, <2>1, LeafVal
<1> QED
  BY <1>5, <1>6, <1>7

\* What a reader that started at block l remembers before block x.
Memory(f, l, x) == IF x = l \/ x - 1 < Base(2) THEN 0 ELSE LeafOf(f, x - 1)

\* A reader that remembers this finds block x, and then remembers what it should.
LEMMA ReadOne ==
    ASSUME IInv, NEW f \in File, NEW l \in Nat, NEW x \in Nat, l <= x, x < Len(data[f]),
           NEW got, got = get_disk_block_from_inode_block(node[f], x, Memory(f, l, x))
    PROVE  /\ got.block = data[f][x + 1]
           /\ got.prev = Memory(f, l, x + 1)
<1> DEFINE n == node[f]
           k == LevelOf(x)
           r == x - Base(k)
           leaf == Leaf(n.i_indirect[k], k, r)
           prev == Memory(f, l, x)
<1>0. /\ Fits(data) /\ n.i_blocks_num = Len(data[f]) /\ Len(data[f]) \in Nat
      /\ data[f] \in Seq(Block)
  BY CountsFit DEF IInv
<1>1. /\ D \in Nat /\ A \in Nat /\ A # 0 /\ Base(2) = D + A
      /\ TreeBase(3) + Width(3, 3) \in Nat /\ x < TreeBase(3) + Width(3, 3)
  <2>1. Len(data[f]) < TreeBase(3) + Width(3, 3) /\ TreeBase(3) + Width(3, 3) \in Nat
    BY <1>0, Limit DEF Fits
  <2>2. x < TreeBase(3) + Width(3, 3)
    BY <1>0, <2>1
  <2>3. D \in Nat /\ A \in Nat /\ A # 0 /\ Base(2) = D + A
    BY Constants, Bases
  <2> QED
    BY <2>1, <2>2, <2>3
<1>2. DataAt(node, mem, f, x) = data[f][x + 1] /\ data[f][x + 1] # 0
  <2>1. Mapped(node, mem, f, data[f])
    BY DEF IInv, Settled
  <2>2. x \in 0..(Len(data[f]) - 1) /\ x + 1 \in 1..Len(data[f])
    BY <1>0
  <2>3. data[f][x + 1] \in Block
    BY <1>0, <2>2, ElementOfSeq
  <2> QED
    BY <2>1, <2>2, <2>3, Constants DEF Mapped
<1>3. x + 1 # l /\ x + 1 - 1 = x
  OBVIOUS
<1>4. Memory(f, l, x + 1) = IF x < Base(2) THEN 0 ELSE LeafOf(f, x)
  BY <1>3 DEF Memory
<1>5. ~ (x > n.i_blocks_num) /\ x <= n.i_blocks_num
  BY <1>0
<1>6. x < Base(2) => prev = 0
  BY <1>1 DEF Memory
<1> HIDE DEF prev
<1>7. got = get_disk_block_from_inode_block(n, x, prev)
  BY DEF prev
<1>8. CASE x < D
  <2>1. DataAt(node, mem, f, x) = n.i_direct_blocks[x]
    <3>1. TreeOf(x) = 0 /\ x - TreeBase(0) = x
      BY <1>8, Bases DEF TreeOf
    <3> QED
      BY <3>1 DEF DataAt, Val
  <2>2. got = [block |-> n.i_direct_blocks[x], prev |-> prev]
    BY <1>1, <1>5, <1>7, <1>8 DEF get_disk_block_from_inode_block
  <2>3. x < Base(2)
    BY <1>1, <1>8
  <2> QED
    BY <1>2, <1>4, <1>6, <2>1, <2>2, <2>3
<1>9. CASE D <= x
  <2>1. /\ k \in 1..3 /\ k = TreeOf(x)
        /\ Base(k) \in Nat /\ Base(k) = TreeBase(k) /\ Base(k) <= x
        /\ r \in 0..(Span(k) - 1)
        /\ k > 1 <=> Base(2) <= x
    BY <1>1, <1>9, BehindDirect
  <2>2. DataAt(node, mem, f, x) = Val(node, mem, f, k, k, r)
    BY <2>1 DEF DataAt
  <2>3. Val(node, mem, f, k, k, r) = IF leaf = 0 THEN 0 ELSE mem[leaf][r % A]
    BY <2>1, LeafValue
  <2>4. leaf # 0 /\ mem[leaf][r % A] = data[f][x + 1]
    BY <1>2, <2>2, <2>3
  <2>5. leaf = LeafOf(f, x)
    BY DEF LeafOf
  <2>6. k > 1 /\ r % A # 0 /\ prev # 0 => prev = leaf
    <3> SUFFICES ASSUME k > 1, r % A # 0, prev # 0 PROVE prev = leaf
      OBVIOUS
    <3>1. prev = LeafOf(f, x - 1) /\ Base(2) <= x - 1
      BY <1>1 DEF Memory, prev
    <3>2. Base(2) < x
      BY <1>1, <3>1
    <3>3. LeafOf(f, x - 1) = LeafOf(f, x)
      BY <1>1, <3>2, SameLeaf
    <3> QED
      BY <2>5, <3>1, <3>3
  <2> DEFINE short == k > 1 /\ n.i_indirect[k] # 0 /\ r % A # 0 /\ prev # 0
  <2>7. got = IF short
              THEN [block |-> mem[prev][r % A], prev |-> prev]
              ELSE IF leaf = 0
                   THEN [block |-> -1, prev |-> prev]
                   ELSE [block |-> mem[leaf][r % A], prev |-> IF k > 1 THEN leaf ELSE prev]
    <3>1. ~ (x < D)
      BY <1>1, <1>9
    <3> HIDE DEF n
    <3> QED
      BY <1>5, <1>7, <1>9, <3>1 DEF get_disk_block_from_inode_block
  <2> HIDE DEF leaf, r, k, n
  <2>8. CASE short
    BY <1>4, <1>1, <2>1, <2>4, <2>5, <2>6, <2>7, <2>8
  <2>9. CASE ~ short
    BY <1>4, <1>1, <1>6, <2>1, <2>4, <2>5, <2>7, <2>9
  <2> QED
    BY <2>8, <2>9
<1> QED
  BY <1>1, <1>8, <1>9

\* What altfs_read remembers while it walks through a file.
LEMMA WalkMemory ==
    ASSUME IInv, NEW f \in File, NEW l \in Nat, l < Len(data[f]),
           NEW x \in l..Len(data[f])
    PROVE  Remembered(node[f], l)[x] = Memory(f, l, x)
<1> DEFINE n == node[f]
           e == n.i_blocks_num
           T[y \in l..e] ==
               IF y = l THEN 0 ELSE get_disk_block_from_inode_block(n, y - 1, T[y - 1]).prev
           w == [y \in l..e |-> Memory(f, l, y)]
<1>0. e = Len(data[f]) /\ e \in Nat
  BY CountsFit
<1> HIDE DEF e
<1>1. Remembered(n, l) = T
  BY DEF Remembered, e
<1>2. ASSUME NEW y \in l..e, y # l
      PROVE  /\ y - 1 \in l..e
             /\ get_disk_block_from_inode_block(n, y - 1, Memory(f, l, y - 1)).prev = Memory(f, l, y)
  <2>1. y - 1 \in Nat /\ l <= y - 1 /\ y - 1 < Len(data[f]) /\ y - 1 + 1 = y
    BY <1>0, <1>2
  <2>2. get_disk_block_from_inode_block(n, y - 1, Memory(f, l, y - 1)).prev = Memory(f, l, y - 1 + 1)
    BY <2>1, ReadOne
  <2> QED
    BY <1>0, <2>1, <2>2
<1>3. Memory(f, l, l) = 0
  BY DEF Memory
<1> HIDE DEF n
<1>4. w = [y \in l..e |-> IF y = l THEN 0
                          ELSE get_disk_block_from_inode_block(n, y - 1, w[y - 1]).prev]
  BY <1>2, <1>3
<1>5. T = [y \in l..e |-> IF y = l THEN 0
                          ELSE get_disk_block_from_inode_block(n, y - 1, T[y - 1]).prev]
  <2> HIDE DEF w
  <2> QED
    BY <1>4
<1> HIDE DEF T
<1> DEFINE S == {i \in Nat : l + i <= e => T[l + i] = Memory(f, l, l + i)}
<1>6. 0 \in S
  <2>1. l + 0 = l /\ l \in l..e
    BY <1>0
  <2>2. T[l] = 0
    BY <1>5, <2>1
  <2> QED
    BY <1>3, <2>1, <2>2
<1>7. \A i \in Nat : i \in S => i + 1 \in S
  <2> SUFFICES ASSUME NEW i \in Nat, i \in S, l + (i + 1) <= e
               PROVE  T[l + (i + 1)] = Memory(f, l, l + (i + 1))
    OBVIOUS
  <2> DEFINE y == l + (i + 1)
  <2>1. y \in l..e /\ y # l /\ y - 1 = l + i /\ l + i <= e
    BY <1>0
  <2>2. T[l + i] = Memory(f, l, l + i)
    BY <2>1
  <2> HIDE DEF y
  <2>3. T[y] = get_disk_block_from_inode_block(n, y - 1, T[y - 1]).prev
    BY <1>5, <2>1
  <2>4. get_disk_block_from_inode_block(n, y - 1, Memory(f, l, y - 1)).prev = Memory(f, l, y)
    BY <1>2, <2>1
  <2>5. T[y] = Memory(f, l, y)
    BY <2>1, <2>2, <2>3, <2>4
  <2> QED
    BY <2>5 DEF y
<1> HIDE DEF S
<1>8. Nat \subseteq S
  BY <1>6, <1>7, SetInduction
<1>9. x - l \in Nat /\ l + (x - l) = x /\ x <= e
  BY <1>0
<1>10. T[x] = Memory(f, l, x)
  <2>1. x - l \in S
    BY <1>8, <1>9
  <2> QED
    BY <1>9, <2>1 DEF S
<1> QED
  BY <1>1, <1>10 DEF n

\* Behind the last block there is nothing to find.
LEMMA ReadEnd ==
    ASSUME IInv, NEW f \in File
    PROVE  get_disk_block_from_inode_block(node[f], Len(data[f]), 0).block <= 0
<1> DEFINE n == node[f]
           x == Len(data[f])
           k == LevelOf(x)
           r == x - Base(k)
           leaf == Leaf(n.i_indirect[k], k, r)
           got == get_disk_block_from_inode_block(n, x, 0)
<1>0. /\ Fits(data) /\ n.i_blocks_num = x /\ x \in Nat
      /\ Ends(node, mem, f, x, ~ failed, 0, -1)
  BY CountsFit DEF IInv, Settled
<1>1. /\ D \in Nat /\ TreeBase(3) + Width(3, 3) \in Nat /\ x < TreeBase(3) + Width(3, 3)
  BY Constants, Limit, <1>0 DEF Fits
<1> HIDE DEF x
<1>2. DataAt(node, mem, f, x) = 0
  <2> DEFINE t == TreeOf(x)
             q == x - TreeBase(t)
  <2>1. t \in 0..3 /\ t \in 0..t /\ q \in 0..(Width(t, t) - 1) /\ First(t, t, q) = x
    BY <1>0, <1>1, DataPlace
  <2> HIDE DEF t, q
  <2>2. ~ (t = 0 /\ t <= -1 /\ First(t, t, q) = x)
    BY <2>1
  <2>3. Val(node, mem, f, t, t, q) = 0
    BY <1>0, <2>1, <2>2 DEF Ends
  <2> QED
    BY <2>3 DEF DataAt, t, q
<1>3. ~ (x > n.i_blocks_num) /\ x <= n.i_blocks_num
  BY <1>0
<1>4. CASE x < D
  <2>1. TreeOf(x) = 0 /\ x - TreeBase(0) = x
    BY <1>0, <1>4, Bases DEF TreeOf
  <2>2. DataAt(node, mem, f, x) = n.i_direct_blocks[x]
    BY <2>1 DEF DataAt, Val
  <2>3. got = [block |-> n.i_direct_blocks[x], prev |-> 0]
    <3> HIDE DEF n
    <3> QED
      BY <1>0, <1>1, <1>3, <1>4 DEF get_disk_block_from_inode_block
  <2> QED
    BY <1>2, <2>2, <2>3 DEF x
<1>5. CASE D <= x
  <2>1. k \in 1..3 /\ k = TreeOf(x) /\ Base(k) = TreeBase(k) /\ r \in 0..(Span(k) - 1)
    BY <1>0, <1>1, <1>5, BehindDirect
  <2>2. DataAt(node, mem, f, x) = Val(node, mem, f, k, k, r)
    BY <2>1 DEF DataAt
  <2>3. Val(node, mem, f, k, k, r) = IF leaf = 0 THEN 0 ELSE mem[leaf][r % A]
    BY <2>1, LeafValue
  <2>4. got = IF leaf = 0
              THEN [block |-> -1, prev |-> 0]
              ELSE [block |-> mem[leaf][r % A], prev |-> IF k > 1 THEN leaf ELSE 0]
    <3>1. ~ (x < D)
      BY <1>0, <1>1, <1>5
    <3> HIDE DEF n
    <3> QED
      BY <1>3, <1>5, <3>1 DEF get_disk_block_from_inode_block
  <2> HIDE DEF leaf, r, k, n, got
  <2>5. got.block <= 0
    BY <1>2, <2>2, <2>3, <2>4
  <2> QED
    BY <2>5 DEF got, n, x
<1> QED
  BY <1>0, <1>1, <1>4, <1>5

\* A reader that starts anywhere and hands the remembered index block from block to
\* block finds every block where it was appended, and nothing behind the end.
THEOREM MapMappingCorrect == SpecContained => []MappingCorrect
<1>1. IInv => MappingCorrect
  <2> SUFFICES ASSUME IInv, NEW f \in File
               PROVE  /\ node[f].i_blocks_num = Len(data[f])
                      /\ \A l \in 0..(Len(data[f]) - 1) : \A x \in l..(Len(data[f]) - 1) :
                            get_disk_block_from_inode_block(node[f], x, Remembered(node[f], l)[x]).block
                               = data[f][x + 1]
                      /\ get_disk_block_from_inode_block(node[f], Len(data[f]), 0).block <= 0
    BY DEF MappingCorrect
  <2>1. node[f].i_blocks_num = Len(data[f]) /\ Len(data[f]) \in Nat
    BY CountsFit
  <2>2. ASSUME NEW l \in 0..(Len(data[f]) - 1), NEW x \in l..(Len(data[f]) - 1)
        PROVE  get_disk_block_from_inode_block(node[f], x, Remembered(node[f], l)[x]).block
                  = data[f][x + 1]
    <3>1. /\ l \in Nat /\ x \in Nat /\ l <= x /\ l < Len(data[f]) /\ x < Len(data[f])
          /\ x \in l..Len(data[f])
      BY <2>1
    <3>2. Remembered(node[f], l)[x] = Memory(f, l, x)
      BY <3>1, WalkMemory
    <3>3. get_disk_block_from_inode_block(node[f], x, Memory(f, l, x)).block = data[f][x + 1]
      BY <3>1, ReadOne
    <3> QED
      BY <3>2, <3>3
  <2>3. get_disk_block_from_inode_block(node[f], Len(data[f]), 0).block <= 0
    BY ReadEnd
  <2> QED
    BY <2>1, <2>2, <2>3
<1> QED
  BY <1>1, MapInvariant, PTL
=============================================================================
