----------------------------- MODULE TreeLemmas -----------------------------
(***************************************************************************)
(* Lemmas about the directory tree. What a block of records, a search and  *)
(* a lookup are; what makes a disk sound; and that each call of Tree, from *)
(* its first write to its last, keeps it sound at every cut between two of *)
(* them.                                                                   *)
(*                                                                         *)
(* Sane(d, R) says of a set R of inodes that it holds the root and         *)
(* whatever its names lead to, and that the blocks and records of its      *)
(* inodes are in order. R may hold more than can be reached, so a step is  *)
(* followed without following paths.                                       *)
(***************************************************************************)
EXTENDS Tree, SequenceTheorems, FiniteSetTheorems, NaturalFacts

-----------------------------------------------------------------------------
(* Records and their places in a block *)

AnyName == Name \cup {".", ".."}

\* A record has a positive length, and an empty block takes it.
LEMMA RecordLengths ==
    ASSUME NEW n \in AnyName
    PROVE  /\ BLOCK_SIZE \in Nat /\ RECORD_FIXED_LEN \in Nat
           /\ Strlen(n) \in Nat /\ Strlen(n) > 0
           /\ RECORD_FIXED_LEN + Strlen(n) + 1 <= BLOCK_SIZE
<1>1. CASE n \in Name
  <2>1. n # "." /\ n # ".."
    BY <1>1, RecordAssumption
  <2> QED
    BY <1>1, <2>1, RecordAssumption DEF Strlen
<1>2. CASE n \in {".", ".."}
  <2>1. Strlen(n) \in 1..2
    BY <1>2 DEF Strlen
  <2> QED
    BY <2>1, RecordAssumption
<1> QED
  BY <1>1, <1>2 DEF AnyName

\* The length that a record is written with.
LEMMA RecordLengthIs ==
    ASSUME NEW r \in Record
    PROVE  /\ RecordLength(r) \in Nat
           /\ RecordLength(r) = RECORD_FIXED_LEN + Strlen(r.name) + 1
           /\ RecordLength(r) > RECORD_FIXED_LEN + 1
           /\ RecordLength(r) <= BLOCK_SIZE
<1>1. r.name \in AnyName
  BY DEF Record, AnyName
<1> QED
  BY <1>1, RecordLengths DEF RecordLength

\* The sum that Offset computes, step by step.
LEMMA OffsetIs ==
    ASSUME NEW s \in Seq(Record)
    PROVE  /\ Offset(s, 1) = 0
           /\ \A k \in 1..Len(s) : Offset(s, k + 1) = Offset(s, k) + RecordLength(s[k])
           /\ \A k \in 1..(Len(s) + 1) : Offset(s, k) \in Nat
<1> DEFINE N == Len(s)
           body(g, k) == IF k = 0 THEN 0 ELSE g[k - 1] + RecordLength(s[k])
           end == CHOOSE g : g = [k \in 0..N |-> body(g, k)]
           W(n) == {g \in [0..n -> Nat] : /\ g[0] = 0
                                          /\ \A k \in 1..n : g[k] = g[k - 1] + RecordLength(s[k])}
           S == {n \in Nat : n <= N => W(n) # {}}
<1>1. N \in Nat /\ \A k \in 1..N : s[k] \in Record
  OBVIOUS
<1>2. \A k \in 1..N : RecordLength(s[k]) \in Nat
  BY <1>1, RecordLengthIs
<1>3. Nat \subseteq S
  <2>1. 0 \in S
    <3>1. [k \in 0..0 |-> 0] \in W(0)
      OBVIOUS
    <3> QED
      BY <3>1
  <2>2. ASSUME NEW n \in Nat, n \in S PROVE n + 1 \in S
    <3> SUFFICES ASSUME n + 1 <= N PROVE W(n + 1) # {}
      OBVIOUS
    <3>0. W(n) # {}
      <4>1. n <= N
        BY <1>1
      <4> HIDE DEF W
      <4> QED
        BY <2>2, <4>1
    <3>1. PICK g \in W(n) : TRUE
      <4> HIDE DEF W
      <4> QED
        BY <3>0
    <3> DEFINE h == [k \in 0..(n + 1) |-> IF k <= n THEN g[k] ELSE g[n] + RecordLength(s[n + 1])]
    <3>2. n + 1 \in 1..N /\ g \in [0..n -> Nat] /\ g[0] = 0
      BY <1>1, <3>1
    <3>3. h \in [0..(n + 1) -> Nat]
      BY <1>2, <3>2
    <3>4. h[0] = 0
      BY <3>2
    <3>5. ASSUME NEW k \in 1..(n + 1) PROVE h[k] = h[k - 1] + RecordLength(s[k])
      <4>1. CASE k = n + 1
        BY <4>1
      <4>2. CASE k <= n
        BY <3>1, <4>2
      <4> QED
        BY <4>1, <4>2
    <3>6. h \in W(n + 1)
      <4> HIDE DEF h
      <4> QED
        BY <3>3, <3>4, <3>5
    <3> QED
      BY <3>6
  <2> HIDE DEF S
  <2> QED
    BY <2>1, <2>2, SetInduction
<1>4. PICK g \in W(N) : TRUE
  <2> HIDE DEF W
  <2>1. W(N) # {}
    BY <1>1, <1>3
  <2> QED
    BY <2>1
<1>5. g = [k \in 0..N |-> body(g, k)]
  <2>1. \A k \in 0..N : g[k] = body(g, k)
    BY <1>1, <1>4
  <2>2. g = [k \in 0..N |-> g[k]]
    BY <1>4
  <2> HIDE DEF body
  <2> QED
    BY <2>1, <2>2
<1>6. end = [k \in 0..N |-> body(end, k)]
  <2> HIDE DEF body
  <2> QED
    BY <1>5
<1>7. \A i : Offset(s, i) = end[i - 1]
  BY DEF Offset
<1> HIDE DEF end
<1>8. end[0] = 0 /\ \A k \in 1..N : end[k] = end[k - 1] + RecordLength(s[k])
  <2>1. \A k \in 0..N : end[k] = body(end, k)
    <3> HIDE DEF body
    <3> QED
      BY <1>6
  <2> QED
    BY <1>1, <2>1
<1>9. \A k \in 0..N : end[k] \in Nat
  <2> DEFINE T == {k \in Nat : k <= N => end[k] \in Nat}
  <2>1. 0 \in T
    BY <1>8
  <2>2. ASSUME NEW k \in Nat, k \in T PROVE k + 1 \in T
    <3> SUFFICES ASSUME k + 1 <= N PROVE end[k + 1] \in Nat
      OBVIOUS
    <3>1. end[k] \in Nat /\ k + 1 \in 1..N /\ (k + 1) - 1 = k
      BY <1>1, <2>2
    <3> QED
      BY <1>2, <1>8, <3>1
  <2>3. Nat \subseteq T
    <3> HIDE DEF T
    <3> QED
      BY <2>1, <2>2, SetInduction
  <2> QED
    BY <1>1, <2>3
<1>10. Offset(s, 1) = 0
  BY <1>7, <1>8
<1>11. ASSUME NEW k \in 1..N PROVE Offset(s, k + 1) = Offset(s, k) + RecordLength(s[k])
  <2>1. (k + 1) - 1 = k
    OBVIOUS
  <2> QED
    BY <1>7, <1>8, <2>1
<1>12. ASSUME NEW k \in 1..(N + 1) PROVE Offset(s, k) \in Nat
  <2>1. k - 1 \in 0..N
    BY <1>1
  <2> QED
    BY <1>7, <1>9, <2>1
<1> QED
  BY <1>10, <1>11, <1>12

\* Records do not run into each other: a later one starts later.
LEMMA OffsetGrows ==
    ASSUME NEW s \in Seq(Record), NEW i \in 1..(Len(s) + 1), NEW j \in 1..(Len(s) + 1), i <= j
    PROVE  Offset(s, i) <= Offset(s, j)
<1> DEFINE T == {k \in Nat : i + k <= Len(s) + 1 => Offset(s, i) <= Offset(s, i + k)}
<1>1. 0 \in T
  BY OffsetIs
<1>2. ASSUME NEW k \in Nat, k \in T PROVE k + 1 \in T
  <2> SUFFICES ASSUME i + (k + 1) <= Len(s) + 1 PROVE Offset(s, i) <= Offset(s, i + (k + 1))
    OBVIOUS
  <2>1. i + k \in 1..Len(s) /\ i + (k + 1) = (i + k) + 1
    OBVIOUS
  <2>2. Offset(s, i) <= Offset(s, i + k)
    BY <1>2, <2>1
  <2>3. /\ Offset(s, (i + k) + 1) = Offset(s, i + k) + RecordLength(s[i + k])
        /\ Offset(s, i) \in Nat /\ Offset(s, i + k) \in Nat
    BY <2>1, OffsetIs
  <2>4. RecordLength(s[i + k]) \in Nat
    BY <2>1, RecordLengthIs
  <2> QED
    BY <2>1, <2>2, <2>3, <2>4
<1>3. Nat \subseteq T
  <2> HIDE DEF T
  <2> QED
    BY <1>1, <1>2, SetInduction
<1>4. j - i \in Nat /\ i + (j - i) = j
  OBVIOUS
<1> QED
  BY <1>3, <1>4

\* What a block holds ends inside it.
Fits(s) == Offset(s, Len(s) + 1) <= BLOCK_SIZE

\* Then the searches, which stop by byte position, come past every record.
LEMMA FitsAll ==
    ASSUME NEW s \in Seq(Record), Fits(s), NEW k \in 1..Len(s)
    PROVE  Offset(s, k) < LAST_POSSIBLE_RECORD
<1>1. s[k] \in Record /\ k + 1 \in 1..(Len(s) + 1) /\ k + 1 <= Len(s) + 1
      /\ Len(s) + 1 \in 1..(Len(s) + 1) /\ k \in 1..(Len(s) + 1)
  OBVIOUS
<1>2. Offset(s, k + 1) <= Offset(s, Len(s) + 1)
  BY <1>1, OffsetGrows
<1>3. Offset(s, k + 1) = Offset(s, k) + RecordLength(s[k])
  BY OffsetIs
<1>4. Offset(s, k) \in Nat /\ Offset(s, k + 1) \in Nat /\ Offset(s, Len(s) + 1) \in Nat
  BY <1>1, OffsetIs
<1>5. RecordLength(s[k]) \in Nat /\ RecordLength(s[k]) > RECORD_FIXED_LEN + 1
  BY <1>1, RecordLengthIs
<1>6. BLOCK_SIZE \in Nat /\ RECORD_FIXED_LEN \in Nat
  BY RecordAssumption
<1>7. Offset(s, Len(s) + 1) <= BLOCK_SIZE
  BY DEF Fits
<1>8. Offset(s, k) < BLOCK_SIZE - RECORD_FIXED_LEN
  BY ONLY <1>2, <1>3, <1>4, <1>5, <1>6, <1>7
<1> QED
  BY <1>8 DEF LAST_POSSIBLE_RECORD

\* Records start where they start in any block with the same ones before them.
LEMMA OffsetPrefix ==
    ASSUME NEW s \in Seq(Record), NEW t \in Seq(Record), NEW n \in Nat,
           n <= Len(s), n <= Len(t), \A k \in 1..n : s[k] = t[k],
           NEW k \in 1..(n + 1)
    PROVE  Offset(s, k) = Offset(t, k)
<1> DEFINE T == {m \in Nat : m <= n => Offset(s, m + 1) = Offset(t, m + 1)}
<1>1. 0 \in T
  BY OffsetIs
<1>2. ASSUME NEW m \in Nat, m \in T PROVE m + 1 \in T
  <2> SUFFICES ASSUME m + 1 <= n PROVE Offset(s, (m + 1) + 1) = Offset(t, (m + 1) + 1)
    OBVIOUS
  <2>1. m + 1 \in 1..Len(s) /\ m + 1 \in 1..Len(t) /\ m + 1 \in 1..n
    OBVIOUS
  <2>2. Offset(s, m + 1) = Offset(t, m + 1)
    BY <1>2, <2>1
  <2>3. s[m + 1] = t[m + 1]
    BY <2>1
  <2>4. Offset(s, (m + 1) + 1) = Offset(s, m + 1) + RecordLength(s[m + 1])
    BY <2>1, OffsetIs
  <2>5. Offset(t, (m + 1) + 1) = Offset(t, m + 1) + RecordLength(t[m + 1])
    BY <2>1, OffsetIs
  <2> QED
    BY <2>2, <2>3, <2>4, <2>5
<1>3. Nat \subseteq T
  <2> HIDE DEF T
  <2> QED
    BY <1>1, <1>2, SetInduction
<1>4. k - 1 \in Nat /\ k - 1 <= n /\ (k - 1) + 1 = k
  OBVIOUS
<1> QED
  BY <1>3, <1>4

\* What Append does.
LEMMA AppendIs ==
    ASSUME NEW S, NEW s \in Seq(S), NEW r \in S
    PROVE  /\ Append(s, r) \in Seq(S)
           /\ Len(Append(s, r)) = Len(s) + 1
           /\ Append(s, r)[Len(s) + 1] = r
           /\ \A k \in 1..Len(s) : Append(s, r)[k] = s[k]
OBVIOUS

\* A record that HasRoom admits ends inside the block.
LEMMA AppendFits ==
    ASSUME NEW s \in Seq(Record), NEW r \in Record, HasRoom(s, r.name)
    PROVE  Fits(Append(s, r))
<1> DEFINE t == Append(s, r)
<1>1. /\ t \in Seq(Record) /\ Len(t) = Len(s) + 1 /\ t[Len(s) + 1] = r
      /\ \A k \in 1..Len(s) : t[k] = s[k]
  BY AppendIs
<1>2. Len(s) + 1 \in 1..Len(t) /\ Len(s) \in Nat /\ Len(s) <= Len(t)
  BY <1>1
<1> HIDE DEF t
<1>3. Offset(t, Len(s) + 1) = Offset(s, Len(s) + 1)
  BY <1>1, <1>2, OffsetPrefix
<1>4. Offset(t, Len(t) + 1) = Offset(t, Len(s) + 1) + RecordLength(r)
  BY <1>1, <1>2, OffsetIs
<1>5. Offset(s, Len(s) + 1) \in Nat
  BY <1>2, OffsetIs
<1>6. BLOCK_SIZE - Offset(s, Len(s) + 1) - RECORD_FIXED_LEN >= Strlen(r.name) + 1
  BY DEF HasRoom
<1>7. RecordLength(r) = RECORD_FIXED_LEN + Strlen(r.name) + 1
  BY RecordLengthIs
<1>8. BLOCK_SIZE \in Nat /\ RECORD_FIXED_LEN \in Nat /\ Strlen(r.name) \in Nat
  BY RecordLengths DEF Record, AnyName
<1>9. Offset(t, Len(t) + 1) <= BLOCK_SIZE
  BY ONLY <1>3, <1>4, <1>5, <1>6, <1>7, <1>8
<1> QED
  BY <1>9 DEF Fits, t

\* A new block takes any record.
LEMMA FirstFits ==
    ASSUME NEW r \in Record
    PROVE  Fits(<< >>) /\ Fits(Append(<< >>, r))
<1>1. << >> \in Seq(Record) /\ Len(<< >>) = 0
  OBVIOUS
<1>2. Offset(<< >>, 1) = 0
  BY <1>1, OffsetIs
<1>3. Fits(<< >>)
  BY <1>1, <1>2, RecordAssumption DEF Fits
<1>4. r.name \in AnyName
  BY DEF Record, AnyName
<1>5. HasRoom(<< >>, r.name)
  <2>1. /\ BLOCK_SIZE \in Nat /\ RECORD_FIXED_LEN \in Nat
        /\ Strlen(r.name) \in Nat /\ Strlen(r.name) > 0
        /\ RECORD_FIXED_LEN + Strlen(r.name) + 1 <= BLOCK_SIZE
    BY <1>4, RecordLengths
  <2>2. Offset(<< >>, Len(<< >>) + 1) = 0
    BY <1>1, <1>2
  <2> QED
    BY <2>1, <2>2 DEF HasRoom, LAST_POSSIBLE_RECORD
<1> QED
  BY <1>1, <1>3, <1>5, AppendFits

\* What Without does: the records behind the gap move up.
LEMMA WithoutIs ==
    ASSUME NEW S, NEW s \in Seq(S), NEW i \in 1..Len(s)
    PROVE  /\ Without(s, i) \in Seq(S)
           /\ Len(Without(s, i)) = Len(s) - 1
           /\ \A k \in 1..(i - 1) : Without(s, i)[k] = s[k]
           /\ \A k \in i..(Len(s) - 1) : Without(s, i)[k] = s[k + 1]
<1> DEFINE a == SubSeq(s, 1, i - 1)
           z == SubSeq(s, i + 1, Len(s))
<1>1. /\ a \in Seq(S) /\ Len(a) = i - 1 /\ \A k \in 1..(i - 1) : a[k] = s[k]
  OBVIOUS
<1>2. /\ z \in Seq(S) /\ Len(z) = Len(s) - i
      /\ \A k \in 1..(Len(s) - i) : z[k] = s[i + k]
  BY SubSeqProperties
<1>3. Without(s, i) = a \o z
  BY DEF Without, RemoveAt
<1> HIDE DEF a, z
<1>4. /\ a \o z \in Seq(S) /\ Len(a \o z) = Len(a) + Len(z)
      /\ \A k \in 1..Len(a) : (a \o z)[k] = a[k]
      /\ \A k \in (Len(a) + 1)..(Len(a) + Len(z)) : (a \o z)[k] = z[k - Len(a)]
  <2>1. a \in Seq(S) /\ z \in Seq(S)
    BY <1>1, <1>2
  <2> QED
    BY ONLY <2>1
<1>5. ASSUME NEW k \in i..(Len(s) - 1) PROVE (a \o z)[k] = s[k + 1]
  <2>1. k \in (Len(a) + 1)..(Len(a) + Len(z)) /\ k - Len(a) \in 1..(Len(s) - i)
        /\ i + (k - Len(a)) = k + 1
    BY <1>1, <1>2
  <2> QED
    BY <1>2, <1>4, <2>1
<1>6. Len(a \o z) = Len(s) - 1
  BY <1>1, <1>2, <1>4
<1>7. \A k \in 1..(i - 1) : (a \o z)[k] = s[k]
  BY <1>1, <1>4
<1> QED
  BY <1>3, <1>4, <1>5, <1>6, <1>7

\* The records behind the one that goes move up by its length.
LEMMA WithoutOffset ==
    ASSUME NEW s \in Seq(Record), NEW i \in 1..Len(s), NEW t, t = Without(s, i)
    PROVE  /\ Offset(t, Len(t) + 1) + RecordLength(s[i]) = Offset(s, Len(s) + 1)
           /\ Offset(t, Len(t) + 1) \in Nat /\ Offset(s, Len(s) + 1) \in Nat
           /\ RecordLength(s[i]) \in Nat
<1> DEFINE T == {m \in Nat : i + m <= Len(s) =>
                    Offset(t, i + m) + RecordLength(s[i]) = Offset(s, (i + m) + 1)}
<1>1. /\ t \in Seq(Record) /\ Len(t) = Len(s) - 1
      /\ \A k \in 1..(i - 1) : t[k] = s[k]
      /\ \A k \in i..(Len(s) - 1) : t[k] = s[k + 1]
  BY WithoutIs
<1>2. 0 \in T
  <2>1. Offset(t, i) = Offset(s, i)
    <3>1. i - 1 \in Nat /\ i - 1 <= Len(s) /\ i - 1 <= Len(t) /\ i \in 1..((i - 1) + 1)
      BY <1>1
    <3> QED
      BY <1>1, <3>1, OffsetPrefix
  <2>2. Offset(s, i + 1) = Offset(s, i) + RecordLength(s[i])
    BY OffsetIs
  <2> QED
    BY <2>1, <2>2
<1>3. ASSUME NEW m \in Nat, m \in T PROVE m + 1 \in T
  <2> SUFFICES ASSUME i + (m + 1) <= Len(s)
               PROVE  Offset(t, i + (m + 1)) + RecordLength(s[i]) = Offset(s, (i + (m + 1)) + 1)
    OBVIOUS
  <2> DEFINE k == i + m
  <2>1. k \in i..(Len(s) - 1) /\ k \in 1..Len(t) /\ k + 1 \in 1..Len(s) /\ i + (m + 1) = k + 1
        /\ k \in 1..(Len(t) + 1) /\ k + 1 \in 1..(Len(s) + 1) /\ k \in 1..Len(s)
    BY <1>1
  <2>2. Offset(t, k) + RecordLength(s[i]) = Offset(s, k + 1)
    BY <1>3, <2>1
  <2> HIDE DEF k
  <2>3. Offset(t, k + 1) = Offset(t, k) + RecordLength(t[k]) /\ Offset(t, k) \in Nat
    BY <1>1, <2>1, OffsetIs
  <2>4. Offset(s, (k + 1) + 1) = Offset(s, k + 1) + RecordLength(s[k + 1])
        /\ Offset(s, k + 1) \in Nat
    BY <2>1, OffsetIs
  <2>5. t[k] = s[k + 1]
    BY <1>1, <2>1
  <2>6. RecordLength(s[i]) \in Nat /\ RecordLength(s[k + 1]) \in Nat
    BY <2>1, RecordLengthIs
  <2>7. Offset(t, k + 1) + RecordLength(s[i]) = Offset(s, (k + 1) + 1)
    BY ONLY <2>2, <2>3, <2>4, <2>5, <2>6
  <2> QED
    BY <2>1, <2>7
<1>4. Nat \subseteq T
  <2> HIDE DEF T
  <2> QED
    BY <1>2, <1>3, SetInduction
<1>5. Len(s) - i \in Nat /\ i + (Len(s) - i) = Len(s)
  OBVIOUS
<1>6. Offset(t, Len(s)) + RecordLength(s[i]) = Offset(s, Len(s) + 1)
  <2>1. Len(s) - i \in T
    BY <1>4, <1>5
  <2>2. Offset(t, i + (Len(s) - i)) + RecordLength(s[i]) = Offset(s, (i + (Len(s) - i)) + 1)
    BY <1>5, <2>1
  <2> QED
    BY <1>5, <2>2
<1>7. Offset(t, Len(s)) \in Nat /\ Offset(s, Len(s) + 1) \in Nat /\ Len(t) + 1 = Len(s)
  BY <1>1, OffsetIs
<1>8. RecordLength(s[i]) \in Nat
  BY RecordLengthIs
<1> QED
  BY ONLY <1>6, <1>7, <1>8

\* The records that are left fit in the block.
LEMMA WithoutFits ==
    ASSUME NEW s \in Seq(Record), NEW i \in 1..Len(s), Fits(s)
    PROVE  Fits(Without(s, i))
<1> DEFINE t == Without(s, i)
<1>1. /\ Offset(t, Len(t) + 1) + RecordLength(s[i]) = Offset(s, Len(s) + 1)
      /\ Offset(t, Len(t) + 1) \in Nat /\ Offset(s, Len(s) + 1) \in Nat
      /\ RecordLength(s[i]) \in Nat
  BY WithoutOffset
<1>2. BLOCK_SIZE \in Nat /\ Offset(s, Len(s) + 1) <= BLOCK_SIZE
  BY RecordAssumption DEF Fits
<1>3. Offset(t, Len(t) + 1) <= BLOCK_SIZE
  BY ONLY <1>1, <1>2
<1> QED
  BY <1>3 DEF Fits

\* They leave room for the record that went, or another one of its name.
LEMMA WithoutRoom ==
    ASSUME NEW s \in Seq(Record), NEW i \in 1..Len(s), Fits(s)
    PROVE  HasRoom(Without(s, i), s[i].name)
<1> DEFINE t == Without(s, i)
           o == Offset(t, Len(t) + 1)
<1>1. /\ o + RecordLength(s[i]) = Offset(s, Len(s) + 1)
      /\ o \in Nat /\ Offset(s, Len(s) + 1) \in Nat
      /\ RecordLength(s[i]) \in Nat
  BY WithoutOffset
<1>2. BLOCK_SIZE \in Nat /\ RECORD_FIXED_LEN \in Nat /\ Offset(s, Len(s) + 1) <= BLOCK_SIZE
  BY RecordAssumption DEF Fits
<1>3. /\ RecordLength(s[i]) = (RECORD_FIXED_LEN + Strlen(s[i].name)) + 1
      /\ Strlen(s[i].name) \in Nat
  <2>1. s[i] \in Record
    OBVIOUS
  <2> QED
    BY <2>1, RecordAssumption DEF RecordLength, Strlen, Record
<1> HIDE DEF o
<1>4. o <= BLOCK_SIZE - RECORD_FIXED_LEN /\ (BLOCK_SIZE - o) - RECORD_FIXED_LEN >= Strlen(s[i].name) + 1
  BY ONLY <1>1, <1>2, <1>3
<1> QED
  BY <1>4 DEF HasRoom, LAST_POSSIBLE_RECORD, o

-----------------------------------------------------------------------------
(* Searching *)

\* The search stops at a record of the name, if it comes past one.
LEMMA SearchFinds ==
    ASSUME NEW blocks \in Seq(Seq(Record)), NEW n, Matches(blocks, n) # {}
    PROVE  get_file_position_in_dir(blocks, n) \in Matches(blocks, n)
<1> DEFINE M == Matches(blocks, n)
           L == {p[1] : p \in M}
<1>1. \A p \in M : p[1] \in Nat /\ p[2] \in Nat /\ p = <<p[1], p[2]>>
  <2> SUFFICES ASSUME NEW p \in M PROVE p[1] \in Nat /\ p[2] \in Nat /\ p = <<p[1], p[2]>>
    OBVIOUS
  <2>1. p \in UNION {{l} \X DOMAIN blocks[l] : l \in DOMAIN blocks}
    BY DEF Matches
  <2>2. PICK l \in DOMAIN blocks : p \in {l} \X DOMAIN blocks[l]
    BY <2>1
  <2>3. blocks[l] \in Seq(Record) /\ l \in Nat
    OBVIOUS
  <2>4. DOMAIN blocks[l] \subseteq Nat
    BY <2>3
  <2> QED
    BY <2>2, <2>3, <2>4
<1> HIDE DEF M
<1>2. L \subseteq Nat /\ L # {}
  BY <1>1 DEF M
<1>3. PICK l \in L : \A m \in L : l <= m
  <2> HIDE DEF L
  <2> QED
    BY <1>2, LeastElement
<1> DEFINE K == {k \in Nat : <<l, k>> \in M}
<1>4. K \subseteq Nat /\ K # {}
  BY <1>1, <1>3
<1>5. PICK k \in K : \A m \in K : k <= m
  <2> HIDE DEF K
  <2> QED
    BY <1>4, LeastElement
<1>6. <<l, k>> \in M
  BY <1>5
<1>7. \A q \in M : Before(<<l, k>>, q)
  <2> SUFFICES ASSUME NEW q \in M PROVE Before(<<l, k>>, q)
    OBVIOUS
  <2>1. q[1] \in L /\ l <= q[1] /\ q[1] \in Nat /\ q[2] \in Nat /\ l \in Nat
    BY <1>1, <1>2, <1>3
  <2>2. CASE l = q[1]
    <3>1. q[2] \in K
      BY <1>1, <2>1, <2>2
    <3> QED
      BY <1>5, <2>2, <3>1 DEF Before
  <2>3. CASE l # q[1]
    BY <2>1, <2>3 DEF Before
  <2> QED
    BY <2>2, <2>3
<1>8. get_file_position_in_dir(blocks, n) = CHOOSE p \in M : \A q \in M : Before(p, q)
  BY DEF get_file_position_in_dir, M
<1>9. get_file_position_in_dir(blocks, n) \in M
  BY <1>6, <1>7, <1>8
<1> QED
  BY <1>9 DEF M

\* A directory, by the inode of it that a call holds, has a record of this name.
Has(d, node, n) ==
    \E b \in Range(node.i_blocks) : \E k \in DOMAIN d.block[b] : d.block[b][k].name = n

\* The record at p, which counts blocks from the first of the inode, has this name.
IsAt(d, node, n, p) ==
    /\ p[1] \in DOMAIN node.i_blocks
    /\ p[2] \in DOMAIN d.block[node.i_blocks[p[1]]]
    /\ d.block[node.i_blocks[p[1]]][p[2]].name = n

Position(d, node, n) == get_file_position_in_dir(BlocksOf(d, node), n)

\* The records that a directory has, block by block.
LEMMA BlocksOfType ==
    ASSUME NEW d \in Disk, NEW node \in Inode
    PROVE  /\ node.i_blocks \in Seq(Block)
           /\ Range(node.i_blocks) \subseteq Block
           /\ \A b \in Block : d.block[b] \in Seq(Record)
           /\ BlocksOf(d, node) \in Seq(Seq(Record))
           /\ DOMAIN BlocksOf(d, node) = DOMAIN node.i_blocks
           /\ \A l \in DOMAIN node.i_blocks :
                 /\ BlocksOf(d, node)[l] = d.block[node.i_blocks[l]]
                 /\ node.i_blocks[l] \in Block
<1>1. node.i_blocks \in Seq(Block)
  BY DEF Inode
<1>2. DOMAIN node.i_blocks = 1..Len(node.i_blocks) /\ Len(node.i_blocks) \in Nat
      /\ \A l \in DOMAIN node.i_blocks : node.i_blocks[l] \in Block
  BY <1>1
<1>3. \A b \in Block : d.block[b] \in Seq(Record)
  BY DEF Disk
<1>4. BlocksOf(d, node) = [l \in 1..Len(node.i_blocks) |-> d.block[node.i_blocks[l]]]
  BY <1>2 DEF BlocksOf
<1>5. BlocksOf(d, node) \in Seq(Seq(Record))
  <2>1. \A l \in 1..Len(node.i_blocks) : d.block[node.i_blocks[l]] \in Seq(Record)
    BY <1>2, <1>3
  <2> QED
    BY <1>2, <1>4, <2>1, IsASeq
<1>6. Range(node.i_blocks) \subseteq Block
  BY <1>2 DEF Range
<1> QED
  BY <1>1, <1>2, <1>3, <1>4, <1>5, <1>6

\* When the records of the blocks fit, the search finds a name exactly if the
\* directory has it.
LEMMA PositionIs ==
    ASSUME NEW d \in Disk, NEW node \in Inode, NEW n,
           \A b \in Range(node.i_blocks) : Fits(d.block[b])
    PROVE  /\ Has(d, node, n) => IsAt(d, node, n, Position(d, node, n))
           /\ ~ Has(d, node, n) => Position(d, node, n) = <<0, 0>>
<1> DEFINE blocks == BlocksOf(d, node)
           M == Matches(blocks, n)
<1>1. /\ blocks \in Seq(Seq(Record)) /\ DOMAIN blocks = DOMAIN node.i_blocks
      /\ \A l \in DOMAIN node.i_blocks :
                 /\ blocks[l] = d.block[node.i_blocks[l]]
                 /\ node.i_blocks[l] \in Block
      /\ \A b \in Block : d.block[b] \in Seq(Record)
  BY BlocksOfType
<1> HIDE DEF blocks
<1>2. ASSUME NEW p \in M PROVE IsAt(d, node, n, p)
  <2>1. PICK l \in DOMAIN blocks : p \in {l} \X DOMAIN blocks[l]
    BY DEF Matches
  <2>2. p[1] = l /\ p[2] \in DOMAIN blocks[l] /\ blocks[p[1]][p[2]].name = n
    BY <2>1 DEF Matches
  <2> QED
    BY <1>1, <2>1, <2>2 DEF IsAt
<1>3. ASSUME Has(d, node, n) PROVE M # {}
  <2>1. PICK b \in Range(node.i_blocks) : \E k \in DOMAIN d.block[b] : d.block[b][k].name = n
    BY <1>3 DEF Has
  <2>2. PICK k \in DOMAIN d.block[b] : d.block[b][k].name = n
    BY <2>1
  <2>3. PICK l \in DOMAIN node.i_blocks : b = node.i_blocks[l]
    BY <2>1 DEF Range
  <2>4. b \in Block /\ d.block[b] \in Seq(Record) /\ blocks[l] = d.block[b] /\ Fits(d.block[b])
    BY <1>1, <2>1, <2>3
  <2>5. k \in 1..Len(d.block[b])
    BY <2>4
  <2>6. Offset(d.block[b], k) < LAST_POSSIBLE_RECORD
    BY <2>4, <2>5, FitsAll
  <2>7. Offset(d.block[b], k) <= LAST_POSSIBLE_RECORD
    <3>1. Offset(d.block[b], k) \in Nat
      BY <2>4, <2>5, OffsetIs
    <3>2. LAST_POSSIBLE_RECORD \in Int
      BY RecordAssumption DEF LAST_POSSIBLE_RECORD
    <3> QED
      BY <2>6, <3>1, <3>2
  <2>8. <<l, k>> \in UNION {{m} \X DOMAIN blocks[m] : m \in DOMAIN blocks}
    <3>1. <<l, k>> \in {l} \X DOMAIN blocks[l]
      BY <2>2, <2>4
    <3>2. l \in DOMAIN blocks
      BY <1>1
    <3> QED
      BY <3>1, <3>2
  <2>9. blocks[l][k].name = n /\ Offset(blocks[l], k) <= LAST_POSSIBLE_RECORD
    BY <2>2, <2>4, <2>7
  <2>10. <<l, k>>[1] = l /\ <<l, k>>[2] = k
    OBVIOUS
  <2>11. <<l, k>> \in M
    BY <2>8, <2>9, <2>10 DEF Matches
  <2> QED
    BY <2>11
<1>4. ASSUME M # {} PROVE Has(d, node, n)
  <2>1. PICK p \in M : TRUE
    BY <1>4
  <2>2. IsAt(d, node, n, p)
    BY <1>2
  <2> QED
    BY <2>2 DEF IsAt, Has, Range
<1>5. Position(d, node, n) = get_file_position_in_dir(blocks, n)
  BY DEF Position, blocks
<1>6. ASSUME Has(d, node, n) PROVE IsAt(d, node, n, Position(d, node, n))
  <2>1. get_file_position_in_dir(blocks, n) \in M
    BY <1>1, <1>3, <1>6, SearchFinds
  <2> QED
    BY <1>2, <1>5, <2>1
<1>7. ASSUME ~ Has(d, node, n) PROVE Position(d, node, n) = <<0, 0>>
  <2>1. M = {}
    BY <1>4, <1>7
  <2> QED
    BY <1>5, <2>1 DEF get_file_position_in_dir
<1> QED
  BY <1>6, <1>7

\* Lookup answers with the number in the record, 0 if the directory has none.
LEMMA LookupIs ==
    ASSUME NEW d \in Disk, NEW dir \in Inum, NEW n,
           \A b \in Range(d.inode[dir].i_blocks) : Fits(d.block[b])
    PROVE  LET node == d.inode[dir]
               p == Position(d, node, n)
               r == d.block[node.i_blocks[p[1]]][p[2]]
           IN /\ node \in Inode
              /\ IF node.i_mode = "dir" /\ Has(d, node, n)
                 THEN /\ Lookup(d, dir, n) # 0
                      /\ IsAt(d, node, n, p) /\ r \in Record
                      /\ Lookup(d, dir, n) = r.inum
                      /\ Lookup(d, dir, n) \in Inum
                 ELSE Lookup(d, dir, n) = 0
<1> DEFINE node == d.inode[dir]
           blocks == BlocksOf(d, node)
           p == Position(d, node, n)
           r == d.block[node.i_blocks[p[1]]][p[2]]
<1>1. node \in Inode
  BY DEF Disk
<1>2. /\ Has(d, node, n) => IsAt(d, node, n, p)
      /\ ~ Has(d, node, n) => p = <<0, 0>>
  BY <1>1, PositionIs
<1>3. Lookup(d, dir, n) = IF node.i_mode # "dir" \/ p = <<0, 0>> THEN 0
                          ELSE blocks[p[1]][p[2]].inum
  BY DEF Lookup, Position
<1>4. ASSUME IsAt(d, node, n, p)
      PROVE  /\ p # <<0, 0>> /\ blocks[p[1]][p[2]] = r /\ r \in Record
             /\ r.inum \in Inum /\ r.inum # 0
  <2>1. p[1] \in DOMAIN node.i_blocks /\ p[2] \in DOMAIN d.block[node.i_blocks[p[1]]]
    BY <1>4 DEF IsAt
  <2>2. /\ node.i_blocks \in Seq(Block)
        /\ blocks[p[1]] = d.block[node.i_blocks[p[1]]]
        /\ d.block[node.i_blocks[p[1]]] \in Seq(Record)
    BY <1>1, <2>1, BlocksOfType
  <2> HIDE DEF p, blocks, node
  <2>3. p[1] # 0
    <3>1. 0 \notin DOMAIN node.i_blocks
      BY <2>2
    <3> QED
      BY <2>1, <3>1
  <2>4. r \in Record
    BY <2>1, <2>2
  <2>5. r.inum \in Inum
    BY <2>4 DEF Record
  <2>6. r.inum # 0
    BY <2>5, TreeAssumption DEF ROOT_INODE_NUM
  <2>7. p # <<0, 0>>
    BY <2>3
  <2> QED
    BY <2>2, <2>4, <2>5, <2>6, <2>7
<1> HIDE DEF p, blocks, node, r
<1>5. IF node.i_mode = "dir" /\ Has(d, node, n)
      THEN /\ Lookup(d, dir, n) # 0
           /\ IsAt(d, node, n, p) /\ r \in Record
           /\ Lookup(d, dir, n) = r.inum
           /\ Lookup(d, dir, n) \in Inum
      ELSE Lookup(d, dir, n) = 0
  BY <1>2, <1>3, <1>4
<1> QED
  BY <1>1, <1>5 DEF p, node, r

\* One step further: what the names in these directories lead to.
Wider(d, near) == near \cup ({Lookup(d, dir, n) : dir \in near, n \in Name} \ {0})

\* The stages of Below, which stay in Q.
Stages(d, i, Q, N, reach) ==
    /\ reach[0] = {i}
    /\ \A k \in 1..N : reach[k] = Wider(d, reach[k - 1])
    /\ \A k \in 0..N : reach[k] \subseteq Q /\ i \in reach[k]
    /\ Below(d, i) = reach[N]

\* Below is reached in steps, none of which leaves a set that lookups do not lead
\* out of.
LEMMA BelowInSteps ==
    ASSUME NEW d, NEW i, NEW Q, i \in Q,
           \A dir \in Q, n \in Name : Lookup(d, dir, n) = 0 \/ Lookup(d, dir, n) \in Q
    PROVE  /\ Cardinality(Inum) - 1 \in Nat
           /\ \E reach : Stages(d, i, Q, Cardinality(Inum) - 1, reach)
<1> DEFINE N == Cardinality(Inum) - 1
           wider(near) == Wider(d, near)
           body(g, k) == IF k = 0 THEN {i} ELSE wider(g[k - 1])
           reach == CHOOSE g : g = [k \in 0..N |-> body(g, k)]
           W(n) == {g \in [0..n -> SUBSET Q] : /\ g[0] = {i}
                                               /\ \A k \in 1..n : g[k] = wider(g[k - 1])}
           S == {n \in Nat : W(n) # {}}
<1>1. N \in Nat
  <2>1. IsFiniteSet(Inum) /\ Inum # {}
    BY TreeAssumption
  <2>2. Cardinality(Inum) \in Nat /\ Cardinality(Inum) # 0
    BY <2>1, FS_CardinalityType, FS_EmptySet
  <2> QED
    BY <2>2
<1>2. \A near \in SUBSET Q : wider(near) \in SUBSET Q
  BY DEF Wider
<1>3. \A near : near \subseteq wider(near)
  BY DEF Wider
<1> HIDE DEF wider, N
<1>4. Nat \subseteq S
  <2>1. 0 \in S
    <3>1. [k \in 0..0 |-> {i}] \in W(0)
      OBVIOUS
    <3> QED
      BY <3>1
  <2>2. ASSUME NEW n \in Nat, n \in S PROVE n + 1 \in S
    <3>1. PICK g \in W(n) : TRUE
      <4> HIDE DEF W
      <4> QED
        BY <2>2
    <3> DEFINE h == [k \in 0..(n + 1) |-> IF k <= n THEN g[k] ELSE wider(g[n])]
    <3>2. g \in [0..n -> SUBSET Q] /\ g[0] = {i} /\ \A k \in 1..n : g[k] = wider(g[k - 1])
      BY <3>1
    <3>3. h \in [0..(n + 1) -> SUBSET Q]
      BY <1>2, <3>2
    <3>4. h[0] = {i}
      BY <3>2
    <3>5. ASSUME NEW k \in 1..(n + 1) PROVE h[k] = wider(h[k - 1])
      <4>1. CASE k = n + 1
        BY <4>1
      <4>2. CASE k <= n
        BY <3>2, <4>2
      <4> QED
        BY <4>1, <4>2
    <3>6. h \in W(n + 1)
      <4> HIDE DEF h
      <4> QED
        BY <3>3, <3>4, <3>5
    <3>7. W(n + 1) # {}
      BY <3>6
    <3> QED
      BY <3>7
  <2> HIDE DEF S
  <2> QED
    BY <2>1, <2>2, SetInduction
<1>5. PICK g \in W(N) : TRUE
  <2> HIDE DEF W
  <2>1. W(N) # {}
    BY <1>1, <1>4
  <2> QED
    BY <2>1
<1>6. g = [k \in 0..N |-> body(g, k)]
  <2>1. \A k \in 0..N : g[k] = body(g, k)
    BY <1>1, <1>5
  <2>2. g = [k \in 0..N |-> g[k]]
    BY <1>5
  <2> HIDE DEF body
  <2> QED
    BY <2>1, <2>2
<1>7. reach = [k \in 0..N |-> body(reach, k)]
  <2> HIDE DEF body
  <2> QED
    BY <1>6
<1>8. Below(d, i) = reach[N]
  BY DEF Below, N, wider, Wider
<1> HIDE DEF reach
<1>9. reach[0] = {i} /\ \A k \in 1..N : reach[k] = wider(reach[k - 1])
  <2>1. \A k \in 0..N : reach[k] = body(reach, k)
    <3> HIDE DEF body
    <3> QED
      BY <1>7
  <2> QED
    BY <1>1, <2>1
<1> DEFINE T == {k \in Nat : k <= N => reach[k] \subseteq Q /\ i \in reach[k]}
<1>10. 0 \in T
  BY <1>9
<1>11. ASSUME NEW k \in Nat, k \in T PROVE k + 1 \in T
  <2> SUFFICES ASSUME k + 1 <= N PROVE reach[k + 1] \subseteq Q /\ i \in reach[k + 1]
    OBVIOUS
  <2>1. reach[k] \subseteq Q /\ i \in reach[k] /\ k + 1 \in 1..N /\ (k + 1) - 1 = k
    BY <1>1, <1>11
  <2>2. reach[k + 1] = wider(reach[k])
    BY <1>9, <2>1
  <2> QED
    BY <1>2, <1>3, <2>1, <2>2
<1>12. Nat \subseteq T
  <2> HIDE DEF T
  <2> QED
    BY <1>10, <1>11, SetInduction
<1>13. \A k \in 0..N : reach[k] \subseteq Q /\ i \in reach[k]
  BY <1>1, <1>12
<1>14. \A k \in 1..N : reach[k] = Wider(d, reach[k - 1])
  BY <1>9 DEF wider
<1>15. Stages(d, i, Q, N, reach)
  BY <1>8, <1>9, <1>13, <1>14 DEF Stages
<1> QED
  BY <1>1, <1>15 DEF N

\* What can be reached stays in every set that lookups do not lead out of.
LEMMA BelowIn ==
    ASSUME NEW d, NEW i, NEW Q, i \in Q,
           \A dir \in Q, n \in Name : Lookup(d, dir, n) = 0 \/ Lookup(d, dir, n) \in Q
    PROVE  Below(d, i) \subseteq Q /\ i \in Below(d, i)
<1> DEFINE N == Cardinality(Inum) - 1
<1>1. N \in Nat /\ \E reach : Stages(d, i, Q, N, reach)
  BY BelowInSteps
<1> QED
  BY <1>1 DEF Stages

\* What can be reached is closed: nothing lies further than there are inodes.
LEMMA BelowClosed ==
    ASSUME NEW d, NEW i, NEW Q, i \in Q, Q \subseteq Inum,
           \A dir \in Q, n \in Name : Lookup(d, dir, n) = 0 \/ Lookup(d, dir, n) \in Q,
           NEW dir \in Below(d, i), NEW n \in Name
    PROVE  Lookup(d, dir, n) = 0 \/ Lookup(d, dir, n) \in Below(d, i)
<1> DEFINE N == Cardinality(Inum) - 1
           Shut(S) == \A x \in S, m \in Name : Lookup(d, x, m) = 0 \/ Lookup(d, x, m) \in S
<1>1. N \in Nat /\ \E reach : Stages(d, i, Q, N, reach)
  BY BelowInSteps
<1>2. PICK reach : /\ reach[0] = {i}
                   /\ \A k \in 1..N : reach[k] = Wider(d, reach[k - 1])
                   /\ \A k \in 0..N : reach[k] \subseteq Q /\ i \in reach[k]
                   /\ Below(d, i) = reach[N]
  BY <1>1 DEF Stages
<1>3. IsFiniteSet(Inum) /\ IsFiniteSet(Q) /\ \A S \in SUBSET Q : IsFiniteSet(S) /\ Cardinality(S) \in Nat
  BY TreeAssumption, FS_Subset, FS_CardinalityType
<1> HIDE DEF N
<1> DEFINE T == {k \in Nat : k <= N => Shut(reach[k]) \/ Cardinality(reach[k]) >= k + 1}
<1>4. 0 \in T
  <2>1. Cardinality({i}) = 1
    BY FS_Singleton
  <2> QED
    BY <1>2, <2>1
<1>5. ASSUME NEW k \in Nat, k \in T PROVE k + 1 \in T
  <2> SUFFICES ASSUME k + 1 <= N PROVE Shut(reach[k + 1]) \/ Cardinality(reach[k + 1]) >= (k + 1) + 1
    OBVIOUS
  <2> DEFINE A == reach[k]
             B == reach[k + 1]
  <2>1. k \in 0..N /\ k + 1 \in 0..N /\ k + 1 \in 1..N /\ (k + 1) - 1 = k
    BY <1>1
  <2>2. A \subseteq Q /\ B \subseteq Q /\ B = Wider(d, A)
    BY <1>2, <2>1
  <2>3. Shut(A) \/ Cardinality(A) >= k + 1
    BY <1>1, <1>5
  <2> HIDE DEF A, B
  <2>4. CASE Shut(A)
    <3>1. B = A
      BY <2>2, <2>4 DEF Wider
    <3> QED
      BY <2>4, <3>1 DEF B
  <2>5. CASE ~ Shut(A)
    <3>1. PICK x \in A, m \in Name : Lookup(d, x, m) # 0 /\ Lookup(d, x, m) \notin A
      BY <2>5
    <3> DEFINE y == Lookup(d, x, m)
    <3>2. y \in B /\ y \notin A /\ A \subseteq B
      BY <2>2, <3>1 DEF Wider
    <3>3. IsFiniteSet(A) /\ IsFiniteSet(B) /\ Cardinality(A) \in Nat /\ Cardinality(B) \in Nat
      BY <1>3, <2>2
    <3> HIDE DEF y, Shut
    <3>4. Cardinality(A \cup {y}) = Cardinality(A) + 1
      BY <3>2, <3>3, FS_AddElement
    <3>5. Cardinality(A \cup {y}) <= Cardinality(B)
      <4>1. A \cup {y} \subseteq B
        BY <3>2
      <4> QED
        BY <3>3, <4>1, FS_Subset
    <3>6. Cardinality(A) >= k + 1
      BY <2>3, <2>5
    <3>7. Cardinality(B) >= (k + 1) + 1
      BY <3>3, <3>4, <3>5, <3>6
    <3> QED
      BY <3>7 DEF B
  <2> QED
    BY <2>4, <2>5
<1>6. N \in T
  <2> HIDE DEF T
  <2> QED
    BY <1>1, <1>4, <1>5, SetInduction
<1>7. Shut(reach[N]) \/ Cardinality(reach[N]) >= N + 1
  BY <1>1, <1>6
<1>8. N \in 0..N
  BY <1>1
<1>9. reach[N] \subseteq Q /\ Below(d, i) = reach[N]
  BY <1>2, <1>8
<1>10. CASE Cardinality(reach[N]) >= N + 1
  <2>1. reach[N] \subseteq Inum /\ Cardinality(Inum) \in Nat /\ N + 1 = Cardinality(Inum)
    BY <1>3, <1>9, FS_CardinalityType DEF N
  <2>2. Cardinality(reach[N]) <= Cardinality(Inum)
    BY <1>3, <2>1, FS_Subset
  <2>3. Cardinality(reach[N]) = Cardinality(Inum)
    BY <1>3, <1>9, <1>10, <2>1, <2>2
  <2>4. reach[N] = Inum
    BY <1>3, <2>1, <2>3, FS_Subset
  <2>5. dir \in Q
    BY <1>9
  <2> QED
    BY <1>9, <2>4, <2>5
<1>11. CASE Shut(reach[N])
  BY <1>9, <1>11
<1> QED
  BY <1>7, <1>10, <1>11

-----------------------------------------------------------------------------
(* Sound disks *)

OwnedBy(d, i) == Range(d.inode[i].i_blocks)

\* The data blocks of the inodes in R are not free, and each is in one place.
Exclusive(d, R) ==
    \A i \in R : /\ IsInjective(d.inode[i].i_blocks)
                 /\ OwnedBy(d, i) \cap d.free = {}
                 /\ \A j \in R : i # j => OwnedBy(d, i) \cap OwnedBy(d, j) = {}

\* Their records lie inside the blocks, and a directory has each name once.
Readable(d, R) ==
    \A i \in R :
        /\ \A b \in OwnedBy(d, i) : Fits(d.block[b])
        /\ \A b1, b2 \in OwnedBy(d, i) :
              \A k1 \in DOMAIN d.block[b1], k2 \in DOMAIN d.block[b2] :
                  d.block[b1][k1].name = d.block[b2][k2].name => b1 = b2 /\ k1 = k2

\* Names do not lead out of R, and not to the root.
Closed(d, R) ==
    \A i \in R : \A b \in OwnedBy(d, i) : \A k \in DOMAIN d.block[b] :
        d.block[b][k].name \in Name => d.block[b][k].inum \in R \ {ROOT_INODE_NUM}

\* Inodes that are not in use are cleared.
Clean(d) == \A i \in Inum : d.inode[i].i_allocated \/ d.inode[i] = Unused

InUse(d, R) == \A i \in R : d.inode[i].i_allocated

\* R is a set of inodes that holds whatever can be reached, and perhaps more.
Sane(d, R) ==
    /\ d \in Disk
    /\ R \subseteq Inum /\ ROOT_INODE_NUM \in R
    /\ Clean(d) /\ InUse(d, R) /\ Exclusive(d, R) /\ Readable(d, R) /\ Closed(d, R)

\* No two names lead to one inode, the records at the places in X apart.
Unique(d, R, X) ==
    \A i, j \in R : \A b1 \in OwnedBy(d, i), b2 \in OwnedBy(d, j) :
        \A k1 \in DOMAIN d.block[b1], k2 \in DOMAIN d.block[b2] :
            /\ d.block[b1][k1].name \in Name /\ d.block[b2][k2].name \in Name
            /\ <<b1, k1>> \notin X /\ <<b2, k2>> \notin X
            /\ d.block[b1][k1].inum = d.block[b2][k2].inum
            => b1 = b2 /\ k1 = k2

\* No name leads to inode t, the records at the places in X apart.
Unnamed(d, R, X, t) ==
    \A i \in R : \A b \in OwnedBy(d, i) : \A k \in DOMAIN d.block[b] :
        d.block[b][k].name \in Name /\ <<b, k>> \notin X => d.block[b][k].inum # t

\* On disk d the inodes in R have only blocks that they have on disk v, with what
\* is in them there.
Less(d, v, R) ==
    \A i \in R :
        /\ d.inode[i].i_allocated
        /\ IsInjective(d.inode[i].i_blocks)
        /\ OwnedBy(d, i) \subseteq OwnedBy(v, i)
        /\ OwnedBy(d, i) \cap d.free = {}
        /\ \A b \in OwnedBy(d, i) : d.block[b] = v.block[b]

\* A disk with less on it is as sound.
LEMMA LessIsSane ==
    ASSUME NEW d \in Disk, NEW v, NEW R, Sane(v, R), Clean(d), Less(d, v, R)
    PROVE  /\ Sane(d, R)
           /\ \A X : Unique(v, R, X) => Unique(d, R, X)
           /\ \A X, t : Unnamed(v, R, X, t) => Unnamed(d, R, X, t)
<1>1. Exclusive(d, R)
  BY DEF Exclusive, Less, Sane
<1>2. Readable(d, R)
  BY DEF Readable, Less, Sane
<1>3. Closed(d, R)
  BY DEF Closed, Less, Sane
<1>4. InUse(d, R)
  BY DEF InUse, Less
<1>5. ASSUME NEW X, Unique(v, R, X) PROVE Unique(d, R, X)
  BY <1>5 DEF Unique, Less
<1>6. ASSUME NEW X, NEW t, Unnamed(v, R, X, t) PROVE Unnamed(d, R, X, t)
  BY <1>6 DEF Unnamed, Less
<1> QED
  BY <1>1, <1>2, <1>3, <1>4, <1>5, <1>6 DEF Sane

-----------------------------------------------------------------------------
(* Records come and go *)

\* The disk with other records in block b.
WithBlock(d, b, s) == [d EXCEPT !.block[b] = s]

\* Only block b changes.
LEMMA WithBlockIs ==
    ASSUME NEW d \in Disk, NEW b \in Block, NEW s \in Seq(Record)
    PROVE  LET e == WithBlock(d, b, s)
           IN /\ e \in Disk
              /\ e.inode = d.inode /\ e.free = d.free
              /\ e.block[b] = s
              /\ \A a \in Block : a # b => e.block[a] = d.block[a]
              /\ \A i : OwnedBy(e, i) = OwnedBy(d, i)
BY DEF WithBlock, Disk, OwnedBy

\* The types of what the inodes in R have.
LEMMA SaneTypes ==
    ASSUME NEW d, NEW R, Sane(d, R), NEW i \in R
    PROVE  /\ d.inode[i] \in Inode
           /\ OwnedBy(d, i) \subseteq Block
           /\ \A b \in OwnedBy(d, i) : /\ b \in Block
                                       /\ d.block[b] \in Seq(Record)
                                       /\ DOMAIN d.block[b] = 1..Len(d.block[b])
                                       /\ Len(d.block[b]) \in Nat
<1>1. d.inode[i] \in Inode /\ d \in Disk
  BY DEF Sane, Disk
<1>2. OwnedBy(d, i) \subseteq Block /\ \A b \in Block : d.block[b] \in Seq(Record)
  BY <1>1, BlocksOfType DEF OwnedBy
<1> QED
  BY <1>1, <1>2

\* A record whose name the directory does not have, and whose inode is in R.
LEMMA RecordAdded ==
    ASSUME NEW d, NEW R, Sane(d, R), NEW i \in R, NEW b \in OwnedBy(d, i), NEW r \in Record,
           Fits(Append(d.block[b], r)),
           ~ Has(d, d.inode[i], r.name),
           r.name \in Name => r.inum \in R \ {ROOT_INODE_NUM}
    PROVE  LET e == WithBlock(d, b, Append(d.block[b], r))
           IN /\ Sane(e, R)
              /\ \A X : /\ Unique(d, R, X)
                        /\ r.name \in Name => Unnamed(d, R, X, r.inum)
                        => Unique(e, R, X)
              /\ \A X, t : Unnamed(d, R, X, t) /\ t # r.inum => Unnamed(e, R, X, t)
<1> DEFINE s == d.block[b]
           e == WithBlock(d, b, Append(s, r))
           n == Len(s) + 1
<1>1. d \in Disk /\ b \in Block /\ s \in Seq(Record)
  BY SaneTypes DEF Sane
<1>2. /\ Append(s, r) \in Seq(Record) /\ Append(s, r)[n] = r
      /\ DOMAIN s = 1..Len(s) /\ DOMAIN Append(s, r) = 1..n /\ Len(s) \in Nat
      /\ \A k \in 1..Len(s) : Append(s, r)[k] = s[k]
  BY <1>1, AppendIs
<1>3. /\ e \in Disk
      /\ e.inode = d.inode /\ e.free = d.free
      /\ e.block[b] = Append(s, r)
      /\ \A a \in Block : a # b => e.block[a] = d.block[a]
      /\ \A j : OwnedBy(e, j) = OwnedBy(d, j)
  BY <1>1, <1>2, WithBlockIs
<1> HIDE DEF e
<1>4. \A j \in R : \A a \in OwnedBy(d, j) : a \in Block
  BY SaneTypes
<1>5. /\ DOMAIN e.block[b] = 1..n /\ e.block[b][n] = r
      /\ \A k \in DOMAIN e.block[b] : k = n \/ (k \in DOMAIN d.block[b] /\ e.block[b][k] = d.block[b][k])
  BY <1>2, <1>3
<1>6. Exclusive(e, R)
  BY <1>3 DEF Sane, Exclusive
<1>7. Clean(e) /\ InUse(e, R)
  BY <1>3 DEF Sane, Clean, InUse
<1>8. \A j \in R : \A a \in OwnedBy(d, j) : \A k \in DOMAIN e.block[a] :
          \/ k \in DOMAIN d.block[a] /\ e.block[a][k] = d.block[a][k]
          \/ a = b /\ k = n /\ e.block[a][k] = r
  BY <1>3, <1>4, <1>5
<1>9. \A k \in DOMAIN d.block[b] : k # n
  BY <1>2
<1>10. \A j \in R : b \in OwnedBy(d, j) => j = i
  BY DEF Sane, Exclusive
<1>11. \A a \in OwnedBy(d, i) : \A k \in DOMAIN d.block[a] : d.block[a][k].name # r.name
  BY DEF Has, OwnedBy
<1>12. Closed(e, R)
  BY <1>3, <1>8 DEF Sane, Closed
<1>13. Readable(e, R)
  <2> SUFFICES ASSUME NEW j \in R
               PROVE  /\ \A a \in OwnedBy(e, j) : Fits(e.block[a])
                      /\ \A b1, b2 \in OwnedBy(e, j) :
                            \A k1 \in DOMAIN e.block[b1], k2 \in DOMAIN e.block[b2] :
                                e.block[b1][k1].name = e.block[b2][k2].name => b1 = b2 /\ k1 = k2
    BY DEF Readable
  <2>1. \A a \in OwnedBy(e, j) : Fits(e.block[a])
    <3> SUFFICES ASSUME NEW a \in OwnedBy(e, j) PROVE Fits(e.block[a])
      OBVIOUS
    <3>1. CASE a = b
      BY <1>3, <3>1
    <3>2. CASE a # b
      BY <1>3, <1>4, <3>2 DEF Sane, Readable
    <3> QED
      BY <3>1, <3>2
  <2>2. ASSUME NEW b1 \in OwnedBy(e, j), NEW b2 \in OwnedBy(e, j),
               NEW k1 \in DOMAIN e.block[b1], NEW k2 \in DOMAIN e.block[b2],
               e.block[b1][k1].name = e.block[b2][k2].name
        PROVE  b1 = b2 /\ k1 = k2
    <3>1. b1 \in OwnedBy(d, j) /\ b2 \in OwnedBy(d, j)
      BY <1>3
    <3>2. CASE /\ k1 \in DOMAIN d.block[b1] /\ e.block[b1][k1] = d.block[b1][k1]
               /\ k2 \in DOMAIN d.block[b2] /\ e.block[b2][k2] = d.block[b2][k2]
      BY <2>2, <3>1, <3>2 DEF Sane, Readable
    <3>3. CASE b1 = b /\ k1 = n /\ e.block[b1][k1] = r
      <4>1. j = i
        BY <1>10, <3>1, <3>3
      <4> QED
        BY <1>8, <1>11, <2>2, <3>1, <3>3, <4>1
    <3>4. CASE b2 = b /\ k2 = n /\ e.block[b2][k2] = r
      <4>1. j = i
        BY <1>10, <3>1, <3>4
      <4> QED
        BY <1>8, <1>11, <2>2, <3>1, <3>4, <4>1
    <3> QED
      BY <1>8, <3>1, <3>2, <3>3, <3>4
  <2> QED
    BY <2>1, <2>2
<1>14. Sane(e, R)
  BY <1>3, <1>6, <1>7, <1>12, <1>13 DEF Sane
<1>15. ASSUME NEW X, Unique(d, R, X), r.name \in Name => Unnamed(d, R, X, r.inum)
       PROVE  Unique(e, R, X)
  <2> SUFFICES ASSUME NEW j1 \in R, NEW j2 \in R,
                      NEW b1 \in OwnedBy(d, j1), NEW b2 \in OwnedBy(d, j2),
                      NEW k1 \in DOMAIN e.block[b1], NEW k2 \in DOMAIN e.block[b2],
                      e.block[b1][k1].name \in Name, e.block[b2][k2].name \in Name,
                      <<b1, k1>> \notin X, <<b2, k2>> \notin X,
                      e.block[b1][k1].inum = e.block[b2][k2].inum
               PROVE  b1 = b2 /\ k1 = k2
    BY <1>3 DEF Unique
  <2>1. CASE /\ k1 \in DOMAIN d.block[b1] /\ e.block[b1][k1] = d.block[b1][k1]
             /\ k2 \in DOMAIN d.block[b2] /\ e.block[b2][k2] = d.block[b2][k2]
    BY <1>15, <2>1 DEF Unique
  <2>2. CASE b1 = b /\ k1 = n /\ e.block[b1][k1] = r
    <3>1. Unnamed(d, R, X, r.inum)
      BY <1>15, <2>2
    <3> QED
      BY <1>8, <2>2, <3>1 DEF Unnamed
  <2>3. CASE b2 = b /\ k2 = n /\ e.block[b2][k2] = r
    <3>1. Unnamed(d, R, X, r.inum)
      BY <1>15, <2>3
    <3> QED
      BY <1>8, <2>3, <3>1 DEF Unnamed
  <2> QED
    BY <1>8, <2>1, <2>2, <2>3
<1>16. ASSUME NEW X, NEW t, Unnamed(d, R, X, t), t # r.inum PROVE Unnamed(e, R, X, t)
  BY <1>3, <1>8, <1>16 DEF Unnamed
<1> QED
  BY <1>14, <1>15, <1>16 DEF e

\* Where a record that is still there was before record k went.
Was(k, m) == IF m < k THEN m ELSE m + 1

\* The same, by where each record was before.
LEMMA WithoutWas ==
    ASSUME NEW s \in Seq(Record), NEW k \in DOMAIN s
    PROVE  /\ Without(s, k) \in Seq(Record)
           /\ \A m \in DOMAIN Without(s, k) : /\ Was(k, m) \in DOMAIN s /\ Was(k, m) # k
                                              /\ Without(s, k)[m] = s[Was(k, m)]
           /\ \A m1, m2 \in DOMAIN Without(s, k) : Was(k, m1) = Was(k, m2) => m1 = m2
<1> DEFINE t == Without(s, k)
<1>1. /\ t \in Seq(Record) /\ Len(t) = Len(s) - 1 /\ DOMAIN s = 1..Len(s) /\ k \in 1..Len(s)
      /\ \A m \in 1..(k - 1) : t[m] = s[m]
      /\ \A m \in k..(Len(s) - 1) : t[m] = s[m + 1]
  <2>1. DOMAIN s = 1..Len(s) /\ k \in 1..Len(s)
    OBVIOUS
  <2> QED
    BY <2>1, WithoutIs
<1> HIDE DEF t
<1>2. DOMAIN t = 1..(Len(s) - 1) /\ Len(s) \in Nat
  BY <1>1
<1>3. ASSUME NEW m \in DOMAIN t
      PROVE  Was(k, m) \in DOMAIN s /\ Was(k, m) # k /\ t[m] = s[Was(k, m)]
  BY <1>1, <1>2 DEF Was
<1>4. ASSUME NEW m1 \in DOMAIN t, NEW m2 \in DOMAIN t, Was(k, m1) = Was(k, m2) PROVE m1 = m2
  BY <1>1, <1>2, <1>4 DEF Was
<1> QED
  BY <1>1, <1>3, <1>4 DEF t

\* The directory of this inode has a record that leads from name n to inode x.
Points(d, node, n, x) ==
    \E b \in Range(node.i_blocks) : \E k \in DOMAIN d.block[b] :
        d.block[b][k].name = n /\ d.block[b][k].inum = x

\* Disk e is d without record k of block b, which is one of inode i.
RecordGone(d, e, R, i, b, k) ==
    /\ Sane(e, R)
    /\ \A X : Unique(d, R, X) /\ X \subseteq {<<b, k>>} => Unique(e, R, {})
    /\ Unique(d, R, {}) /\ d.block[b][k].name \in Name => Unnamed(e, R, {}, d.block[b][k].inum)
    /\ ~ Has(e, e.inode[i], d.block[b][k].name)
    /\ \A j \in R : \A n, x : Points(d, d.inode[j], n, x) /\ (j # i \/ n # d.block[b][k].name)
                            => Points(e, e.inode[j], n, x)

\* Taking a record away leaves a sound disk sound, and the other records are there.
LEMMA RecordRemoved ==
    ASSUME NEW d, NEW R, Sane(d, R), NEW i \in R, NEW b \in OwnedBy(d, i),
           NEW k \in DOMAIN d.block[b], NEW e, e = WithBlock(d, b, Without(d.block[b], k))
    PROVE  RecordGone(d, e, R, i, b, k)
<1> DEFINE s == d.block[b]
<1>1. d \in Disk /\ b \in Block /\ s \in Seq(Record)
  BY SaneTypes DEF Sane
<1>2. /\ Without(s, k) \in Seq(Record)
      /\ \A m \in DOMAIN Without(s, k) : /\ Was(k, m) \in DOMAIN s /\ Was(k, m) # k
                                         /\ Without(s, k)[m] = s[Was(k, m)]
      /\ \A m1, m2 \in DOMAIN Without(s, k) : Was(k, m1) = Was(k, m2) => m1 = m2
  BY <1>1, WithoutWas
<1>3. /\ e \in Disk
      /\ e.inode = d.inode /\ e.free = d.free
      /\ e.block[b] = Without(s, k)
      /\ \A a \in Block : a # b => e.block[a] = d.block[a]
      /\ \A j : OwnedBy(e, j) = OwnedBy(d, j)
  BY <1>1, <1>2, WithBlockIs
<1> DEFINE was(a, m) == IF a = b THEN Was(k, m) ELSE m
<1>4. \A j \in R : \A a \in OwnedBy(d, j) : a \in Block
  BY SaneTypes
<1>5. \A j \in R : \A a \in OwnedBy(d, j) :
         /\ \A m \in DOMAIN e.block[a] : /\ was(a, m) \in DOMAIN d.block[a]
                                         /\ e.block[a][m] = d.block[a][was(a, m)]
                                         /\ ~ (a = b /\ was(a, m) = k)
         /\ \A m1, m2 \in DOMAIN e.block[a] : was(a, m1) = was(a, m2) => m1 = m2
  BY <1>2, <1>3, <1>4
<1> HIDE DEF was
<1>6. Exclusive(e, R) /\ Clean(e) /\ InUse(e, R)
  BY <1>3 DEF Sane, Exclusive, Clean, InUse
<1>7. Closed(e, R)
  BY <1>3, <1>5 DEF Sane, Closed
<1>8. Readable(e, R)
  <2> SUFFICES ASSUME NEW j \in R
               PROVE  /\ \A a \in OwnedBy(e, j) : Fits(e.block[a])
                      /\ \A b1, b2 \in OwnedBy(e, j) :
                            \A k1 \in DOMAIN e.block[b1], k2 \in DOMAIN e.block[b2] :
                                e.block[b1][k1].name = e.block[b2][k2].name => b1 = b2 /\ k1 = k2
    BY DEF Readable
  <2>1. ASSUME NEW a \in OwnedBy(e, j) PROVE Fits(e.block[a])
    <3>1. Fits(d.block[a])
      BY <1>3 DEF Sane, Readable
    <3>2. CASE a = b
      <4>1. k \in 1..Len(s)
        BY <1>1
      <4> QED
        BY <1>1, <1>3, <3>1, <3>2, <4>1, WithoutFits
    <3>3. CASE a # b
      BY <1>3, <1>4, <3>1, <3>3
    <3> QED
      BY <3>2, <3>3
  <2>2. ASSUME NEW b1 \in OwnedBy(e, j), NEW b2 \in OwnedBy(e, j),
               NEW k1 \in DOMAIN e.block[b1], NEW k2 \in DOMAIN e.block[b2],
               e.block[b1][k1].name = e.block[b2][k2].name
        PROVE  b1 = b2 /\ k1 = k2
    <3>1. b1 = b2 /\ was(b1, k1) = was(b2, k2)
      BY <1>3, <1>5, <2>2 DEF Sane, Readable
    <3> QED
      BY <1>3, <1>5, <3>1
  <2> QED
    BY <2>1, <2>2
<1>9. Sane(e, R)
  BY <1>3, <1>6, <1>7, <1>8 DEF Sane
<1>10. ASSUME NEW X, Unique(d, R, X), X \subseteq {<<b, k>>} PROVE Unique(e, R, {})
  <2> SUFFICES ASSUME NEW j1 \in R, NEW j2 \in R,
                      NEW b1 \in OwnedBy(d, j1), NEW b2 \in OwnedBy(d, j2),
                      NEW k1 \in DOMAIN e.block[b1], NEW k2 \in DOMAIN e.block[b2],
                      e.block[b1][k1].name \in Name, e.block[b2][k2].name \in Name,
                      e.block[b1][k1].inum = e.block[b2][k2].inum
               PROVE  b1 = b2 /\ k1 = k2
    BY <1>3, SMTT(40) DEF Unique
  <2>1. <<b1, was(b1, k1)>> \notin X /\ <<b2, was(b2, k2)>> \notin X
    BY <1>5, <1>10, SMTT(40)
  <2>2. b1 = b2 /\ was(b1, k1) = was(b2, k2)
    BY <1>5, <1>10, <2>1, SMTT(40) DEF Unique
  <2> QED
    BY <1>5, <2>2
<1>11. ASSUME Unique(d, R, {}), s[k].name \in Name PROVE Unnamed(e, R, {}, s[k].inum)
  <2> SUFFICES ASSUME NEW j \in R, NEW a \in OwnedBy(d, j), NEW m \in DOMAIN e.block[a],
                      e.block[a][m].name \in Name, e.block[a][m].inum = s[k].inum
               PROVE  FALSE
    BY <1>3 DEF Unnamed
  <2>1. /\ was(a, m) \in DOMAIN d.block[a] /\ d.block[a][was(a, m)].name \in Name
        /\ d.block[a][was(a, m)].inum = s[k].inum /\ ~ (a = b /\ was(a, m) = k)
    BY <1>5
  <2>2. <<a, was(a, m)>> \notin {} /\ <<b, k>> \notin {}
    OBVIOUS
  <2>3. a = b /\ was(a, m) = k
    BY <1>11, <2>1, <2>2 DEF Unique
  <2> QED
    BY <2>1, <2>3
<1>12. ~ Has(e, e.inode[i], s[k].name)
  <2> SUFFICES ASSUME NEW a \in OwnedBy(d, i), NEW m \in DOMAIN e.block[a],
                      e.block[a][m].name = s[k].name
               PROVE  FALSE
    BY <1>3 DEF Has, OwnedBy
  <2>1. /\ was(a, m) \in DOMAIN d.block[a] /\ d.block[a][was(a, m)].name = s[k].name
        /\ ~ (a = b /\ was(a, m) = k)
    BY <1>5
  <2>2. a = b /\ was(a, m) = k
    BY <2>1 DEF Sane, Readable
  <2> QED
    BY <2>1, <2>2
<1>13. ASSUME NEW j \in R, NEW n, NEW x, Points(d, d.inode[j], n, x), j # i \/ n # s[k].name
       PROVE  Points(e, e.inode[j], n, x)
  <2>0. PICK a \in OwnedBy(d, j) :
            \E m \in DOMAIN d.block[a] : d.block[a][m].name = n /\ d.block[a][m].inum = x
    BY <1>13 DEF Points, OwnedBy
  <2>1. PICK m \in DOMAIN d.block[a] : d.block[a][m].name = n /\ d.block[a][m].inum = x
    BY <2>0
  <2>2. CASE a # b
    <3>1. e.block[a] = d.block[a]
      BY <1>3, <1>4, <2>2
    <3> QED
      BY <1>3, <2>1, <3>1 DEF Points, OwnedBy
  <2>3. CASE a = b
    <3>1. j = i
      BY <2>3 DEF Sane, Exclusive
    <3>2. m # k /\ m \in DOMAIN s /\ s[m].name = n /\ s[m].inum = x
      BY <1>13, <2>1, <2>3, <3>1
    <3>3. \E q \in DOMAIN e.block[b] : e.block[b][q] = s[m]
      <4>1. /\ DOMAIN s = 1..Len(s) /\ Len(s) \in Nat /\ k \in 1..Len(s) /\ m \in 1..Len(s)
        BY <1>1, <3>2
      <4>2. /\ Without(s, k) \in Seq(Record) /\ Len(Without(s, k)) = Len(s) - 1
            /\ \A q \in 1..(k - 1) : Without(s, k)[q] = s[q]
            /\ \A q \in k..(Len(s) - 1) : Without(s, k)[q] = s[q + 1]
        BY <1>1, <4>1, WithoutIs
      <4>3. DOMAIN Without(s, k) = 1..(Len(s) - 1)
        BY <4>2
      <4>4. CASE m < k
        <5>1. m \in 1..(k - 1) /\ m \in 1..(Len(s) - 1)
          BY <4>1, <4>4
        <5> QED
          BY <1>3, <4>2, <4>3, <5>1
      <4>5. CASE m > k
        <5>1. m - 1 \in k..(Len(s) - 1) /\ m - 1 \in 1..(Len(s) - 1) /\ (m - 1) + 1 = m
          BY <4>1, <4>5
        <5> QED
          BY <1>3, <4>2, <4>3, <5>1, SMTT(40)
      <4> QED
        BY <3>2, <4>1, <4>4, <4>5
    <3> QED
      BY <1>3, <2>1, <2>3, <3>2, <3>3 DEF Points, OwnedBy
  <2> QED
    BY <2>2, <2>3
<1> QED
  BY <1>9, <1>10, <1>11, <1>12, <1>13 DEF RecordGone

\* Disk e is as sound as disk d, and the directory i has no names more.
Extended(d, e, R, i) ==
    /\ Sane(e, R)
    /\ \A X : Unique(d, R, X) => Unique(e, R, X)
    /\ \A X, t : Unnamed(d, R, X, t) => Unnamed(e, R, X, t)
    /\ \A n : ~ Has(d, d.inode[i], n) => ~ Has(e, e.inode[i], n)

\* A directory gets a cleared block that was free.
LEMMA BlockAdded ==
    ASSUME NEW d, NEW R, Sane(d, R), NEW i \in R, NEW b \in d.free, NEW e \in Disk,
           e.inode[i].i_allocated,
           e.inode[i].i_blocks = Append(d.inode[i].i_blocks, b),
           \A j \in Inum \ {i} : e.inode[j] = d.inode[j],
           e.block[b] = << >>,
           \A a \in Block \ {b} : e.block[a] = d.block[a],
           e.free = d.free \ {b}
    PROVE  Extended(d, e, R, i)
<1>1. /\ d \in Disk /\ R \subseteq Inum /\ d.inode[i] \in Inode /\ d.inode[i].i_blocks \in Seq(Block)
      /\ b \in Block
  BY DEF Sane, Disk, Inode
<1> DEFINE s == d.inode[i].i_blocks
<1>2. /\ Append(s, b) \in Seq(Block) /\ Append(s, b)[Len(s) + 1] = b
      /\ DOMAIN s = 1..Len(s) /\ DOMAIN Append(s, b) = 1..(Len(s) + 1) /\ Len(s) \in Nat
      /\ \A k \in 1..Len(s) : Append(s, b)[k] = s[k]
  BY <1>1, AppendIs
<1>3. OwnedBy(e, i) = OwnedBy(d, i) \cup {b}
  <2>1. \A k \in DOMAIN Append(s, b) : k = Len(s) + 1 \/ k \in DOMAIN s
    BY <1>2
  <2>2. Len(s) + 1 \in DOMAIN Append(s, b) /\ \A k \in DOMAIN s : k \in DOMAIN Append(s, b)
    BY <1>2
  <2>3. OwnedBy(e, i) = Range(Append(s, b)) /\ OwnedBy(d, i) = Range(s)
    BY DEF OwnedBy
  <2> HIDE DEF s
  <2> QED
    BY <1>2, <2>1, <2>2, <2>3 DEF Range
<1>4. \A j \in R : j # i => OwnedBy(e, j) = OwnedBy(d, j) /\ e.inode[j] = d.inode[j]
  BY <1>1 DEF OwnedBy
<1>5. \A j \in R : b \notin OwnedBy(d, j) /\ OwnedBy(d, j) \subseteq Block
  <2>1. \A j \in R : OwnedBy(d, j) \subseteq Block
    BY SaneTypes
  <2> QED
    BY <2>1 DEF Sane, Exclusive
<1>6. IsInjective(e.inode[i].i_blocks)
  <2>1. IsInjective(s) /\ \A k \in DOMAIN s : s[k] # b
    <3>1. \A k \in DOMAIN s : s[k] \in OwnedBy(d, i)
      BY DEF OwnedBy, Range
    <3>2. IsInjective(s)
      BY DEF Sane, Exclusive
    <3> QED
      BY <1>5, <3>1, <3>2
  <2> HIDE DEF s
  <2>2. IsInjective(Append(s, b))
    <3> SUFFICES ASSUME NEW k1 \in 1..(Len(s) + 1), NEW k2 \in 1..(Len(s) + 1),
                        Append(s, b)[k1] = Append(s, b)[k2]
                 PROVE  k1 = k2
      BY <1>2 DEF IsInjective
    <3>1. CASE k1 \in 1..Len(s) /\ k2 \in 1..Len(s)
      BY <1>2, <2>1, <3>1 DEF IsInjective
    <3>2. CASE k1 = Len(s) + 1 /\ k2 \in 1..Len(s)
      BY <1>2, <2>1, <3>2
    <3>3. CASE k2 = Len(s) + 1 /\ k1 \in 1..Len(s)
      BY <1>2, <2>1, <3>3
    <3> QED
      BY <1>2, <3>1, <3>2, <3>3
  <2> QED
    BY <2>2 DEF s
<1> HIDE DEF s
<1>7. Exclusive(e, R)
  <2>1. \A j \in R : IsInjective(e.inode[j].i_blocks)
    BY <1>4, <1>6 DEF Sane, Exclusive
  <2>2. \A j \in R : OwnedBy(e, j) \cap e.free = {}
    BY <1>3, <1>4 DEF Sane, Exclusive
  <2>3. \A j, k \in R : j # k => OwnedBy(e, j) \cap OwnedBy(e, k) = {}
    BY <1>3, <1>4, <1>5 DEF Sane, Exclusive
  <2> QED
    BY <2>1, <2>2, <2>3 DEF Exclusive
<1>8. DOMAIN e.block[b] = {}
  OBVIOUS
<1>9. \A j \in R : \A a \in OwnedBy(e, j) :
          a = b \/ (a \in OwnedBy(d, j) /\ e.block[a] = d.block[a])
  BY <1>3, <1>4, <1>5
<1>10. Closed(e, R)
  BY <1>8, <1>9 DEF Closed, Sane
<1>11. Readable(e, R)
  <2> SUFFICES ASSUME NEW j \in R
               PROVE  /\ \A a \in OwnedBy(e, j) : Fits(e.block[a])
                      /\ \A b1, b2 \in OwnedBy(e, j) :
                            \A k1 \in DOMAIN e.block[b1], k2 \in DOMAIN e.block[b2] :
                                e.block[b1][k1].name = e.block[b2][k2].name => b1 = b2 /\ k1 = k2
    BY DEF Readable
  <2>1. Fits(e.block[b])
    <3>1. [inum |-> ROOT_INODE_NUM, name |-> "."] \in Record
      BY TreeAssumption DEF Record
    <3> QED
      BY <3>1, FirstFits
  <2>2. \A a \in OwnedBy(e, j) : Fits(e.block[a])
    BY <1>9, <2>1 DEF Readable, Sane
  <2>3. \A b1, b2 \in OwnedBy(e, j) :
           \A k1 \in DOMAIN e.block[b1], k2 \in DOMAIN e.block[b2] :
               e.block[b1][k1].name = e.block[b2][k2].name => b1 = b2 /\ k1 = k2
    BY <1>8, <1>9 DEF Readable, Sane
  <2> QED
    BY <2>2, <2>3
<1>12. Clean(e) /\ InUse(e, R)
  BY <1>1, <1>4 DEF Clean, InUse, Sane
<1>13. ASSUME NEW X, Unique(d, R, X) PROVE Unique(e, R, X)
  BY <1>8, <1>9, <1>13 DEF Unique
<1>14. ASSUME NEW X, NEW t, Unnamed(d, R, X, t) PROVE Unnamed(e, R, X, t)
  BY <1>8, <1>9, <1>14 DEF Unnamed
<1>15. ASSUME NEW n, ~ Has(d, d.inode[i], n) PROVE ~ Has(e, e.inode[i], n)
  <2> SUFFICES ASSUME NEW a \in OwnedBy(e, i), NEW k \in DOMAIN e.block[a],
                      e.block[a][k].name = n
               PROVE  FALSE
    BY DEF Has, OwnedBy
  <2>1. a \in OwnedBy(d, i) /\ e.block[a] = d.block[a]
    BY <1>8, <1>9
  <2> QED
    BY <1>15, <2>1 DEF Has, OwnedBy
<1>16. Sane(e, R)
  BY <1>7, <1>10, <1>11, <1>12 DEF Sane
<1> QED
  BY <1>13, <1>14, <1>15, <1>16 DEF Extended

\* An inode without blocks joins those that may be reached; no name leads to it yet.
LEMMA InodeAdded ==
    ASSUME NEW d, NEW R, Sane(d, R), NEW i \in Inum \ R, NEW e \in Disk,
           e.inode[i].i_allocated, e.inode[i].i_blocks = << >>,
           \A j \in Inum \ {i} : e.inode[j] = d.inode[j],
           e.block = d.block, e.free = d.free
    PROVE  /\ Sane(e, R \cup {i})
           /\ \A X : Unique(d, R, X) => Unique(e, R \cup {i}, X)
           /\ Unnamed(e, R \cup {i}, {}, i)
<1>1. R \subseteq Inum
  BY DEF Sane
<1>2. OwnedBy(e, i) = {}
  BY DEF OwnedBy, Range
<1>3. \A j \in R : j # i /\ e.inode[j] = d.inode[j] /\ OwnedBy(e, j) = OwnedBy(d, j)
  BY <1>1 DEF OwnedBy
<1>4. IsInjective(e.inode[i].i_blocks)
  BY DEF IsInjective
<1>5. Exclusive(e, R \cup {i})
  BY <1>2, <1>3, <1>4 DEF Exclusive, Sane
<1>6. Closed(e, R \cup {i})
  BY <1>2, <1>3 DEF Closed, Sane
<1>7. Readable(e, R \cup {i})
  BY <1>2, <1>3 DEF Readable, Sane
<1>8. Clean(e) /\ InUse(e, R \cup {i})
  BY <1>1, <1>3 DEF Clean, InUse, Sane
<1>9. ASSUME NEW X, Unique(d, R, X) PROVE Unique(e, R \cup {i}, X)
  BY <1>2, <1>3, <1>9 DEF Unique
<1>10. Unnamed(e, R \cup {i}, {}, i)
  BY <1>2, <1>3 DEF Unnamed, Sane, Closed
<1> QED
  BY <1>1, <1>5, <1>6, <1>7, <1>8, <1>9, <1>10 DEF Sane

\* An inode that no name leads to leaves them.
LEMMA InodeDropped ==
    ASSUME NEW d, NEW R, Sane(d, R), NEW i, i # ROOT_INODE_NUM, Unnamed(d, R, {}, i)
    PROVE  /\ Sane(d, R \ {i})
           /\ \A X : Unique(d, R, X) => Unique(d, R \ {i}, X)
<1>1. Closed(d, R \ {i})
  BY DEF Closed, Sane, Unnamed
<1>2. Exclusive(d, R \ {i}) /\ Readable(d, R \ {i}) /\ InUse(d, R \ {i})
  BY DEF Exclusive, Readable, InUse, Sane
<1>3. ASSUME NEW X, Unique(d, R, X) PROVE Unique(d, R \ {i}, X)
  BY <1>3 DEF Unique
<1> QED
  BY <1>1, <1>2, <1>3 DEF Sane

-----------------------------------------------------------------------------
(* The writes of a call *)

Call == [ok : BOOLEAN, disk : Disk, node : Inode, cuts : SUBSET Disk]

\* A cleared inode is an inode.
LEMMA UnusedType == Unused \in Inode
BY TreeAssumption, EmptySeq DEF Unused, Inode

\* Counts that wrap around stay counts.
LEMMA CountTypes ==
    ASSUME NEW n \in 0..MAX_COUNT
    PROVE  Incremented(n) \in 0..MAX_COUNT /\ Decremented(n) \in 0..MAX_COUNT
<1>1. MAX_COUNT \in Nat /\ n \in Nat
  BY TreeAssumption
<1>2. \A x \in Int : x % (MAX_COUNT + 1) \in 0..MAX_COUNT
  BY <1>1
<1> QED
  BY <1>1, <1>2 DEF Incremented, Decremented

\* A call that begins has written nothing.
LEMMA BeginIs ==
    ASSUME NEW d \in Disk
    PROVE  /\ Begin(d) \in Call
           /\ Begin(d).ok /\ Begin(d).disk = d /\ Begin(d).cuts = {}
BY UnusedType DEF Begin, Call

\* A call that holds an inode has written nothing by that.
LEMMA HoldIs ==
    ASSUME NEW c \in Call, NEW dir \in Inum
    PROVE  /\ Hold(c, dir) \in Call
           /\ Hold(c, dir).ok = c.ok /\ Hold(c, dir).disk = c.disk /\ Hold(c, dir).cuts = c.cuts
           /\ Hold(c, dir).node = c.disk.inode[dir]
BY DEF Hold, Call, Disk

\* A call that fails keeps what it has written.
LEMMA FailIs ==
    ASSUME NEW c \in Call
    PROVE  /\ Fail(c) \in Call
           /\ Fail(c).ok = FALSE /\ Fail(c).disk = c.disk /\ Fail(c).cuts = c.cuts
           /\ Fail(c).node = c.node
BY DEF Fail, Call

\* A write leaves the disk before it as a cut.
LEMMA WriteIs ==
    ASSUME NEW c \in Call, NEW d \in Disk
    PROVE  /\ Write(c, d) \in Call
           /\ Write(c, d).ok = c.ok /\ Write(c, d).disk = d /\ Write(c, d).node = c.node
           /\ Write(c, d).cuts = c.cuts \cup {c.disk}
BY DEF Write, Call

\* The disk with another inode i.
WithInode(d, i, node) == [d EXCEPT !.inode[i] = node]

\* Only inode i changes.
LEMMA WithInodeIs ==
    ASSUME NEW d \in Disk, NEW i \in Inum, NEW node \in Inode, NEW e, e = WithInode(d, i, node)
    PROVE  /\ e \in Disk
           /\ e.block = d.block /\ e.free = d.free
           /\ e.inode[i] = node
           /\ \A j \in Inum \ {i} : e.inode[j] = d.inode[j]
BY DEF WithInode, Disk

\* write_inode is a write of that disk.
LEMMA WriteInodeIs ==
    ASSUME NEW c \in Call, NEW i \in Inum, NEW node \in Inode
    PROVE  /\ write_inode(c, i, node) \in Call
           /\ write_inode(c, i, node).ok = c.ok /\ write_inode(c, i, node).node = c.node
           /\ write_inode(c, i, node).disk = WithInode(c.disk, i, node)
           /\ write_inode(c, i, node).cuts = c.cuts \cup {c.disk}
<1>1. c.disk \in Disk
  BY DEF Call
<1>2. write_inode(c, i, node) = Write(c, WithInode(c.disk, i, node))
  BY DEF write_inode, WithInode
<1> QED
  BY <1>1, <1>2, WithInodeIs, WriteIs

\* What the disk will be when the inode the call holds is written.
Virtual(c, i) == WithInode(c.disk, i, c.node)

\* It differs from the disk in inode i only.
LEMMA VirtualIs ==
    ASSUME NEW c \in Call, NEW i \in Inum
    PROVE  /\ c.disk \in Disk /\ c.node \in Inode
           /\ Virtual(c, i) \in Disk
           /\ Virtual(c, i).block = c.disk.block /\ Virtual(c, i).free = c.disk.free
           /\ Virtual(c, i).inode[i] = c.node
           /\ \A j \in Inum \ {i} : Virtual(c, i).inode[j] = c.disk.inode[j]
<1>1. c.disk \in Disk /\ c.node \in Inode
  BY DEF Call
<1> QED
  BY <1>1, WithInodeIs DEF Virtual

\* Saving makes the disk what it was to be, unless the call has failed.
LEMMA SaveIs ==
    ASSUME NEW c \in Call, NEW i \in Inum
    PROVE  /\ Save(c, i) \in Call
           /\ Save(c, i).ok = c.ok /\ Save(c, i).node = c.node
           /\ c.ok => Save(c, i).disk = Virtual(c, i) /\ Save(c, i).cuts = c.cuts \cup {c.disk}
           /\ ~ c.ok => Save(c, i) = c
<1>1. c.node \in Inode
  BY DEF Call
<1> QED
  BY <1>1, WriteInodeIs DEF Save, Virtual

\* The inode on disk has no block that the held one has not.
Holds(c, i) ==
    /\ c.disk.inode[i].i_allocated
    /\ IsInjective(c.disk.inode[i].i_blocks)
    /\ OwnedBy(c.disk, i) \subseteq Range(c.node.i_blocks)

\* A sound disk to be is a sound disk already.
LEMMA DiskIsSane ==
    ASSUME NEW c \in Call, NEW R, NEW i \in R, Sane(Virtual(c, i), R), Holds(c, i)
    PROVE  /\ Sane(c.disk, R)
           /\ \A X : Unique(Virtual(c, i), R, X) => Unique(c.disk, R, X)
           /\ \A X, t : Unnamed(Virtual(c, i), R, X, t) => Unnamed(c.disk, R, X, t)
<1> DEFINE v == Virtual(c, i)
<1>1. R \subseteq Inum /\ i \in Inum
  BY DEF Sane
<1>2. /\ c.disk \in Disk /\ v \in Disk
      /\ v.block = c.disk.block /\ v.free = c.disk.free /\ v.inode[i] = c.node
      /\ \A j \in Inum \ {i} : v.inode[j] = c.disk.inode[j]
  BY <1>1, VirtualIs
<1> HIDE DEF v
<1>3. Sane(v, R)
  BY DEF v
<1>4. Clean(c.disk)
  BY <1>2, <1>3 DEF Clean, Sane, Holds
<1>5. OwnedBy(v, i) = Range(c.node.i_blocks) /\ \A j \in R \ {i} : OwnedBy(v, j) = OwnedBy(c.disk, j)
  BY <1>1, <1>2 DEF OwnedBy
<1>6. Less(c.disk, v, R)
  <2> SUFFICES ASSUME NEW j \in R
               PROVE  /\ c.disk.inode[j].i_allocated
                      /\ IsInjective(c.disk.inode[j].i_blocks)
                      /\ OwnedBy(c.disk, j) \subseteq OwnedBy(v, j)
                      /\ OwnedBy(c.disk, j) \cap c.disk.free = {}
                      /\ \A b \in OwnedBy(c.disk, j) : c.disk.block[b] = v.block[b]
    BY DEF Less
  <2>1. CASE j = i
    BY <1>2, <1>3, <1>5, <2>1 DEF Sane, Exclusive, Holds
  <2>2. CASE j # i
    BY <1>1, <1>2, <1>3, <1>5, <2>2 DEF Sane, Exclusive, InUse
  <2> QED
    BY <2>1, <2>2
<1>7. /\ Sane(c.disk, R)
      /\ \A X : Unique(v, R, X) => Unique(c.disk, R, X)
      /\ \A X, t : Unnamed(v, R, X, t) => Unnamed(c.disk, R, X, t)
  BY <1>2, <1>3, <1>4, <1>6, LessIsSane
<1> QED
  BY <1>7 DEF v

-----------------------------------------------------------------------------
(* Adding a record *)

\* A record is appended to a block that the directory has.
LEMMA AddToBlockIs ==
    ASSUME NEW c \in Call, NEW b \in Block, NEW r \in Record
    PROVE  LET a == AddToBlock(c, b, r)
           IN /\ a \in Call /\ a.ok = c.ok /\ a.node = c.node
              /\ a.disk = WithBlock(c.disk, b, Append(c.disk.block[b], r))
              /\ a.cuts = c.cuts \cup {c.disk}
<1>1. c.disk \in Disk /\ c.disk.block[b] \in Seq(Record)
  BY DEF Call, Disk
<1>2. Append(c.disk.block[b], r) \in Seq(Record)
  BY <1>1, AppendIs
<1>3. WithBlock(c.disk, b, Append(c.disk.block[b], r)) \in Disk
  BY <1>1, <1>2, WithBlockIs
<1>4. AddToBlock(c, b, r) = Write(c, WithBlock(c.disk, b, Append(c.disk.block[b], r)))
  BY DEF AddToBlock, WithBlock
<1> QED
  BY <1>3, <1>4, WriteIs

\* A free block is cleared and put at the end of the held inode.
LEMMA AddNewBlockIs ==
    ASSUME NEW c \in Call, NEW b \in Block
    PROVE  LET a == AddNewBlock(c, b)
           IN /\ a \in Call /\ a.ok = c.ok
              /\ a.node = [c.node EXCEPT !.i_blocks = Append(c.node.i_blocks, b)]
              /\ a.disk \in Disk /\ a.disk.inode = c.disk.inode /\ a.disk.free = c.disk.free \ {b}
              /\ a.disk.block[b] = << >>
              /\ \A e \in Block \ {b} : a.disk.block[e] = c.disk.block[e]
              /\ a.cuts = c.cuts \cup {c.disk}
<1> DEFINE d == [c.disk EXCEPT !.free = c.disk.free \ {b}, !.block[b] = << >>]
<1>1. c.disk \in Disk /\ c.node \in Inode
  BY DEF Call
<1>2. << >> \in Seq(Record)
  BY EmptySeq
<1>3. /\ d \in Disk /\ d.inode = c.disk.inode /\ d.free = c.disk.free \ {b}
      /\ d.block[b] = << >> /\ \A e \in Block \ {b} : d.block[e] = c.disk.block[e]
  BY <1>1, <1>2 DEF Disk
<1> HIDE DEF d
<1>4. /\ Write(c, d) \in Call
      /\ Write(c, d).ok = c.ok /\ Write(c, d).disk = d /\ Write(c, d).node = c.node
      /\ Write(c, d).cuts = c.cuts \cup {c.disk}
  BY <1>3, WriteIs
<1>5. AddNewBlock(c, b) = [Write(c, d) EXCEPT !.node.i_blocks = Append(Write(c, d).node.i_blocks, b)]
  BY DEF AddNewBlock, d
<1>6. [c.node EXCEPT !.i_blocks = Append(c.node.i_blocks, b)] \in Inode
  <2>1. Append(c.node.i_blocks, b) \in Seq(Block)
    BY <1>1, AppendIs DEF Inode
  <2> QED
    BY <1>1, <2>1 DEF Inode
<1>7. AddNewBlock(c, b) =
          [Write(c, d) EXCEPT !.node = [c.node EXCEPT !.i_blocks = Append(c.node.i_blocks, b)]]
  BY <1>4, <1>5 DEF Call
<1> DEFINE a == AddNewBlock(c, b)
           node == [c.node EXCEPT !.i_blocks = Append(c.node.i_blocks, b)]
<1>8. a = [Write(c, d) EXCEPT !.node = node] /\ node \in Inode
  BY <1>6, <1>7
<1> HIDE DEF a, node
<1>9. a \in Call /\ a.ok = c.ok /\ a.disk = d /\ a.node = node /\ a.cuts = c.cuts \cup {c.disk}
  BY <1>4, <1>8 DEF Call
<1> QED
  BY <1>3, <1>9 DEF a, node

\* Counting leaves the blocks alone.
LEMMA CountedIs ==
    ASSUME NEW c \in Call
    PROVE  /\ Counted(c) \in Call
           /\ Counted(c).ok = c.ok /\ Counted(c).disk = c.disk /\ Counted(c).cuts = c.cuts
           /\ Counted(c).node = [c.node EXCEPT !.i_child_num = Incremented(c.node.i_child_num)]
           /\ Counted(c).node.i_blocks = c.node.i_blocks
           /\ Counted(c).node.i_mode = c.node.i_mode
           /\ Counted(c).node.i_allocated = c.node.i_allocated
<1>1. c.node \in Inode /\ Incremented(c.node.i_child_num) \in 0..MAX_COUNT
  BY CountTypes DEF Call, Inode
<1>2. [c.node EXCEPT !.i_child_num = Incremented(c.node.i_child_num)] \in Inode
  BY <1>1 DEF Inode
<1>3. Counted(c) = [c EXCEPT !.node = [c.node EXCEPT !.i_child_num = Incremented(c.node.i_child_num)]]
  BY DEF Counted, Call
<1> QED
  BY <1>1, <1>2, <1>3 DEF Call, Inode

\* Two disks with the same blocks, and the same blocks in each inode.
LEMMA SameIsSane ==
    ASSUME NEW d \in Disk, NEW v, NEW R, Sane(v, R), Clean(d),
           \A i \in R : d.inode[i].i_allocated /\ d.inode[i].i_blocks = v.inode[i].i_blocks,
           d.block = v.block, d.free = v.free
    PROVE  /\ Sane(d, R)
           /\ \A X : Unique(v, R, X) => Unique(d, R, X)
           /\ \A X, t : Unnamed(v, R, X, t) => Unnamed(d, R, X, t)
<1>1. Less(d, v, R)
  BY DEF Less, Sane, Exclusive, OwnedBy
<1> QED
  BY <1>1, LessIsSane

\* The records that a block has stay where they are.
KeepsRecords(d, e, b) ==
    \A k \in DOMAIN d.block[b] : k \in DOMAIN e.block[b] /\ e.block[b][k] = d.block[b][k]

\* A call that has written one record of the directory it holds, and counted it.
Written(c, a, i, R, r) ==
    LET v == Virtual(c, i)
        w == Virtual(a, i)
    IN /\ a \in Call /\ a.ok = c.ok /\ a.disk.inode = c.disk.inode
       /\ a.node.i_blocks = c.node.i_blocks /\ a.node.i_mode = c.node.i_mode
       /\ a.cuts = c.cuts \cup {c.disk}
       /\ Sane(w, R)
       /\ \A X : /\ Unique(v, R, X)
                 /\ r.name \in Name => Unnamed(v, R, X, r.inum)
                 => Unique(w, R, X)
       /\ \A n : ~ Has(c.disk, c.node, n) /\ n # r.name => ~ Has(a.disk, a.node, n)
       /\ \A x \in Block : KeepsRecords(c.disk, a.disk, x)

\* A record written to a block with room keeps the disk to be sound.
LEMMA RecordWritten ==
    ASSUME NEW c \in Call, NEW R, NEW i \in R, Sane(Virtual(c, i), R),
           NEW b \in Range(c.node.i_blocks), NEW r \in Record,
           Fits(Append(c.disk.block[b], r)),
           ~ Has(c.disk, c.node, r.name),
           r.name \in Name => r.inum \in R \ {ROOT_INODE_NUM}
    PROVE  Written(c, Counted(AddToBlock(c, b, r)), i, R, r)
<1> DEFINE a == Counted(AddToBlock(c, b, r))
           v == Virtual(c, i)
           w == Virtual(a, i)
           e == WithBlock(v, b, Append(v.block[b], r))
<1>1. R \subseteq Inum /\ i \in Inum
  BY DEF Sane
<1>2. /\ c.disk \in Disk /\ c.node \in Inode /\ v \in Disk
      /\ v.block = c.disk.block /\ v.free = c.disk.free /\ v.inode[i] = c.node
      /\ \A j \in Inum \ {i} : v.inode[j] = c.disk.inode[j]
  BY <1>1, VirtualIs
<1>3. b \in Block /\ c.disk.block[b] \in Seq(Record)
  BY <1>2, BlocksOfType
<1>4. /\ AddToBlock(c, b, r) \in Call /\ AddToBlock(c, b, r).ok = c.ok
      /\ AddToBlock(c, b, r).node = c.node
      /\ AddToBlock(c, b, r).disk = WithBlock(c.disk, b, Append(c.disk.block[b], r))
      /\ AddToBlock(c, b, r).cuts = c.cuts \cup {c.disk}
  BY <1>3, AddToBlockIs
<1>5. /\ a \in Call /\ a.ok = c.ok /\ a.cuts = c.cuts \cup {c.disk}
      /\ a.disk = WithBlock(c.disk, b, Append(c.disk.block[b], r))
      /\ a.node.i_blocks = c.node.i_blocks /\ a.node.i_mode = c.node.i_mode
      /\ a.node.i_allocated = c.node.i_allocated
  BY <1>4, CountedIs
<1> HIDE DEF a, v
<1>6. Append(c.disk.block[b], r) \in Seq(Record)
  BY <1>3, AppendIs
<1>7. /\ a.disk.inode = c.disk.inode /\ a.disk.free = c.disk.free /\ a.disk \in Disk
      /\ a.disk.block[b] = Append(c.disk.block[b], r)
      /\ \A x \in Block : x # b => a.disk.block[x] = c.disk.block[x]
  <2> DEFINE s == Append(c.disk.block[b], r)
  <2>1. a.disk = WithBlock(c.disk, b, s) /\ s \in Seq(Record)
    BY <1>5, <1>6
  <2> HIDE DEF s
  <2>2. /\ a.disk.inode = c.disk.inode /\ a.disk.free = c.disk.free /\ a.disk \in Disk
        /\ a.disk.block[b] = s
        /\ \A x \in Block : x # b => a.disk.block[x] = c.disk.block[x]
    <3>1. c.disk \in Disk /\ b \in Block
      BY <1>2, <1>3
    <3> QED
      BY ONLY <2>1, <3>1, WithBlockIs, SMTT(40)
  <2> QED
    BY <2>2 DEF s
<1>8. /\ w \in Disk /\ w.block = a.disk.block /\ w.free = a.disk.free /\ w.inode[i] = a.node
      /\ \A j \in Inum \ {i} : w.inode[j] = a.disk.inode[j]
  BY <1>1, <1>5, VirtualIs
<1> HIDE DEF w
<1>9. b \in OwnedBy(v, i) /\ ~ Has(v, v.inode[i], r.name) /\ Sane(v, R)
  BY <1>2 DEF OwnedBy, Has, v
<1>10. /\ Sane(e, R)
       /\ \A X : /\ Unique(v, R, X)
                 /\ r.name \in Name => Unnamed(v, R, X, r.inum)
                 => Unique(e, R, X)
  BY <1>2, <1>9, RecordAdded
<1>11. /\ e.inode = v.inode /\ e.free = v.free /\ e.block = a.disk.block
  <2>1. e.inode = v.inode /\ e.free = v.free /\ e.block = [v.block EXCEPT ![b] = Append(v.block[b], r)]
    BY <1>2 DEF WithBlock, Disk
  <2>2. a.disk.block = [c.disk.block EXCEPT ![b] = Append(c.disk.block[b], r)]
    BY <1>2, <1>5 DEF WithBlock, Disk
  <2> QED
    BY <1>2, <2>1, <2>2
<1> HIDE DEF e
<1>12. w.block = e.block /\ w.free = e.free
  BY <1>2, <1>7, <1>8, <1>11
<1>13. /\ \A j \in Inum \ {i} : w.inode[j] = v.inode[j]
       /\ w.inode[i].i_blocks = v.inode[i].i_blocks
       /\ w.inode[i].i_allocated = v.inode[i].i_allocated
  BY <1>2, <1>5, <1>7, <1>8
<1>14. v.inode[i].i_allocated
  BY <1>9 DEF Sane, InUse
<1>15. Clean(w)
  BY <1>9, <1>13, <1>14 DEF Clean, Sane
<1>16. \A j \in R : w.inode[j].i_allocated /\ w.inode[j].i_blocks = e.inode[j].i_blocks
  BY <1>1, <1>9, <1>11, <1>13 DEF Sane, InUse
<1>17. Sane(w, R) /\ \A X : Unique(e, R, X) => Unique(w, R, X)
  BY <1>8, <1>10, <1>12, <1>15, <1>16, SameIsSane
<1>18. ASSUME NEW n, ~ Has(c.disk, c.node, n), n # r.name PROVE ~ Has(a.disk, a.node, n)
  <2> SUFFICES ASSUME NEW x \in Range(c.node.i_blocks), NEW k \in DOMAIN a.disk.block[x],
                      a.disk.block[x][k].name = n
               PROVE  FALSE
    BY <1>5 DEF Has
  <2>1. x \in Block
    BY <1>2, BlocksOfType
  <2>2. CASE x # b
    BY <1>7, <1>18, <2>1, <2>2 DEF Has
  <2>3. CASE x = b
    <3>1. k \in 1..(Len(c.disk.block[b]) + 1) /\ DOMAIN c.disk.block[b] = 1..Len(c.disk.block[b])
          /\ Len(c.disk.block[b]) \in Nat
      BY <1>3, <1>6, <1>7, <2>3, AppendIs
    <3>2. CASE k \in DOMAIN c.disk.block[b]
      <4>1. a.disk.block[x][k] = c.disk.block[b][k]
        BY <1>3, <1>7, <2>3, <3>1, <3>2, AppendIs
      <4> QED
        BY <1>18, <2>3, <3>2, <4>1 DEF Has
    <3>3. CASE k = Len(c.disk.block[b]) + 1
      <4>1. a.disk.block[x][k] = r
        BY <1>3, <1>7, <2>3, <3>3, AppendIs
      <4> QED
        BY <1>18, <4>1
    <3> QED
      BY <3>1, <3>2, <3>3
  <2> QED
    BY <2>2, <2>3
<1>19. \A x \in Block : KeepsRecords(c.disk, a.disk, x)
  <2> SUFFICES ASSUME NEW x \in Block PROVE KeepsRecords(c.disk, a.disk, x)
    OBVIOUS
  <2>1. CASE x # b
    BY <1>7, <2>1 DEF KeepsRecords
  <2>2. CASE x = b
    <3> DEFINE s == c.disk.block[b]
    <3>1. /\ s \in Seq(Record) /\ DOMAIN s = 1..Len(s) /\ DOMAIN Append(s, r) = 1..(Len(s) + 1)
          /\ Len(s) \in Nat /\ \A k \in 1..Len(s) : Append(s, r)[k] = s[k]
      BY <1>3, AppendIs
    <3>2. \A k \in DOMAIN s : k \in DOMAIN Append(s, r) /\ Append(s, r)[k] = s[k]
      BY <3>1
    <3> QED
      BY <1>7, <2>2, <3>2 DEF KeepsRecords
  <2> QED
    BY <2>1, <2>2
<1> QED
  BY <1>5, <1>7, <1>10, <1>17, <1>18, <1>19 DEF Written, a, v, w

\* A set of naturals that is not empty has its least element.
LEMMA MinIn ==
    ASSUME NEW S, S \subseteq Nat, S # {}
    PROVE  Min(S) \in S
BY LeastElement DEF Min

\* A block with room is found.
LEMMA FindsRoom ==
    ASSUME NEW blocks \in Seq(Seq(Record)), NEW l \in DOMAIN blocks, NEW n, HasRoom(blocks[l], n)
    PROVE  BlockWithRoom(blocks, n) # 0
<1> DEFINE with_room == {m \in DOMAIN blocks : HasRoom(blocks[m], n)}
<1>1. with_room # {} /\ with_room \subseteq Nat \ {0}
  OBVIOUS
<1>2. BlockWithRoom(blocks, n) = Min(with_room)
  BY <1>1 DEF BlockWithRoom
<1> HIDE DEF with_room
<1>3. Min(with_room) \in with_room
  BY <1>1, MinIn
<1> QED
  BY <1>1, <1>2, <1>3

\* What add_directory_entry does to the directory that the call holds.
Added(c, a, i, R, inum, name) ==
    LET v == Virtual(c, i)
        w == Virtual(a, i)
    IN /\ a \in Call /\ a.disk.inode = c.disk.inode
       /\ ~ a.ok => a.disk = c.disk /\ a.cuts = c.cuts
       /\ a.ok => /\ c.ok /\ Sane(w, R)
                  /\ a.node.i_mode = c.node.i_mode
                  /\ \A X : /\ Unique(v, R, X)
                            /\ name \in Name => Unnamed(v, R, X, inum)
                            => Unique(w, R, X)
                  /\ \A n : ~ Has(c.disk, c.node, n) /\ n # name => ~ Has(a.disk, a.node, n)
                  /\ Range(c.node.i_blocks) \subseteq Range(a.node.i_blocks)
                  /\ \A x \in Block \ c.disk.free : KeepsRecords(c.disk, a.disk, x)
       /\ Holds(c, i) => /\ a.ok => Holds(a, i)
                         /\ \A cut \in a.cuts :
                               \/ cut \in c.cuts
                               \/ Sane(cut, R) /\ \A X : Unique(v, R, X) => Unique(cut, R, X)

\* add_directory_entry keeps the disk to be sound, and every cut on the way.
LEMMA EntryAdded ==
    ASSUME NEW c \in Call, NEW R, NEW i \in R, Sane(Virtual(c, i), R),
           NEW inum \in Inum, NEW name \in AnyName,
           ~ Has(c.disk, c.node, name),
           name \in Name => inum \in R \ {ROOT_INODE_NUM}
    PROVE  Added(c, add_directory_entry(c, inum, name), i, R, inum, name)
<1> DEFINE a == add_directory_entry(c, inum, name)
           v == Virtual(c, i)
           r == [inum |-> inum, name |-> name]
           blocks == BlocksOf(c.disk, c.node)
           l == BlockWithRoom(blocks, name)
           new == Min(c.disk.free)
<1>1. R \subseteq Inum /\ i \in Inum
  BY DEF Sane
<1>2. /\ c.disk \in Disk /\ c.node \in Inode /\ v \in Disk
      /\ v.block = c.disk.block /\ v.free = c.disk.free /\ v.inode[i] = c.node
      /\ \A j \in Inum \ {i} : v.inode[j] = c.disk.inode[j]
  BY <1>1, VirtualIs
<1>3. r \in Record /\ r.name = name /\ r.inum = inum
  BY DEF Record, AnyName
<1>4. /\ c.node.i_blocks \in Seq(Block) /\ Range(c.node.i_blocks) \subseteq Block
      /\ blocks \in Seq(Seq(Record)) /\ DOMAIN blocks = DOMAIN c.node.i_blocks
      /\ \A m \in DOMAIN blocks : blocks[m] = c.disk.block[c.node.i_blocks[m]]
      /\ \A x \in Block : c.disk.block[x] \in Seq(Record)
  BY <1>2, BlocksOfType
<1>5. CASE ~ c.ok \/ c.node.i_mode # "dir" \/ (l = 0 /\ c.disk.free = {})
  <2>1. a = Fail(c)
    BY <1>5 DEF add_directory_entry
  <2>2. a \in Call /\ a.ok = FALSE /\ a.disk = c.disk /\ a.cuts = c.cuts /\ a.node = c.node
    BY <2>1, FailIs
  <2> QED
    BY <2>2 DEF Added
<1>6. CASE c.ok /\ l # 0
  <2>1. l \in DOMAIN blocks /\ HasRoom(blocks[l], name)
    <3> DEFINE with_room == {m \in DOMAIN blocks : HasRoom(blocks[m], name)}
    <3>1. with_room # {} /\ l = Min(with_room)
      BY <1>6 DEF BlockWithRoom
    <3>2. with_room \subseteq Nat
      BY <1>4
    <3>3. Min(with_room) \in with_room
      <4> HIDE DEF with_room
      <4> QED
        BY <3>1, <3>2, MinIn
    <3> QED
      BY <3>1, <3>3
  <2> DEFINE b == c.node.i_blocks[l]
  <2>2. b \in Range(c.node.i_blocks) /\ blocks[l] = c.disk.block[b]
    BY <1>4, <2>1 DEF Range
  <2> HIDE DEF b, l, blocks
  <2>3. Fits(Append(c.disk.block[b], r))
    BY <1>3, <1>4, <2>1, <2>2, AppendFits
  <2>4. CASE c.node.i_mode = "dir"
    <3>1. a = Counted(AddToBlock(c, b, r))
      BY <1>6, <2>4 DEF add_directory_entry, b, l, blocks
    <3> DEFINE w == Virtual(a, i)
    <3>2. /\ a \in Call /\ a.ok = c.ok /\ a.disk.inode = c.disk.inode
          /\ a.node.i_blocks = c.node.i_blocks /\ a.node.i_mode = c.node.i_mode
          /\ a.cuts = c.cuts \cup {c.disk}
          /\ Sane(w, R)
          /\ \A X : /\ Unique(v, R, X)
                    /\ name \in Name => Unnamed(v, R, X, inum)
                    => Unique(w, R, X)
          /\ \A n : ~ Has(c.disk, c.node, n) /\ n # name => ~ Has(a.disk, a.node, n)
          /\ \A x \in Block : KeepsRecords(c.disk, a.disk, x)
      <4>1. Written(c, a, i, R, r)
        <5>1. ~ Has(c.disk, c.node, r.name) /\ (r.name \in Name => r.inum \in R \ {ROOT_INODE_NUM})
          BY <1>3
        <5> HIDE DEF r, v, a
        <5> QED
          BY <1>3, <2>2, <2>3, <3>1, <5>1, RecordWritten
      <4> HIDE DEF a
      <4> QED
        BY <1>3, <4>1 DEF Written
    <3> HIDE DEF a
    <3>3. ASSUME Holds(c, i) PROVE Holds(a, i)
      BY <3>2, <3>3 DEF Holds, OwnedBy
    <3>4. ASSUME Holds(c, i)
          PROVE  Sane(c.disk, R) /\ \A X : Unique(v, R, X) => Unique(c.disk, R, X)
      BY <3>4, DiskIsSane
    <3>5. Added(c, a, i, R, inum, name)
      BY <1>6, <3>2, <3>3, <3>4 DEF Added
    <3> QED
      BY <3>5 DEF a
  <2> QED
    BY <1>5, <2>4
<1>7. CASE c.ok /\ c.node.i_mode = "dir" /\ l = 0 /\ c.disk.free # {}
  <2> DEFINE c1 == AddNewBlock(c, new)
             v1 == Virtual(c1, i)
  <2>1. new \in c.disk.free /\ new \in Block
    <3>1. c.disk.free \subseteq Block /\ Block \subseteq Nat
      BY <1>2, TreeAssumption DEF Disk
    <3> QED
      BY <1>7, <3>1, MinIn
  <2> HIDE DEF new
  <2>2. /\ c1 \in Call /\ c1.ok = c.ok
        /\ c1.node = [c.node EXCEPT !.i_blocks = Append(c.node.i_blocks, new)]
        /\ c1.disk \in Disk /\ c1.disk.inode = c.disk.inode /\ c1.disk.free = c.disk.free \ {new}
        /\ c1.disk.block[new] = << >>
        /\ \A e \in Block \ {new} : c1.disk.block[e] = c.disk.block[e]
        /\ c1.cuts = c.cuts \cup {c.disk}
    BY <2>1, AddNewBlockIs
  <2>3. a = Counted(AddToBlock(c1, new, r))
    BY <1>7 DEF add_directory_entry, new
  <2> HIDE DEF c1
  <2>4. /\ v1 \in Disk /\ v1.block = c1.disk.block /\ v1.free = c1.disk.free
        /\ v1.inode[i] = c1.node /\ \A j \in Inum \ {i} : v1.inode[j] = c1.disk.inode[j]
    BY <1>1, <2>2, VirtualIs
  <2>5. /\ c1.node.i_allocated = c.node.i_allocated /\ c1.node.i_mode = c.node.i_mode
        /\ c1.node.i_blocks = Append(c.node.i_blocks, new)
    BY <1>2, <2>2 DEF Inode
  <2> HIDE DEF v1
  <2>6. v.inode[i].i_allocated
    BY DEF Sane, InUse
  <2>7. /\ Sane(v1, R)
        /\ \A X : Unique(v, R, X) => Unique(v1, R, X)
        /\ \A X, t : Unnamed(v, R, X, t) => Unnamed(v1, R, X, t)
        /\ \A n : ~ Has(v, v.inode[i], n) => ~ Has(v1, v1.inode[i], n)
    <3>1. /\ v1.inode[i].i_allocated /\ v1.inode[i].i_blocks = Append(v.inode[i].i_blocks, new)
          /\ \A j \in Inum \ {i} : v1.inode[j] = v.inode[j]
          /\ v1.block[new] = << >>
          /\ \A e \in Block \ {new} : v1.block[e] = v.block[e]
          /\ v1.free = v.free \ {new} /\ new \in v.free
      BY <1>2, <2>1, <2>2, <2>4, <2>5, <2>6
    <3> HIDE DEF v
    <3>2. Sane(v, R)
      BY DEF v
    <3> QED
      <4>1. v1 \in Disk /\ i \in R
        BY <2>4
      <4> QED
        BY ONLY <3>1, <3>2, <4>1, BlockAdded DEF Extended
  <2>8. new \in Range(c1.node.i_blocks) /\ Range(c.node.i_blocks) \subseteq Range(c1.node.i_blocks)
    <3> DEFINE s == c.node.i_blocks
    <3>1. /\ Append(s, new) \in Seq(Block) /\ Append(s, new)[Len(s) + 1] = new
          /\ DOMAIN s = 1..Len(s) /\ DOMAIN Append(s, new) = 1..(Len(s) + 1) /\ Len(s) \in Nat
          /\ \A k \in 1..Len(s) : Append(s, new)[k] = s[k]
      BY <1>4, <2>1, AppendIs
    <3>2. Len(s) + 1 \in DOMAIN Append(s, new) /\ DOMAIN s \subseteq DOMAIN Append(s, new)
      BY <3>1
    <3> HIDE DEF s
    <3>3. new \in Range(Append(s, new)) /\ Range(s) \subseteq Range(Append(s, new))
      BY <3>1, <3>2 DEF Range
    <3> QED
      BY <2>5, <3>3 DEF s
  <2>9. Fits(Append(c1.disk.block[new], r))
    BY <1>3, <2>2, FirstFits
  <2>10. \A n : ~ Has(c.disk, c.node, n) => ~ Has(c1.disk, c1.node, n)
    BY <1>2, <2>4, <2>7 DEF Has
  <2> DEFINE w == Virtual(a, i)
  <2>11. /\ a \in Call /\ a.ok = c1.ok /\ a.disk.inode = c1.disk.inode
         /\ a.node.i_blocks = c1.node.i_blocks /\ a.node.i_mode = c1.node.i_mode
         /\ a.cuts = c1.cuts \cup {c1.disk}
         /\ Sane(w, R)
         /\ \A X : /\ Unique(v1, R, X)
                   /\ name \in Name => Unnamed(v1, R, X, inum)
                   => Unique(w, R, X)
         /\ \A n : ~ Has(c1.disk, c1.node, n) /\ n # name => ~ Has(a.disk, a.node, n)
         /\ \A x \in Block : KeepsRecords(c1.disk, a.disk, x)
    <3>1. ~ Has(c1.disk, c1.node, r.name) /\ (r.name \in Name => r.inum \in R \ {ROOT_INODE_NUM})
      BY <1>3, <2>10
    <3>2. Sane(Virtual(c1, i), R)
      BY <2>7 DEF v1
    <3>3. Written(c1, a, i, R, r)
      <4> HIDE DEF r, a
      <4> QED
        BY <1>3, <2>2, <2>3, <2>8, <2>9, <3>1, <3>2, RecordWritten
    <3> HIDE DEF a
    <3> QED
      BY <1>3, <3>3 DEF Written, v1
  <2> HIDE DEF a, v, r
  <2>12. ASSUME Holds(c, i) PROVE Holds(c1, i) /\ Holds(a, i)
    BY <2>2, <2>8, <2>11, <2>12 DEF Holds, OwnedBy
  <2>13. ASSUME Holds(c, i)
         PROVE  /\ Sane(c.disk, R) /\ \A X : Unique(v, R, X) => Unique(c.disk, R, X)
                /\ Sane(c1.disk, R) /\ \A X : Unique(v, R, X) => Unique(c1.disk, R, X)
    <3>1. Sane(c.disk, R) /\ \A X : Unique(v, R, X) => Unique(c.disk, R, X)
      BY <2>13, DiskIsSane DEF v
    <3>2. Sane(c1.disk, R) /\ \A X : Unique(v1, R, X) => Unique(c1.disk, R, X)
      BY <2>2, <2>7, <2>12, <2>13, DiskIsSane DEF v1
    <3> QED
      BY <2>7, <3>1, <3>2
  <2>14. \A X : /\ Unique(v, R, X)
                /\ name \in Name => Unnamed(v, R, X, inum)
                => Unique(w, R, X)
    <3> HIDE DEF w
    <3> QED
      BY <2>7, <2>11
  <2>15. \A n : ~ Has(c.disk, c.node, n) /\ n # name => ~ Has(a.disk, a.node, n)
    BY <2>10, <2>11
  <2>16. Added(c, a, i, R, inum, name)
    <3>1. a.node.i_mode = c.node.i_mode /\ a.disk.inode = c.disk.inode /\ a.ok /\ c.ok
      BY <1>7, <2>2, <2>5, <2>11
    <3>2. ASSUME Holds(c, i), NEW cut \in a.cuts
          PROVE  \/ cut \in c.cuts
                 \/ Sane(cut, R) /\ \A X : Unique(v, R, X) => Unique(cut, R, X)
      <4>1. cut \in c.cuts \/ cut = c.disk \/ cut = c1.disk
        BY <2>2, <2>11
      <4> QED
        BY <2>13, <3>2, <4>1
    <3>3. Range(c.node.i_blocks) \subseteq Range(a.node.i_blocks)
      BY <2>8, <2>11
    <3>4. ASSUME NEW x \in Block \ c.disk.free PROVE KeepsRecords(c.disk, a.disk, x)
      <4>1. x # new /\ c1.disk.block[x] = c.disk.block[x]
        BY <2>1, <2>2
      <4>2. KeepsRecords(c1.disk, a.disk, x)
        BY <2>11
      <4> QED
        BY <4>1, <4>2 DEF KeepsRecords
    <3> QED
      BY <2>11, <2>12, <2>14, <2>15, <3>1, <3>2, <3>3, <3>4 DEF Added, v
  <2> QED
    BY <2>16 DEF a
<1> QED
  BY <1>5, <1>6, <1>7 DEF Call

\* The new record is there, records that were there stay at every cut, and a block
\* with room is used.
Placed(c, a, inum, name) ==
    /\ a.ok => Points(a.disk, a.node, name, inum)
    /\ \A cut \in a.cuts :
          \/ cut \in c.cuts
          \/ /\ cut.inode = c.disk.inode
             /\ \A x \in Block \ c.disk.free : KeepsRecords(c.disk, cut, x)
    /\ ~ a.ok /\ c.ok /\ c.node.i_mode = "dir"
       => \A x \in Range(c.node.i_blocks) : ~ HasRoom(c.disk.block[x], name)

\* A record that is written is there.
LEMMA WrittenPoints ==
    ASSUME NEW c \in Call, NEW r \in Record, NEW b \in Range(c.node.i_blocks),
           NEW a, a = Counted(AddToBlock(c, b, r))
    PROVE  a.ok = c.ok /\ Points(a.disk, a.node, r.name, r.inum) /\ a.cuts = c.cuts \cup {c.disk}
<1> DEFINE c1 == AddToBlock(c, b, r)
           s == c.disk.block[b]
<1>1. c.disk \in Disk /\ c.node \in Inode
  BY DEF Call
<1>2. b \in Block /\ s \in Seq(Record)
  BY <1>1, BlocksOfType
<1>3. /\ Append(s, r) \in Seq(Record) /\ Append(s, r)[Len(s) + 1] = r
      /\ Len(s) + 1 \in DOMAIN Append(s, r)
  <2>1. /\ Append(s, r) \in Seq(Record) /\ Append(s, r)[Len(s) + 1] = r
        /\ DOMAIN Append(s, r) = 1..(Len(s) + 1) /\ Len(s) \in Nat
    BY <1>2, AppendIs
  <2> QED
    BY <2>1
<1>4. /\ c1 \in Call /\ c1.ok = c.ok /\ c1.node = c.node
      /\ c1.disk = WithBlock(c.disk, b, Append(s, r)) /\ c1.cuts = c.cuts \cup {c.disk}
  BY <1>2, AddToBlockIs
<1> HIDE DEF c1
<1>5. /\ a.ok = c1.ok /\ a.disk = c1.disk /\ a.cuts = c1.cuts
      /\ a.node.i_blocks = c1.node.i_blocks
  BY <1>4, CountedIs DEF c1
<1>6. a.disk.block[b] = Append(s, r)
  <2> DEFINE t == Append(s, r)
  <2>1. t \in Seq(Record) /\ a.disk = WithBlock(c.disk, b, t) /\ c.disk \in Disk /\ b \in Block
    BY <1>1, <1>2, <1>3, <1>4, <1>5
  <2> HIDE DEF t
  <2>2. a.disk.block[b] = t
    BY ONLY <2>1, WithBlockIs
  <2> QED
    BY <2>2 DEF t
<1> HIDE DEF s
<1>7. Points(a.disk, a.node, r.name, r.inum)
  BY <1>3, <1>4, <1>5, <1>6 DEF Points
<1> QED
  BY <1>4, <1>5, <1>7

\* add_directory_entry places the record and disturbs no other.
LEMMA EntryPlaced ==
    ASSUME NEW c \in Call, NEW inum \in Inum, NEW name \in AnyName,
           NEW a, a = add_directory_entry(c, inum, name)
    PROVE  Placed(c, a, inum, name)
<1> DEFINE r == [inum |-> inum, name |-> name]
           blocks == BlocksOf(c.disk, c.node)
           l == BlockWithRoom(blocks, name)
           new == Min(c.disk.free)
<1>1. c.disk \in Disk /\ c.node \in Inode
  BY DEF Call
<1>2. r \in Record /\ r.name = name /\ r.inum = inum
  BY DEF Record, AnyName
<1>3. /\ c.node.i_blocks \in Seq(Block)
      /\ blocks \in Seq(Seq(Record)) /\ DOMAIN blocks = DOMAIN c.node.i_blocks
      /\ \A m \in DOMAIN blocks : blocks[m] = c.disk.block[c.node.i_blocks[m]]
  BY <1>1, BlocksOfType
<1>4. ASSUME NEW x \in Range(c.node.i_blocks), HasRoom(c.disk.block[x], name) PROVE l # 0
  <2>1. PICK m \in DOMAIN c.node.i_blocks : c.node.i_blocks[m] = x
    BY DEF Range
  <2> HIDE DEF blocks
  <2>2. m \in DOMAIN blocks /\ HasRoom(blocks[m], name)
    BY <1>3, <1>4, <2>1
  <2> QED
    BY <1>3, <2>2, FindsRoom
<1>5. \A x : KeepsRecords(c.disk, c.disk, x)
  BY DEF KeepsRecords
<1>6. CASE ~ c.ok \/ c.node.i_mode # "dir" \/ (l = 0 /\ c.disk.free = {})
  <2>1. a = Fail(c)
    BY <1>6 DEF add_directory_entry
  <2>2. ~ a.ok /\ a.cuts = c.cuts
    BY <2>1, FailIs
  <2> QED
    BY <1>4, <1>6, <2>2 DEF Placed
<1>7. CASE c.ok /\ c.node.i_mode = "dir" /\ l # 0
  <2> DEFINE b == c.node.i_blocks[l]
  <2>1. a = Counted(AddToBlock(c, b, r))
    BY <1>7 DEF add_directory_entry
  <2>2. l \in DOMAIN blocks
    <3> DEFINE with_room == {m \in DOMAIN blocks : HasRoom(blocks[m], name)}
    <3>1. with_room # {} /\ l = Min(with_room)
      BY <1>7 DEF BlockWithRoom
    <3>2. with_room \subseteq Nat
      BY <1>3
    <3>3. Min(with_room) \in with_room
      <4> HIDE DEF with_room
      <4> QED
        BY <3>1, <3>2, MinIn
    <3> QED
      BY <3>1, <3>3
  <2>3. b \in Range(c.node.i_blocks)
    BY <1>3, <2>2 DEF Range
  <2> HIDE DEF b, r, l
  <2>4. a.ok = c.ok /\ Points(a.disk, a.node, r.name, r.inum) /\ a.cuts = c.cuts \cup {c.disk}
    BY <1>2, <2>1, <2>3, WrittenPoints
  <2> QED
    BY <1>2, <1>5, <1>7, <2>4 DEF Placed
<1>8. CASE c.ok /\ c.node.i_mode = "dir" /\ l = 0 /\ c.disk.free # {}
  <2> DEFINE c1 == AddNewBlock(c, new)
  <2>1. new \in c.disk.free /\ new \in Block
    <3>1. c.disk.free \subseteq Block /\ Block \subseteq Nat
      BY <1>1, TreeAssumption DEF Disk
    <3> QED
      BY <1>8, <3>1, MinIn
  <2>2. a = Counted(AddToBlock(c1, new, r))
    BY <1>8 DEF add_directory_entry
  <2> HIDE DEF new
  <2>3. /\ c1 \in Call /\ c1.ok = c.ok
        /\ c1.node = [c.node EXCEPT !.i_blocks = Append(c.node.i_blocks, new)]
        /\ c1.disk.inode = c.disk.inode
        /\ \A e \in Block \ {new} : c1.disk.block[e] = c.disk.block[e]
        /\ c1.cuts = c.cuts \cup {c.disk}
    BY <2>1, AddNewBlockIs
  <2> HIDE DEF c1, r
  <2>4. new \in Range(c1.node.i_blocks)
    <3> DEFINE s == c.node.i_blocks
    <3>1. /\ Append(s, new)[Len(s) + 1] = new
          /\ DOMAIN Append(s, new) = 1..(Len(s) + 1) /\ Len(s) \in Nat
      BY <1>3, <2>1, AppendIs
    <3>2. Len(s) + 1 \in DOMAIN Append(s, new)
      BY <3>1
    <3>3. c1.node.i_blocks = Append(s, new)
      BY <1>1, <2>3 DEF Inode
    <3> HIDE DEF s
    <3> QED
      BY <3>1, <3>2, <3>3 DEF Range
  <2>5. a.ok = c1.ok /\ Points(a.disk, a.node, r.name, r.inum) /\ a.cuts = c1.cuts \cup {c1.disk}
    <3>1. c1 \in Call /\ r \in Record
      BY <1>2, <2>3
    <3> QED
      BY ONLY <2>2, <2>4, <3>1, WrittenPoints
  <2>6. \A x \in Block \ c.disk.free : KeepsRecords(c.disk, c1.disk, x)
    BY <2>1, <2>3 DEF KeepsRecords
  <2> QED
    BY <1>2, <1>5, <1>8, <2>3, <2>5, <2>6 DEF Placed
<1> QED
  BY <1>6, <1>7, <1>8

-----------------------------------------------------------------------------
(* Creating *)

\* A sound disk on which no two names lead to one inode.
Safe(d) == \E R : Sane(d, R) /\ Unique(d, R, {})

SafeCuts(c) == \A cut \in c.cuts : Safe(cut)

\* A call that has failed adds nothing.
LEMMA AddFails ==
    ASSUME NEW c \in Call, ~ c.ok, NEW inum, NEW name
    PROVE  LET a == add_directory_entry(c, inum, name)
           IN a \in Call /\ ~ a.ok /\ a.disk = c.disk /\ a.cuts = c.cuts
<1>1. add_directory_entry(c, inum, name) = Fail(c)
  BY DEF add_directory_entry
<1> QED
  BY <1>1, FailIs

\* The disk with the blocks of inode i free.
WithFreed(d, i) == [d EXCEPT !.free = d.free \cup OwnedBy(d, i)]

\* Only the set of free blocks changes.
LEMMA WithFreedIs ==
    ASSUME NEW d \in Disk, NEW i \in Inum
    PROVE  /\ WithFreed(d, i) \in Disk
           /\ WithFreed(d, i).inode = d.inode /\ WithFreed(d, i).block = d.block
           /\ WithFreed(d, i).free = d.free \cup OwnedBy(d, i)
<1>1. d.inode[i] \in Inode
  BY DEF Disk
<1>2. OwnedBy(d, i) \subseteq Block
  BY <1>1, BlocksOfType DEF OwnedBy
<1> QED
  BY <1>2 DEF WithFreed, Disk

\* free_inode frees the blocks, then clears the inode.
LEMMA FreeInodeIs ==
    ASSUME NEW c \in Call, NEW i \in Inum
    PROVE  LET f == free_inode(c, i)
           IN /\ f \in Call /\ f.ok = c.ok /\ f.node = c.node
              /\ f.disk = WithInode(WithFreed(c.disk, i), i, Unused)
              /\ f.cuts = c.cuts \cup {c.disk, WithFreed(c.disk, i)}
<1>1. c.disk \in Disk /\ WithFreed(c.disk, i) \in Disk
  BY WithFreedIs DEF Call
<1>2. BlocksFreed(c, i) = Write(c, WithFreed(c.disk, i))
  BY DEF BlocksFreed, WithFreed, OwnedBy
<1>3. /\ BlocksFreed(c, i) \in Call
      /\ BlocksFreed(c, i).ok = c.ok /\ BlocksFreed(c, i).disk = WithFreed(c.disk, i)
      /\ BlocksFreed(c, i).node = c.node /\ BlocksFreed(c, i).cuts = c.cuts \cup {c.disk}
  BY <1>1, <1>2, WriteIs
<1>4. /\ free_inode(c, i) \in Call
      /\ free_inode(c, i).ok = c.ok /\ free_inode(c, i).node = c.node
      /\ free_inode(c, i).disk = WithInode(WithFreed(c.disk, i), i, Unused)
      /\ free_inode(c, i).cuts = (c.cuts \cup {c.disk}) \cup {WithFreed(c.disk, i)}
  BY <1>3, UnusedType, WriteInodeIs DEF free_inode
<1> QED
  BY <1>4

\* The inode that allocate_inode finds is not one that may be reached.
LEMMA NextInodeIs ==
    ASSUME NEW d, NEW R, Sane(d, R), \E j \in Inum : ~ d.inode[j].i_allocated
    PROVE  /\ NextInode(d) \in Inum \ R
           /\ d.inode[NextInode(d)] = Unused
<1> DEFINE S == {j \in Inum : ~ d.inode[j].i_allocated}
<1>1. S \subseteq Nat /\ S # {}
  BY TreeAssumption
<1>2. NextInode(d) = Min(S)
  BY DEF NextInode
<1>3. Min(S) \in S
  <2> HIDE DEF S
  <2> QED
    BY <1>1, MinIn
<1> QED
  BY <1>2, <1>3 DEF Sane, InUse, Clean

NewNode(mode) == [Unused EXCEPT !.i_allocated = TRUE, !.i_mode = mode, !.i_links_count = 1]

\* A new inode has no blocks.
LEMMA NewNodeIs ==
    ASSUME NEW mode \in {"dir", "file"}
    PROVE  /\ NewNode(mode) \in Inode /\ NewNode(mode).i_allocated
           /\ NewNode(mode).i_blocks = << >> /\ NewNode(mode).i_mode = mode
<1>1. 1 \in 0..MAX_COUNT /\ 0 \in 0..MAX_COUNT
  BY TreeAssumption
<1>2. Unused \in Inode /\ Unused.i_blocks = << >>
  BY UnusedType DEF Unused
<1> QED
  BY <1>1, <1>2 DEF Inode, NewNode

\* A new file, or nothing.
CreatedFile(d, c, i, R, mode) ==
    /\ c \in Call /\ SafeCuts(c)
    /\ c.ok => /\ Sane(c.disk, R \cup {i}) /\ Unique(c.disk, R \cup {i}, {})
               /\ c.disk.inode[i] = c.node /\ c.node = NewNode(mode)
    /\ ~ c.ok => Sane(c.disk, R) /\ Unique(c.disk, R, {})

\* create_new_file leaves a sound disk, with the new name or without, at every cut too.
LEMMA CreateIs ==
    ASSUME NEW d, NEW R, Sane(d, R), Unique(d, R, {}), NEW dir \in R, NEW n \in Name,
           ~ Has(d, d.inode[dir], n), \E j \in Inum : ~ d.inode[j].i_allocated,
           NEW mode \in {"dir", "file"}
    PROVE  CreatedFile(d, create_new_file(d, dir, n, mode), NextInode(d), R, mode)
<1> DEFINE i == NextInode(d)
           Q == R \cup {i}
           c0 == Hold(Begin(d), dir)
           c1 == allocate_inode(c0, i)
           c2 == add_directory_entry(c1, i, n)
           marked == [Unused EXCEPT !.i_allocated = TRUE]
           d1 == WithInode(d, i, marked)
<1>1. /\ d \in Disk /\ R \subseteq Inum /\ dir \in Inum /\ d.inode[dir] \in Inode /\ Clean(d)
      /\ d.inode[dir].i_allocated
  BY DEF Sane, Disk, InUse
<1>2. i \in Inum \ R /\ d.inode[i] = Unused
  BY NextInodeIs
<1> HIDE DEF i
<1>3. c0 \in Call /\ c0.ok /\ c0.disk = d /\ c0.cuts = {} /\ c0.node = d.inode[dir]
  BY <1>1, BeginIs, HoldIs
<1>4. marked \in Inode /\ marked.i_allocated /\ marked.i_blocks = << >>
  BY UnusedType DEF Unused, Inode
<1>5. /\ d1 \in Disk /\ d1.block = d.block /\ d1.free = d.free /\ d1.inode[i] = marked
      /\ \A j \in Inum \ {i} : d1.inode[j] = d.inode[j]
  <2> HIDE DEF marked
  <2> QED
    BY <1>1, <1>2, <1>4, WithInodeIs
<1>6. c1 = Write(c0, d1)
  <2>1. [d EXCEPT !.inode[i].i_allocated = TRUE] = d1
    BY <1>1, <1>2 DEF WithInode, Disk
  <2> QED
    BY <1>3, <2>1 DEF allocate_inode
<1> HIDE DEF c0, d1, marked
<1>7. c1 \in Call /\ c1.ok /\ c1.disk = d1 /\ c1.cuts = {d} /\ c1.node = d.inode[dir]
  BY <1>3, <1>5, <1>6, WriteIs
<1> HIDE DEF c1
<1>8. Sane(d1, Q) /\ Unique(d1, Q, {}) /\ Unnamed(d1, Q, {}, i)
  <2>1. /\ d1.inode[i].i_allocated /\ d1.inode[i].i_blocks = << >>
    BY <1>4, <1>5
  <2> QED
    BY <1>2, <1>5, <2>1, InodeAdded
<1>9. dir \in Inum \ {i} /\ dir \in Q /\ d1.inode[dir] = c1.node
  BY <1>1, <1>2, <1>5, <1>7
<1>10. Virtual(c1, dir) = d1
  BY <1>5, <1>7, <1>9 DEF Virtual, WithInode, Disk
<1>11. Holds(c1, dir)
  <2>1. IsInjective(d1.inode[dir].i_blocks) /\ d1.inode[dir].i_allocated
    BY <1>8, <1>9 DEF Sane, Exclusive, InUse
  <2> QED
    BY <1>7, <1>9, <2>1 DEF Holds, OwnedBy
<1>12. ~ Has(c1.disk, c1.node, n)
  BY <1>5, <1>7 DEF Has
<1>13. Added(c1, c2, dir, Q, i, n)
  <2>1. i \in Q \ {ROOT_INODE_NUM} /\ i \in Inum /\ n \in AnyName
    BY <1>2 DEF Sane, AnyName
  <2>2. Sane(Virtual(c1, dir), Q)
    BY <1>8, <1>10
  <2> HIDE DEF Q
  <2> QED
    BY <1>7, <1>9, <1>12, <2>1, <2>2, EntryAdded
<1> HIDE DEF c2
<1>14. c2 \in Call /\ c2.disk.inode = d1.inode
  BY <1>7, <1>13 DEF Added
<1>15. \A cut \in c2.cuts : Safe(cut)
  <2> SUFFICES ASSUME NEW cut \in c2.cuts PROVE Safe(cut)
    OBVIOUS
  <2>1. cut = d \/ (Sane(cut, Q) /\ Unique(cut, Q, {}))
    BY <1>7, <1>8, <1>10, <1>11, <1>13 DEF Added
  <2> HIDE DEF Q
  <2> QED
    BY <2>1 DEF Safe
<1> DEFINE f == create_new_file(d, dir, n, mode)
<1>16. f = Created(c2, dir, i, NewNode(mode))
  BY DEF create_new_file, NewNode, c2, c1, c0, i
<1>17. /\ NewNode(mode) \in Inode /\ NewNode(mode).i_allocated /\ NewNode(mode).i_blocks = << >>
  BY NewNodeIs
<1> HIDE DEF Q
<1>18. CASE c2.ok
  <2> DEFINE c3 == Save(c2, dir)
             c4 == write_inode(c3, i, NewNode(mode))
  <2>1. /\ c3 \in Call /\ c3.ok /\ c3.disk = Virtual(c2, dir) /\ c3.cuts = c2.cuts \cup {c2.disk}
    BY <1>14, <1>18, <1>1, SaveIs
  <2> HIDE DEF c3
  <2>2. Sane(c3.disk, Q) /\ Unique(c3.disk, Q, {})
    BY <1>8, <1>10, <1>13, <1>18, <2>1 DEF Added
  <2>3. Sane(c2.disk, Q) /\ Unique(c2.disk, Q, {})
    <3>1. Holds(c2, dir)
      BY <1>11, <1>13, <1>18 DEF Added
    <3> QED
      BY <1>9, <1>14, <2>1, <2>2, <3>1, DiskIsSane
  <2>4. /\ c4 \in Call /\ c4.ok /\ c4.disk = WithInode(c3.disk, i, NewNode(mode))
        /\ c4.cuts = c3.cuts \cup {c3.disk}
    BY <1>2, <1>17, <2>1, WriteInodeIs
  <2> HIDE DEF c4
  <2>5. c3.disk \in Disk
    BY <2>1 DEF Call
  <2>6. /\ c4.disk \in Disk /\ c4.disk.block = c3.disk.block /\ c4.disk.free = c3.disk.free
        /\ c4.disk.inode[i] = NewNode(mode)
        /\ \A j \in Inum \ {i} : c4.disk.inode[j] = c3.disk.inode[j]
    BY <1>2, <1>17, <2>4, <2>5, WithInodeIs
  <2>7. c3.disk.inode[i].i_blocks = << >>
    <3>1. c3.disk.inode[i] = c2.disk.inode[i]
      BY <1>1, <1>2, <1>14, <2>1, VirtualIs
    <3> QED
      BY <1>4, <1>5, <1>14, <3>1
  <2>8. Sane(c4.disk, Q) /\ Unique(c4.disk, Q, {})
    <3>1. Clean(c4.disk)
      BY <1>17, <2>2, <2>6 DEF Clean, Sane
    <3>2. Q \subseteq Inum
      BY <2>2 DEF Sane
    <3>3. \A j \in Q : c4.disk.inode[j].i_allocated /\ c4.disk.inode[j].i_blocks = c3.disk.inode[j].i_blocks
      <4> SUFFICES ASSUME NEW j \in Q
                   PROVE  c4.disk.inode[j].i_allocated /\ c4.disk.inode[j].i_blocks = c3.disk.inode[j].i_blocks
        OBVIOUS
      <4>1. CASE j = i
        BY <1>17, <2>6, <2>7, <4>1
      <4>2. CASE j # i
        BY <2>2, <2>6, <3>2, <4>2 DEF Sane, InUse
      <4> QED
        BY <4>1, <4>2
    <3> QED
      BY <2>2, <2>6, <3>1, <3>3, SameIsSane
  <2>9. f = [c4 EXCEPT !.node = NewNode(mode)]
    BY <1>16, <1>18 DEF Created, c4, c3
  <2>10. f \in Call /\ f.ok /\ f.disk = c4.disk /\ f.cuts = c4.cuts /\ f.node = NewNode(mode)
    BY <1>17, <2>4, <2>9 DEF Call
  <2>11. SafeCuts(f)
    <3>1. \A cut \in f.cuts : cut \in c2.cuts \/ cut = c2.disk \/ cut = c3.disk
      BY <2>1, <2>4, <2>10
    <3> QED
      BY <1>15, <2>2, <2>3, <3>1 DEF SafeCuts, Safe
  <2> HIDE DEF f
  <2>12. CreatedFile(d, f, i, R, mode)
    BY <2>6, <2>8, <2>10, <2>11 DEF CreatedFile, Q
  <2> QED
    BY <2>12 DEF f, i
<1>19. CASE ~ c2.ok
  <2>1. f = free_inode(c2, i)
    BY <1>16, <1>19 DEF Created
  <2>2. c2.disk = d1 /\ c2.cuts = {d}
    BY <1>7, <1>13, <1>19 DEF Added
  <2> DEFINE d2 == WithFreed(d1, i)
  <2>3. /\ f \in Call /\ ~ f.ok /\ f.disk = WithInode(d2, i, Unused)
        /\ f.cuts = {d} \cup {d1, d2}
    BY <1>2, <1>14, <1>19, <2>1, <2>2, FreeInodeIs
  <2>4. OwnedBy(d1, i) = {}
    BY <1>4, <1>5 DEF OwnedBy, Range
  <2>5. d2 \in Disk /\ d2.inode = d1.inode /\ d2.block = d1.block /\ d2.free = d1.free
    <3>1. i \in Inum /\ d1 \in Disk
      BY <1>2, <1>5
    <3> HIDE DEF d1
    <3>2. /\ d2 \in Disk /\ d2.inode = d1.inode /\ d2.block = d1.block
          /\ d2.free = d1.free \cup OwnedBy(d1, i)
      BY ONLY <3>1, WithFreedIs
    <3> QED
      BY <2>4, <3>2
  <2> HIDE DEF f, d2
  <2>6. /\ f.disk \in Disk /\ f.disk.block = d.block /\ f.disk.free = d.free /\ f.disk.inode[i] = Unused
        /\ \A j \in Inum \ {i} : f.disk.inode[j] = d.inode[j]
    <3>1. i \in Inum /\ d2 \in Disk /\ f.disk = WithInode(d2, i, Unused)
      BY <1>2, <2>3, <2>5
    <3>2. /\ f.disk \in Disk /\ f.disk.block = d2.block /\ f.disk.free = d2.free
          /\ f.disk.inode[i] = Unused /\ \A j \in Inum \ {i} : f.disk.inode[j] = d2.inode[j]
      BY ONLY <3>1, UnusedType, WithInodeIs
    <3> QED
      BY <1>5, <2>5, <3>2
  <2>7. Sane(f.disk, R) /\ Unique(f.disk, R, {})
    <3>1. Clean(f.disk)
      BY <1>1, <2>6 DEF Clean
    <3>2. \A j \in R : f.disk.inode[j].i_allocated /\ f.disk.inode[j].i_blocks = d.inode[j].i_blocks
      BY <1>1, <1>2, <2>6 DEF Sane, InUse
    <3> QED
      BY <2>6, <3>1, <3>2, SameIsSane
  <2>8. Sane(d2, Q) /\ Unique(d2, Q, {})
    <3>1. Clean(d2) /\ \A j \in Q : d2.inode[j].i_allocated
      BY <1>8, <2>5 DEF Sane, Clean, InUse
    <3> QED
      BY <1>8, <2>5, <3>1, SameIsSane
  <2>9. SafeCuts(f)
    <3>1. \A cut \in f.cuts : cut = d \/ cut = d1 \/ cut = d2
      BY <2>3
    <3> QED
      BY <1>8, <2>8, <3>1 DEF SafeCuts, Safe
  <2>10. CreatedFile(d, f, i, R, mode)
    BY <2>3, <2>7, <2>9 DEF CreatedFile
  <2> QED
    BY <2>10 DEF f, i
<1> QED
  BY <1>18, <1>19

\* The inode of a new directory gets its two records, or stays without.
LEMMA MkdirIs ==
    ASSUME NEW d, NEW R, Sane(d, R), Unique(d, R, {}), NEW dir \in R, NEW n \in Name,
           ~ Has(d, d.inode[dir], n), \E j \in Inum : ~ d.inode[j].i_allocated
    PROVE  LET f == mkdir(d, dir, n) IN f \in Call /\ SafeCuts(f) /\ Safe(f.disk)
<1> DEFINE i == NextInode(d)
           Q == R \cup {i}
           c == create_new_file(d, dir, n, "dir")
           a1 == add_directory_entry(c, i, ".")
           a2 == add_directory_entry(a1, dir, "..")
           f == mkdir(d, dir, n)
<1>1. f = Save(a2, i)
  BY DEF mkdir
<1>2. CreatedFile(d, c, i, R, "dir")
  BY CreateIs
<1>3. i \in Inum \ R /\ dir \in Inum /\ dir \in Q /\ i \in Q
  BY NextInodeIs DEF Sane
<1> HIDE DEF f, i, c
<1>4. c \in Call /\ SafeCuts(c)
  BY <1>2 DEF CreatedFile
<1>5. CASE ~ c.ok
  <2>1. a1 \in Call /\ ~ a1.ok /\ a1.disk = c.disk /\ a1.cuts = c.cuts
    BY <1>4, <1>5, AddFails
  <2> HIDE DEF a1
  <2>2. a2 \in Call /\ ~ a2.ok /\ a2.disk = c.disk /\ a2.cuts = c.cuts
    BY <2>1, AddFails
  <2> HIDE DEF a2
  <2>3. f = a2
    BY <1>1, <1>3, <2>2, SaveIs
  <2>4. Safe(c.disk)
    BY <1>2, <1>5 DEF CreatedFile, Safe
  <2> QED
    BY <1>4, <2>2, <2>3, <2>4 DEF SafeCuts, f
<1>6. CASE c.ok
  <2>1. /\ Sane(c.disk, Q) /\ Unique(c.disk, Q, {})
        /\ c.disk.inode[i] = c.node /\ c.node = NewNode("dir")
    BY <1>2, <1>6 DEF CreatedFile
  <2>2. c.node.i_blocks = << >> /\ c.node.i_allocated
    BY <2>1, NewNodeIs
  <2>3. Virtual(c, i) = c.disk
    <3>1. c.disk \in Disk
      BY <1>4 DEF Call
    <3> QED
      BY <1>3, <2>1, <3>1 DEF Virtual, WithInode, Disk
  <2>4. Holds(c, i)
    BY <2>1, <2>2 DEF Holds, OwnedBy, IsInjective
  <2>5. ~ Has(c.disk, c.node, ".") /\ ~ Has(c.disk, c.node, "..")
    BY <2>2 DEF Has, Range
  <2>6. "." \in AnyName /\ "." \notin Name /\ ".." \in AnyName /\ ".." \notin Name /\ "." # ".."
    BY RecordAssumption DEF AnyName
  <2> HIDE DEF Q
  <2>7. Added(c, a1, i, Q, i, ".")
    BY <1>3, <1>4, <2>1, <2>3, <2>5, <2>6, EntryAdded
  <2> HIDE DEF a1
  <2>8. a1 \in Call /\ SafeCuts(a1)
    <3>1. \A cut \in a1.cuts : cut \in c.cuts \/ (Sane(cut, Q) /\ Unique(cut, Q, {}))
      BY <2>1, <2>3, <2>4, <2>7 DEF Added
    <3>2. a1 \in Call
      BY <2>7 DEF Added
    <3> QED
      BY <1>4, <3>1, <3>2 DEF SafeCuts, Safe
  <2>9. CASE ~ a1.ok
    <3>1. a2 \in Call /\ ~ a2.ok /\ a2.disk = a1.disk /\ a2.cuts = a1.cuts
      BY <2>8, <2>9, AddFails
    <3> HIDE DEF a2
    <3>2. f = a2
      BY <1>1, <1>3, <3>1, SaveIs
    <3>3. Safe(a1.disk)
      BY <2>1, <2>7, <2>9 DEF Added, Safe
    <3> QED
      BY <2>8, <3>1, <3>2, <3>3 DEF SafeCuts, f
  <2>10. CASE a1.ok
    <3>1. /\ Sane(Virtual(a1, i), Q) /\ Unique(Virtual(a1, i), Q, {}) /\ Holds(a1, i)
          /\ ~ Has(a1.disk, a1.node, "..")
      BY <2>1, <2>3, <2>4, <2>5, <2>6, <2>7, <2>10 DEF Added
    <3>2. Added(a1, a2, i, Q, dir, "..")
      BY <1>3, <2>6, <2>8, <3>1, EntryAdded
    <3> HIDE DEF a2
    <3>3. a2 \in Call /\ SafeCuts(a2)
      <4>1. \A cut \in a2.cuts : cut \in a1.cuts \/ (Sane(cut, Q) /\ Unique(cut, Q, {}))
        BY <3>1, <3>2 DEF Added
      <4>2. a2 \in Call
        BY <3>2 DEF Added
      <4> QED
        BY <2>8, <4>1, <4>2 DEF SafeCuts, Safe
    <3>4. CASE ~ a2.ok
      <4>1. f = a2 /\ a2.disk = a1.disk
        BY <1>1, <1>3, <3>2, <3>3, <3>4, SaveIs DEF Added
      <4>2. Sane(a1.disk, Q) /\ Unique(a1.disk, Q, {})
        BY <1>3, <2>8, <3>1, DiskIsSane
      <4> QED
        BY <3>3, <4>1, <4>2 DEF Safe, f
    <3>5. CASE a2.ok
      <4>1. /\ Sane(Virtual(a2, i), Q) /\ Unique(Virtual(a2, i), Q, {}) /\ Holds(a2, i)
        BY <2>6, <3>1, <3>2, <3>5 DEF Added
      <4>2. f \in Call /\ f.disk = Virtual(a2, i) /\ f.cuts = a2.cuts \cup {a2.disk}
        BY <1>1, <1>3, <3>3, <3>5, SaveIs
      <4>3. Sane(a2.disk, Q) /\ Unique(a2.disk, Q, {})
        BY <1>3, <3>3, <4>1, DiskIsSane
      <4>4. SafeCuts(f)
        BY <3>3, <4>2, <4>3 DEF SafeCuts, Safe
      <4> QED
        BY <4>1, <4>2, <4>4 DEF Safe, f
    <3> QED
      BY <3>4, <3>5
  <2> QED
    BY <2>9, <2>10
<1> QED
  BY <1>5, <1>6

-----------------------------------------------------------------------------
(* Removing *)

\* The record that remove_directory_entry takes away is at b, k.
RemovedAt(c, m, b, k) ==
    /\ m \in Call /\ m.ok = c.ok
    /\ m.disk = WithBlock(c.disk, b, Without(c.disk.block[b], k))
    /\ m.node.i_blocks = c.node.i_blocks /\ m.node.i_mode = c.node.i_mode
    /\ m.node.i_allocated = c.node.i_allocated
    /\ m.cuts = c.cuts \cup {c.disk}

\* remove_directory_entry takes away the record that the search finds.
LEMMA RemoveIs ==
    ASSUME NEW c \in Call, c.ok, NEW name, IsAt(c.disk, c.node, name, Position(c.disk, c.node, name))
    PROVE  LET p == Position(c.disk, c.node, name)
           IN RemovedAt(c, remove_directory_entry(c, name), c.node.i_blocks[p[1]], p[2])
<1> DEFINE p == Position(c.disk, c.node, name)
           b == c.node.i_blocks[p[1]]
           k == p[2]
           m == remove_directory_entry(c, name)
           e == WithBlock(c.disk, b, Without(c.disk.block[b], k))
<1>1. c.disk \in Disk /\ c.node \in Inode
  BY DEF Call
<1>2. p[1] \in DOMAIN c.node.i_blocks /\ k \in DOMAIN c.disk.block[b]
  BY DEF IsAt
<1>3. b \in Block /\ c.disk.block[b] \in Seq(Record)
  BY <1>1, <1>2, BlocksOfType
<1>4. m = [RemoveFromBlock(c, p) EXCEPT !.node.i_child_num = Decremented(@)]
  BY DEF remove_directory_entry, Position
<1>5. RemoveFromBlock(c, p) = Write(c, e)
  BY DEF RemoveFromBlock, WithBlock
<1> HIDE DEF p, m
<1>6. Without(c.disk.block[b], k) \in Seq(Record)
  BY <1>2, <1>3, WithoutWas
<1>7. e \in Disk
  BY <1>1, <1>3, <1>6, WithBlockIs
<1> HIDE DEF e
<1>8. /\ Write(c, e) \in Call
      /\ Write(c, e).ok = c.ok /\ Write(c, e).disk = e /\ Write(c, e).node = c.node
      /\ Write(c, e).cuts = c.cuts \cup {c.disk}
  BY <1>7, WriteIs
<1>9. Decremented(c.node.i_child_num) \in 0..MAX_COUNT
  BY <1>1, CountTypes DEF Inode
<1>10. m = [Write(c, e) EXCEPT !.node = [c.node EXCEPT !.i_child_num = Decremented(c.node.i_child_num)]]
  BY <1>4, <1>5, <1>8 DEF Call
<1>11. [c.node EXCEPT !.i_child_num = Decremented(c.node.i_child_num)] \in Inode
  BY <1>1, <1>9 DEF Inode
<1>12. /\ m \in Call /\ m.ok = c.ok /\ m.disk = e /\ m.cuts = c.cuts \cup {c.disk}
       /\ m.node = [c.node EXCEPT !.i_child_num = Decremented(c.node.i_child_num)]
  BY <1>8, <1>10, <1>11 DEF Call
<1>13. /\ m.node.i_blocks = c.node.i_blocks /\ m.node.i_mode = c.node.i_mode
       /\ m.node.i_allocated = c.node.i_allocated
  BY <1>1, <1>12 DEF Inode
<1> QED
  BY <1>12, <1>13 DEF RemovedAt, m, p, e

\* Once no name leads to inode i, its blocks may be freed.
LEMMA FreedIsSane ==
    ASSUME NEW d, NEW R, Sane(d, R), NEW i \in R, i # ROOT_INODE_NUM,
           Unnamed(d, R, {}, i), Unique(d, R, {}),
           NEW e \in Disk, Clean(e), e.block = d.block, e.free \subseteq d.free \cup OwnedBy(d, i),
           \A j \in R \ {i} : e.inode[j].i_allocated /\ e.inode[j].i_blocks = d.inode[j].i_blocks
    PROVE  Sane(e, R \ {i}) /\ Unique(e, R \ {i}, {})
<1> DEFINE Q == R \ {i}
<1>1. Sane(d, Q) /\ Unique(d, Q, {})
  BY InodeDropped
<1>2. \A j \in Q : OwnedBy(e, j) = OwnedBy(d, j) /\ IsInjective(e.inode[j].i_blocks)
  BY DEF OwnedBy, Sane, Exclusive
<1>3. \A j \in Q : OwnedBy(e, j) \cap e.free = {}
  BY <1>2 DEF Sane, Exclusive
<1>4. Less(e, d, Q)
  BY <1>2, <1>3 DEF Less
<1> HIDE DEF Q
<1>5. Sane(e, Q) /\ Unique(e, Q, {})
  BY <1>1, <1>4, LessIsSane
<1> QED
  BY <1>5 DEF Q

\* The name is in a directory, at p, and leads to an inode in R.
NameAt(d, R, dir, n, p) ==
    LET node == d.inode[dir]
        b == node.i_blocks[p[1]]
    IN /\ IsAt(d, node, n, p)
       /\ b \in OwnedBy(d, dir) /\ p[2] \in DOMAIN d.block[b]
       /\ d.block[b][p[2]].name = n /\ d.block[b][p[2]].inum = Lookup(d, dir, n)
       /\ Lookup(d, dir, n) \in R \ {ROOT_INODE_NUM}
       /\ node.i_mode = "dir" /\ Has(d, node, n)

\* A name that leads somewhere has a record, which the search finds.
LEMMA NameIs ==
    ASSUME NEW d, NEW R, Sane(d, R), NEW dir \in R, NEW n \in Name, Lookup(d, dir, n) # 0
    PROVE  NameAt(d, R, dir, n, Position(d, d.inode[dir], n))
<1> DEFINE node == d.inode[dir]
           p == Position(d, node, n)
           b == node.i_blocks[p[1]]
<1>1. d \in Disk /\ dir \in Inum /\ \A x \in Range(d.inode[dir].i_blocks) : Fits(d.block[x])
  BY DEF Sane, Readable, OwnedBy
<1>2. /\ IsAt(d, node, n, p) /\ node.i_mode = "dir" /\ Has(d, node, n)
      /\ Lookup(d, dir, n) = d.block[b][p[2]].inum
  BY <1>1, LookupIs
<1>3. b \in OwnedBy(d, dir) /\ p[2] \in DOMAIN d.block[b] /\ d.block[b][p[2]].name = n
  BY <1>2 DEF IsAt, OwnedBy, Range
<1>4. d.block[b][p[2]].inum \in R \ {ROOT_INODE_NUM}
  BY <1>3 DEF Sane, Closed
<1> QED
  BY <1>2, <1>3, <1>4 DEF NameAt

\* A name of a directory that leads nowhere is not there.
LEMMA NoName ==
    ASSUME NEW d, NEW R, Sane(d, R), NEW dir \in R, NEW n, d.inode[dir].i_mode = "dir",
           Lookup(d, dir, n) = 0
    PROVE  ~ Has(d, d.inode[dir], n)
<1>1. d \in Disk /\ dir \in Inum /\ \A x \in Range(d.inode[dir].i_blocks) : Fits(d.block[x])
  BY DEF Sane, Readable, OwnedBy
<1> QED
  BY <1>1, LookupIs

\* Disk e is safe, and the inodes in Q are directories with the names they have on
\* disk d, name n of dir apart.
KeepsNames(d, e, Q, dir, n) ==
    /\ Sane(e, Q) /\ Unique(e, Q, {})
    /\ \A j \in Q :
          /\ e.inode[j].i_mode = d.inode[j].i_mode
          /\ \A m, x : Points(d, d.inode[j], m, x) /\ (j # dir \/ m # n) => Points(e, e.inode[j], m, x)

\* What altfs_unlink leaves: everything but the name and its inode, and room for
\* another record of that name.
UnlinkedName(d, u, R, dir, n, i) ==
    /\ u \in Call /\ SafeCuts(u)
    /\ \A cut \in u.cuts : cut = d \/ KeepsNames(d, cut, R \ {i}, dir, n)
    /\ ~ u.ok => u.disk = d
    /\ u.ok => /\ KeepsNames(d, u.disk, R \ {i}, dir, n)
               /\ ~ Has(u.disk, u.disk.inode[dir], n)
               /\ \E b \in Range(u.disk.inode[dir].i_blocks) : HasRoom(u.disk.block[b], n)

\* altfs_unlink removes the name and what it leads to, and is safe at every cut.
LEMMA UnlinkIs ==
    ASSUME NEW d, NEW R, Sane(d, R), Unique(d, R, {}), NEW dir \in R, NEW n \in Name,
           Lookup(d, dir, n) # 0, Lookup(d, dir, n) # dir
    PROVE  UnlinkedName(d, unlink(d, dir, n), R, dir, n, Lookup(d, dir, n))
<1> DEFINE i == Lookup(d, dir, n)
           node == d.inode[i]
           p == Position(d, d.inode[dir], n)
           b == d.inode[dir].i_blocks[p[1]]
           k == p[2]
           Q == R \ {i}
           u == unlink(d, dir, n)
           c0 == Hold(Begin(d), dir)
           c1 == remove_directory_entry(c0, n)
           c2 == Unlinked(c1, i, node)
<1>1. /\ IsAt(d, d.inode[dir], n, p)
      /\ b \in OwnedBy(d, dir) /\ k \in DOMAIN d.block[b]
      /\ d.block[b][k].name = n /\ d.block[b][k].inum = i
      /\ i \in R \ {ROOT_INODE_NUM}
  <2>1. NameAt(d, R, dir, n, p)
    BY NameIs
  <2> HIDE DEF p
  <2> QED
    BY <2>1 DEF NameAt
<1>2. i # dir
  OBVIOUS
<1> HIDE DEF i, p
<1>3. d \in Disk /\ R \subseteq Inum /\ i \in Inum /\ dir \in Inum /\ node \in Inode /\ Clean(d)
      /\ node.i_allocated
  BY <1>1 DEF Sane, Disk, InUse
<1> HIDE DEF Q, b, k, node
<1>4. CASE node.i_mode = "dir" /\ ~ is_empty_dir(node)
  <2>1. u = Fail(Begin(d))
    BY <1>4 DEF unlink, i, node
  <2>2. u \in Call /\ ~ u.ok /\ u.disk = d /\ u.cuts = {}
    <3> DEFINE c == Begin(d)
    <3>1. c \in Call /\ c.disk = d /\ c.cuts = {}
      BY <1>3, BeginIs
    <3> HIDE DEF c
    <3>2. Fail(c) \in Call /\ Fail(c).ok = FALSE /\ Fail(c).disk = d /\ Fail(c).cuts = {}
      BY <3>1, FailIs
    <3> QED
      BY <2>1, <3>2 DEF c
  <2> QED
    BY <2>2 DEF UnlinkedName, SafeCuts
<1>5. CASE ~ (node.i_mode = "dir" /\ ~ is_empty_dir(node))
  <2>1. u = Save(c2, dir)
    BY <1>5 DEF unlink, i, node
  <2>2. c0 \in Call /\ c0.ok /\ c0.disk = d /\ c0.cuts = {} /\ c0.node = d.inode[dir]
    BY <1>3, BeginIs, HoldIs
  <2> HIDE DEF u, c0
  <2>3. RemovedAt(c0, c1, b, k)
    BY <1>1, <2>2, RemoveIs DEF p, b, k
  <2> HIDE DEF c1
  <2> DEFINE d1 == WithBlock(d, b, Without(d.block[b], k))
  <2>4. /\ c1 \in Call /\ c1.ok /\ c1.disk = d1 /\ c1.cuts = {d}
        /\ c1.node.i_blocks = d.inode[dir].i_blocks /\ c1.node.i_mode = d.inode[dir].i_mode
        /\ c1.node.i_allocated = d.inode[dir].i_allocated
    BY <2>2, <2>3 DEF RemovedAt
  <2>5. /\ Sane(d1, R) /\ Unique(d1, R, {}) /\ Unnamed(d1, R, {}, i)
        /\ ~ Has(d1, d1.inode[dir], n)
        /\ \A j \in R : \A m, x : Points(d, d.inode[j], m, x) /\ (j # dir \/ m # n)
                                => Points(d1, d1.inode[j], m, x)
    <3>1. RecordGone(d, d1, R, dir, b, k)
      BY <1>1, RecordRemoved
    <3> HIDE DEF d1
    <3> QED
      BY <1>1, <3>1 DEF RecordGone
  <2>6. d1.inode = d.inode /\ d1.free = d.free /\ d1 \in Disk
    <3>1. d1 \in Disk
      BY <2>5 DEF Sane
    <3>2. d1.inode = d.inode /\ d1.free = d.free
      BY <1>3 DEF WithBlock, Disk
    <3> QED
      BY <3>1, <3>2
  <2> HIDE DEF d1
  <2>7. ASSUME NEW e \in Disk, e.block = d1.block, e.free \subseteq d1.free \cup OwnedBy(d1, i),
               e.inode[i].i_allocated \/ e.inode[i] = Unused,
               \A j \in Inum \ {i, dir} : e.inode[j] = d.inode[j],
               e.inode[dir] = d.inode[dir] \/ e.inode[dir] = c1.node
        PROVE  KeepsNames(d, e, Q, dir, n)
    <3>1. /\ e.inode[dir].i_allocated /\ e.inode[dir].i_blocks = d1.inode[dir].i_blocks
      BY <2>4, <2>6, <2>7 DEF Sane, InUse
    <3>2. \A j \in R \ {i} : e.inode[j].i_allocated /\ e.inode[j].i_blocks = d1.inode[j].i_blocks
      BY <1>3, <2>6, <2>7, <3>1 DEF Sane, InUse
    <3>3. Clean(e)
      BY <1>3, <2>7, <3>1 DEF Clean
    <3>4. Sane(e, Q) /\ Unique(e, Q, {})
      BY <1>1, <2>5, <2>7, <3>2, <3>3, FreedIsSane DEF Q
    <3>5. \A j \in Q : /\ e.inode[j].i_mode = d.inode[j].i_mode
                       /\ e.inode[j].i_blocks = d1.inode[j].i_blocks
      BY <1>3, <2>4, <2>7, <3>2 DEF Q
    <3>6. \A j \in Q : \A m, x : Points(d1, d1.inode[j], m, x) => Points(e, e.inode[j], m, x)
      BY <2>7, <3>5 DEF Points
    <3>7. \A j \in Q : j \in R
      BY DEF Q
    <3> QED
      BY <2>5, <3>4, <3>5, <3>6, <3>7 DEF KeepsNames
  <2>8. /\ c2 \in Call /\ c2.ok /\ c2.node = c1.node
        /\ c2.disk.block = d1.block /\ c2.disk.free \subseteq d1.free \cup OwnedBy(d1, i)
        /\ c2.disk.inode[i].i_allocated \/ c2.disk.inode[i] = Unused
        /\ \A j \in Inum \ {i} : c2.disk.inode[j] = d.inode[j]
        /\ \A cut \in c2.cuts : cut = d \/ KeepsNames(d, cut, Q, dir, n)
    <3>0. d.inode[i].i_allocated
      BY <1>3 DEF node
    <3>1. KeepsNames(d, d1, Q, dir, n)
      BY <2>6, <2>7, <3>0
    <3>2. CASE node.i_links_count = 1
      <4> DEFINE d2 == WithFreed(d1, i)
      <4>1. c2 = free_inode(c1, i)
        BY <3>2 DEF Unlinked
      <4>2. /\ c2 \in Call /\ c2.ok = c1.ok /\ c2.node = c1.node
            /\ c2.disk = WithInode(d2, i, Unused)
            /\ c2.cuts = c1.cuts \cup {d1, d2}
        <5>1. c1 \in Call /\ i \in Inum /\ c1.disk = d1
          BY <1>3, <2>4
        <5> HIDE DEF c2
        <5> QED
          BY ONLY <4>1, <5>1, FreeInodeIs, SMTT(40) DEF d2
      <4>3. d2 \in Disk /\ d2.inode = d1.inode /\ d2.block = d1.block /\ d2.free = d1.free \cup OwnedBy(d1, i)
        BY <1>3, <2>6, WithFreedIs
      <4> HIDE DEF d2, c2
      <4>4. KeepsNames(d, d2, Q, dir, n)
        BY <2>6, <2>7, <3>0, <4>3
      <4>5. /\ c2.disk.block = d2.block /\ c2.disk.free = d2.free /\ c2.disk.inode[i] = Unused
            /\ \A j \in Inum \ {i} : c2.disk.inode[j] = d2.inode[j]
        <5>1. i \in Inum /\ d2 \in Disk /\ Unused \in Inode /\ c2.disk = WithInode(d2, i, Unused)
          BY <1>3, <4>2, <4>3, UnusedType
        <5> QED
          BY ONLY <5>1, WithInodeIs
      <4>6. \A cut \in c2.cuts : cut = d \/ cut = d1 \/ cut = d2
        BY <2>4, <4>2
      <4>7. \A cut \in c2.cuts : cut = d \/ KeepsNames(d, cut, Q, dir, n)
        BY <3>1, <4>4, <4>6
      <4>8. \A j \in Inum \ {i} : c2.disk.inode[j] = d.inode[j]
        BY <2>6, <4>3, <4>5
      <4>9. c2.disk.block = d1.block /\ c2.disk.free \subseteq d1.free \cup OwnedBy(d1, i)
        BY <4>3, <4>5
      <4> QED
        BY <2>4, <4>2, <4>5, <4>7, <4>8, <4>9
    <3>3. CASE node.i_links_count # 1
      <4> DEFINE less == [node EXCEPT !.i_links_count = Decremented(node.i_links_count)]
      <4>1. c2 = write_inode(c1, i, less)
        BY <3>3 DEF Unlinked
      <4>2. less \in Inode /\ less.i_allocated
        <5>1. Decremented(node.i_links_count) \in 0..MAX_COUNT
          BY <1>3, CountTypes DEF Inode
        <5> QED
          BY <1>3, <5>1 DEF Inode
      <4> HIDE DEF less
      <4>3. /\ c2 \in Call /\ c2.ok = c1.ok /\ c2.node = c1.node
            /\ c2.disk = WithInode(d1, i, less) /\ c2.cuts = c1.cuts \cup {d1}
        <5>1. i \in Inum /\ less \in Inode /\ c1 \in Call /\ c1.disk = d1
          BY <1>3, <2>4, <4>2
        <5>2. /\ write_inode(c1, i, less) \in Call
              /\ write_inode(c1, i, less).ok = c1.ok /\ write_inode(c1, i, less).node = c1.node
              /\ write_inode(c1, i, less).disk = WithInode(c1.disk, i, less)
              /\ write_inode(c1, i, less).cuts = c1.cuts \cup {c1.disk}
          BY ONLY <5>1, WriteInodeIs
        <5> HIDE DEF c2
        <5> QED
          BY ONLY <4>1, <5>1, <5>2
      <4> HIDE DEF c2
      <4>4. /\ c2.disk.block = d1.block /\ c2.disk.free = d1.free /\ c2.disk.inode[i] = less
            /\ \A j \in Inum \ {i} : c2.disk.inode[j] = d1.inode[j]
        <5>1. i \in Inum /\ d1 \in Disk /\ less \in Inode /\ c2.disk = WithInode(d1, i, less)
          BY <1>3, <2>6, <4>2, <4>3
        <5> QED
          BY ONLY <5>1, WithInodeIs
      <4>5. \A cut \in c2.cuts : cut = d \/ KeepsNames(d, cut, Q, dir, n)
        BY <2>4, <3>1, <4>3
      <4> QED
        BY <2>4, <2>6, <4>2, <4>3, <4>4, <4>5
    <3> QED
      BY <3>2, <3>3
  <2> HIDE DEF c2
  <2>9. /\ u \in Call /\ u.ok /\ u.disk = WithInode(c2.disk, dir, c1.node)
        /\ u.cuts = c2.cuts \cup {c2.disk} /\ c2.disk \in Disk /\ c1.node \in Inode
    BY <1>3, <2>1, <2>8, SaveIs DEF Virtual, Call
  <2>10. /\ u.disk \in Disk /\ u.disk.block = c2.disk.block /\ u.disk.free = c2.disk.free
         /\ u.disk.inode[dir] = c1.node
         /\ \A j \in Inum \ {dir} : u.disk.inode[j] = c2.disk.inode[j]
    <3>1. dir \in Inum
      BY <1>3
    <3> QED
      BY ONLY <2>9, <3>1, WithInodeIs
  <2>11. KeepsNames(d, c2.disk, Q, dir, n)
    BY <1>2, <1>3, <2>7, <2>8, <2>9
  <2>12. KeepsNames(d, u.disk, Q, dir, n)
    <3>1. u.disk.block = d1.block /\ u.disk.free \subseteq d1.free \cup OwnedBy(d1, i)
      BY <2>8, <2>10
    <3>2. u.disk.inode[i].i_allocated \/ u.disk.inode[i] = Unused
      BY <1>2, <1>3, <2>8, <2>10
    <3>3. \A j \in Inum \ {i, dir} : u.disk.inode[j] = d.inode[j]
      BY <2>8, <2>10
    <3> QED
      BY <2>7, <2>10, <3>1, <3>2, <3>3
  <2>13. \A cut \in u.cuts : cut = d \/ KeepsNames(d, cut, Q, dir, n)
    BY <2>8, <2>9, <2>11
  <2>14. SafeCuts(u)
    BY <2>13 DEF SafeCuts, Safe, KeepsNames
  <2>15. u.disk.block = d1.block /\ u.disk.inode[dir].i_blocks = d1.inode[dir].i_blocks
    BY <2>4, <2>6, <2>8, <2>10
  <2>16. ~ Has(u.disk, u.disk.inode[dir], n)
    BY <2>5, <2>15 DEF Has
  <2>17. \E a \in Range(u.disk.inode[dir].i_blocks) : HasRoom(u.disk.block[a], n)
    <3>1. b \in Range(u.disk.inode[dir].i_blocks)
      BY <1>1, <2>6, <2>15 DEF OwnedBy
    <3>2. HasRoom(d1.block[b], n)
      <4>1. b \in Block /\ d.block[b] \in Seq(Record) /\ k \in 1..Len(d.block[b]) /\ Fits(d.block[b])
        BY <1>1, SaneTypes DEF Sane, Readable
      <4>2. Without(d.block[b], k) \in Seq(Record)
        BY <1>1, <4>1, WithoutWas
      <4>3. d1.block[b] = Without(d.block[b], k)
        BY <1>3, <4>1, <4>2, WithBlockIs DEF d1
      <4> QED
        BY <1>1, <4>1, <4>3, WithoutRoom
    <3> QED
      BY <2>15, <3>1, <3>2
  <2>18. UnlinkedName(d, u, R, dir, n, i)
    BY <2>9, <2>12, <2>13, <2>14, <2>16, <2>17 DEF UnlinkedName, Q
  <2> QED
    BY <2>18 DEF u, i
<1> QED
  BY <1>4, <1>5

-----------------------------------------------------------------------------
(* Renaming *)

\* A call finds no directory in itself: names would lead to it from two places.
LEMMA NotInItself ==
    ASSUME NEW d, NEW R, Sane(d, R), Unique(d, R, {}),
           NEW x \in Below(d, ROOT_INODE_NUM), x \in R, NEW n \in Name, Lookup(d, x, n) # 0
    PROVE  Lookup(d, x, n) # x
<1> SUFFICES ASSUME Lookup(d, x, n) = x PROVE FALSE
  OBVIOUS
<1> DEFINE Q == R \ {x}
<1>1. PICK b1 \in OwnedBy(d, x) : \E k1 \in DOMAIN d.block[b1] :
          d.block[b1][k1].name \in Name /\ d.block[b1][k1].inum = x /\ x # ROOT_INODE_NUM
  <2> DEFINE p == Position(d, d.inode[x], n)
  <2>1. NameAt(d, R, x, n, p)
    BY NameIs
  <2> HIDE DEF p
  <2> DEFINE b == d.inode[x].i_blocks[p[1]]
  <2>2. /\ b \in OwnedBy(d, x) /\ p[2] \in DOMAIN d.block[b] /\ d.block[b][p[2]].name \in Name
        /\ d.block[b][p[2]].inum = x /\ x # ROOT_INODE_NUM
    BY <2>1 DEF NameAt
  <2> HIDE DEF b
  <2> QED
    BY <2>2
<1>2. PICK k1 \in DOMAIN d.block[b1] :
          d.block[b1][k1].name \in Name /\ d.block[b1][k1].inum = x /\ x # ROOT_INODE_NUM
  BY <1>1
<1>3. ASSUME NEW dir \in Q, NEW m \in Name, Lookup(d, dir, m) # 0
      PROVE  Lookup(d, dir, m) \in Q
  <2> DEFINE p == Position(d, d.inode[dir], m)
             b == d.inode[dir].i_blocks[p[1]]
             k == p[2]
  <2>1. dir \in R
    BY <1>3
  <2>2. NameAt(d, R, dir, m, p)
    BY <1>3, <2>1, NameIs
  <2> HIDE DEF p
  <2>3. /\ b \in OwnedBy(d, dir) /\ k \in DOMAIN d.block[b] /\ d.block[b][k].name \in Name
        /\ d.block[b][k].inum = Lookup(d, dir, m) /\ Lookup(d, dir, m) \in R
    BY <2>2 DEF NameAt
  <2> HIDE DEF b, k
  <2>4. CASE Lookup(d, dir, m) = x
    <3>1. b = b1
      BY <1>1, <1>2, <2>1, <2>3, <2>4 DEF Unique
    <3>2. dir = x
      BY <1>1, <2>1, <2>3, <3>1 DEF Sane, Exclusive
    <3> QED
      BY <1>3, <3>2
  <2> QED
    BY <2>3, <2>4
<1>4. ROOT_INODE_NUM \in Q
  BY <1>2 DEF Sane
<1> HIDE DEF Q
<1>5. Below(d, ROOT_INODE_NUM) \subseteq Q
  BY <1>3, <1>4, BelowIn
<1> QED
  BY <1>5 DEF Q

\* What an inode leads to is in R with it.
LEMMA BelowIsIn ==
    ASSUME NEW d, NEW R, Sane(d, R), NEW i \in R
    PROVE  Below(d, i) \subseteq R /\ i \in Below(d, i)
<1>1. \A dir \in R, n \in Name : Lookup(d, dir, n) = 0 \/ Lookup(d, dir, n) \in R
  BY NameIs DEF NameAt
<1> QED
  BY <1>1, BelowIn

\* The search finds the record there is.
LEMMA PointsFound ==
    ASSUME NEW d, NEW R, Sane(d, R), NEW i \in R, d.inode[i].i_mode = "dir", NEW n \in Name,
           NEW x, Points(d, d.inode[i], n, x)
    PROVE  Lookup(d, i, n) = x
<1>1. Has(d, d.inode[i], n)
  BY DEF Points, Has
<1>2. Lookup(d, i, n) # 0
  BY <1>1, NoName
<1> DEFINE p == Position(d, d.inode[i], n)
<1>3. NameAt(d, R, i, n, p)
  BY <1>2, NameIs
<1> HIDE DEF p
<1> DEFINE a == d.inode[i].i_blocks[p[1]]
<1>4. /\ a \in OwnedBy(d, i) /\ p[2] \in DOMAIN d.block[a] /\ d.block[a][p[2]].name = n
      /\ d.block[a][p[2]].inum = Lookup(d, i, n)
  BY <1>3 DEF NameAt
<1> HIDE DEF a
<1>5. PICK b \in OwnedBy(d, i) :
          \E k \in DOMAIN d.block[b] : d.block[b][k].name = n /\ d.block[b][k].inum = x
  BY DEF Points, OwnedBy
<1>6. PICK k \in DOMAIN d.block[b] : d.block[b][k].name = n /\ d.block[b][k].inum = x
  BY <1>5
<1>7. a = b /\ p[2] = k
  BY <1>4, <1>6 DEF Sane, Readable
<1> QED
  BY <1>4, <1>6, <1>7

\* What the search finds is a record.
LEMMA FoundPoints ==
    ASSUME NEW d, NEW R, Sane(d, R), NEW i \in R, NEW n \in Name, Lookup(d, i, n) # 0
    PROVE  Points(d, d.inode[i], n, Lookup(d, i, n))
<1> DEFINE p == Position(d, d.inode[i], n)
<1>1. NameAt(d, R, i, n, p)
  BY NameIs
<1> HIDE DEF p
<1> DEFINE a == d.inode[i].i_blocks[p[1]]
<1>2. /\ a \in OwnedBy(d, i) /\ p[2] \in DOMAIN d.block[a] /\ d.block[a][p[2]].name = n
      /\ d.block[a][p[2]].inum = Lookup(d, i, n)
  BY <1>1 DEF NameAt
<1> HIDE DEF a
<1> QED
  BY <1>2 DEF Points, OwnedBy

\* The new name is free, what is to be renamed is still there, and unless nothing
\* has happened there is room for the new name; or the call has failed.
ClearedName(d, c, R, from, fn, to, tn, x) ==
    /\ c \in Call /\ SafeCuts(c)
    /\ \A cut \in c.cuts : Lookup(cut, from, fn) = x
    /\ ~ c.ok => c.disk = d /\ Safe(d)
    /\ c.ok => /\ Sane(c.disk, R) /\ Unique(c.disk, R, {})
               /\ from \in R /\ to \in R
               /\ c.disk.inode[from].i_mode = "dir" /\ c.disk.inode[to].i_mode = "dir"
               /\ Lookup(c.disk, from, fn) = x /\ x # 0
               /\ ~ Has(c.disk, c.disk.inode[to], tn)
               /\ \/ c.disk = d
                  \/ \E b \in Range(c.disk.inode[to].i_blocks) : HasRoom(c.disk.block[b], tn)

\* The start of altfs_rename makes room for the new name.
LEMMA ClearedIs ==
    ASSUME NEW d, NEW R, Sane(d, R), Unique(d, R, {}),
           NEW from \in Dirs(d), NEW to \in Dirs(d), NEW fn \in Name, NEW tn \in Name,
           <<from, fn>> # <<to, tn>>, Lookup(d, from, fn) # 0,
           Lookup(d, to, tn) # 0 => from \notin Below(d, Lookup(d, to, tn))
    PROVE  \E Q : ClearedName(d, Cleared(d, to, tn), Q, from, fn, to, tn, Lookup(d, from, fn))
<1> DEFINE t == Lookup(d, to, tn)
           x == Lookup(d, from, fn)
           c == Cleared(d, to, tn)
           Q == R \ {t}
<1>1. d \in Disk /\ ROOT_INODE_NUM \in R
  BY DEF Sane
<1>2. /\ from \in R /\ to \in R
      /\ from \in Below(d, ROOT_INODE_NUM) /\ to \in Below(d, ROOT_INODE_NUM)
      /\ d.inode[from].i_mode = "dir" /\ d.inode[to].i_mode = "dir"
  BY <1>1, BelowIsIn DEF Dirs
<1>3. CASE t = 0
  <2>1. c = Begin(d)
    BY <1>3 DEF Cleared
  <2>2. c \in Call /\ c.ok /\ c.disk = d /\ c.cuts = {}
    BY <1>1, <2>1, BeginIs
  <2>3. ~ Has(d, d.inode[to], tn)
    BY <1>2, <1>3, NoName
  <2> HIDE DEF c
  <2>4. ClearedName(d, c, R, from, fn, to, tn, x)
    BY <1>2, <2>2, <2>3 DEF ClearedName, SafeCuts
  <2> QED
    BY <2>4 DEF c
<1>4. CASE t # 0
  <2>1. c = unlink(d, to, tn)
    BY <1>4 DEF Cleared
  <2>2. t # to
    BY <1>2, <1>4, NotInItself
  <2>3. t \in R
    BY <1>2, <1>4, NameIs DEF NameAt
  <2>4. t # from
    BY <1>4, <2>3, BelowIsIn
  <2>5. UnlinkedName(d, c, R, to, tn, t)
    BY <1>2, <1>4, <2>1, <2>2, UnlinkIs
  <2>6. Points(d, d.inode[from], fn, x)
    BY <1>2, FoundPoints
  <2>7. from \in Q /\ to \in Q /\ (from # to \/ fn # tn)
    BY <1>2, <2>2, <2>4
  <2>8. x # 0 /\ Safe(d)
    BY DEF Safe
  <2> HIDE DEF c, t, x, Q
  <2>9. \A cut \in c.cuts : cut = d \/ KeepsNames(d, cut, Q, to, tn)
    BY <2>5 DEF UnlinkedName, Q
  <2>10. ASSUME NEW e, KeepsNames(d, e, Q, to, tn)
         PROVE  /\ Lookup(e, from, fn) = x
                /\ e.inode[from].i_mode = "dir" /\ e.inode[to].i_mode = "dir"
    <3>1. /\ Sane(e, Q) /\ Points(e, e.inode[from], fn, x)
          /\ e.inode[from].i_mode = "dir" /\ e.inode[to].i_mode = "dir"
      BY <1>2, <2>6, <2>7, <2>10 DEF KeepsNames
    <3> QED
      BY <2>7, <3>1, PointsFound
  <2>11. \A cut \in c.cuts : Lookup(cut, from, fn) = x
    BY <2>9, <2>10 DEF x
  <2>12. CASE ~ c.ok
    <3>1. ClearedName(d, c, Q, from, fn, to, tn, x)
      BY <2>5, <2>8, <2>11, <2>12 DEF UnlinkedName, ClearedName
    <3> QED
      BY <3>1 DEF c, x
  <2>13. CASE c.ok
    <3>1. /\ c \in Call /\ SafeCuts(c) /\ KeepsNames(d, c.disk, Q, to, tn)
          /\ ~ Has(c.disk, c.disk.inode[to], tn)
          /\ \E b \in Range(c.disk.inode[to].i_blocks) : HasRoom(c.disk.block[b], tn)
      BY <2>5, <2>13 DEF UnlinkedName, Q
    <3>2. /\ Lookup(c.disk, from, fn) = x
          /\ c.disk.inode[from].i_mode = "dir" /\ c.disk.inode[to].i_mode = "dir"
      BY <2>10, <3>1
    <3>3. Sane(c.disk, Q) /\ Unique(c.disk, Q, {})
      BY <3>1 DEF KeepsNames
    <3>4. ClearedName(d, c, Q, from, fn, to, tn, x)
      BY <2>7, <2>8, <2>11, <2>13, <3>1, <3>2, <3>3 DEF ClearedName
    <3> QED
      BY <3>4 DEF c, x
  <2> QED
    BY <2>12, <2>13
<1> QED
  BY <1>3, <1>4

\* What altfs_rename did: all or nothing, and inode x has its old or its new name at
\* every cut.
Renamed(d, f, from, fn, to, tn, x) ==
    /\ f \in Call /\ Safe(f.disk)
    /\ f.ok => Lookup(f.disk, to, tn) = x /\ Lookup(f.disk, from, fn) = 0
    /\ ~ f.ok => f.disk = d
    /\ \A cut \in f.cuts : \E Q : Sane(cut, Q)
    /\ \A cut \in f.cuts : Lookup(cut, from, fn) = x \/ Lookup(cut, to, tn) = x

\* Safe cuts are sound cuts.
LEMMA SafeIsSane ==
    ASSUME NEW c, SafeCuts(c)
    PROVE  \A cut \in c.cuts : \E Q : Sane(cut, Q)
BY DEF SafeCuts, Safe

\* The second half of altfs_rename, once the new name is free.
Moved(c, from, fn, to, tn) ==
    LET added == add_directory_entry(Hold(c, to), Lookup(c.disk, from, fn), tn)
    IN Save(remove_directory_entry(Hold(Save(added, to), from), fn), from)

\* The record of the old name is the only one that leads to its inode.
LEMMA OtherNames ==
    ASSUME NEW d, NEW R, Sane(d, R), Unique(d, R, {}), NEW i \in R, NEW b \in OwnedBy(d, i),
           NEW k \in DOMAIN d.block[b], d.block[b][k].name \in Name
    PROVE  /\ Unnamed(d, R, {<<b, k>>}, d.block[b][k].inum)
           /\ Unique(d, R, {<<b, k>>})
<1>1. Unnamed(d, R, {<<b, k>>}, d.block[b][k].inum)
  <2> SUFFICES ASSUME NEW j \in R, NEW a \in OwnedBy(d, j), NEW m \in DOMAIN d.block[a],
                      d.block[a][m].name \in Name, <<a, m>> # <<b, k>>,
                      d.block[a][m].inum = d.block[b][k].inum
               PROVE  FALSE
    BY DEF Unnamed
  <2>1. a = b /\ m = k
    BY DEF Unique
  <2> QED
    BY <2>1
<1>2. Unique(d, R, {<<b, k>>})
  BY DEF Unique
<1> QED
  BY <1>1, <1>2

\* The old record is where it was.
LEMMA StillThere ==
    ASSUME NEW d, NEW e, NEW R, Sane(e, R), NEW i \in R, NEW b \in OwnedBy(e, i),
           NEW k \in DOMAIN d.block[b], KeepsRecords(d, e, b),
           NEW n, d.block[b][k].name = n
    PROVE  LET p == Position(e, e.inode[i], n)
           IN IsAt(e, e.inode[i], n, p) /\ e.inode[i].i_blocks[p[1]] = b /\ p[2] = k
<1> DEFINE node == e.inode[i]
           p == Position(e, node, n)
<1>1. k \in DOMAIN e.block[b] /\ e.block[b][k].name = n
  BY DEF KeepsRecords
<1>2. Has(e, node, n)
  BY <1>1 DEF Has, OwnedBy
<1>3. e \in Disk /\ node \in Inode /\ \A x \in Range(node.i_blocks) : Fits(e.block[x])
  BY SaneTypes DEF Sane, Readable, OwnedBy
<1>4. IsAt(e, node, n, p)
  BY <1>2, <1>3, PositionIs
<1> HIDE DEF p
<1> DEFINE a == node.i_blocks[p[1]]
<1>5. a \in OwnedBy(e, i) /\ p[2] \in DOMAIN e.block[a] /\ e.block[a][p[2]].name = n
  BY <1>4 DEF IsAt, OwnedBy, Range
<1> HIDE DEF a
<1>6. a = b /\ p[2] = k
  BY <1>1, <1>5 DEF Sane, Readable
<1> QED
  BY <1>4, <1>6 DEF a, p

\* The new record comes before the old one goes, and then one name is left.
LEMMA MovedIs ==
    ASSUME NEW d0, NEW c, NEW R, NEW from, NEW to, NEW fn \in Name, NEW tn \in Name, NEW x,
           <<from, fn>> # <<to, tn>>, ClearedName(d0, c, R, from, fn, to, tn, x), c.ok
    PROVE  /\ Renamed(d0, Moved(c, from, fn, to, tn), from, fn, to, tn, x)
           /\ Moved(c, from, fn, to, tn).ok => /\ Sane(Moved(c, from, fn, to, tn).disk, R)
                                               /\ Unique(Moved(c, from, fn, to, tn).disk, R, {})
<1> DEFINE d == c.disk
           c1 == Hold(c, to)
           a == add_directory_entry(c1, x, tn)
           c3 == Save(a, to)
           c4 == Hold(c3, from)
           c5 == remove_directory_entry(c4, fn)
           f == Moved(c, from, fn, to, tn)
<1>1. f = Save(c5, from)
  BY DEF Moved, ClearedName
<1>2. /\ c \in Call /\ SafeCuts(c) /\ Sane(d, R) /\ Unique(d, R, {})
      /\ from \in R /\ to \in R /\ x # 0 /\ ~ Has(d, d.inode[to], tn)
      /\ d.inode[from].i_mode = "dir" /\ d.inode[to].i_mode = "dir"
      /\ Lookup(d, from, fn) = x
      /\ \A cut \in c.cuts : Lookup(cut, from, fn) = x
      /\ d = d0 \/ \E a0 \in Range(d.inode[to].i_blocks) : HasRoom(d.block[a0], tn)
  BY DEF ClearedName
<1>3. d \in Disk /\ R \subseteq Inum /\ from \in Inum /\ to \in Inum
  BY <1>2 DEF Sane
<1>4. PICK b \in OwnedBy(d, from) : \E k \in DOMAIN d.block[b] :
          d.block[b][k].name = fn /\ d.block[b][k].inum = x /\ x \in R \ {ROOT_INODE_NUM}
  <2> DEFINE p == Position(d, d.inode[from], fn)
  <2>1. NameAt(d, R, from, fn, p)
    BY <1>2, NameIs
  <2> HIDE DEF p
  <2> DEFINE b == d.inode[from].i_blocks[p[1]]
  <2>2. /\ b \in OwnedBy(d, from) /\ p[2] \in DOMAIN d.block[b] /\ d.block[b][p[2]].name = fn
        /\ d.block[b][p[2]].inum = x /\ x \in R \ {ROOT_INODE_NUM}
    BY <1>2, <2>1 DEF NameAt
  <2> HIDE DEF b
  <2> QED
    BY <2>2
<1>5. PICK k \in DOMAIN d.block[b] :
          d.block[b][k].name = fn /\ d.block[b][k].inum = x /\ x \in R \ {ROOT_INODE_NUM}
  BY <1>4
<1> HIDE DEF f
<1>6. c1 \in Call /\ c1.ok /\ c1.disk = d /\ c1.cuts = c.cuts /\ c1.node = d.inode[to]
  BY <1>2, <1>3, HoldIs
<1>7. Virtual(c1, to) = d
  BY <1>3, <1>6 DEF Virtual, WithInode, Disk
<1> HIDE DEF c1
<1>8. Holds(c1, to)
  BY <1>2, <1>6 DEF Holds, OwnedBy, Sane, InUse, Exclusive
<1>9. Added(c1, a, to, R, x, tn)
  <2>1. x \in Inum /\ tn \in AnyName
    BY <1>3, <1>5 DEF AnyName
  <2> QED
    BY <1>2, <1>5, <1>6, <1>7, <2>1, EntryAdded
<1>10. Placed(c1, a, x, tn)
  <2>1. x \in Inum /\ tn \in AnyName
    BY <1>3, <1>5 DEF AnyName
  <2> QED
    BY <1>6, <2>1, EntryPlaced
<1> HIDE DEF a
<1>11. ASSUME NEW e, Sane(e, R), e.inode = d.inode, KeepsRecords(d, e, b) PROVE Lookup(e, from, fn) = x
  <2>1. k \in DOMAIN e.block[b] /\ e.block[b][k].name = fn /\ e.block[b][k].inum = x
    BY <1>5, <1>11 DEF KeepsRecords
  <2>2. Points(e, e.inode[from], fn, x) /\ e.inode[from].i_mode = "dir"
    BY <1>2, <1>11, <2>1 DEF Points, OwnedBy
  <2> QED
    BY <1>2, <1>11, <2>2, PointsFound
<1>12. b \in Block \ d.free
  BY <1>2, SaneTypes DEF Sane, Exclusive
<1>13. /\ a \in Call
       /\ \A cut \in a.cuts : \E Q : Sane(cut, Q)
       /\ \A cut \in a.cuts : Lookup(cut, from, fn) = x
  <2>1. a \in Call /\ \A cut \in a.cuts : cut \in c.cuts \/ Sane(cut, R)
    BY <1>6, <1>8, <1>9 DEF Added
  <2>2. \A cut \in c.cuts : \E Q : Sane(cut, Q)
    BY <1>2, SafeIsSane
  <2>3. \A cut \in a.cuts : cut \in c.cuts \/ (cut.inode = d.inode /\ KeepsRecords(d, cut, b))
    BY <1>6, <1>10, <1>12 DEF Placed
  <2>4. ASSUME NEW cut \in a.cuts PROVE Lookup(cut, from, fn) = x
    <3>1. CASE cut \in c.cuts
      BY <1>2, <3>1
    <3>2. CASE cut \notin c.cuts
      <4>1. Sane(cut, R) /\ cut.inode = d.inode /\ KeepsRecords(d, cut, b)
        BY <2>1, <2>3, <3>2
      <4> QED
        BY <1>11, <4>1
    <3> QED
      BY <3>1, <3>2
  <2> QED
    BY <2>1, <2>2, <2>4
<1>14. CASE ~ a.ok
  <2>1. a.disk = d /\ d = d0
    BY <1>2, <1>6, <1>9, <1>10, <1>14 DEF Added, Placed
  <2>2. c3 = a
    BY <1>3, <1>13, <1>14, SaveIs
  <2>3. c4 \in Call /\ ~ c4.ok /\ c4.disk = d /\ c4.cuts = a.cuts
    BY <1>3, <1>13, <1>14, <2>1, <2>2, HoldIs
  <2> HIDE DEF c4
  <2>4. c5 = c4
    BY <2>3 DEF remove_directory_entry
  <2>5. f = c4
    BY <1>1, <1>3, <2>3, <2>4, SaveIs
  <2>6. Safe(d)
    BY <1>2 DEF Safe
  <2>7. Renamed(d0, f, from, fn, to, tn, x)
    BY <1>13, <2>1, <2>3, <2>5, <2>6 DEF Renamed
  <2> QED
    BY <2>3, <2>5, <2>7 DEF f
<1>15. CASE a.ok
  <2> DEFINE w == Virtual(a, to)
             X == {<<b, k>>}
  <2>1. Sane(w, R) /\ Holds(a, to) /\ a.disk.inode = d.inode
    BY <1>6, <1>8, <1>9, <1>15 DEF Added
  <2>2. Unique(w, R, X)
    <3>1. Unnamed(d, R, X, x) /\ Unique(d, R, X)
      BY <1>2, <1>5, OtherNames
    <3> HIDE DEF X
    <3> QED
      BY <1>7, <1>9, <1>15, <3>1 DEF Added
  <2>3. /\ w.block = a.disk.block /\ w.inode[to] = a.node
        /\ \A j \in Inum \ {to} : w.inode[j] = a.disk.inode[j]
    BY <1>3, <1>13, VirtualIs
  <2>4. c3 \in Call /\ c3.ok /\ c3.disk = w /\ c3.cuts = a.cuts \cup {a.disk}
    BY <1>3, <1>13, <1>15, SaveIs
  <2> HIDE DEF c3, w
  <2>5. c4 \in Call /\ c4.ok /\ c4.disk = w /\ c4.cuts = a.cuts \cup {a.disk} /\ c4.node = w.inode[from]
    BY <1>3, <2>4, HoldIs
  <2> HIDE DEF c4
  <2>6. b \in OwnedBy(w, from)
    <3>1. CASE from = to
      BY <1>6, <1>9, <1>15, <2>3, <3>1 DEF Added, OwnedBy
    <3>2. CASE from # to
      BY <1>3, <1>6, <1>9, <2>3, <3>2 DEF Added, OwnedBy
    <3> QED
      BY <3>1, <3>2
  <2>7. KeepsRecords(d, a.disk, b) /\ KeepsRecords(d, w, b)
    <3>1. KeepsRecords(d, a.disk, b)
      BY <1>6, <1>9, <1>12, <1>15 DEF Added
    <3> QED
      BY <2>3, <3>1 DEF KeepsRecords
  <2>8. w.inode[to].i_mode = "dir" /\ w.inode[from].i_mode = "dir"
    <3>1. a.node.i_mode = "dir"
      BY <1>2, <1>6, <1>9, <1>15 DEF Added
    <3> QED
      BY <1>2, <1>3, <2>1, <2>3, <3>1
  <2>9. Points(w, w.inode[to], tn, x)
    BY <1>10, <1>15, <2>3 DEF Placed, Points
  <2>10. Lookup(w, from, fn) = x
    <3>1. k \in DOMAIN w.block[b] /\ w.block[b][k].name = fn /\ w.block[b][k].inum = x
      BY <1>5, <2>7 DEF KeepsRecords
    <3>2. Points(w, w.inode[from], fn, x)
      BY <2>6, <3>1 DEF Points, OwnedBy
    <3> QED
      BY <1>2, <2>1, <2>8, <3>2, PointsFound
  <2> DEFINE p == Position(w, w.inode[from], fn)
  <2>11. IsAt(w, w.inode[from], fn, p) /\ w.inode[from].i_blocks[p[1]] = b /\ p[2] = k
    BY ONLY <1>2, <1>5, <2>1, <2>6, <2>7, StillThere
  <2>12. RemovedAt(c4, c5, b, k)
    BY <2>5, <2>11, RemoveIs
  <2> HIDE DEF c5, p
  <2> DEFINE e == WithBlock(w, b, Without(w.block[b], k))
  <2>13. /\ c5 \in Call /\ c5.ok /\ c5.disk = e /\ c5.cuts = c4.cuts \cup {w}
         /\ c5.node.i_blocks = w.inode[from].i_blocks /\ c5.node.i_mode = w.inode[from].i_mode
         /\ c5.node.i_allocated = w.inode[from].i_allocated
    BY <2>5, <2>12 DEF RemovedAt
  <2>14. k \in DOMAIN w.block[b] /\ w.block[b][k].name = fn
    BY <1>5, <2>7 DEF KeepsRecords
  <2>15. RecordGone(w, e, R, from, b, k) /\ e.inode = w.inode
    <3>1. e.inode = w.inode
      BY <2>1 DEF WithBlock, Sane, Disk
    <3>2. RecordGone(w, e, R, from, b, k)
      BY <1>2, <2>1, <2>6, <2>14, RecordRemoved
    <3> QED
      BY <3>1, <3>2
  <2> HIDE DEF e
  <2>16. Sane(e, R) /\ Unique(e, R, {})
    BY <2>2, <2>15 DEF RecordGone
  <2>17. Points(e, e.inode[to], tn, x) /\ ~ Has(e, e.inode[from], fn)
    <3>1. to # from \/ tn # fn
      OBVIOUS
    <3> QED
      BY <1>2, <2>9, <2>14, <2>15, <3>1 DEF RecordGone
  <2>18. Lookup(e, to, tn) = x
    BY <1>2, <2>8, <2>15, <2>16, <2>17, PointsFound
  <2>19. f \in Call /\ f.ok /\ f.disk = Virtual(c5, from) /\ f.cuts = c5.cuts \cup {e}
    BY <1>1, <1>3, <2>13, SaveIs
  <2>20. /\ f.disk \in Disk /\ f.disk.block = e.block /\ f.disk.free = e.free
         /\ f.disk.inode[from] = c5.node
         /\ \A j \in Inum \ {from} : f.disk.inode[j] = e.inode[j]
    BY <1>3, <2>13, <2>19, VirtualIs
  <2>21. \A j \in R : /\ f.disk.inode[j].i_blocks = e.inode[j].i_blocks
                      /\ f.disk.inode[j].i_mode = e.inode[j].i_mode
                      /\ f.disk.inode[j].i_allocated
    BY <1>3, <2>13, <2>15, <2>16, <2>20 DEF Sane, InUse
  <2>22. Sane(f.disk, R) /\ Unique(f.disk, R, {})
    <3>1. \A j \in Inum : e.inode[j].i_allocated \/ e.inode[j] = Unused
      BY <2>16 DEF Sane, Clean
    <3>2. Clean(f.disk)
      BY <1>2, <2>20, <2>21, <3>1 DEF Clean
    <3> QED
      BY <2>16, <2>20, <2>21, <3>2, SameIsSane
  <2>23. Lookup(f.disk, to, tn) = x
    <3>1. Points(f.disk, f.disk.inode[to], tn, x)
      BY <1>2, <2>17, <2>20, <2>21 DEF Points
    <3>2. f.disk.inode[to].i_mode = "dir"
      BY <1>2, <2>8, <2>15, <2>21
    <3> QED
      BY ONLY <1>2, <2>22, <3>1, <3>2, PointsFound, tn \in Name
  <2>24. Lookup(f.disk, from, fn) = 0
    <3>1. ~ Has(f.disk, f.disk.inode[from], fn)
      BY <1>2, <2>17, <2>20, <2>21 DEF Has
    <3> QED
      BY <1>2, <2>22, <3>1, NameIs DEF NameAt
  <2>25. Sane(a.disk, R)
    BY <1>2, <1>13, <2>1, DiskIsSane DEF w
  <2>26. Lookup(a.disk, from, fn) = x
    BY <1>11, <2>1, <2>7, <2>25
  <2>27. \A cut \in f.cuts : cut \in a.cuts \/ cut = a.disk \/ cut = w \/ cut = e
    BY <2>5, <2>13, <2>19
  <2>28. \A cut \in f.cuts : cut \in a.cuts \/ Sane(cut, R)
    BY <2>1, <2>16, <2>25, <2>27
  <2>29. \A cut \in f.cuts : Lookup(cut, from, fn) = x \/ Lookup(cut, to, tn) = x
    BY <1>13, <2>10, <2>18, <2>26, <2>27
  <2>30. \A cut \in f.cuts : \E Q : Sane(cut, Q)
    BY <1>13, <2>28
  <2>31. Safe(f.disk)
    BY <2>22 DEF Safe
  <2>32. Renamed(d0, f, from, fn, to, tn, x)
    BY <2>19, <2>23, <2>24, <2>29, <2>30, <2>31 DEF Renamed
  <2> QED
    BY <2>22, <2>32 DEF f
<1> QED
  BY <1>14, <1>15

\* If what has the new name could not be unlinked, nothing is written after that.
LEMMA MovedFails ==
    ASSUME NEW c \in Call, ~ c.ok, NEW from \in Inum, NEW to \in Inum, NEW fn, NEW tn,
           NEW f, f = Moved(c, from, fn, to, tn)
    PROVE  f \in Call /\ ~ f.ok /\ f.disk = c.disk /\ f.cuts = c.cuts
<1> DEFINE c1 == Hold(c, to)
           a == add_directory_entry(c1, Lookup(c.disk, from, fn), tn)
           c4 == Hold(Save(a, to), from)
           c5 == remove_directory_entry(c4, fn)
<1>1. c1 \in Call /\ ~ c1.ok /\ c1.disk = c.disk /\ c1.cuts = c.cuts
  BY HoldIs
<1> HIDE DEF c1
<1>2. a \in Call /\ ~ a.ok /\ a.disk = c.disk /\ a.cuts = c.cuts
  BY <1>1, AddFails
<1> HIDE DEF a
<1>3. Save(a, to) = a
  BY <1>2, SaveIs
<1>4. c4 \in Call /\ ~ c4.ok /\ c4.disk = c.disk /\ c4.cuts = c.cuts
  BY <1>2, <1>3, HoldIs
<1>5. f = Save(c5, from)
  BY DEF Moved, a, c1
<1> HIDE DEF c4
<1>6. c5 = c4
  BY <1>4 DEF remove_directory_entry
<1> QED
  BY <1>4, <1>5, <1>6, SaveIs

\* altfs_rename leaves each inode one name; cut short, it leaves sound disks.
LEMMA RenameIs ==
    ASSUME NEW d, NEW R, Sane(d, R), Unique(d, R, {}),
           NEW from \in Dirs(d), NEW to \in Dirs(d), NEW fn \in Name, NEW tn \in Name,
           <<from, fn>> # <<to, tn>>, Lookup(d, from, fn) # 0,
           Lookup(d, to, tn) # 0 => from \notin Below(d, Lookup(d, to, tn))
    PROVE  Renamed(d, rename(d, from, fn, to, tn), from, fn, to, tn, Lookup(d, from, fn))
<1> DEFINE c == Cleared(d, to, tn)
           f == rename(d, from, fn, to, tn)
           x == Lookup(d, from, fn)
<1>1. PICK Q : ClearedName(d, c, Q, from, fn, to, tn, x)
  BY ClearedIs
<1>2. f = Moved(c, from, fn, to, tn)
  BY DEF rename, Moved
<1>3. from \in Inum /\ to \in Inum
  BY BelowIsIn DEF Sane, Dirs
<1> HIDE DEF c, f, x
<1>4. CASE c.ok
  <2>1. Renamed(d, f, from, fn, to, tn, x)
    BY <1>1, <1>2, <1>4, MovedIs
  <2> QED
    BY <2>1 DEF f, x
<1>5. CASE ~ c.ok
  <2>1. /\ c \in Call /\ SafeCuts(c) /\ Safe(d) /\ c.disk = d
        /\ \A cut \in c.cuts : Lookup(cut, from, fn) = x
    BY <1>1, <1>5 DEF ClearedName
  <2>2. f \in Call /\ ~ f.ok /\ f.disk = c.disk /\ f.cuts = c.cuts
    BY <1>2, <1>3, <1>5, <2>1, MovedFails
  <2>3. \A cut \in c.cuts : \E P : Sane(cut, P)
    BY <2>1, SafeIsSane
  <2>4. Renamed(d, f, from, fn, to, tn, x)
    BY <2>1, <2>2, <2>3 DEF Renamed
  <2> QED
    BY <2>4 DEF f, x
<1> QED
  BY <1>4, <1>5

-----------------------------------------------------------------------------
(* Mounting *)

\* The call of setup_filesystem that creates the root directory, from its start.
NewRootCall(d) == [Begin(d) EXCEPT !.node = NewRoot(d.inode[ROOT_INODE_NUM])]

RootDir(d) ==
    LET dotted == add_directory_entry(NewRootCall(d), ROOT_INODE_NUM, ".")
    IN Save(add_directory_entry(dotted, ROOT_INODE_NUM, ".."), ROOT_INODE_NUM)

\* The root directory to be has no blocks.
LEMMA NewRootIs ==
    ASSUME NEW d \in Disk
    PROVE  LET c == NewRootCall(d)
           IN /\ c \in Call /\ c.ok /\ c.disk = d
              /\ c.node.i_allocated /\ c.node.i_blocks = << >> /\ c.node.i_mode = "dir"
<1> DEFINE root == d.inode[ROOT_INODE_NUM]
<1>1. root \in Inode
  BY TreeAssumption DEF Disk
<1>2. Incremented(root.i_links_count) \in 0..MAX_COUNT /\ 0 \in 0..MAX_COUNT
  <2>1. root.i_links_count \in 0..MAX_COUNT
    BY <1>1 DEF Inode
  <2> HIDE DEF root
  <2> QED
    BY <2>1, CountTypes, TreeAssumption
<1>3. << >> \in Seq(Block)
  BY EmptySeq
<1>4. NewRoot(root) = [root EXCEPT !.i_allocated = TRUE,
                                   !.i_links_count = Incremented(root.i_links_count),
                                   !.i_mode = "dir", !.i_blocks = << >>, !.i_child_num = 0]
  BY DEF NewRoot
<1>5. /\ NewRoot(root) \in Inode
      /\ NewRoot(root).i_allocated /\ NewRoot(root).i_blocks = << >> /\ NewRoot(root).i_mode = "dir"
  BY <1>1, <1>2, <1>3, <1>4 DEF Inode
<1> DEFINE c0 == Begin(d)
<1>6. c0 \in Call /\ c0.ok /\ c0.disk = d
  BY BeginIs
<1>7. NewRootCall(d) = [c0 EXCEPT !.node = NewRoot(root)]
  BY DEF NewRootCall
<1> HIDE DEF c0, root
<1> QED
  BY <1>5, <1>6, <1>7 DEF Call

\* A root directory made anew has nothing but its two records.
LEMMA RootDirIs ==
    ASSUME NEW d \in Disk, NEW R, Sane(Virtual(NewRootCall(d), ROOT_INODE_NUM), R), RootDir(d).ok
    PROVE  /\ RootDir(d) \in Call
           /\ Sane(RootDir(d).disk, R)
           /\ \A X : Unique(Virtual(NewRootCall(d), ROOT_INODE_NUM), R, X)
                     => Unique(RootDir(d).disk, R, X)
<1> DEFINE c == NewRootCall(d)
           i == ROOT_INODE_NUM
           v == Virtual(c, i)
           a1 == add_directory_entry(c, i, ".")
           a2 == add_directory_entry(a1, i, "..")
<1>1. RootDir(d) = Save(a2, i)
  BY DEF RootDir
<1>2. /\ c \in Call /\ c.ok /\ c.disk = d /\ c.node.i_blocks = << >>
  BY NewRootIs
<1>3. i \in R /\ i \in Inum
  BY DEF Sane
<1>4. ~ Has(c.disk, c.node, ".") /\ ~ Has(c.disk, c.node, "..")
  BY <1>2 DEF Has, Range
<1>5. "." \in AnyName /\ "." \notin Name /\ ".." \in AnyName /\ ".." \notin Name /\ "." # ".."
  BY RecordAssumption DEF AnyName
<1> HIDE DEF c, i
<1>6. Sane(v, R)
  BY DEF c, i
<1>7. Added(c, a1, i, R, i, ".")
  BY <1>2, <1>3, <1>4, <1>5, <1>6, EntryAdded
<1> HIDE DEF a1
<1>8. a1 \in Call
  BY <1>7 DEF Added
<1>9. a1.ok
  <2> SUFFICES ASSUME ~ a1.ok PROVE FALSE
    OBVIOUS
  <2>1. a2 \in Call /\ ~ a2.ok
    BY <1>8, AddFails
  <2> HIDE DEF a2
  <2> QED
    BY <1>1, <1>3, <2>1, SaveIs
<1>10. /\ Sane(Virtual(a1, i), R) /\ ~ Has(a1.disk, a1.node, "..")
       /\ \A X : Unique(v, R, X) => Unique(Virtual(a1, i), R, X)
  BY <1>4, <1>5, <1>7, <1>9 DEF Added
<1>11. Added(a1, a2, i, R, i, "..")
  BY <1>3, <1>5, <1>8, <1>10, EntryAdded
<1> HIDE DEF a2
<1>12. a2 \in Call
  BY <1>11 DEF Added
<1>13. a2.ok /\ RootDir(d) \in Call /\ RootDir(d).disk = Virtual(a2, i)
  BY <1>1, <1>3, <1>12, SaveIs
<1>14. Sane(Virtual(a2, i), R) /\ \A X : Unique(Virtual(a1, i), R, X) => Unique(Virtual(a2, i), R, X)
  BY <1>5, <1>11, <1>13 DEF Added
<1>15. \A X : Unique(v, R, X) => Unique(RootDir(d).disk, R, X)
  BY <1>10, <1>13, <1>14
<1> QED
  BY <1>13, <1>14, <1>15 DEF c, i

\* A mount that succeeds leaves a sound disk sound.
LEMMA SetupIs ==
    ASSUME NEW d, NEW R, Sane(d, R), setup_filesystem(d).ok
    PROVE  /\ Sane(setup_filesystem(d).disk, R)
           /\ Unique(d, R, {}) => Unique(setup_filesystem(d).disk, R, {})
<1> DEFINE root == d.inode[ROOT_INODE_NUM]
           v == Virtual(NewRootCall(d), ROOT_INODE_NUM)
<1>1. d \in Disk /\ ROOT_INODE_NUM \in R /\ ROOT_INODE_NUM \in Inum
  BY DEF Sane
<1>2. CASE root.i_allocated /\ root.i_child_num >= 2
  <2>1. setup_filesystem(d) = Begin(d)
    BY <1>2 DEF setup_filesystem
  <2> QED
    BY <1>1, <2>1, BeginIs
<1>3. CASE ~ (root.i_allocated /\ root.i_child_num >= 2)
  <2>1. setup_filesystem(d) = RootDir(d)
    BY <1>3 DEF setup_filesystem, RootDir, NewRootCall
  <2> DEFINE c == NewRootCall(d)
  <2>2. /\ c \in Call /\ c.ok /\ c.disk = d
        /\ c.node.i_allocated /\ c.node.i_blocks = << >>
    BY <1>1, NewRootIs
  <2> HIDE DEF c
  <2>3. /\ v \in Disk /\ v.block = d.block /\ v.free = d.free
        /\ v.inode[ROOT_INODE_NUM] = c.node
        /\ \A j \in Inum \ {ROOT_INODE_NUM} : v.inode[j] = d.inode[j]
    BY <1>1, <2>2, VirtualIs DEF c
  <2> HIDE DEF v
  <2>4. Less(v, d, R)
    <3>1. /\ v.inode[ROOT_INODE_NUM].i_allocated /\ OwnedBy(v, ROOT_INODE_NUM) = {}
          /\ IsInjective(v.inode[ROOT_INODE_NUM].i_blocks)
      BY <2>2, <2>3 DEF OwnedBy, Range, IsInjective
    <3>2. \A j \in R \ {ROOT_INODE_NUM} : v.inode[j] = d.inode[j]
      BY <2>3 DEF Sane
    <3>3. \A j \in R \ {ROOT_INODE_NUM} : OwnedBy(v, j) = OwnedBy(d, j)
      BY <3>2 DEF OwnedBy
    <3>4. \A j \in R : /\ d.inode[j].i_allocated /\ IsInjective(d.inode[j].i_blocks)
                       /\ OwnedBy(d, j) \cap d.free = {}
      BY DEF Sane, InUse, Exclusive
    <3> QED
      BY <2>3, <3>1, <3>2, <3>3, <3>4 DEF Less
  <2>5. Clean(v)
    BY <2>2, <2>3 DEF Sane, Clean
  <2>6. Sane(v, R) /\ \A X : Unique(d, R, X) => Unique(v, R, X)
    BY <2>3, <2>4, <2>5, LessIsSane
  <2> QED
    BY <1>1, <2>1, <2>6, RootDirIs DEF v
<1> QED
  BY <1>2, <1>3

-----------------------------------------------------------------------------
(* The first mount *)

\* The record ".." fits behind the record ".".
LEMMA RoomForDots ==
    ASSUME NEW r \in Record, r.name = "."
    PROVE  HasRoom(Append(<< >>, r), "..")
<1> DEFINE s == Append(<< >>, r)
<1>1. s \in Seq(Record) /\ Len(s) = 1 /\ s[1] = r
  OBVIOUS
<1> HIDE DEF s
<1>2. Offset(s, 1) = 0 /\ Offset(s, 1 + 1) = Offset(s, 1) + RecordLength(s[1])
  BY <1>1, OffsetIs
<1>3. RecordLength(s[1]) = RECORD_FIXED_LEN + 2
  <2>1. Strlen(".") = 1
    BY DEF Strlen
  <2> QED
    BY <1>1, <2>1, RecordAssumption DEF RecordLength
<1>4. Offset(s, Len(s) + 1) = RECORD_FIXED_LEN + 2
  BY <1>1, <1>2, <1>3, RecordAssumption
<1>5. Strlen("..") = 2
  BY DEF Strlen
<1>6. HasRoom(s, "..")
  BY <1>4, <1>5, RecordAssumption DEF HasRoom, LAST_POSSIBLE_RECORD
<1> QED
  BY <1>6 DEF s

\* What the first mount starts from: the root alone, without records.
FirstRoot(d, v) ==
    /\ d \in Disk /\ ROOT_INODE_NUM \in Inum
    /\ Sane(v, {ROOT_INODE_NUM}) /\ Unique(v, {ROOT_INODE_NUM}, {})
    /\ v.inode[ROOT_INODE_NUM] = NewRootCall(d).node /\ NewRootCall(d).node = NewRoot(Unused)
    /\ v.free = Block
    /\ \A j \in Inum \ {ROOT_INODE_NUM} : v.inode[j] = Unused

\* mkfs leaves no inode in use and all data blocks free.
LEMMA FirstRootIs ==
    ASSUME NEW d, d = Formatted, NEW v, v = Virtual(NewRootCall(d), ROOT_INODE_NUM)
    PROVE  FirstRoot(d, v)
<1> DEFINE R == {ROOT_INODE_NUM}
           c == NewRootCall(d)
<1>1. d \in Disk /\ d.free = Block /\ \A i \in Inum : d.inode[i] = Unused
  BY UnusedType, EmptySeq DEF Formatted, Disk
<1>2. ROOT_INODE_NUM \in Inum
  BY TreeAssumption
<1>3. c \in Call /\ c.disk = d /\ c.node.i_allocated /\ c.node.i_blocks = << >>
  BY <1>1, NewRootIs
<1>4. c.node = NewRoot(Unused)
  BY <1>1, <1>2 DEF NewRootCall, Begin
<1> HIDE DEF c
<1>5. /\ v \in Disk /\ v.inode[ROOT_INODE_NUM] = c.node /\ v.free = d.free
      /\ \A j \in Inum \ {ROOT_INODE_NUM} : v.inode[j] = d.inode[j]
  BY <1>2, <1>3, VirtualIs DEF c
<1>6. OwnedBy(v, ROOT_INODE_NUM) = {} /\ IsInjective(v.inode[ROOT_INODE_NUM].i_blocks)
  BY <1>3, <1>5 DEF OwnedBy, Range, IsInjective
<1>7. Sane(v, R)
  <2>1. Clean(v)
    BY <1>1, <1>3, <1>5 DEF Clean
  <2>2. InUse(v, R) /\ Exclusive(v, R) /\ Readable(v, R) /\ Closed(v, R)
    BY <1>3, <1>5, <1>6 DEF InUse, Exclusive, Readable, Closed
  <2> QED
    BY <1>2, <1>5, <2>1, <2>2 DEF Sane
<1>8. Unique(v, R, {})
  BY <1>6 DEF Unique
<1> QED
  BY <1>1, <1>2, <1>4, <1>5, <1>7, <1>8 DEF FirstRoot, c

\* The first mount of an empty file system succeeds.
LEMMA FormattedMounts ==
    /\ setup_filesystem(Formatted) = RootDir(Formatted)
    /\ RootDir(Formatted).ok
<1> DEFINE d == Formatted
           i == ROOT_INODE_NUM
           c == NewRootCall(d)
           new == Min(c.disk.free)
           r == [inum |-> i, name |-> "."]
           a1 == add_directory_entry(c, i, ".")
           a2 == add_directory_entry(a1, i, "..")
<1>1. d \in Disk /\ d.free = Block
  BY UnusedType, EmptySeq DEF Formatted, Disk
<1>2. setup_filesystem(d) = RootDir(d)
  <2>1. i \in Inum
    BY TreeAssumption
  <2>2. ~ d.inode[i].i_allocated
    BY <2>1 DEF Formatted, Unused
  <2> QED
    BY <2>2 DEF setup_filesystem, RootDir, NewRootCall
<1>3. /\ c \in Call /\ c.ok /\ c.disk = d
      /\ c.node.i_allocated /\ c.node.i_blocks = << >> /\ c.node.i_mode = "dir"
  BY <1>1, NewRootIs
<1>4. RootDir(d) = Save(a2, i)
  BY DEF RootDir
<1>5. i \in Inum
  BY TreeAssumption
<1>6. r \in Record /\ r.name = "."
  BY <1>5 DEF Record
<1>7. new \in Block
  BY <1>1, <1>3, TreeAssumption, MinIn
<1> HIDE DEF d, c
<1>8. a1 = Counted(AddToBlock(AddNewBlock(c, new), new, r))
  <2>1. BlockWithRoom(BlocksOf(c.disk, c.node), ".") = 0
    BY <1>3 DEF BlockWithRoom, BlocksOf
  <2>2. c.disk.free # {}
    BY <1>1, <1>3, TreeAssumption
  <2> QED
    BY <1>3, <2>1, <2>2 DEF add_directory_entry
<1> HIDE DEF new, a1, r
<1> DEFINE c1 == AddNewBlock(c, new)
           c2 == AddToBlock(c1, new, r)
<1>9. /\ c1 \in Call /\ c1.ok /\ c1.disk.block[new] = << >> /\ c1.disk \in Disk
      /\ c1.node = [c.node EXCEPT !.i_blocks = Append(c.node.i_blocks, new)]
  BY <1>3, <1>7, AddNewBlockIs
<1>10. c1.node.i_blocks = Append(<< >>, new) /\ c1.node.i_mode = "dir"
  BY <1>3, <1>9 DEF Call, Inode
<1> HIDE DEF c1
<1>11. /\ c2 \in Call /\ c2.ok /\ c2.node = c1.node
       /\ c2.disk = WithBlock(c1.disk, new, Append(c1.disk.block[new], r))
  BY <1>6, <1>7, <1>9, AddToBlockIs
<1>12. c2.disk.block[new] = Append(<< >>, r)
  BY <1>7, <1>9, <1>11 DEF WithBlock, Disk
<1> HIDE DEF c2
<1>13. /\ a1 \in Call /\ a1.ok /\ a1.disk = c2.disk
       /\ a1.node.i_blocks = Append(<< >>, new) /\ a1.node.i_mode = "dir"
  <2>1. a1 = Counted(c2) /\ c2 \in Call
    BY <1>8, <1>11 DEF c1, c2
  <2>2. /\ a1 \in Call /\ a1.ok = c2.ok /\ a1.disk = c2.disk
        /\ a1.node.i_blocks = c2.node.i_blocks /\ a1.node.i_mode = c2.node.i_mode
    BY ONLY <2>1, CountedIs
  <2> QED
    BY <1>10, <1>11, <2>2
<1> DEFINE blocks == BlocksOf(a1.disk, a1.node)
<1>14. blocks \in Seq(Seq(Record)) /\ 1 \in DOMAIN blocks /\ blocks[1] = Append(<< >>, r)
  <2>1. a1.disk \in Disk /\ a1.node \in Inode
    BY <1>13 DEF Call
  <2>2. 1 \in DOMAIN a1.node.i_blocks /\ a1.node.i_blocks[1] = new
    BY <1>13
  <2> QED
    BY <1>12, <1>13, <2>1, <2>2, BlocksOfType
<1>15. HasRoom(blocks[1], "..")
  BY <1>6, <1>14, RoomForDots
<1>16. BlockWithRoom(blocks, "..") # 0
  <2> HIDE DEF blocks
  <2> QED
    BY <1>14, <1>15, FindsRoom
<1> DEFINE l == BlockWithRoom(blocks, "..")
           r2 == [inum |-> i, name |-> ".."]
<1>17. a2 = Counted(AddToBlock(a1, a1.node.i_blocks[l], r2))
  BY <1>13, <1>16 DEF add_directory_entry
<1>18. a2.ok
  BY <1>13, <1>17 DEF Counted, AddToBlock, Write, Call
<1>19. RootDir(d).ok
  <2> HIDE DEF a2
  <2> QED
    BY <1>4, <1>18 DEF Save, write_inode, Write
<1> QED
  BY <1>2, <1>19 DEF d
=============================================================================
