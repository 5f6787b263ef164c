-------------------------- MODULE InodeCacheProofs --------------------------
(***************************************************************************)
(* Proofs about the cache of inode numbers.  The list is described by the  *)
(* sequence of its entries (Chain); each operation is shown to turn one    *)
(* such sequence into another.  What look-ups need of a cache is Good; two *)
(* invariants, one for each workload of the runs, keep it.                 *)
(***************************************************************************)
EXTENDS InodeCache, NaturalFacts, FiniteSetTheorems, TLAPS

Heap == UNION {[L -> Entry] : L \in SUBSET Node}

\* A cache of the right type.
Cache ==
    {c \in [head : Pointer, tail : Pointer, size : Nat, live : SUBSET Node,
            map : [Bucket -> Pointer], heap : Heap, fault : BOOLEAN] :
        c.heap \in [c.live -> Entry]}

\* The list holds f[0], ..., f[n - 1] in this order.
Chain(c, n, f) ==
    /\ n \in Nat
    /\ f \in [0..(n - 1) -> c.live]
    /\ \A i, j \in 0..(n - 1) : f[i] = f[j] => i = j
    /\ \A m \in c.live : \E i \in 0..(n - 1) : f[i] = m
    /\ c.head = IF n = 0 THEN NULL ELSE f[0]
    /\ c.tail = IF n = 0 THEN NULL ELSE f[n - 1]
    /\ \A i \in 0..(n - 1) :
          /\ c.heap[f[i]].next = IF i = n - 1 THEN NULL ELSE f[i + 1]
          /\ c.heap[f[i]].prev = IF i = 0 THEN NULL ELSE f[i - 1]

\* The list has as many elements as there are live entries, no more than addresses.
LEMMA ChainLength ==
    ASSUME NEW c \in Cache, NEW n, NEW f, Chain(c, n, f)
    PROVE  /\ IsFiniteSet(c.live)
           /\ Cardinality(c.live) = n
           /\ n \in Nat
           /\ Cardinality(Node) \in Nat
           /\ n <= Cardinality(Node)
<1>1. n \in Nat /\ c.live \subseteq Node /\ IsFiniteSet(Node)
  BY CacheAssumption DEF Chain, Cache
<1>2. f \in Bijection(0..(n - 1), c.live)
  BY <1>1 DEF Chain, Bijection, Injection, Surjection, IsInjective
<1>3. IsFiniteSet(0..(n - 1)) /\ Cardinality(0..(n - 1)) = n
  BY <1>1, FS_Interval
<1>4. IsFiniteSet(c.live) /\ Cardinality(c.live) = n
  BY <1>2, <1>3, FS_Bijection DEF ExistsBijection
<1>5. Cardinality(c.live) <= Cardinality(Node)
  BY <1>1, FS_Subset
<1> QED
  BY <1>1, <1>4, <1>5, FS_CardinalityType

\* Walking from the j-th element meets the ones behind it and then stays at NULL.
LEMMA WalkIs ==
    ASSUME NEW c \in Cache, NEW n, NEW f, Chain(c, n, f),
           NEW j \in 0..n, NEW start, start = IF j = n THEN NULL ELSE f[j]
    PROVE  /\ DOMAIN Walk(c, start) = 0..Cardinality(Node)
           /\ \A i \in 0..Cardinality(Node) :
                 Walk(c, start)[i] = IF j + i < n THEN f[j + i] ELSE NULL
<1> DEFINE N == Cardinality(Node)
           body(g, i) == IF i = 0 THEN start
                         ELSE IF g[i - 1] \in c.live THEN c.heap[g[i - 1]].next ELSE g[i - 1]
           at == CHOOSE g : g = [i \in 0..N |-> body(g, i)]
           val(i) == IF j + i < n THEN f[j + i] ELSE NULL
           w == [i \in 0..N |-> val(i)]
<1>1. N \in Nat /\ n \in Nat /\ n <= N
  BY ChainLength
<1>2. NULL \notin c.live /\ c.live \subseteq Node
  BY CacheAssumption DEF Cache
<1>3. \A i \in 0..(n - 1) : /\ f[i] \in c.live
                            /\ c.heap[f[i]].next = IF i = n - 1 THEN NULL ELSE f[i + 1]
  BY DEF Chain
<1>4. val(0) = start
  BY <1>1
<1>5. ASSUME NEW i \in Nat
      PROVE  val(i + 1) = IF val(i) \in c.live THEN c.heap[val(i)].next ELSE val(i)
  <2>1. CASE j + i < n
    <3>1. j + i \in 0..(n - 1)
      BY <1>1, <2>1
    <3>2. val(i) \in c.live /\ c.heap[val(i)].next = IF j + i = n - 1 THEN NULL ELSE f[(j + i) + 1]
      BY <1>3, <2>1, <3>1
    <3>3. (j + i) + 1 = j + (i + 1)
      BY <1>1
    <3> QED
      BY <1>1, <2>1, <3>2, <3>3
  <2>2. CASE ~ (j + i < n)
    BY <1>1, <1>2, <2>2
  <2> QED
    BY <2>1, <2>2
<1> HIDE DEF val
<1>6. w = [i \in 0..N |-> body(w, i)]
  <2>1. ASSUME NEW i \in 0..N PROVE val(i) = body(w, i)
    <3>1. CASE i = 0
      BY <1>4, <3>1
    <3>2. CASE i # 0
      <4>1. i - 1 \in 0..N /\ i - 1 \in Nat /\ (i - 1) + 1 = i
        BY <1>1, <3>2
      <4>2. w[i - 1] = val(i - 1)
        BY <4>1
      <4>3. val((i - 1) + 1) = IF val(i - 1) \in c.live THEN c.heap[val(i - 1)].next ELSE val(i - 1)
        BY <1>5, <4>1
      <4> HIDE DEF w
      <4> QED
        BY <3>2, <4>1, <4>2, <4>3
    <3> QED
      BY <3>1, <3>2
  <2> HIDE DEF body
  <2> QED
    BY <2>1
<1>7. at = [i \in 0..N |-> body(at, i)]
  <2> HIDE DEF body, w
  <2> QED
    BY <1>6
<1>8. Walk(c, start) = at
  BY DEF Walk
<1> HIDE DEF at
<1>9. \A i \in 0..N : at[i] = body(at, i)
  <2> HIDE DEF body
  <2> QED
    BY <1>7
<1>10. \A i \in 0..N : at[i] = val(i)
  <2> DEFINE S == {i \in Nat : i <= N => at[i] = val(i)}
  <2>1. 0 \in S
    <3>1. at[0] = start
      BY <1>1, <1>9
    <3> QED
      BY <1>4, <3>1
  <2>2. ASSUME NEW i \in Nat, i \in S PROVE i + 1 \in S
    <3> SUFFICES ASSUME i + 1 <= N PROVE at[i + 1] = val(i + 1)
      OBVIOUS
    <3>1. at[i] = val(i) /\ i + 1 \in 0..N /\ (i + 1) - 1 = i /\ i + 1 # 0
      BY <1>1, <2>2
    <3>2. at[i + 1] = body(at, i + 1)
      BY <1>9, <3>1
    <3> QED
      BY <1>5, <3>1, <3>2
  <2>3. Nat \subseteq S
    <3> HIDE DEF S
    <3> QED
      BY <2>1, <2>2, SetInduction
  <2> QED
    BY <1>1, <2>3
<1> QED
  <2> HIDE DEF body
  <2>1. DOMAIN at = 0..N
    BY <1>7
  <2> QED
    BY <1>8, <1>10, <2>1 DEF val

\* The outcome of a search for the key from start on.
EndsAt(c, start, key, s) ==
    /\ s = [ok |-> TRUE, node |-> s.node]
    /\ s.node \in c.live \cup {NULL}
    /\ s.node \in c.live => c.heap[s.node].key = key
    /\ (start = NULL \/ c.heap[start].key = key) => s.node = start

\* A search that starts at a live entry or at NULL ends, at NULL or at an entry
\* with the key.
LEMMA FindIs ==
    ASSUME NEW c \in Cache, NEW n, NEW f, Chain(c, n, f),
           NEW start \in c.live \cup {NULL}, NEW key,
           NEW s, s = Find(c, start, key)
    PROVE  EndsAt(c, start, key, s)
<1> DEFINE at == Walk(c, start)
           N == Cardinality(Node)
           stops == {i \in DOMAIN at : at[i] \in c.live => c.heap[at[i]].key = key}
<1>1. N \in Nat /\ n \in Nat /\ n <= N
  BY ChainLength
<1>2. PICK j \in 0..n : start = IF j = n THEN NULL ELSE f[j]
  <2>1. CASE start = NULL
    <3>1. n \in 0..n
      BY <1>1
    <3> QED
      BY <2>1, <3>1
  <2>2. CASE start \in c.live
    <3>1. PICK j \in 0..(n - 1) : f[j] = start
      BY <2>2 DEF Chain
    <3>2. j \in 0..n /\ j # n
      BY <1>1, <3>1
    <3> QED
      BY <3>1, <3>2
  <2> QED
    BY <2>1, <2>2
<1>3. /\ DOMAIN at = 0..N
      /\ \A i \in 0..N : at[i] = IF j + i < n THEN f[j + i] ELSE NULL
  BY <1>2, WalkIs
<1>4. Find(c, start, key) = IF stops = {} THEN [ok |-> FALSE, node |-> NULL]
                            ELSE [ok |-> at[Min(stops)] \in c.live \cup {NULL},
                                  node |-> at[Min(stops)]]
  BY DEF Find
<1>5. NULL \notin c.live
  BY CacheAssumption DEF Cache
<1> HIDE DEF at
<1>6. n - j \in stops
  <2>1. n - j \in 0..N /\ ~ (j + (n - j) < n)
    BY <1>1
  <2> QED
    BY <1>3, <1>5, <2>1
<1>7. Min(stops) \in stops /\ stops \subseteq Nat /\ \A i \in stops : Min(stops) <= i
  <2>1. stops \subseteq Nat
    BY <1>1, <1>3
  <2> HIDE DEF stops
  <2>2. \E x \in stops : \A y \in stops : x <= y
    BY <1>6, <2>1, LeastElement
  <2> QED
    BY <2>1, <2>2 DEF Min
<1>8. \A i \in 0..N : at[i] \in c.live \cup {NULL}
  <2>1. \A i \in 0..(n - 1) : f[i] \in c.live
    BY DEF Chain
  <2> QED
    BY <1>1, <1>3, <2>1
<1>9. Find(c, start, key) = [ok |-> TRUE, node |-> at[Min(stops)]]
  BY <1>3, <1>4, <1>6, <1>7, <1>8
<1>10. Min(stops) \in 0..N
  BY <1>3, <1>7
<1>11. ASSUME start = NULL \/ c.heap[start].key = key PROVE at[Min(stops)] = start
  <2>1. at[0] = start
    BY <1>1, <1>2, <1>3
  <2>2. 0 \in stops
    BY <1>1, <1>3, <1>5, <1>11, <2>1
  <2> HIDE DEF stops
  <2>3. Min(stops) = 0
    BY <1>7, <2>2
  <2> QED
    BY <2>1, <2>3
<1> DEFINE m == at[Min(stops)]
<1>12. m \in c.live \cup {NULL}
  BY <1>8, <1>10
<1>13. m \in c.live => c.heap[m].key = key
  <2>1. Min(stops) \in stops
    BY <1>7
  <2> QED
    BY <2>1
<1>14. Find(c, start, key) = [ok |-> TRUE, node |-> m]
  BY <1>9
<1>15. (start = NULL \/ c.heap[start].key = key) => m = start
  BY <1>11
<1> HIDE DEF m
<1> QED
  BY <1>12, <1>13, <1>14, <1>15 DEF EndsAt

\* The list can be walked from its head to its end, which is what freeing it does.
LEMMA FlushIs ==
    ASSUME NEW c \in Cache, NEW n, NEW f, Chain(c, n, f), ~ c.fault
    PROVE  flush_inode_cache(c) = EmptyCache
<1>1. Cardinality(Node) \in Nat /\ n \in Nat /\ n <= Cardinality(Node)
  BY ChainLength
<1>2. c.head = IF 0 = n THEN NULL ELSE f[0]
  BY DEF Chain
<1>3. Walk(c, c.head)[Cardinality(Node)] = IF 0 + Cardinality(Node) < n THEN f[0 + Cardinality(Node)] ELSE NULL
  <2>1. 0 \in 0..n
    BY <1>1
  <2>2. \A i \in 0..Cardinality(Node) : Walk(c, c.head)[i] = IF 0 + i < n THEN f[0 + i] ELSE NULL
    BY <1>2, <2>1, WalkIs
  <2> QED
    BY <1>1, <2>2
<1>4. Walk(c, c.head)[Cardinality(Node)] = NULL
  BY <1>1, <1>3
<1> QED
  BY <1>4 DEF flush_inode_cache

-----------------------------------------------------------------------------
(* What the operations do to the list *)

\* The fields of a cache.
LEMMA CacheFields ==
    ASSUME NEW c \in Cache
    PROVE  /\ c.head \in Pointer /\ c.tail \in Pointer /\ c.size \in Nat
           /\ c.live \subseteq Node /\ c.map \in [Bucket -> Pointer]
           /\ c.heap \in [c.live -> Entry] /\ c.fault \in BOOLEAN
BY DEF Cache

\* Neither the entries nor anything but their order changes from c to d.
Reordered(c, d) ==
    /\ d \in Cache
    /\ d.live = c.live /\ d.map = c.map /\ d.size = c.size /\ d.fault = c.fault
    /\ \A m \in c.live : /\ d.heap[m].key = c.heap[m].key
                         /\ d.heap[m].value = c.heap[m].value

\* The pointers after the j-th entry has become the first.
LEMMA MovedPointers ==
    ASSUME NEW c \in Cache, NEW n, NEW f, Chain(c, n, f), NEW j \in 1..(n - 1),
           NEW d, d = MoveToFront(c, f[j])
    PROVE  /\ Reordered(c, d)
           /\ d.head = f[j]
           /\ d.tail = IF j = n - 1 THEN f[j - 1] ELSE c.tail
           /\ \A m \in c.live :
                 /\ d.heap[m].next = IF m = f[j] THEN c.head
                                     ELSE IF m = f[j - 1] THEN c.heap[f[j]].next
                                     ELSE c.heap[m].next
                 /\ d.heap[m].prev = IF m = c.head THEN f[j]
                                     ELSE IF m = f[j] THEN NULL
                                     ELSE IF m = c.heap[f[j]].next THEN f[j - 1]
                                     ELSE c.heap[m].prev
<1> DEFINE x == f[j]
           prev == c.heap[x].prev
           next == c.heap[x].next
           cut == [c.heap EXCEPT ![prev].next = next]
           both == IF x = c.tail THEN cut ELSE [cut EXCEPT ![next].prev = prev]
           front == [both EXCEPT ![x].prev = NULL, ![x].next = c.head, ![c.head].prev = x]
<1>1. /\ n \in Nat /\ j \in 0..(n - 1) /\ j - 1 \in 0..(n - 1) /\ j # 0 /\ n # 0
      /\ \A i, k \in 0..(n - 1) : f[i] = f[k] => i = k
      /\ \A i \in 0..(n - 1) : f[i] \in c.live
  <2>1. n \in Nat /\ f \in [0..(n - 1) -> c.live]
    BY DEF Chain
  <2>2. \A i, k \in 0..(n - 1) : f[i] = f[k] => i = k
    BY DEF Chain
  <2> QED
    BY <2>1, <2>2
<1>2. /\ x \in c.live /\ prev = f[j - 1] /\ prev \in c.live /\ prev # x
      /\ c.head = f[0] /\ c.head \in c.live /\ c.head # x
      /\ next = IF j = n - 1 THEN NULL ELSE f[j + 1]
      /\ x = c.tail <=> j = n - 1
      /\ x # c.tail => next \in c.live /\ next # x /\ next # prev /\ next # c.head
  <2>1. 0 \in 0..(n - 1) /\ n - 1 \in 0..(n - 1) /\ (j # n - 1 => j + 1 \in 0..(n - 1))
    BY <1>1
  <2>2. /\ prev = f[j - 1] /\ next = IF j = n - 1 THEN NULL ELSE f[j + 1]
        /\ c.head = f[0] /\ c.tail = f[n - 1]
    BY <1>1 DEF Chain
  <2> HIDE DEF prev, next
  <2> QED
    BY <1>1, <2>1, <2>2
<1>3. /\ c.heap \in [c.live -> Entry] /\ c.live \subseteq Node /\ NULL \notin c.live
      /\ Pointer = Node \cup {NULL} /\ c.tail \in Pointer
  BY CacheFields, CacheAssumption DEF Pointer
<1>4. next \in Pointer /\ prev \in Pointer
  BY <1>2, <1>3 DEF Entry
<1> HIDE DEF prev, next
<1>5. /\ cut \in [c.live -> Entry]
      /\ \A m \in c.live : /\ cut[m].next = IF m = prev THEN next ELSE c.heap[m].next
                           /\ cut[m].prev = c.heap[m].prev
                           /\ cut[m].key = c.heap[m].key /\ cut[m].value = c.heap[m].value
  BY <1>2, <1>3, <1>4 DEF Entry
<1> HIDE DEF cut
<1>6. /\ both \in [c.live -> Entry]
      /\ \A m \in c.live : /\ both[m].next = cut[m].next
                           /\ both[m].prev = IF m = next /\ x # c.tail THEN prev ELSE cut[m].prev
                           /\ both[m].key = c.heap[m].key /\ both[m].value = c.heap[m].value
  BY <1>2, <1>3, <1>4, <1>5 DEF Entry
<1> HIDE DEF both
<1>7. /\ front \in [c.live -> Entry]
      /\ \A m \in c.live : /\ front[m].next = IF m = x THEN c.head ELSE both[m].next
                           /\ front[m].prev = IF m = c.head THEN x
                                              ELSE IF m = x THEN NULL ELSE both[m].prev
                           /\ front[m].key = c.heap[m].key /\ front[m].value = c.heap[m].value
  <2> DEFINE back == [both EXCEPT ![x].prev = NULL]
             forth == [back EXCEPT ![x].next = c.head]
  <2>1. front = [forth EXCEPT ![c.head].prev = x]
    OBVIOUS
  <2>2. /\ back \in [c.live -> Entry]
        /\ \A m \in c.live : /\ back[m].next = both[m].next
                             /\ back[m].prev = IF m = x THEN NULL ELSE both[m].prev
                             /\ back[m].key = c.heap[m].key /\ back[m].value = c.heap[m].value
    BY <1>2, <1>3, <1>4, <1>6 DEF Entry
  <2> HIDE DEF back
  <2>3. /\ forth \in [c.live -> Entry]
        /\ \A m \in c.live : /\ forth[m].next = IF m = x THEN c.head ELSE both[m].next
                             /\ forth[m].prev = IF m = x THEN NULL ELSE both[m].prev
                             /\ forth[m].key = c.heap[m].key /\ forth[m].value = c.heap[m].value
    BY <1>2, <1>3, <1>4, <2>2 DEF Entry
  <2> HIDE DEF forth, front
  <2> QED
    BY <1>2, <1>3, <1>4, <2>1, <2>3 DEF Entry
<1>8. d.heap = front /\ d.head = x /\ d.tail = (IF x = c.tail THEN prev ELSE c.tail)
      /\ d \in [head : Pointer, tail : Pointer, size : {c.size}, live : {c.live},
                map : {c.map}, heap : {front}, fault : {c.fault}]
  <2> DEFINE out == Detach(c, x)
  <2>1. out.heap = both /\ out.head = c.head /\ out.tail = (IF x = c.tail THEN prev ELSE c.tail)
        /\ out \in [head : Pointer, tail : Pointer, size : {c.size}, live : {c.live},
                map : {c.map}, heap : {both}, fault : {c.fault}]
    <3>1. out = IF x = c.tail THEN [c EXCEPT !.heap = cut, !.tail = prev]
                ELSE [c EXCEPT !.heap = [cut EXCEPT ![next].prev = prev]]
      BY DEF Detach, cut, prev, next
    <3>2. c \in [head : Pointer, tail : Pointer, size : {c.size}, live : {c.live},
                 map : {c.map}, heap : {c.heap}, fault : {c.fault}]
      BY DEF Cache
    <3> HIDE DEF out
    <3> QED
      BY <1>3, <1>4, <3>1, <3>2 DEF both
  <2>2. d = [out EXCEPT !.heap = [@ EXCEPT ![x].prev = NULL, ![x].next = c.head,
                                           ![c.head].prev = x],
                        !.head = x]
    BY <1>2 DEF MoveToFront, prev, next
  <2> HIDE DEF out, front
  <2>3. d = [out EXCEPT !.heap = front, !.head = x]
    BY <2>1, <2>2 DEF front
  <2> QED
    BY <1>2, <1>3, <2>1, <2>3
<1> HIDE DEF front
<1>9. Reordered(c, d)
  <2>1. front \in Heap
    BY <1>3, <1>7 DEF Heap
  <2>2. d \in Cache
    BY <1>3, <1>7, <1>8, <2>1, CacheFields DEF Cache
  <2> QED
    BY <1>7, <1>8, <2>2 DEF Reordered
<1>10. ASSUME NEW m \in c.live
       PROVE  /\ d.heap[m].next = IF m = x THEN c.head ELSE IF m = prev THEN next ELSE c.heap[m].next
              /\ d.heap[m].prev = IF m = c.head THEN x
                                  ELSE IF m = x THEN NULL
                                  ELSE IF m = next THEN prev
                                  ELSE c.heap[m].prev
  BY <1>2, <1>3, <1>5, <1>6, <1>7, <1>8
<1> QED
  BY <1>2, <1>8, <1>9, <1>10 DEF prev, next

\* An entry that is found becomes the first of the list; the others keep their order.
LEMMA Moved ==
    ASSUME NEW c \in Cache, NEW n, NEW f, Chain(c, n, f), NEW x \in c.live,
           NEW d, d = MoveToFront(c, x)
    PROVE  /\ Reordered(c, d)
           /\ \E g : Chain(d, n, g)
<1>1. PICK j \in 0..(n - 1) : f[j] = x
  BY DEF Chain
<1>2. /\ n \in Nat /\ n # 0
      /\ \A i, k \in 0..(n - 1) : f[i] = f[k] => i = k
      /\ \A i \in 0..(n - 1) : f[i] \in c.live
      /\ \A m \in c.live : \E i \in 0..(n - 1) : f[i] = m
  <2>1. n \in Nat /\ f \in [0..(n - 1) -> c.live]
    BY DEF Chain
  <2>2. /\ \A i, k \in 0..(n - 1) : f[i] = f[k] => i = k
        /\ \A m \in c.live : \E i \in 0..(n - 1) : f[i] = m
    BY DEF Chain
  <2> QED
    BY <2>1, <2>2
<1>0. n \in Nat /\ n # 0
  BY <1>2
<1>3. NULL \notin c.live
  BY CacheFields, CacheAssumption
<1>4. c.head = f[0] /\ c.tail = f[n - 1]
  BY <1>2 DEF Chain
<1>5. CASE j = 0
  <2>1. d = c
    BY <1>1, <1>4, <1>5 DEF MoveToFront
  <2> QED
    BY <2>1 DEF Reordered
<1>6. CASE j # 0
  <2> DEFINE g == [i \in 0..(n - 1) |-> IF i = 0 THEN f[j] ELSE IF i <= j THEN f[i - 1] ELSE f[i]]
  <2>1. j \in 1..(n - 1)
    BY <1>0, <1>6
  <2>0. ASSUME NEW i \in 0..(n - 1)
        PROVE  /\ i = 0 => g[i] = f[j]
               /\ i # 0 /\ i <= j => g[i] = f[i - 1]
               /\ ~ (i <= j) => g[i] = f[i]
    BY <1>0, <2>1
  <2>2. /\ Reordered(c, d)
        /\ d.head = f[j]
        /\ d.tail = IF j = n - 1 THEN f[j - 1] ELSE c.tail
        /\ \A m \in c.live :
              /\ d.heap[m].next = IF m = f[j] THEN c.head
                                  ELSE IF m = f[j - 1] THEN c.heap[f[j]].next
                                  ELSE c.heap[m].next
              /\ d.heap[m].prev = IF m = c.head THEN f[j]
                                  ELSE IF m = f[j] THEN NULL
                                  ELSE IF m = c.heap[f[j]].next THEN f[j - 1]
                                  ELSE c.heap[m].prev
    BY <1>1, <2>1, MovedPointers
  <2>3. \A i \in 0..(n - 1) : /\ c.heap[f[i]].next = IF i = n - 1 THEN NULL ELSE f[i + 1]
                              /\ c.heap[f[i]].prev = IF i = 0 THEN NULL ELSE f[i - 1]
    BY DEF Chain
  <2>4. d.live = c.live
    BY <2>2 DEF Reordered
  <2>5. g \in [0..(n - 1) -> d.live]
    BY <1>2, <2>1, <2>4
  <2>6. \A i, k \in 0..(n - 1) : g[i] = g[k] => i = k
    <3> SUFFICES ASSUME NEW i \in 0..(n - 1), NEW k \in 0..(n - 1), g[i] = g[k] PROVE i = k
      OBVIOUS
    <3> DEFINE at(y) == IF y = 0 THEN j ELSE IF y <= j THEN y - 1 ELSE y
    <3>1. at(i) \in 0..(n - 1) /\ at(k) \in 0..(n - 1) /\ g[i] = f[at(i)] /\ g[k] = f[at(k)]
      BY <1>2, <2>1
    <3>2. at(i) = at(k)
      <4> HIDE DEF at, g
      <4> QED
        BY <1>2, <3>1
    <3> QED
      BY <1>2, <2>1, <3>2
  <2>7. ASSUME NEW m \in d.live PROVE \E i \in 0..(n - 1) : g[i] = m
    <3>1. PICK k \in 0..(n - 1) : f[k] = m
      BY <1>2, <2>4
    <3> DEFINE i == IF k = j THEN 0 ELSE IF k < j THEN k + 1 ELSE k
    <3>2. i \in 0..(n - 1)
      BY <1>2, <2>1
    <3>3. g[i] = f[k]
      <4>1. CASE k = j
        BY <2>0, <3>2, <4>1
      <4>2. CASE k < j
        <5>1. i = k + 1 /\ i # 0 /\ i <= j /\ i - 1 = k
          BY <1>0, <2>1, <4>2
        <5> HIDE DEF i, g
        <5> QED
          BY <2>0, <3>2, <5>1
      <4>3. CASE k > j
        <5>1. i = k /\ ~ (i <= j)
          BY <1>0, <2>1, <4>3
        <5> HIDE DEF i, g
        <5> QED
          BY <2>0, <3>2, <5>1
      <4> QED
        BY <1>0, <2>1, <4>1, <4>2, <4>3
    <3> QED
      BY <3>1, <3>2, <3>3
  <2>8. d.head = g[0] /\ d.tail = g[n - 1]
    BY <1>2, <1>4, <2>1, <2>2
  <2>9. ASSUME NEW i \in 0..(n - 1)
        PROVE  d.heap[g[i]].next = IF i = n - 1 THEN NULL ELSE g[i + 1]
    <3>1. CASE i = 0
      <4>1. g[i] = f[j] /\ i # n - 1 /\ g[i + 1] = f[0]
        BY <1>2, <2>1, <3>1
      <4>2. f[j] \in c.live
        BY <1>2
      <4> HIDE DEF g
      <4> QED
        BY <1>4, <2>2, <4>1, <4>2
    <3>2. CASE i \in 1..(j - 1)
      <4>1. /\ g[i] = f[i - 1] /\ i # n - 1 /\ g[i + 1] = f[(i - 1) + 1]
            /\ i - 1 \in 0..(n - 1) /\ i - 1 # j /\ i - 1 # j - 1 /\ j - 1 \in 0..(n - 1) /\ i - 1 # n - 1
        <5>1. /\ i # n - 1 /\ i - 1 \in 0..(n - 1) /\ i - 1 # j /\ i - 1 # j - 1
              /\ j - 1 \in 0..(n - 1) /\ i - 1 # n - 1 /\ i # 0 /\ i <= j
              /\ i + 1 \in 0..(n - 1) /\ i + 1 # 0 /\ i + 1 <= j /\ (i + 1) - 1 = (i - 1) + 1
          BY <1>0, <2>1, <3>2
        <5>2. g[i] = f[i - 1] /\ g[i + 1] = f[(i + 1) - 1]
          <6> HIDE DEF g
          <6> QED
            BY <2>0, <5>1
        <5> HIDE DEF g
        <5> QED
          BY <5>1, <5>2
      <4>2. f[i - 1] # f[j] /\ f[i - 1] # f[j - 1] /\ f[i - 1] \in c.live
        BY <1>2, <4>1
      <4>3. c.heap[f[i - 1]].next = f[(i - 1) + 1]
        BY <2>3, <4>1
      <4> HIDE DEF g
      <4> QED
        BY <2>2, <4>1, <4>2, <4>3
    <3>3. CASE i = j
      <4>1. /\ g[i] = f[j - 1] /\ (i # n - 1 => g[i + 1] = f[j + 1])
            /\ j - 1 \in 0..(n - 1) /\ j - 1 # j
        BY <1>2, <2>1, <3>3
      <4>2. f[j - 1] # f[j] /\ f[j - 1] \in c.live
        BY <1>2, <4>1
      <4>3. c.heap[f[j]].next = IF j = n - 1 THEN NULL ELSE f[j + 1]
        BY <2>3
      <4> HIDE DEF g
      <4> QED
        BY <2>2, <3>3, <4>1, <4>2, <4>3
    <3>4. CASE i > j
      <4>1. /\ g[i] = f[i] /\ (i # n - 1 => g[i + 1] = f[i + 1])
            /\ i # j /\ i # j - 1 /\ j - 1 \in 0..(n - 1)
        <5>1. /\ i # j /\ i # j - 1 /\ j - 1 \in 0..(n - 1) /\ ~ (i <= j) /\ ~ (i + 1 <= j)
              /\ i # n - 1 => i + 1 \in 0..(n - 1)
          BY <1>0, <2>1, <3>4
        <5> HIDE DEF g
        <5> QED
          BY <2>0, <5>1
      <4>2. f[i] # f[j] /\ f[i] # f[j - 1] /\ f[i] \in c.live
        BY <1>2, <4>1
      <4> HIDE DEF g
      <4> QED
        BY <2>2, <2>3, <4>1, <4>2
    <3> QED
      BY <1>2, <2>1, <3>1, <3>2, <3>3, <3>4
  <2>10. ASSUME NEW i \in 0..(n - 1)
         PROVE  d.heap[g[i]].prev = IF i = 0 THEN NULL ELSE g[i - 1]
    <3>0. /\ 0 \in 0..(n - 1)
          /\ c.heap[f[j]].next = IF j = n - 1 THEN NULL ELSE f[j + 1]
          /\ j # n - 1 => j + 1 \in 0..(n - 1)
      BY <1>2, <2>3
    <3>1. CASE i = 0
      <4>1. g[i] = f[j]
        BY <3>1
      <4>2. f[j] \in c.live /\ f[j] # f[0]
        BY <1>2, <1>6, <3>0
      <4> HIDE DEF g
      <4> QED
        BY <1>4, <2>2, <3>1, <4>1, <4>2
    <3>2. CASE i = 1
      <4>1. g[i] = f[0] /\ g[i - 1] = f[j]
        BY <1>2, <2>1, <3>2
      <4>2. f[0] \in c.live
        BY <1>2, <3>0
      <4> HIDE DEF g
      <4> QED
        BY <1>4, <2>2, <3>2, <4>1, <4>2
    <3>3. CASE i \in 2..j
      <4>1. /\ g[i] = f[i - 1] /\ g[i - 1] = f[(i - 1) - 1]
            /\ i - 1 \in 0..(n - 1) /\ i - 1 # 0 /\ i - 1 # j /\ i - 1 # j + 1
        <5>1. /\ i - 1 \in 0..(n - 1) /\ i - 1 # 0 /\ i - 1 # j /\ i - 1 # j + 1
              /\ i # 0 /\ i <= j /\ i - 1 <= j
          BY <1>0, <2>1, <3>3
        <5> HIDE DEF g
        <5> QED
          BY <2>0, <5>1
      <4>2. /\ f[i - 1] # f[0] /\ f[i - 1] # f[j] /\ f[i - 1] \in c.live
            /\ j # n - 1 => f[i - 1] # f[j + 1]
        BY <1>2, <3>0, <4>1
      <4>3. c.heap[f[i - 1]].prev = f[(i - 1) - 1] /\ f[i - 1] # c.heap[f[j]].next
        BY <1>3, <2>3, <3>0, <4>1, <4>2
      <4> HIDE DEF g
      <4> QED
        BY <1>4, <2>2, <3>3, <4>1, <4>2, <4>3
    <3>4. CASE i = j + 1
      <4>1. g[i] = f[j + 1] /\ g[i - 1] = f[j - 1] /\ j # n - 1 /\ i # 0
        <5>1. /\ j # n - 1 /\ i # 0 /\ ~ (i <= j) /\ i - 1 = j /\ i - 1 \in 0..(n - 1)
              /\ i - 1 # 0 /\ i - 1 <= j
          BY <1>0, <2>1, <3>4
        <5> HIDE DEF g
        <5> QED
          BY <2>0, <3>4, <5>1
      <4>2. f[j + 1] # f[0] /\ f[j + 1] # f[j] /\ f[j + 1] \in c.live
        BY <1>2, <2>1, <3>0, <4>1
      <4> HIDE DEF g
      <4> QED
        BY <1>4, <2>2, <3>0, <4>1, <4>2
    <3>5. CASE i > j + 1
      <4>1. g[i] = f[i] /\ g[i - 1] = f[i - 1] /\ i # 0 /\ i # j /\ i # j + 1
        <5>1. /\ i # 0 /\ i # j /\ i # j + 1 /\ ~ (i <= j) /\ i - 1 \in 0..(n - 1) /\ ~ (i - 1 <= j)
          BY <1>0, <2>1, <3>5
        <5> HIDE DEF g
        <5> QED
          BY <2>0, <5>1
      <4>2. /\ f[i] # f[0] /\ f[i] # f[j] /\ f[i] \in c.live
            /\ j # n - 1 => f[i] # f[j + 1]
        BY <1>2, <3>0, <4>1
      <4>3. f[i] # c.heap[f[j]].next
        BY <1>3, <3>0, <4>2
      <4> HIDE DEF g
      <4> QED
        BY <1>4, <2>2, <2>3, <4>1, <4>2, <4>3
    <3> QED
      BY <1>2, <2>1, <3>1, <3>2, <3>3, <3>4, <3>5
  <2> HIDE DEF g
  <2>11. Chain(d, n, g)
    BY <1>2, <2>5, <2>6, <2>7, <2>8, <2>9, <2>10 DEF Chain
  <2> QED
    BY <2>2, <2>11
<1> QED
  BY <1>5, <1>6

\* d has the entries of c but x.
Dropped(c, d, x) ==
    /\ d \in Cache
    /\ d.live = c.live \ {x} /\ d.map = c.map /\ d.size = c.size /\ d.fault = c.fault
    /\ \A m \in d.live : /\ d.heap[m].key = c.heap[m].key
                         /\ d.heap[m].value = c.heap[m].value

\* Deleting an entry that is not the only one leaves the others in their order.
LEMMA Deleted ==
    ASSUME NEW c \in Cache, NEW n, NEW f, Chain(c, n, f), n > 1, NEW x \in c.live,
           NEW d, d = delete_node(c, x)
    PROVE  /\ Dropped(c, d, x)
           /\ \E g : Chain(d, n - 1, g)
<1>1. PICK j \in 0..(n - 1) : f[j] = x
  BY DEF Chain
<1>2. /\ n \in Nat /\ n - 1 \in Nat /\ n - 1 # 0 /\ (n - 1) - 1 = n - 2
      /\ \A i, k \in 0..(n - 1) : f[i] = f[k] => i = k
      /\ \A i \in 0..(n - 1) : f[i] \in c.live
      /\ \A m \in c.live : \E i \in 0..(n - 1) : f[i] = m
  <2>1. n \in Nat /\ f \in [0..(n - 1) -> c.live]
    BY DEF Chain
  <2>2. /\ \A i, k \in 0..(n - 1) : f[i] = f[k] => i = k
        /\ \A m \in c.live : \E i \in 0..(n - 1) : f[i] = m
    BY DEF Chain
  <2> QED
    BY <2>1, <2>2
<1>0. n \in Nat
  BY <1>2
<1>3. /\ NULL \notin c.live /\ c.heap \in [c.live -> Entry] /\ c.live \subseteq Node
      /\ Pointer = Node \cup {NULL} /\ c.head \in Pointer /\ c.tail \in Pointer
  BY CacheFields, CacheAssumption DEF Pointer
<1>4. c.head = f[0] /\ c.tail = f[n - 1]
  BY <1>2 DEF Chain
<1>5. \A i \in 0..(n - 1) : /\ c.heap[f[i]].next = IF i = n - 1 THEN NULL ELSE f[i + 1]
                            /\ c.heap[f[i]].prev = IF i = 0 THEN NULL ELSE f[i - 1]
  BY DEF Chain
<1> DEFINE prev == c.heap[x].prev
           next == c.heap[x].next
           heap == [m \in c.live \ {x} |->
                       [c.heap[m] EXCEPT !.next = IF m = prev THEN next ELSE @,
                                         !.prev = IF m = next THEN prev ELSE @]]
<1>6. /\ next = (IF j = n - 1 THEN NULL ELSE f[j + 1])
      /\ prev = (IF j = 0 THEN NULL ELSE f[j - 1])
  BY <1>1, <1>5
<1>7. {prev, next} \subseteq c.live \cup {NULL} /\ prev \in Pointer /\ next \in Pointer
  <2>1. (j # n - 1 => j + 1 \in 0..(n - 1)) /\ (j # 0 => j - 1 \in 0..(n - 1))
    BY <1>2
  <2> HIDE DEF prev, next
  <2> QED
    BY <1>2, <1>3, <1>6, <2>1
<1>8. d = [c EXCEPT !.heap = heap, !.live = @ \ {x},
                    !.head = IF x = c.head THEN next ELSE @,
                    !.tail = IF x # c.head /\ x = c.tail THEN prev ELSE @]
  BY <1>7 DEF delete_node
<1> HIDE DEF prev, next
<1>9. /\ heap \in [c.live \ {x} -> Entry]
      /\ \A m \in c.live \ {x} : /\ heap[m].next = IF m = prev THEN next ELSE c.heap[m].next
                                 /\ heap[m].prev = IF m = next THEN prev ELSE c.heap[m].prev
                                 /\ heap[m].key = c.heap[m].key
                                 /\ heap[m].value = c.heap[m].value
  <2>1. ASSUME NEW m \in c.live \ {x}
        PROVE  /\ heap[m] \in Entry
               /\ heap[m].next = IF m = prev THEN next ELSE c.heap[m].next
               /\ heap[m].prev = IF m = next THEN prev ELSE c.heap[m].prev
               /\ heap[m].key = c.heap[m].key
               /\ heap[m].value = c.heap[m].value
    <3>1. heap[m] = [c.heap[m] EXCEPT !.next = IF m = prev THEN next ELSE @,
                                      !.prev = IF m = next THEN prev ELSE @]
      OBVIOUS
    <3>2. c.heap[m] \in Entry
      BY <1>3
    <3> HIDE DEF heap
    <3> QED
      BY <1>7, <3>1, <3>2 DEF Entry
  <2>2. heap = [m \in c.live \ {x} |-> heap[m]]
    OBVIOUS
  <2> HIDE DEF heap
  <2> QED
    BY <2>1, <2>2
<1> HIDE DEF heap
<1>10. /\ d.heap = heap /\ d.head = (IF x = c.head THEN next ELSE c.head)
       /\ d.tail = (IF x # c.head /\ x = c.tail THEN prev ELSE c.tail)
       /\ d.live = c.live \ {x}
       /\ d \in [head : Pointer, tail : Pointer, size : {c.size}, live : {c.live \ {x}},
                 map : {c.map}, heap : {heap}, fault : {c.fault}]
  <2>1. c \in [head : Pointer, tail : Pointer, size : {c.size}, live : {c.live},
                 map : {c.map}, heap : {c.heap}, fault : {c.fault}]
    BY DEF Cache
  <2> QED
    BY <1>3, <1>7, <1>8, <2>1
<1>11. Dropped(c, d, x)
  <2>1. heap \in Heap
    BY <1>3, <1>9 DEF Heap
  <2>2. d \in Cache
    BY <1>3, <1>9, <1>10, <2>1, CacheFields DEF Cache
  <2> QED
    BY <1>9, <1>10, <2>2 DEF Dropped
<1> DEFINE g == [i \in 0..(n - 2) |-> IF i < j THEN f[i] ELSE f[i + 1]]
           at(y) == IF y < j THEN y ELSE y + 1
<1>12. \A i \in 0..(n - 2) : g[i] = f[at(i)] /\ at(i) \in 0..(n - 1) /\ at(i) # j
  BY <1>2
<1>13. g \in [0..(n - 2) -> d.live]
  <2>1. \A i \in 0..(n - 2) : f[at(i)] \in d.live
    <3> HIDE DEF at, g
    <3> QED
      BY <1>1, <1>2, <1>10, <1>12
  <2> HIDE DEF at
  <2>2. \A i \in 0..(n - 2) : g[i] \in d.live
    BY <1>12, <2>1
  <2> QED
    BY <2>2
<1>14. \A i, k \in 0..(n - 2) : g[i] = g[k] => i = k
  <2> SUFFICES ASSUME NEW i \in 0..(n - 2), NEW k \in 0..(n - 2), g[i] = g[k] PROVE i = k
    OBVIOUS
  <2>1. at(i) = at(k)
    <3> HIDE DEF at, g
    <3> QED
      BY <1>2, <1>12
  <2> QED
    BY <1>2, <2>1
<1>15. ASSUME NEW m \in d.live PROVE \E i \in 0..(n - 2) : g[i] = m
  <2>1. PICK k \in 0..(n - 1) : f[k] = m
    BY <1>2, <1>10
  <2>2. k # j
    BY <1>1, <1>10, <2>1
  <2> DEFINE i == IF k < j THEN k ELSE k - 1
  <2>3. i \in 0..(n - 2)
    BY <1>2, <2>2
  <2>4. g[i] = f[k]
    <3>1. at(i) = k
      BY <1>0, <2>2
    <3> HIDE DEF g, at, i
    <3> QED
      BY <1>12, <2>3, <3>1
  <2> QED
    BY <2>1, <2>3, <2>4
<1>16. d.head = g[0]
  <2>1. (x = c.head) <=> (j = 0)
    BY <1>1, <1>2, <1>4
  <2>2. g[0] = IF j = 0 THEN f[1] ELSE f[0]
    BY <1>2
  <2> HIDE DEF g
  <2> QED
    BY <1>2, <1>4, <1>6, <1>10, <2>1, <2>2
<1>17. d.tail = g[n - 2]
  <2>1. /\ (x = c.head) <=> (j = 0)
        /\ (x = c.tail) <=> (j = n - 1)
    BY <1>1, <1>2, <1>4
  <2>2. g[n - 2] = IF j = n - 1 THEN f[j - 1] ELSE f[n - 1]
    <3>1. n - 2 \in 0..(n - 2) /\ at(n - 2) = IF j = n - 1 THEN j - 1 ELSE n - 1
      BY <1>0
    <3> HIDE DEF g, at
    <3> QED
      BY <1>12, <3>1
  <2> HIDE DEF g
  <2> QED
    BY <1>2, <1>4, <1>6, <1>10, <2>1, <2>2
<1>18. ASSUME NEW i \in 0..(n - 2)
       PROVE  d.heap[g[i]].next = IF i = n - 2 THEN NULL ELSE g[i + 1]
  <2>1. /\ g[i] \in c.live \ {x} /\ g[i] = f[at(i)] /\ at(i) \in 0..(n - 1) /\ at(i) # j
    BY <1>10, <1>12, <1>13
  <2>2. (g[i] = prev) <=> (at(i) = j - 1)
    <3>1. j # 0 => j - 1 \in 0..(n - 1)
      BY <1>2
    <3> HIDE DEF g, at
    <3> QED
      BY <1>2, <1>3, <1>6, <2>1, <3>1
  <2>3. d.heap[g[i]].next = IF g[i] = prev THEN next ELSE c.heap[g[i]].next
    BY <1>9, <1>10, <2>1
  <2>4. c.heap[g[i]].next = IF at(i) = n - 1 THEN NULL ELSE f[at(i) + 1]
    <3> HIDE DEF g, at
    <3> QED
      BY <1>5, <2>1
  <2>5. CASE i < j - 1
    <3>1. at(i) = i /\ i # n - 2 /\ at(i) # n - 1 /\ g[i + 1] = f[i + 1]
      BY <1>2, <2>5
    <3> HIDE DEF g, at
    <3> QED
      BY <1>2, <2>2, <2>3, <2>4, <2>5, <3>1
  <2>6. CASE i = j - 1
    <3>1. at(i) = j - 1 /\ (i = n - 2 <=> j = n - 1) /\ (i # n - 2 => g[i + 1] = f[j + 1])
      BY <1>2, <2>6
    <3> HIDE DEF g, at
    <3> QED
      BY <1>6, <2>2, <2>3, <3>1
  <2>7. CASE i > j - 1
    <3>1. at(i) = i + 1 /\ (i = n - 2 <=> i + 1 = n - 1) /\ (i # n - 2 => g[i + 1] = f[(i + 1) + 1]) /\ at(i) # j - 1
      BY <1>2, <2>7
    <3> HIDE DEF g, at
    <3> QED
      BY <2>2, <2>3, <2>4, <3>1
  <2> QED
    BY <1>2, <2>5, <2>6, <2>7
<1>19. ASSUME NEW i \in 0..(n - 2)
       PROVE  d.heap[g[i]].prev = IF i = 0 THEN NULL ELSE g[i - 1]
  <2>1. /\ g[i] \in c.live \ {x} /\ g[i] = f[at(i)] /\ at(i) \in 0..(n - 1) /\ at(i) # j
    BY <1>10, <1>12, <1>13
  <2>2. (g[i] = next) <=> (at(i) = j + 1)
    <3>1. j # n - 1 => j + 1 \in 0..(n - 1)
      BY <1>2
    <3>2. at(i) = j + 1 => j # n - 1
      BY <1>2
    <3> HIDE DEF g, at
    <3> QED
      BY <1>2, <1>3, <1>6, <2>1, <3>1, <3>2
  <2>3. d.heap[g[i]].prev = IF g[i] = next THEN prev ELSE c.heap[g[i]].prev
    BY <1>9, <1>10, <2>1
  <2>4. c.heap[g[i]].prev = IF at(i) = 0 THEN NULL ELSE f[at(i) - 1]
    <3> HIDE DEF g, at
    <3> QED
      BY <1>5, <2>1
  <2>5. CASE i < j
    <3>1. at(i) = i /\ at(i) # j + 1 /\ (i # 0 => g[i - 1] = f[i - 1])
      BY <1>2, <2>5
    <3> HIDE DEF g, at
    <3> QED
      BY <2>2, <2>3, <2>4, <3>1
  <2>6. CASE i = j
    <3>1. at(i) = j + 1 /\ (i # 0 => g[i - 1] = f[j - 1])
      BY <1>2, <2>6
    <3> HIDE DEF g, at
    <3> QED
      BY <1>6, <2>2, <2>3, <2>6, <3>1
  <2>7. CASE i > j
    <3>1. at(i) = i + 1 /\ at(i) # j + 1 /\ at(i) # 0 /\ g[i - 1] = f[at(i) - 1] /\ i # 0
      BY <1>2, <2>7
    <3> HIDE DEF g, at
    <3> QED
      BY <2>2, <2>3, <2>4, <3>1
  <2> QED
    BY <1>2, <2>5, <2>6, <2>7
<1> HIDE DEF g
<1>20. Chain(d, n - 1, g)
  BY <1>2, <1>13, <1>14, <1>15, <1>16, <1>17, <1>18, <1>19 DEF Chain
<1> QED
  BY <1>11, <1>20

\* A new entry at the front.
Pushed(c, d, key, value, id) ==
    /\ d \in Cache
    /\ d.live = c.live \cup {id} /\ d.map = c.map /\ d.size = c.size + 1 /\ d.fault = c.fault
    /\ d.heap[id].key = key /\ d.heap[id].value = value
    /\ \A m \in c.live : /\ d.heap[m].key = c.heap[m].key
                         /\ d.heap[m].value = c.heap[m].value

\* PushFront puts a new entry before the others, which keep their order.
LEMMA PushedFront ==
    ASSUME NEW c \in Cache, NEW n, NEW f, Chain(c, n, f),
           NEW key \in Path, NEW value \in Inum, NEW id \in Node \ c.live,
           NEW d, d = PushFront(c, key, value, id)
    PROVE  /\ Pushed(c, d, key, value, id)
           /\ d.tail = IF n = 0 THEN id ELSE c.tail
           /\ \E g : Chain(d, n + 1, g)
<1> DEFINE heap == [m \in c.live \cup {id} |->
                       IF m = id
                       THEN [key |-> key, value |-> value, prev |-> NULL, next |-> c.head]
                       ELSE [c.heap[m] EXCEPT !.prev = IF m = c.head THEN id ELSE @]]
<1>2. /\ n \in Nat /\ n + 1 \in Nat /\ n + 1 # 0 /\ (n + 1) - 1 = n
      /\ \A i, k \in 0..(n - 1) : f[i] = f[k] => i = k
      /\ \A i \in 0..(n - 1) : f[i] \in c.live
      /\ \A m \in c.live : \E i \in 0..(n - 1) : f[i] = m
  <2>1. n \in Nat /\ f \in [0..(n - 1) -> c.live]
    BY DEF Chain
  <2>2. /\ \A i, k \in 0..(n - 1) : f[i] = f[k] => i = k
        /\ \A m \in c.live : \E i \in 0..(n - 1) : f[i] = m
    BY DEF Chain
  <2> QED
    BY <2>1, <2>2
<1>0. n \in Nat
  BY <1>2
<1>3. /\ NULL \notin c.live /\ c.heap \in [c.live -> Entry] /\ c.live \subseteq Node
      /\ Pointer = Node \cup {NULL} /\ c.head \in Pointer /\ c.tail \in Pointer
      /\ id \in Pointer /\ id \notin c.live /\ id # NULL /\ NULL \in Pointer
  BY CacheFields, CacheAssumption DEF Pointer
<1>4. /\ c.head = IF n = 0 THEN NULL ELSE f[0]
      /\ c.tail = IF n = 0 THEN NULL ELSE f[n - 1]
  BY DEF Chain
<1>5. \A i \in 0..(n - 1) : /\ c.heap[f[i]].next = IF i = n - 1 THEN NULL ELSE f[i + 1]
                            /\ c.heap[f[i]].prev = IF i = 0 THEN NULL ELSE f[i - 1]
  BY DEF Chain
<1>6. d = [c EXCEPT !.heap = heap, !.live = @ \cup {id}, !.head = id,
                    !.tail = IF @ = NULL THEN id ELSE @, !.size = @ + 1]
  BY DEF PushFront
<1>7. /\ heap \in [c.live \cup {id} -> Entry]
      /\ heap[id] = [key |-> key, value |-> value, prev |-> NULL, next |-> c.head]
      /\ \A m \in c.live : /\ heap[m].next = c.heap[m].next
                           /\ heap[m].prev = IF m = c.head THEN id ELSE c.heap[m].prev
                           /\ heap[m].key = c.heap[m].key
                           /\ heap[m].value = c.heap[m].value
  BY <1>3 DEF Entry
<1> HIDE DEF heap
<1>8. c.size + 1 \in Nat
  BY CacheFields
<1>9. /\ d.heap = heap /\ d.head = id
      /\ d.tail = (IF c.tail = NULL THEN id ELSE c.tail)
      /\ d.live = c.live \cup {id}
      /\ d \in [head : Pointer, tail : Pointer, size : {c.size + 1}, live : {c.live \cup {id}},
                 map : {c.map}, heap : {heap}, fault : {c.fault}]
  <2>1. c \in [head : Pointer, tail : Pointer, size : {c.size}, live : {c.live},
                 map : {c.map}, heap : {c.heap}, fault : {c.fault}]
    BY DEF Cache
  <2> QED
    BY <1>3, <1>6, <2>1
<1>10. Pushed(c, d, key, value, id)
  <2>1. heap \in Heap
    <3>1. c.live \cup {id} \in SUBSET Node
      BY <1>3
    <3> QED
      BY <1>7, <3>1 DEF Heap
  <2>2. d \in Cache
    BY <1>3, <1>7, <1>8, <1>9, <2>1, CacheFields DEF Cache
  <2> QED
    BY <1>7, <1>9, <2>2 DEF Pushed
<1>11. d.tail = IF n = 0 THEN id ELSE c.tail
  <2>1. (c.tail = NULL) <=> (n = 0)
    BY <1>2, <1>3, <1>4
  <2> QED
    BY <1>9, <2>1
<1> DEFINE g == [i \in 0..n |-> IF i = 0 THEN id ELSE f[i - 1]]
<1>12. \A i \in 0..n : i # 0 => g[i] = f[i - 1] /\ i - 1 \in 0..(n - 1) /\ g[i] \in c.live
  BY <1>2
<1>13. g[0] = id
  BY <1>2
<1>14. g \in [0..n -> d.live]
  BY <1>9, <1>12, <1>13
<1>15. \A i, k \in 0..n : g[i] = g[k] => i = k
  <2> HIDE DEF g
  <2> SUFFICES ASSUME NEW i \in 0..n, NEW k \in 0..n, g[i] = g[k] PROVE i = k
    OBVIOUS
  <2>1. CASE i # 0 /\ k # 0
    <3>1. i - 1 = k - 1
      BY <1>2, <1>12, <2>1
    <3> QED
      BY <1>2, <3>1
  <2>2. CASE i = 0 \/ k = 0
    BY <1>3, <1>12, <1>13, <2>2
  <2> QED
    BY <2>1, <2>2
<1>16. ASSUME NEW m \in d.live PROVE \E i \in 0..n : g[i] = m
  <2>1. CASE m = id
    BY <1>2, <1>13, <2>1
  <2>2. CASE m \in c.live
    <3>1. PICK k \in 0..(n - 1) : f[k] = m
      BY <1>2, <2>2
    <3>2. k + 1 \in 0..n /\ k + 1 # 0 /\ (k + 1) - 1 = k
      BY <1>2
    <3> HIDE DEF g
    <3> QED
      BY <1>12, <3>1, <3>2
  <2> QED
    BY <1>9, <2>1, <2>2
<1>17. d.head = g[0] /\ d.tail = g[n]
  <2>1. n # 0 => g[n] = f[n - 1]
    BY <1>2
  <2> HIDE DEF g
  <2> QED
    BY <1>4, <1>9, <1>11, <1>13, <2>1
<1>18. ASSUME NEW i \in 0..n
       PROVE  /\ d.heap[g[i]].next = IF i = n THEN NULL ELSE g[i + 1]
              /\ d.heap[g[i]].prev = IF i = 0 THEN NULL ELSE g[i - 1]
  <2>1. CASE i = 0
    <3>1. n # 0 => g[i + 1] = f[0]
      BY <1>2, <2>1
    <3>2. d.heap[g[i]].next = c.head /\ d.heap[g[i]].prev = NULL
      BY <1>7, <1>9, <1>13, <2>1
    <3> HIDE DEF g
    <3> QED
      BY <1>4, <2>1, <3>1, <3>2
  <2>2. CASE i # 0
    <3>1. /\ g[i] = f[i - 1] /\ i - 1 \in 0..(n - 1) /\ g[i] \in c.live
          /\ (i # n => g[i + 1] = f[(i - 1) + 1]) /\ (i = n <=> i - 1 = n - 1)
      <4>1. /\ i - 1 \in 0..(n - 1) /\ (i = n <=> i - 1 = n - 1)
            /\ i # n => i + 1 \in 0..n /\ i + 1 # 0 /\ (i + 1) - 1 = (i - 1) + 1
        BY <1>0, <2>2
      <4>2. i # n => g[i + 1] = f[(i + 1) - 1]
        <5> HIDE DEF g
        <5> QED
          BY <1>12, <4>1
      <4> HIDE DEF g
      <4> QED
        BY <1>12, <2>2, <4>1, <4>2
    <3>2. d.heap[g[i]].next = IF i = n THEN NULL ELSE g[i + 1]
      <4> HIDE DEF g
      <4> QED
        BY <1>5, <1>7, <1>9, <3>1
    <3>3. CASE i = 1
      <4>1. g[i] = c.head /\ g[i - 1] = id
        BY <1>2, <1>4, <3>3
      <4> HIDE DEF g
      <4> QED
        BY <1>7, <1>9, <2>2, <3>1, <3>2, <4>1
    <3>4. CASE i # 1
      <4>1. i - 1 # 0 /\ g[i - 1] = f[(i - 1) - 1] /\ 0 \in 0..(n - 1) /\ n # 0
        BY <1>2, <2>2, <3>4
      <4>2. f[i - 1] # f[0]
        BY <1>2, <3>1, <4>1
      <4>3. c.heap[f[i - 1]].prev = f[(i - 1) - 1]
        BY <1>5, <3>1, <4>1
      <4> HIDE DEF g
      <4> QED
        BY <1>4, <1>7, <1>9, <2>2, <3>1, <3>2, <4>1, <4>2, <4>3
    <3> QED
      BY <3>3, <3>4
  <2> QED
    BY <2>1, <2>2
<1> HIDE DEF g
<1>19. Chain(d, n + 1, g)
  BY <1>2, <1>14, <1>15, <1>16, <1>17, <1>18 DEF Chain
<1> QED
  BY <1>10, <1>11, <1>19

-----------------------------------------------------------------------------
(* What the operations do to a good cache *)

\* The directory as the cache sees it.
Dir == [Path -> Inum \cup {-1}]

\* What the operations need of a cache: the list is in order, buckets lead to live
\* entries, and entries hold what the directory holds.
Good(c, dir) ==
    /\ c \in Cache /\ ~ c.fault
    /\ \E n : \E f : Chain(c, n, f)
    /\ \A p \in Path : c.map[hash_index[p]] \in c.live \cup {NULL}
    /\ \A m \in c.live : c.heap[m].value = dir[c.heap[m].key]

\* Paths whose hashes are all the same; paths whose hashes all differ.
SharedBucket == \A p, q \in Path : hash_index[p] = hash_index[q]

SeparateBuckets == \A p, q \in Path : hash_index[p] = hash_index[q] => p = q

\* Each bucket leads to the entry of its path, and each entry is in its bucket.
Own(c) ==
    /\ \A p \in Path : c.map[hash_index[p]] \in c.live => c.heap[c.map[hash_index[p]]].key = p
    /\ \A m \in c.live : c.map[hash_index[c.heap[m].key]] = m

Cached(c, p) == \E m \in c.live : c.heap[m].key = p

\* A path has a bucket.
LEMMA BucketOf ==
    ASSUME NEW p \in Path
    PROVE  hash_index[p] \in Bucket
BY CacheAssumption

\* Inode numbers of files are positive.
LEMMA InumIs ==
    /\ Inum \subseteq Nat
    /\ \A i \in Inum : i > 0
<1>1. Cardinality(Path) \in Nat
  BY CacheAssumption, FS_CardinalityType
<1> QED
  BY <1>1 DEF Inum

\* What an entry holds.
LEMMA EntryIs ==
    ASSUME NEW c \in Cache, NEW m \in c.live
    PROVE  /\ c.heap[m].key \in Path /\ c.heap[m].value \in Inum
           /\ m \in Node /\ m # NULL
BY CacheFields, CacheAssumption DEF Entry

\* The order of the list is a matter of four fields.
LEMMA ChainSame ==
    ASSUME NEW c, NEW d, NEW n, NEW f, Chain(c, n, f),
           d.live = c.live, d.head = c.head, d.tail = c.tail, d.heap = c.heap
    PROVE  Chain(d, n, f)
BY DEF Chain

\* The number of live entries.
LEMMA GoodLength ==
    ASSUME NEW c, NEW dir, Good(c, dir)
    PROVE  /\ IsFiniteSet(c.live)
           /\ Cardinality(c.live) \in Nat
           /\ \E f : Chain(c, Cardinality(c.live), f)
           /\ Cardinality(c.live) = 0 <=> c.live = {}
<1>1. c \in Cache
  BY DEF Good
<1>2. PICK n : \E f : Chain(c, n, f)
  BY DEF Good
<1>3. PICK f : Chain(c, n, f)
  BY <1>2
<1>4. IsFiniteSet(c.live) /\ Cardinality(c.live) = n /\ n \in Nat
  BY <1>1, <1>3, ChainLength
<1> QED
  BY <1>3, <1>4, FS_EmptySet

\* The search of a path.
LEMMA Search ==
    ASSUME NEW c, NEW dir, Good(c, dir), NEW p \in Path,
           NEW s, s = Find(c, c.map[hash_index[p]], p)
    PROVE  /\ s.ok
           /\ s.node \in c.live \cup {NULL}
           /\ s.node \in c.live => c.heap[s.node].key = p
           /\ Own(c) => (s.node = NULL <=> ~ Cached(c, p))
           /\ Own(c) => s.node = c.map[hash_index[p]]
           /\ s = [ok |-> TRUE, node |-> s.node]
<1> DEFINE start == c.map[hash_index[p]]
<1>1. c \in Cache /\ start \in c.live \cup {NULL}
  BY DEF Good
<1>2. PICK n : \E f : Chain(c, n, f)
  BY DEF Good
<1>3. PICK f : Chain(c, n, f)
  BY <1>2
<1>4. s = Find(c, start, p)
  OBVIOUS
<1> HIDE DEF start
<1>5. /\ s = [ok |-> TRUE, node |-> s.node]
      /\ s.node \in c.live \cup {NULL}
      /\ s.node \in c.live => c.heap[s.node].key = p
      /\ (start = NULL \/ c.heap[start].key = p) => s.node = start
  <2>1. c \in Cache
    BY <1>1
  <2>2. start \in c.live \cup {NULL}
    BY <1>1
  <2>3. EndsAt(c, start, p, s)
    BY <1>3, <1>4, <2>1, <2>2, FindIs
  <2> QED
    BY <2>3 DEF EndsAt
<1>6. NULL \notin c.live
  BY <1>1, CacheFields, CacheAssumption
<1>7. ASSUME Own(c) PROVE s.node = start /\ (s.node = NULL <=> ~ Cached(c, p))
  <2>1. s.node = start
    BY <1>1, <1>5, <1>7 DEF Own, start
  <2>2. ASSUME NEW m \in c.live, c.heap[m].key = p PROVE start = m
    BY <1>7, <2>2 DEF Own, start
  <2> QED
    BY <1>5, <1>6, <2>1, <2>2 DEF Cached
<1>8. s.ok
  BY <1>5
<1> QED
  BY <1>5, <1>7, <1>8 DEF start

\* An entry becomes the first, nothing else changes.
LEMMA MovedGood ==
    ASSUME NEW c, NEW dir, Good(c, dir), NEW x \in c.live, NEW d, d = MoveToFront(c, x)
    PROVE  Good(d, dir) /\ Reordered(c, d)
<1>1. c \in Cache
  BY DEF Good
<1>2. PICK n : \E f : Chain(c, n, f)
  BY DEF Good
<1>3. PICK f : Chain(c, n, f)
  BY <1>2
<1>4. Reordered(c, d) /\ \E g : Chain(d, n, g)
  BY <1>1, <1>3, Moved
<1> QED
  BY <1>4 DEF Good, Reordered

\* A new entry for p where nothing is evicted.
Grown(c, d, p) ==
    /\ d \in Cache /\ d.size = c.size + 1
    /\ c.size < capacity
    /\ \E id \in Node \ c.live :
          /\ d.live = c.live \cup {id}
          /\ d.map = [c.map EXCEPT ![hash_index[p]] = id]
          /\ d.heap[id].key = p
    /\ \A m \in c.live : d.heap[m].key = c.heap[m].key

\* A new entry in place of the one used least recently.
Evicted(c, d) ==
    /\ SharedBucket
    /\ c.size >= capacity
    /\ d.size = c.size /\ Cardinality(d.live) = Cardinality(c.live)

\* An insertion below the capacity evicts nothing.
LEMMA InsertGrows ==
    ASSUME NEW c, NEW dir \in Dir, Good(c, dir), NEW p \in Path, dir[p] # -1,
           NEW id \in Node \ c.live, NEW d, d = Insert(c, p, dir[p], id),
           c.size < capacity
    PROVE  Good(d, dir) /\ Grown(c, d, p)
<1> DEFINE e == PushFront(c, p, dir[p], id)
<1>1. c \in Cache /\ ~ c.fault
  BY DEF Good
<1>2. PICK n : \E f : Chain(c, n, f)
  BY DEF Good
<1>3. PICK f : Chain(c, n, f)
  BY <1>2
<1>4. dir[p] \in Inum
  BY DEF Dir
<1>5. Pushed(c, e, p, dir[p], id) /\ \E g : Chain(e, n + 1, g)
  BY <1>1, <1>3, <1>4, PushedFront
<1>6. c.head \in c.live \cup {NULL}
  BY <1>3 DEF Chain
<1>7. d = [Trim(e) EXCEPT !.map[hash_index[p]] = id]
  BY <1>6 DEF Insert
<1> HIDE DEF e
<1>8. e \in Cache /\ e.size = c.size + 1 /\ c.size \in Nat /\ capacity \in Nat /\ ~ e.fault
  BY <1>1, <1>5, CacheFields, CacheAssumption DEF Pushed
<1>9. Trim(e) = e
  BY <1>8 DEF Trim
<1>10. /\ d.live = e.live /\ d.head = e.head /\ d.tail = e.tail /\ d.heap = e.heap
       /\ d.size = e.size /\ d.fault = e.fault
       /\ d.map = [c.map EXCEPT ![hash_index[p]] = id]
       /\ d \in Cache
  <2>1. e.map = c.map /\ c.map \in [Bucket -> Pointer] /\ id \in Pointer
    BY <1>1, <1>5, CacheFields DEF Pushed, Pointer
  <2>2. [c.map EXCEPT ![hash_index[p]] = id] \in [Bucket -> Pointer]
    BY <2>1
  <2> QED
    BY <1>7, <1>8, <1>9, <2>1, <2>2 DEF Cache
<1>11. \E g : Chain(d, n + 1, g)
  <2>1. PICK g : Chain(e, n + 1, g)
    BY <1>5
  <2>2. Chain(d, n + 1, g)
    BY <1>10, <2>1, ChainSame
  <2> QED
    BY <2>2
<1>12. ASSUME NEW q \in Path PROVE d.map[hash_index[q]] \in d.live \cup {NULL}
  <2>1. c.map[hash_index[q]] \in c.live \cup {NULL}
    BY DEF Good
  <2>2. hash_index[q] \in Bucket /\ c.map \in [Bucket -> Pointer] /\ d.live = c.live \cup {id}
    BY <1>1, <1>5, <1>10, BucketOf, CacheFields DEF Pushed
  <2> QED
    BY <1>10, <2>1, <2>2
<1>13. ASSUME NEW m \in d.live PROVE d.heap[m].value = dir[d.heap[m].key]
  BY <1>5, <1>10 DEF Pushed, Good
<1>14. Good(d, dir)
  BY <1>8, <1>10, <1>11, <1>12, <1>13 DEF Good
<1>15. Grown(c, d, p)
  BY <1>5, <1>8, <1>10 DEF Grown, Pushed
<1> QED
  BY <1>14, <1>15

\* An insertion at the capacity evicts the last of the other entries; with one bucket
\* none is left that leads to it.
LEMMA InsertEvicts ==
    ASSUME NEW c, NEW dir \in Dir, Good(c, dir), NEW p \in Path, dir[p] # -1,
           NEW id \in Node \ c.live, NEW d, d = Insert(c, p, dir[p], id),
           ~ (c.size < capacity), c.live # {}, SharedBucket
    PROVE  Good(d, dir) /\ Evicted(c, d) /\ Cached(d, p)
<1> DEFINE e == PushFront(c, p, dir[p], id)
           n == Cardinality(c.live)
<1>1. c \in Cache /\ ~ c.fault
  BY DEF Good
<1>2. n \in Nat /\ n # 0
  BY GoodLength
<1>3. PICK f : Chain(c, n, f)
  BY GoodLength
<1>4. dir[p] \in Inum
  BY DEF Dir
<1> HIDE DEF n
<1>5. Pushed(c, e, p, dir[p], id) /\ e.tail = c.tail /\ \E g : Chain(e, n + 1, g)
  BY <1>1, <1>2, <1>3, <1>4, PushedFront
<1>6. c.head \in c.live \cup {NULL} /\ c.tail \in c.live
  BY <1>2, <1>3 DEF Chain
<1>7. d = [Trim(e) EXCEPT !.map[hash_index[p]] = id]
  BY <1>6 DEF Insert
<1> HIDE DEF e
<1>8. e \in Cache /\ e.size = c.size + 1 /\ c.size \in Nat /\ capacity \in Nat /\ ~ e.fault
  BY <1>1, <1>5, CacheFields, CacheAssumption DEF Pushed
<1> DEFINE o == delete_node(e, e.tail)
<1>9. Trim(e) = [o EXCEPT !.size = @ - 1]
  BY <1>8 DEF Trim
<1>10. Dropped(e, o, c.tail) /\ \E g : Chain(o, n, g)
  <2>1. PICK g : Chain(e, n + 1, g)
    BY <1>5
  <2>2. e.tail \in e.live /\ n + 1 > 1 /\ (n + 1) - 1 = n
    BY <1>2, <1>5, <1>6 DEF Pushed
  <2>3. Dropped(e, o, e.tail) /\ \E h : Chain(o, (n + 1) - 1, h)
    BY <1>8, <2>1, <2>2, Deleted
  <2> HIDE DEF o
  <2> QED
    BY <1>5, <2>2, <2>3
<1> HIDE DEF o
<1>11. /\ d.live = o.live /\ d.head = o.head /\ d.tail = o.tail /\ d.heap = o.heap
       /\ d.size = c.size /\ d.fault = o.fault
       /\ d.map = [c.map EXCEPT ![hash_index[p]] = id]
       /\ d \in Cache
  <2>1. o \in Cache /\ o.map = c.map /\ c.map \in [Bucket -> Pointer] /\ id \in Pointer
    BY <1>1, <1>5, <1>10, CacheFields DEF Pushed, Dropped, Pointer
  <2>2. [c.map EXCEPT ![hash_index[p]] = id] \in [Bucket -> Pointer]
    BY <2>1
  <2>3. o.size - 1 = c.size /\ c.size \in Nat
    BY <1>8, <1>10 DEF Dropped
  <2>4. d = [[o EXCEPT !.size = o.size - 1] EXCEPT !.map = [c.map EXCEPT ![hash_index[p]] = id]]
    BY <1>7, <1>9, <2>1 DEF Cache
  <2> QED
    BY <2>1, <2>2, <2>3, <2>4 DEF Cache
<1>12. \E g : Chain(d, n, g)
  <2>1. PICK g : Chain(o, n, g)
    BY <1>10
  <2>2. Chain(d, n, g)
    BY <1>11, <2>1, ChainSame
  <2> QED
    BY <2>2
<1>13. Cardinality(d.live) = Cardinality(c.live)
  <2>1. PICK g : Chain(d, n, g)
    BY <1>12
  <2> QED
    BY <1>11, <2>1, ChainLength DEF n
<1>14. id \in d.live /\ d.heap[id].key = p /\ d.live \subseteq c.live \cup {id}
  BY <1>5, <1>6, <1>10, <1>11 DEF Pushed, Dropped
<1>15. ASSUME NEW q \in Path PROVE d.map[hash_index[q]] \in d.live \cup {NULL}
  <2>1. hash_index[q] = hash_index[p] /\ hash_index[p] \in Bucket /\ c.map \in [Bucket -> Pointer]
    BY <1>1, BucketOf, CacheFields DEF SharedBucket
  <2> QED
    BY <1>11, <1>14, <2>1
<1>16. ASSUME NEW m \in d.live PROVE d.heap[m].value = dir[d.heap[m].key]
  BY <1>5, <1>10, <1>11, <1>14 DEF Pushed, Dropped, Good
<1>17. Good(d, dir)
  <2>1. ~ d.fault
    BY <1>8, <1>10, <1>11 DEF Dropped
  <2> QED
    BY <1>11, <1>12, <1>15, <1>16, <2>1 DEF Good
<1>18. Evicted(c, d)
  BY <1>8, <1>11, <1>13 DEF Evicted
<1> QED
  BY <1>14, <1>17, <1>18 DEF Cached

\* An entry for p can be inserted: either there is room, or something else can be
\* evicted and every path finds its bucket replaced.
Insertable(c, p) ==
    \/ Own(c) /\ (~ Cached(c, p) => c.size < capacity)
    \/ SharedBucket /\ c.live # {}
    \/ c.size < capacity

\* What looking a path up does to the cache.
Looked(c, d, dir, p) ==
    /\ Good(d, dir)
    /\ dir[p] # -1 => Cached(d, p)
    /\ \/ Reordered(c, d)
       \/ Grown(c, d, p) /\ (Own(c) => ~ Cached(c, p))
       \/ Evicted(c, d) /\ (Own(c) => ~ Cached(c, p))

\* Moving entries does not change which paths are cached.
LEMMA ReorderedCached ==
    ASSUME NEW c, NEW d, Reordered(c, d), NEW p
    PROVE  Cached(c, p) <=> Cached(d, p)
BY DEF Reordered, Cached

\* name_i gives what the directory holds.
LEMMA NameIs ==
    ASSUME NEW c, NEW dir \in Dir, Good(c, dir), NEW p \in Path, NEW r \in name_i(c, dir, p)
    PROVE  /\ r.inum = dir[p]
           /\ Insertable(c, p) => Looked(c, r.cache, dir, p)
<1> DEFINE s == Find(c, c.map[hash_index[p]], p)
           got == get_cache_entry(c, p)
<1>1. c \in Cache /\ ~ c.fault
  BY DEF Good
<1>2. /\ s.ok
      /\ s.node \in c.live \cup {NULL}
      /\ s.node \in c.live => c.heap[s.node].key = p
      /\ Own(c) => (s.node = NULL <=> ~ Cached(c, p))
  BY Search
<1>3. got = IF s.node = NULL THEN [cache |-> c, value |-> -1]
            ELSE [cache |-> MoveToFront(c, s.node), value |-> c.heap[s.node].value]
  BY <1>2 DEF get_cache_entry
<1>4. r \in IF got.value > 0 \/ got.cache.fault \/ dir[p] = -1
            THEN {[cache |-> got.cache, inum |-> got.value]}
            ELSE {[cache |-> set_cache_entry(c, p, dir[p], id), inum |-> dir[p]] :
                     id \in Node \ c.live}
  BY <1>1 DEF name_i
<1>5. ASSUME NEW id
      PROVE  set_cache_entry(c, p, dir[p], id) =
                IF s.node = NULL THEN Insert(c, p, dir[p], id)
                ELSE MoveToFront([c EXCEPT !.heap[s.node].value = dir[p]], s.node)
  BY <1>2 DEF set_cache_entry
<1> HIDE DEF s, got
<1>6. CASE s.node # NULL
  <2>1. s.node \in c.live /\ c.heap[s.node].key = p
    BY <1>2, <1>6
  <2>2. got.value = dir[p] /\ got.cache = MoveToFront(c, s.node)
    BY <1>3, <1>6, <2>1 DEF Good
  <2>3. dir[p] \in Inum /\ dir[p] > 0
    <3>1. c.heap[s.node].value \in Inum
      BY <1>1, <2>1, EntryIs
    <3>2. c.heap[s.node].value = dir[p]
      BY <2>1 DEF Good
    <3> QED
      BY <3>1, <3>2, InumIs
  <2>4. r = [cache |-> got.cache, inum |-> got.value]
    BY <1>4, <2>2, <2>3
  <2>5. Good(got.cache, dir) /\ Reordered(c, got.cache)
    BY <2>1, <2>2, MovedGood
  <2>6. Cached(got.cache, p)
    BY <2>1, <2>5 DEF Cached, Reordered
  <2> QED
    BY <2>2, <2>4, <2>5, <2>6 DEF Looked
<1>7. CASE s.node = NULL
  <2>1. got = [cache |-> c, value |-> -1]
    BY <1>3, <1>7
  <2>2. ~ (got.value > 0) /\ ~ got.cache.fault
    BY <1>1, <2>1
  <2>3. CASE dir[p] = -1
    <3>1. r = [cache |-> c, inum |-> -1]
      BY <1>4, <2>1, <2>3
    <3>2. Reordered(c, c)
      BY <1>1 DEF Reordered
    <3> QED
      BY <2>3, <3>1, <3>2 DEF Looked
  <2>4. CASE dir[p] # -1
    <3>1. PICK id \in Node \ c.live : r = [cache |-> set_cache_entry(c, p, dir[p], id), inum |-> dir[p]]
      BY <1>4, <2>2, <2>4
    <3>2. r.cache = Insert(c, p, dir[p], id) /\ r.inum = dir[p]
      BY <1>5, <1>7, <3>1
    <3>3. CASE c.size < capacity
      <4>1. Good(r.cache, dir) /\ Grown(c, r.cache, p)
        BY <2>4, <3>2, <3>3, InsertGrows
      <4>2. Cached(r.cache, p)
        BY <4>1 DEF Grown, Cached
      <4> QED
        BY <1>2, <1>7, <3>2, <4>1, <4>2 DEF Looked
    <3>4. CASE ~ (c.size < capacity)
      <4>1. SUFFICES ASSUME Insertable(c, p) PROVE Looked(c, r.cache, dir, p)
        BY <3>2
      <4>2. SharedBucket /\ c.live # {}
        BY <1>2, <1>7, <3>4, <4>1 DEF Insertable
      <4>3. Good(r.cache, dir) /\ Evicted(c, r.cache) /\ Cached(r.cache, p)
        BY <2>4, <3>2, <3>4, <4>2, InsertEvicts
      <4> QED
        BY <1>2, <1>7, <4>3 DEF Looked
    <3> QED
      BY <3>3, <3>4
  <2> QED
    BY <2>3, <2>4
<1> QED
  BY <1>6, <1>7

\* Nothing is lost by a look-up.
LEMMA LookedCount ==
    ASSUME NEW c, NEW d, NEW dir \in Dir, NEW p \in Path, Good(c, dir), Looked(c, d, dir, p)
    PROVE  /\ Cardinality(d.live) \in Nat /\ Cardinality(c.live) \in Nat
           /\ c.size \in Nat /\ d.size \in Nat
           /\ \/ d.size = c.size /\ Cardinality(d.live) = Cardinality(c.live)
              \/ /\ c.size < capacity /\ d.size = c.size + 1
                 /\ Cardinality(d.live) = Cardinality(c.live) + 1
<1>1. Good(d, dir)
  BY DEF Looked
<1>2. /\ Cardinality(d.live) \in Nat /\ Cardinality(c.live) \in Nat /\ IsFiniteSet(c.live)
      /\ c.size \in Nat /\ d.size \in Nat
  BY <1>1, GoodLength, CacheFields DEF Good
<1>3. CASE Reordered(c, d)
  BY <1>2, <1>3 DEF Reordered
<1>4. CASE Grown(c, d, p)
  <2>1. PICK id \in Node \ c.live : d.live = c.live \cup {id}
    BY <1>4 DEF Grown
  <2>2. Cardinality(c.live \cup {id}) = Cardinality(c.live) + 1
    BY <1>2, FS_AddElement
  <2> QED
    BY <1>2, <1>4, <2>1, <2>2 DEF Grown
<1>5. CASE Evicted(c, d)
  BY <1>2, <1>5 DEF Evicted
<1> QED
  BY <1>3, <1>4, <1>5 DEF Looked

\* Two entries of different paths are two entries.
LEMMA TwoEntries ==
    ASSUME NEW c, NEW dir, Good(c, dir), NEW p, NEW q, p # q, Cached(c, p), Cached(c, q)
    PROVE  Cardinality(c.live) > 1
<1>1. PICK x \in c.live : c.heap[x].key = p
  BY DEF Cached
<1>2. PICK y \in c.live : c.heap[y].key = q
  BY DEF Cached
<1>3. IsFiniteSet(c.live) /\ Cardinality(c.live) \in Nat
  BY GoodLength
<1>4. Cardinality(c.live) # 0 /\ Cardinality(c.live) # 1
  <2>1. c.live # {} /\ ~ \E z : c.live = {z}
    BY <1>1, <1>2
  <2> QED
    BY <1>3, <2>1, FS_EmptySet, FS_Singleton
<1> QED
  BY <1>3, <1>4

\* After looking up another path that exists there are two entries at least.
LEMMA LookedTwice ==
    ASSUME NEW c, NEW d, NEW dir \in Dir, NEW p \in Path, NEW q, p # q,
           Good(c, dir), Looked(c, d, dir, p), dir[p] # -1, Cached(c, q),
           c.size < capacity \/ Cardinality(c.live) > 1
    PROVE  Cardinality(d.live) > 1
<1>1. Good(d, dir) /\ Cached(d, p)
  BY DEF Looked
<1>2. /\ Cardinality(d.live) \in Nat /\ Cardinality(c.live) \in Nat
      /\ \/ Cardinality(d.live) = Cardinality(c.live)
         \/ Cardinality(d.live) = Cardinality(c.live) + 1
  BY LookedCount
<1>3. Cardinality(c.live) # 0
  BY GoodLength DEF Cached
<1>4. CASE Reordered(c, d)
  BY <1>1, <1>4, ReorderedCached, TwoEntries
<1>5. CASE Grown(c, d, p)
  <2>1. Cached(d, q)
    BY <1>5 DEF Grown, Cached
  <2> QED
    BY <1>1, <2>1, TwoEntries
<1>6. CASE Evicted(c, d)
  <2>1. c.size \in Nat /\ capacity \in Nat
    BY CacheFields, CacheAssumption DEF Good
  <2> QED
    BY <1>6, <2>1 DEF Evicted
<1> QED
  BY <1>4, <1>5, <1>6 DEF Looked

\* The cache after a path was forgotten.
Forgot(c, d, p) ==
    \/ d = EmptyCache
    \/ /\ d \in Cache /\ d.size = c.size
       /\ d.map = [c.map EXCEPT ![hash_index[p]] = NULL]
       /\ \A m \in d.live : d.heap[m].key = c.heap[m].key
       /\ \E x \in c.live : /\ c.heap[x].key = p
                            /\ d.live = c.live \ {x}
                            /\ Own(c) => c.map[hash_index[p]] = x

\* The empty cache is a good one.
LEMMA EmptyIs ==
    /\ EmptyCache \in Cache
    /\ EmptyCache.live = {} /\ EmptyCache.size = 0 /\ ~ EmptyCache.fault
    /\ \A p \in Path : EmptyCache.map[hash_index[p]] = NULL
    /\ Cardinality(EmptyCache.live) = 0
    /\ \A dir : Good(EmptyCache, dir)
    /\ Own(EmptyCache)
<1>1. << >> \in [{} -> Entry]
  OBVIOUS
<1>2. EmptyCache \in Cache
  <2>1. << >> \in Heap
    BY <1>1 DEF Heap
  <2>2. NULL \in Pointer
    BY DEF Pointer
  <2> QED
    BY <1>1, <2>1, <2>2 DEF EmptyCache, Cache
<1>3. /\ EmptyCache.live = {} /\ EmptyCache.size = 0 /\ ~ EmptyCache.fault
      /\ EmptyCache.head = NULL /\ EmptyCache.tail = NULL
      /\ \A p \in Path : EmptyCache.map[hash_index[p]] = NULL
  BY BucketOf DEF EmptyCache
<1>4. \E f : Chain(EmptyCache, 0, f)
  <2>1. Chain(EmptyCache, 0, [i \in 0..(0 - 1) |-> NULL])
    BY <1>3 DEF Chain
  <2> QED
    BY <2>1
<1>5. \A dir : Good(EmptyCache, dir)
  BY <1>2, <1>3, <1>4 DEF Good
<1>6. NULL \notin {}
  OBVIOUS
<1> QED
  BY <1>2, <1>3, <1>5, FS_EmptySet DEF Own

\* A flush empties the cache.
LEMMA Flushed ==
    ASSUME NEW c, NEW dir, Good(c, dir)
    PROVE  flush_inode_cache(c) = EmptyCache
<1>1. c \in Cache /\ ~ c.fault
  BY DEF Good
<1>2. PICK n : \E f : Chain(c, n, f)
  BY DEF Good
<1>3. PICK f : Chain(c, n, f)
  BY <1>2
<1> QED
  BY <1>1, <1>3, FlushIs

\* Forgetting a path while another entry stays.
LEMMA ForgetIs ==
    ASSUME NEW c, NEW dir, Good(c, dir), NEW p \in Path, Cardinality(c.live) > 1,
           SharedBucket \/ (SeparateBuckets /\ Own(c)), NEW d, d = Forget(c, p)
    PROVE  Good(d, dir) /\ Forgot(c, d, p)
<1> DEFINE s == Find(c, c.map[hash_index[p]], p)
           n == Cardinality(c.live)
<1>1. c \in Cache /\ ~ c.fault
  BY DEF Good
<1>2. /\ s.ok
      /\ s.node \in c.live \cup {NULL}
      /\ s.node \in c.live => c.heap[s.node].key = p
      /\ Own(c) => s.node = c.map[hash_index[p]]
  BY Search
<1> DEFINE o == delete_node(c, s.node)
           e == [o EXCEPT !.map[hash_index[p]] = NULL]
           res == remove_cache_entry(c, p)
<1>3. res = IF s.node = NULL THEN [cache |-> c, removed |-> FALSE]
            ELSE [cache |-> e, removed |-> TRUE]
  BY <1>2 DEF remove_cache_entry
<1>4. d = IF c.fault \/ res.cache.fault THEN Fault(c)
          ELSE IF res.removed THEN res.cache ELSE flush_inode_cache(c)
  BY DEF Forget
<1> HIDE DEF res
<1>5. CASE s.node = NULL
  <2>1. d = flush_inode_cache(c)
    <3> HIDE DEF e, s
    <3> QED
      BY <1>1, <1>3, <1>4, <1>5
  <2>2. d = EmptyCache
    BY <2>1, Flushed
  <2> QED
    BY <2>2, EmptyIs DEF Forgot
<1>6. CASE s.node # NULL
  <2>1. s.node \in c.live /\ c.heap[s.node].key = p
    BY <1>2, <1>6
  <2>2. PICK f : Chain(c, n, f)
    BY GoodLength
  <2>3. Dropped(c, o, s.node) /\ \E g : Chain(o, n - 1, g)
    <3> HIDE DEF s, n
    <3>1. n > 1
      BY DEF n
    <3> QED
      BY <1>1, <2>1, <2>2, <3>1, Deleted
  <2> HIDE DEF s, o
  <2>4. /\ e.live = o.live /\ e.head = o.head /\ e.tail = o.tail /\ e.heap = o.heap
        /\ e.size = c.size /\ ~ e.fault
        /\ e.map = [c.map EXCEPT ![hash_index[p]] = NULL]
        /\ e \in Cache
    <3>1. /\ o \in Cache /\ o.map = c.map /\ c.map \in [Bucket -> Pointer] /\ NULL \in Pointer
          /\ o.size = c.size /\ ~ o.fault
      BY <1>1, <2>3, CacheFields DEF Dropped, Pointer
    <3>2. [c.map EXCEPT ![hash_index[p]] = NULL] \in [Bucket -> Pointer]
      BY <3>1
    <3> QED
      BY <3>1, <3>2 DEF Cache
  <2>5. d = e
    <3> HIDE DEF e
    <3> QED
      BY <1>1, <1>3, <1>4, <1>6, <2>4
  <2> HIDE DEF e
  <2>6. \E g : Chain(d, n - 1, g)
    <3>1. PICK g : Chain(o, n - 1, g)
      BY <2>3
    <3>2. Chain(d, n - 1, g)
      BY <2>4, <2>5, <3>1, ChainSame
    <3> QED
      BY <3>2
  <2>7. ASSUME NEW q \in Path PROVE d.map[hash_index[q]] \in d.live \cup {NULL}
    <3>1. /\ hash_index[q] \in Bucket /\ hash_index[p] \in Bucket
          /\ c.map \in [Bucket -> Pointer] /\ d.live = c.live \ {s.node}
          /\ d.map = [c.map EXCEPT ![hash_index[p]] = NULL]
      BY <1>1, <2>3, <2>4, <2>5, BucketOf, CacheFields DEF Dropped
    <3>2. CASE hash_index[q] = hash_index[p]
      BY <3>1, <3>2
    <3>3. CASE hash_index[q] # hash_index[p]
      <4>1. Own(c) /\ p # q
        BY <3>3 DEF SharedBucket
      <4>2. d.map[hash_index[q]] = c.map[hash_index[q]] /\ c.map[hash_index[q]] \in c.live \cup {NULL}
        BY <3>1, <3>3 DEF Good
      <4>3. c.map[hash_index[q]] # s.node
        BY <2>1, <4>1 DEF Own
      <4> QED
        BY <3>1, <4>2, <4>3
    <3> QED
      BY <3>2, <3>3
  <2>8. ASSUME NEW m \in d.live
        PROVE  d.heap[m].value = dir[d.heap[m].key] /\ d.heap[m].key = c.heap[m].key
    BY <2>3, <2>4, <2>5 DEF Dropped, Good
  <2>9. Good(d, dir)
    BY <2>4, <2>5, <2>6, <2>7, <2>8 DEF Good
  <2>10. Forgot(c, d, p)
    BY <1>2, <2>1, <2>3, <2>4, <2>5, <2>8 DEF Forgot, Dropped
  <2> QED
    BY <2>9, <2>10
<1> QED
  BY <1>5, <1>6

-----------------------------------------------------------------------------
(* The directory *)

\* There is a free inode number for a path that does not exist.
LEMMA FreeInum ==
    ASSUME NEW dir \in Dir, NEW p \in Path, dir[p] = -1
    PROVE  Min(Inum \ {dir[q] : q \in Path}) \in Inum
<1> DEFINE T == Inum \ {dir[q] : q \in Path}
           h == [i \in Inum |-> CHOOSE q \in Path : dir[q] = i]
<1>1. /\ IsFiniteSet(Path) /\ Cardinality(Path) \in Nat
      /\ Inum = 3..(2 + Cardinality(Path))
  BY CacheAssumption, FS_CardinalityType DEF Inum
<1>2. Cardinality(Inum) = Cardinality(Path)
  <2> DEFINE last == 2 + Cardinality(Path)
  <2>1. last \in Int /\ 3 \in Int
    BY <1>1
  <2> HIDE DEF last
  <2>2. Cardinality(3..last) = IF 3 > last THEN 0 ELSE last - 3 + 1
    BY <2>1, FS_Interval
  <2> QED
    BY <1>1, <2>1, <2>2 DEF last
<1>3. IsFiniteSet(Path \ {p}) /\ Cardinality(Path \ {p}) = Cardinality(Path) - 1
  BY <1>1, FS_RemoveElement
<1>4. ASSUME T = {} PROVE FALSE
  <2>1. \A i \in Inum : h[i] \in Path /\ dir[h[i]] = i
    BY <1>4
  <2>2. \A i \in Inum : h[i] # p
    BY <2>1, InumIs
  <2>3. h = [i \in Inum |-> h[i]]
    OBVIOUS
  <2> HIDE DEF h
  <2>4. h \in Injection(Inum, Path \ {p})
    BY <2>1, <2>2, <2>3 DEF Injection, IsInjective
  <2>5. Cardinality(Inum) <= Cardinality(Path \ {p})
    BY <1>3, <2>4, FS_Injection
  <2> QED
    BY <1>1, <1>2, <1>3, <2>5
<1>5. T \subseteq Nat /\ T \subseteq Inum
  BY InumIs
<1> HIDE DEF T
<1>6. \E x \in T : \A y \in T : x <= y
  BY <1>4, <1>5, LeastElement
<1>7. Min(T) \in T
  BY <1>6 DEF Min
<1> QED
  BY <1>5, <1>7 DEF T

\* No path that does not exist is cached.
LEMMA NoneCached ==
    ASSUME NEW c, NEW dir, Good(c, dir), NEW p, dir[p] = -1
    PROVE  ~ Cached(c, p)
<1>1. SUFFICES ASSUME NEW m \in c.live, c.heap[m].key = p PROVE FALSE
  BY DEF Cached
<1>2. c.heap[m].value = -1 /\ c.heap[m].value \in Inum
  BY <1>1, EntryIs DEF Good
<1> QED
  BY <1>2, InumIs

\* The entry of a path that is not cached may change.
LEMMA OtherDir ==
    ASSUME NEW c, NEW dir \in Dir, Good(c, dir), NEW p \in Path, ~ Cached(c, p), NEW v
    PROVE  Good(c, [dir EXCEPT ![p] = v])
<1>1. ASSUME NEW m \in c.live PROVE c.heap[m].value = [dir EXCEPT ![p] = v][c.heap[m].key]
  <2>1. c.heap[m].key \in Path /\ c.heap[m].key # p
    BY EntryIs DEF Good, Cached
  <2>2. c.heap[m].value = dir[c.heap[m].key]
    BY DEF Good
  <2> QED
    BY <2>1, <2>2 DEF Dir
<1> QED
  BY <1>1 DEF Good

-----------------------------------------------------------------------------
(* What a good cache gives *)

\* A path leads to what the directory holds for it.
LEMMA GoodCoherent ==
    ASSUME inum_of \in Dir, Good(cache, inum_of)
    PROVE  Coherent
BY NameIs DEF Coherent

\* No pointer leads to a freed entry.
LEMMA GoodFaultless ==
    ASSUME Good(cache, inum_of)
    PROVE  NoFault
BY DEF Good, NoFault

\* Walking from the head meets every entry, the tail last.
LEMMA GoodOrdered ==
    ASSUME Good(cache, inum_of)
    PROVE  ListSound
<1> DEFINE at == Walk(cache, cache.head)
           n == Cardinality(cache.live)
           N == Cardinality(Node)
<1>1. cache \in Cache
  BY DEF Good
<1>2. PICK f : Chain(cache, n, f)
  BY GoodLength
<1>3. n \in Nat /\ N \in Nat /\ n <= N
  BY <1>1, <1>2, ChainLength
<1>4. /\ f \in [0..(n - 1) -> cache.live]
      /\ \A m \in cache.live : \E i \in 0..(n - 1) : f[i] = m
      /\ cache.head = (IF 0 = n THEN NULL ELSE f[0])
      /\ cache.tail = (IF n = 0 THEN NULL ELSE f[n - 1])
      /\ \A i \in 0..(n - 1) : cache.heap[f[i]].prev = IF i = 0 THEN NULL ELSE f[i - 1]
  BY <1>2 DEF Chain
<1> HIDE DEF n
<1>5. \A i \in 0..N : at[i] = IF 0 + i < n THEN f[0 + i] ELSE NULL
  <2>1. 0 \in 0..n
    BY <1>3
  <2> QED
    <3>1. cache.head = IF 0 = n THEN NULL ELSE f[0]
      BY <1>4
    <3>2. \A i \in 0..Cardinality(Node) :
             Walk(cache, cache.head)[i] = IF 0 + i < n THEN f[0 + i] ELSE NULL
      BY <1>1, <1>2, <2>1, <3>1, WalkIs
    <3> QED
      BY <3>2
<1>6. (\A i \in 0..(n - 1) : at[i] = f[i]) /\ at[n] = NULL
  BY <1>3, <1>5
<1> HIDE DEF at
<1>7. {at[i] : i \in 0..(n - 1)} = cache.live
  BY <1>4, <1>6
<1>8. cache.tail = IF n = 0 THEN NULL ELSE at[n - 1]
  BY <1>3, <1>4, <1>6
<1>9. ASSUME NEW i \in 0..(n - 1)
      PROVE  cache.heap[at[i]].prev = IF i = 0 THEN NULL ELSE at[i - 1]
  <2>1. i # 0 => i - 1 \in 0..(n - 1)
    BY <1>3
  <2> QED
    BY <1>4, <1>6, <2>1
<1> QED
  BY <1>6, <1>7, <1>8, <1>9 DEF ListSound, n, at

-----------------------------------------------------------------------------
(* Paths in one bucket *)

\* The counter counts the entries.
Exact(c) ==
    /\ c.size = Cardinality(c.live)
    /\ c.size <= capacity

\* The invariant as long as nothing is deleted.
IInvShared ==
    /\ inum_of \in Dir
    /\ Good(cache, inum_of)
    /\ Exact(cache)

\* A look-up keeps the counter exact.
LEMMA LookedShared ==
    ASSUME SharedBucket, NEW c, NEW dir \in Dir, Good(c, dir), Exact(c),
           NEW p \in Path, NEW r \in name_i(c, dir, p)
    PROVE  /\ Looked(c, r.cache, dir, p) /\ Good(r.cache, dir) /\ Exact(r.cache)
           /\ r.inum = dir[p]
<1>1. /\ capacity \in Nat \ {0} /\ Cardinality(c.live) \in Nat
      /\ Cardinality(c.live) = 0 <=> c.live = {}
  BY GoodLength, CacheAssumption
<1>2. c.size < capacity \/ c.live # {}
  BY <1>1 DEF Exact
<1>3. Looked(c, r.cache, dir, p) /\ r.inum = dir[p]
  BY <1>2, NameIs DEF Insertable
<1>4. Good(r.cache, dir)
  BY <1>3 DEF Looked
<1>5. Exact(r.cache)
  BY <1>1, <1>3, LookedCount DEF Exact
<1> QED
  BY <1>3, <1>4, <1>5

\* The invariant holds at first.
LEMMA InitShared ==
    ASSUME Init
    PROVE  IInvShared
<1>1. inum_of \in Dir
  BY DEF Init, Dir
<1>2. capacity \in Nat
  BY CacheAssumption
<1> QED
  BY <1>1, <1>2, EmptyIs DEF Init, IInvShared, Exact

\* The counter of an empty cache is exact.
LEMMA EmptyShared ==
    ASSUME NEW dir, dir \in Dir
    PROVE  Good(EmptyCache, dir) /\ Exact(EmptyCache)
BY EmptyIs, CacheAssumption DEF Exact

\* Lookup keeps the invariant.
LEMMA LookupShared ==
    ASSUME SharedBucket, IInvShared, NEW p \in Path, Lookup(p)
    PROVE  IInvShared'
<1>1. PICK r \in name_i(cache, inum_of, p) : cache' = r.cache
  BY DEF Lookup
<1>2. Good(r.cache, inum_of) /\ Exact(r.cache)
  BY LookedShared DEF IInvShared
<1>3. inum_of' = inum_of
  BY DEF Lookup
<1> QED
  BY <1>1, <1>2, <1>3 DEF IInvShared

\* A new path gets a free inode number; it is not cached.
LEMMA CreatedDir ==
    ASSUME NEW c, NEW dir \in Dir, Good(c, dir), NEW p \in Path, dir[p] = -1,
           NEW new, new = [dir EXCEPT ![p] = Min(Inum \ {dir[q] : q \in Path})]
    PROVE  new \in Dir /\ Good(c, new)
<1>1. Min(Inum \ {dir[q] : q \in Path}) \in Inum
  BY FreeInum
<1>2. new \in Dir
  BY <1>1 DEF Dir
<1> QED
  BY <1>2, NoneCached, OtherDir

\* Create keeps the invariant.
LEMMA CreateShared ==
    ASSUME SharedBucket, IInvShared, NEW p \in Path, Create(p)
    PROVE  IInvShared'
<1>1. PICK r \in name_i(cache, inum_of, p) : cache' = r.cache
  BY DEF Create
<1>2. Good(r.cache, inum_of) /\ Exact(r.cache) /\ inum_of \in Dir
  BY LookedShared DEF IInvShared
<1>3. /\ inum_of[p] = -1
      /\ inum_of' = [inum_of EXCEPT ![p] = Min(Inum \ {inum_of[q] : q \in Path})]
  BY DEF Create
<1>4. inum_of' \in Dir /\ Good(r.cache, inum_of')
  BY <1>2, <1>3, CreatedDir
<1> QED
  BY <1>1, <1>2, <1>4 DEF IInvShared

\* The directory after a rename.
LEMMA RenamedDir ==
    ASSUME NEW dir \in Dir, NEW from \in Path, NEW to \in Path, NEW v, v = dir[from]
    PROVE  [dir EXCEPT ![to] = v, ![from] = -1] \in Dir
BY DEF Dir

\* Rename keeps the invariant.
LEMMA RenameShared ==
    ASSUME SharedBucket, IInvShared, NEW from \in Path, NEW to \in Path, Rename(from, to)
    PROVE  IInvShared'
<1>0. inum_of \in Dir /\ Good(cache, inum_of) /\ Exact(cache)
  BY DEF IInvShared
<1>1. PICK first \in name_i(cache, inum_of, from) :
      \E second \in name_i(first.cache, inum_of, to) :
      \E third \in name_i(second.cache, inum_of, from) :
         /\ cache' = flush_inode_cache(third.cache)
         /\ inum_of' = [inum_of EXCEPT ![to] = third.inum, ![from] = -1]
  BY DEF Rename
<1>2. PICK second \in name_i(first.cache, inum_of, to) :
      \E third \in name_i(second.cache, inum_of, from) :
         /\ cache' = flush_inode_cache(third.cache)
         /\ inum_of' = [inum_of EXCEPT ![to] = third.inum, ![from] = -1]
  BY <1>1
<1>3. PICK third \in name_i(second.cache, inum_of, from) :
         /\ cache' = flush_inode_cache(third.cache)
         /\ inum_of' = [inum_of EXCEPT ![to] = third.inum, ![from] = -1]
  BY <1>2
<1>4. Good(first.cache, inum_of) /\ Exact(first.cache)
  BY <1>0, LookedShared
<1>5. Good(second.cache, inum_of) /\ Exact(second.cache)
  BY <1>0, <1>4, LookedShared
<1>6. Good(third.cache, inum_of) /\ third.inum = inum_of[from]
  BY <1>0, <1>5, LookedShared
<1>7. cache' = EmptyCache /\ inum_of' \in Dir
  BY <1>0, <1>3, <1>6, Flushed, RenamedDir
<1> QED
  BY <1>7, EmptyShared DEF IInvShared

\* One of several entries goes, another stays.
LEMMA ForgotSome ==
    ASSUME NEW c, NEW dir, Good(c, dir), NEW p, NEW d, Forgot(c, d, p),
           Cardinality(c.live) > 1, d # EmptyCache
    PROVE  /\ Cardinality(d.live) = Cardinality(c.live) - 1
           /\ Cardinality(c.live) \in Nat /\ Cardinality(d.live) \in Nat
           /\ d.live # {} /\ d.size = c.size
<1>1. IsFiniteSet(c.live) /\ Cardinality(c.live) \in Nat
  BY GoodLength
<1>2. PICK x \in c.live : d.live = c.live \ {x}
  BY DEF Forgot
<1>3. IsFiniteSet(d.live) /\ Cardinality(d.live) = Cardinality(c.live) - 1
  BY <1>1, <1>2, FS_RemoveElement
<1>4. d.live # {}
  BY <1>1, <1>3, FS_EmptySet
<1> QED
  BY <1>1, <1>3, <1>4 DEF Forgot

\* RenameOver keeps the invariant: from and to are both cached when the entry of to is
\* removed, so the list does not become empty, and another entry can be evicted when
\* from is looked up with a counter that is one too high.
LEMMA RenameOverShared ==
    ASSUME SharedBucket, capacity > 1, IInvShared, NEW from \in Path, NEW to \in Path,
           RenameOver(from, to)
    PROVE  IInvShared'
<1>0. inum_of \in Dir /\ Good(cache, inum_of) /\ Exact(cache)
  BY DEF IInvShared
<1>1. PICK first \in name_i(cache, inum_of, from) :
      \E second \in name_i(first.cache, inum_of, to) :
      \E third \in name_i(second.cache, inum_of, to) :
      \E fourth \in name_i(Forget(third.cache, to), inum_of, from) :
         /\ cache' = flush_inode_cache(fourth.cache)
         /\ inum_of' = [inum_of EXCEPT ![to] = fourth.inum, ![from] = -1]
  BY DEF RenameOver
<1>2. PICK second \in name_i(first.cache, inum_of, to) :
      \E third \in name_i(second.cache, inum_of, to) :
      \E fourth \in name_i(Forget(third.cache, to), inum_of, from) :
         /\ cache' = flush_inode_cache(fourth.cache)
         /\ inum_of' = [inum_of EXCEPT ![to] = fourth.inum, ![from] = -1]
  BY <1>1
<1>3. PICK third \in name_i(second.cache, inum_of, to) :
      \E fourth \in name_i(Forget(third.cache, to), inum_of, from) :
         /\ cache' = flush_inode_cache(fourth.cache)
         /\ inum_of' = [inum_of EXCEPT ![to] = fourth.inum, ![from] = -1]
  BY <1>2
<1> DEFINE d == Forget(third.cache, to)
<1>4. PICK fourth \in name_i(d, inum_of, from) :
         /\ cache' = flush_inode_cache(fourth.cache)
         /\ inum_of' = [inum_of EXCEPT ![to] = fourth.inum, ![from] = -1]
  BY <1>3
<1>5. inum_of[from] # -1 /\ inum_of[to] # -1 /\ from # to
  BY DEF RenameOver
<1>6. /\ Good(first.cache, inum_of) /\ Exact(first.cache) /\ Cached(first.cache, from)
  BY <1>0, <1>5, LookedShared DEF Looked
<1>7. /\ Good(second.cache, inum_of) /\ Exact(second.cache)
      /\ Looked(first.cache, second.cache, inum_of, to)
  BY <1>0, <1>6, LookedShared
<1>8. Cardinality(second.cache.live) > 1
  <2>1. Cardinality(first.cache.live) \in Nat /\ capacity \in Nat
    BY <1>6, GoodLength, CacheAssumption
  <2>2. first.cache.size < capacity \/ Cardinality(first.cache.live) > 1
    BY <1>6, <2>1 DEF Exact
  <2> QED
    BY <1>0, <1>5, <1>6, <1>7, <2>2, LookedTwice
<1>9. /\ Good(third.cache, inum_of) /\ Exact(third.cache)
      /\ Looked(second.cache, third.cache, inum_of, to)
  BY <1>0, <1>7, LookedShared
<1>10. Cardinality(third.cache.live) > 1
  BY <1>0, <1>7, <1>8, <1>9, LookedCount
<1>11. Good(d, inum_of) /\ Forgot(third.cache, d, to)
  BY <1>9, <1>10, ForgetIs
<1> HIDE DEF d
<1>12. Insertable(d, from)
  <2>1. CASE d = EmptyCache
    <3>1. d.size = 0 /\ capacity \in Nat \ {0}
      BY <2>1, EmptyIs, CacheAssumption
    <3> QED
      BY <3>1 DEF Insertable
  <2>2. CASE d # EmptyCache
    <3>1. d.live # {}
      BY <1>9, <1>10, <1>11, <2>2, ForgotSome
    <3> QED
      BY <3>1 DEF Insertable
  <2> QED
    BY <2>1, <2>2
<1>13. fourth.inum = inum_of[from] /\ Looked(d, fourth.cache, inum_of, from)
  BY <1>0, <1>11, <1>12, NameIs
<1>14. Good(fourth.cache, inum_of)
  BY <1>13 DEF Looked
<1>15. cache' = EmptyCache /\ inum_of' \in Dir
  BY <1>0, <1>4, <1>13, <1>14, Flushed, RenamedDir
<1> QED
  BY <1>15, EmptyShared DEF IInvShared

\* The invariant holds always.
LEMMA SharedInductive ==
    ASSUME SharedBucket, capacity > 1
    PROVE  SpecNoUnlink => []IInvShared
<1>1. ASSUME IInvShared, [NextNoUnlink]_vars PROVE IInvShared'
  <2>1. CASE UNCHANGED vars
    BY <1>1, <2>1 DEF vars, IInvShared
  <2>2. ASSUME NEW p \in Path, Lookup(p) PROVE IInvShared'
    BY <1>1, <2>2, LookupShared
  <2>3. ASSUME NEW p \in Path, Create(p) PROVE IInvShared'
    BY <1>1, <2>3, CreateShared
  <2>4. ASSUME NEW from \in Path, NEW to \in Path, Rename(from, to) PROVE IInvShared'
    BY <1>1, <2>4, RenameShared
  <2>5. ASSUME NEW from \in Path, NEW to \in Path, RenameOver(from, to) PROVE IInvShared'
    BY <1>1, <2>5, RenameOverShared
  <2> QED
    BY <1>1, <2>1, <2>2, <2>3, <2>4, <2>5 DEF NextNoUnlink
<1> QED
  BY <1>1, InitShared, PTL DEF SpecNoUnlink

\* Paths that share a bucket, as all paths without upper-case letters do, and no
\* deletions: pointers, counter and entries keep their types; the counter never exceeds
\* the capacity.
THEOREM CacheTypes ==
    ASSUME SharedBucket, capacity > 1
    PROVE  SpecNoUnlink => []TypeOK
<1>1. IInvShared => TypeOK
  <2>1. capacity \in Nat
    BY CacheAssumption
  <2> QED
    BY <2>1, CacheFields DEF IInvShared, Good, Exact, TypeOK, Dir
<1> QED
  BY <1>1, SharedInductive, PTL

\* Under the same assumptions name_i gives what the directory holds, although a path
\* can be cached twice and buckets are overwritten.
THEOREM CacheCoherent ==
    ASSUME SharedBucket, capacity > 1
    PROVE  SpecNoUnlink => []Coherent
<1>1. IInvShared => Coherent
  BY GoodCoherent DEF IInvShared
<1> QED
  BY <1>1, SharedInductive, PTL

\* Under the same assumptions no operation of the cache follows a pointer to a freed
\* entry, although eviction does not look at the buckets.
THEOREM CacheFaultless ==
    ASSUME SharedBucket, capacity > 1
    PROVE  SpecNoUnlink => []NoFault
<1>1. IInvShared => NoFault
  BY GoodFaultless DEF IInvShared
<1> QED
  BY <1>1, SharedInductive, PTL

\* Under the same assumptions the list runs from head to tail through all entries, and
\* back.
THEOREM CacheOrdered ==
    ASSUME SharedBucket, capacity > 1
    PROVE  SpecNoUnlink => []ListSound
<1>1. IInvShared => ListSound
  BY GoodOrdered DEF IInvShared
<1> QED
  BY <1>1, SharedInductive, PTL

-----------------------------------------------------------------------------
(* Paths in buckets of their own *)

\* Every path that is not cached still fits, although the counter may be larger
\* than the number of entries.
Roomy(c) ==
    /\ Own(c)
    /\ c.size + Cardinality(Path) <= capacity + Cardinality(c.live)

\* The invariant when paths are deleted with care.
IInvSeparate ==
    /\ inum_of \in Dir
    /\ Good(cache, inum_of)
    /\ Roomy(cache)

\* The number of paths, and the capacity.
LEMMA PathCount ==
    /\ IsFiniteSet(Path) /\ Cardinality(Path) \in Nat
    /\ capacity \in Nat \ {0}
    /\ \A p \in Path : Cardinality(Path) > 0
<1>1. IsFiniteSet(Path) /\ Cardinality(Path) \in Nat /\ capacity \in Nat \ {0}
  BY CacheAssumption, FS_CardinalityType
<1>2. \A p \in Path : Cardinality(Path) # 0
  BY <1>1, FS_EmptySet
<1> QED
  BY <1>1, <1>2

\* There are at most as many entries as paths; fewer if a path is not cached.
LEMMA OwnCount ==
    ASSUME NEW c, NEW dir, Good(c, dir), Own(c), NEW p \in Path, ~ Cached(c, p)
    PROVE  Cardinality(c.live) < Cardinality(Path)
<1> DEFINE h == [m \in c.live |-> c.heap[m].key]
<1>1. c \in Cache
  BY DEF Good
<1>2. h \in [c.live -> Path \ {p}]
  BY <1>1, EntryIs DEF Cached
<1>3. \A m, k \in c.live : h[m] = h[k] => m = k
  BY DEF Own
<1> HIDE DEF h
<1>4. h \in Injection(c.live, Path \ {p})
  BY <1>2, <1>3 DEF Injection, IsInjective
<1>5. IsFiniteSet(Path \ {p}) /\ Cardinality(Path \ {p}) = Cardinality(Path) - 1
  BY PathCount, FS_RemoveElement
<1>6. Cardinality(c.live) <= Cardinality(Path \ {p})
  BY <1>4, <1>5, FS_Injection
<1>7. Cardinality(c.live) \in Nat
  BY GoodLength
<1> QED
  BY <1>5, <1>6, <1>7, PathCount

\* Insertion has room.
LEMMA RoomLeft ==
    ASSUME NEW c, NEW dir, Good(c, dir), Roomy(c), NEW p \in Path, ~ Cached(c, p)
    PROVE  c.size < capacity
<1>1. Cardinality(c.live) < Cardinality(Path) /\ Cardinality(c.live) \in Nat /\ c.size \in Nat
  BY OwnCount, GoodLength, CacheFields DEF Roomy, Good
<1> QED
  BY <1>1, PathCount DEF Roomy

\* Moving an entry leaves it in its bucket.
LEMMA ReorderedOwn ==
    ASSUME NEW c, NEW d, Reordered(c, d), Own(c)
    PROVE  Own(d)
BY DEF Reordered, Own

\* A new entry is in its bucket, and no other was there.
LEMMA GrownOwn ==
    ASSUME SeparateBuckets, NEW c, NEW dir, Good(c, dir), NEW d, NEW p \in Path, Grown(c, d, p),
           Own(c), ~ Cached(c, p)
    PROVE  Own(d)
<1>0. c \in Cache
  BY DEF Good
<1>1. PICK id \in Node \ c.live :
          /\ d.live = c.live \cup {id}
          /\ d.map = [c.map EXCEPT ![hash_index[p]] = id]
          /\ d.heap[id].key = p
  BY DEF Grown
<1>2. \A m \in c.live : d.heap[m].key = c.heap[m].key
  BY DEF Grown
<1>3. c.map \in [Bucket -> Pointer] /\ hash_index[p] \in Bucket
  BY <1>0, CacheFields, BucketOf
<1>4. ASSUME NEW q \in Path, d.map[hash_index[q]] \in d.live
      PROVE  d.heap[d.map[hash_index[q]]].key = q
  <2>1. CASE q = p
    BY <1>1, <1>3, <2>1
  <2>2. CASE q # p
    <3>1. hash_index[q] # hash_index[p] /\ hash_index[q] \in Bucket
      BY <2>2, BucketOf DEF SeparateBuckets
    <3>2. d.map[hash_index[q]] = c.map[hash_index[q]]
      BY <1>1, <1>3, <3>1
    <3>3. c.map[hash_index[q]] \in c.live \cup {NULL} /\ id # NULL
      BY CacheAssumption DEF Good
    <3>4. c.map[hash_index[q]] \in c.live
      BY <1>1, <1>4, <3>2, <3>3, CacheAssumption
    <3> QED
      BY <1>2, <3>2, <3>4 DEF Own
  <2> QED
    BY <2>1, <2>2
<1>5. ASSUME NEW m \in d.live PROVE d.map[hash_index[d.heap[m].key]] = m
  <2>1. CASE m = id
    BY <1>1, <1>3, <2>1
  <2>2. CASE m \in c.live
    <3>1. d.heap[m].key = c.heap[m].key /\ c.heap[m].key # p /\ c.heap[m].key \in Path
      BY <1>0, <1>2, <2>2, EntryIs DEF Cached
    <3>2. hash_index[c.heap[m].key] # hash_index[p] /\ hash_index[c.heap[m].key] \in Bucket
      BY <3>1, BucketOf DEF SeparateBuckets
    <3> QED
      BY <1>1, <1>3, <2>2, <3>1, <3>2 DEF Own
  <2> QED
    BY <1>1, <2>1, <2>2
<1> QED
  BY <1>4, <1>5 DEF Own

\* A look-up leaves room for the paths that are not cached.
LEMMA LookedSeparate ==
    ASSUME SeparateBuckets, NEW c, NEW dir \in Dir, Good(c, dir), Roomy(c),
           NEW p \in Path, NEW r \in name_i(c, dir, p)
    PROVE  /\ Looked(c, r.cache, dir, p) /\ Good(r.cache, dir) /\ Roomy(r.cache)
           /\ r.inum = dir[p]
<1>1. ~ Cached(c, p) => c.size < capacity
  BY RoomLeft
<1>2. Looked(c, r.cache, dir, p) /\ r.inum = dir[p]
  BY <1>1, NameIs DEF Insertable, Roomy
<1>3. Good(r.cache, dir)
  BY <1>2 DEF Looked
<1>4. Own(r.cache)
  <2>1. CASE Reordered(c, r.cache)
    BY <2>1, ReorderedOwn DEF Roomy
  <2>2. CASE Grown(c, r.cache, p) /\ ~ Cached(c, p)
    BY <2>2, GrownOwn DEF Roomy
  <2>3. CASE Evicted(c, r.cache) /\ ~ Cached(c, p)
    <3>1. c.size \in Nat
      BY CacheFields DEF Good
    <3> QED
      BY <1>1, <2>3, <3>1, PathCount DEF Evicted
  <2> QED
    BY <1>2, <2>1, <2>2, <2>3 DEF Looked, Roomy
<1>5. Roomy(r.cache)
  BY <1>2, <1>4, LookedCount, PathCount DEF Roomy
<1> QED
  BY <1>2, <1>3, <1>5

\* A look-up that evicts nothing keeps what was cached.
LEMMA KeepsCached ==
    ASSUME NEW c, NEW d, NEW dir \in Dir, NEW p \in Path, NEW q, Good(c, dir), Roomy(c),
           Looked(c, d, dir, p), Cached(c, q)
    PROVE  Cached(d, q)
<1>1. CASE Reordered(c, d)
  BY <1>1, ReorderedCached
<1>2. CASE Grown(c, d, p)
  BY <1>2 DEF Grown, Cached
<1>3. CASE Evicted(c, d) /\ ~ Cached(c, p)
  <2>1. c.size \in Nat /\ c.size < capacity
    BY <1>3, RoomLeft, CacheFields DEF Good
  <2> QED
    BY <1>3, <2>1, PathCount DEF Evicted
<1> QED
  BY <1>1, <1>2, <1>3 DEF Looked, Roomy

\* An empty cache has room for all paths.
LEMMA EmptySeparate ==
    ASSUME Cardinality(Path) <= capacity, NEW dir
    PROVE  Good(EmptyCache, dir) /\ Roomy(EmptyCache)
BY EmptyIs, PathCount DEF Roomy

\* When a path was forgotten, the others are still where they were.
LEMMA ForgotSeparate ==
    ASSUME SeparateBuckets, NEW c, NEW dir, Good(c, dir), Own(c), NEW p \in Path, NEW d,
           Forgot(c, d, p), d # EmptyCache
    PROVE  /\ Own(d) /\ ~ Cached(d, p)
           /\ \A q : q # p /\ Cached(c, q) => Cached(d, q)
<1>1. PICK x \in c.live : /\ c.heap[x].key = p
                          /\ d.live = c.live \ {x}
                          /\ c.map[hash_index[p]] = x
  BY DEF Forgot
<1>2. /\ \A m \in d.live : d.heap[m].key = c.heap[m].key
      /\ d.map = [c.map EXCEPT ![hash_index[p]] = NULL]
  BY DEF Forgot
<1>3. c \in Cache /\ c.map \in [Bucket -> Pointer] /\ hash_index[p] \in Bucket /\ NULL \notin c.live
  BY CacheFields, BucketOf, CacheAssumption DEF Good
<1>4. ASSUME NEW m \in d.live PROVE d.heap[m].key # p
  BY <1>1, <1>2 DEF Own
<1>5. ASSUME NEW q \in Path, d.map[hash_index[q]] \in d.live
      PROVE  d.heap[d.map[hash_index[q]]].key = q
  <2>1. hash_index[q] # hash_index[p] /\ hash_index[q] \in Bucket
    BY <1>1, <1>2, <1>3, <1>5, BucketOf
  <2>2. d.map[hash_index[q]] = c.map[hash_index[q]]
    BY <1>2, <1>3, <2>1
  <2> QED
    BY <1>1, <1>2, <1>5, <2>2 DEF Own
<1>6. ASSUME NEW m \in d.live PROVE d.map[hash_index[d.heap[m].key]] = m
  <2>1. m \in c.live /\ d.heap[m].key = c.heap[m].key /\ c.heap[m].key # p /\ c.heap[m].key \in Path
    BY <1>1, <1>2, <1>3, <1>4, EntryIs
  <2>2. hash_index[c.heap[m].key] # hash_index[p] /\ hash_index[c.heap[m].key] \in Bucket
    BY <2>1, BucketOf DEF SeparateBuckets
  <2> QED
    BY <1>2, <1>3, <2>1, <2>2 DEF Own
<1>7. ASSUME NEW q, q # p, Cached(c, q) PROVE Cached(d, q)
  <2>1. PICK m \in c.live : c.heap[m].key = q
    BY <1>7 DEF Cached
  <2>2. m \in d.live
    BY <1>1, <1>7, <2>1
  <2> QED
    BY <1>2, <2>1, <2>2 DEF Cached
<1> QED
  BY <1>4, <1>5, <1>6, <1>7 DEF Own, Cached

\* The invariant holds at first.
LEMMA InitSeparate ==
    ASSUME Cardinality(Path) <= capacity, Init
    PROVE  IInvSeparate
<1>1. inum_of \in Dir
  BY DEF Init, Dir
<1> QED
  BY <1>1, EmptySeparate DEF Init, IInvSeparate

\* Lookup keeps the invariant.
LEMMA LookupSeparate ==
    ASSUME SeparateBuckets, IInvSeparate, NEW p \in Path, Lookup(p)
    PROVE  IInvSeparate'
<1>1. PICK r \in name_i(cache, inum_of, p) : cache' = r.cache
  BY DEF Lookup
<1>2. Good(r.cache, inum_of) /\ Roomy(r.cache)
  BY LookedSeparate DEF IInvSeparate
<1>3. inum_of' = inum_of
  BY DEF Lookup
<1> QED
  BY <1>1, <1>2, <1>3 DEF IInvSeparate

\* Create keeps the invariant.
LEMMA CreateSeparate ==
    ASSUME SeparateBuckets, IInvSeparate, NEW p \in Path, Create(p)
    PROVE  IInvSeparate'
<1>1. PICK r \in name_i(cache, inum_of, p) : cache' = r.cache
  BY DEF Create
<1>2. Good(r.cache, inum_of) /\ Roomy(r.cache) /\ inum_of \in Dir
  BY LookedSeparate DEF IInvSeparate
<1>3. /\ inum_of[p] = -1
      /\ inum_of' = [inum_of EXCEPT ![p] = Min(Inum \ {inum_of[q] : q \in Path})]
  BY DEF Create
<1>4. inum_of' \in Dir /\ Good(r.cache, inum_of')
  BY <1>2, <1>3, CreatedDir
<1> QED
  BY <1>1, <1>2, <1>4 DEF IInvSeparate

\* Rename keeps the invariant.
LEMMA RenameSeparate ==
    ASSUME SeparateBuckets, Cardinality(Path) <= capacity, IInvSeparate,
           NEW from \in Path, NEW to \in Path, Rename(from, to)
    PROVE  IInvSeparate'
<1>0. inum_of \in Dir /\ Good(cache, inum_of) /\ Roomy(cache)
  BY DEF IInvSeparate
<1>1. PICK first \in name_i(cache, inum_of, from) :
      \E second \in name_i(first.cache, inum_of, to) :
      \E third \in name_i(second.cache, inum_of, from) :
         /\ cache' = flush_inode_cache(third.cache)
         /\ inum_of' = [inum_of EXCEPT ![to] = third.inum, ![from] = -1]
  BY DEF Rename
<1>2. PICK second \in name_i(first.cache, inum_of, to) :
      \E third \in name_i(second.cache, inum_of, from) :
         /\ cache' = flush_inode_cache(third.cache)
         /\ inum_of' = [inum_of EXCEPT ![to] = third.inum, ![from] = -1]
  BY <1>1
<1>3. PICK third \in name_i(second.cache, inum_of, from) :
         /\ cache' = flush_inode_cache(third.cache)
         /\ inum_of' = [inum_of EXCEPT ![to] = third.inum, ![from] = -1]
  BY <1>2
<1>4. Good(first.cache, inum_of) /\ Roomy(first.cache)
  BY <1>0, LookedSeparate
<1>5. Good(second.cache, inum_of) /\ Roomy(second.cache)
  BY <1>0, <1>4, LookedSeparate
<1>6. Good(third.cache, inum_of) /\ third.inum = inum_of[from]
  BY <1>0, <1>5, LookedSeparate
<1>7. cache' = EmptyCache /\ inum_of' \in Dir
  BY <1>0, <1>3, <1>6, Flushed, RenamedDir
<1> QED
  BY <1>7, EmptySeparate DEF IInvSeparate

\* RenameOver keeps the invariant: from stays cached when the entry of to is removed.
LEMMA RenameOverSeparate ==
    ASSUME SeparateBuckets, Cardinality(Path) <= capacity, IInvSeparate,
           NEW from \in Path, NEW to \in Path, RenameOver(from, to)
    PROVE  IInvSeparate'
<1>0. inum_of \in Dir /\ Good(cache, inum_of) /\ Roomy(cache)
  BY DEF IInvSeparate
<1>1. PICK first \in name_i(cache, inum_of, from) :
      \E second \in name_i(first.cache, inum_of, to) :
      \E third \in name_i(second.cache, inum_of, to) :
      \E fourth \in name_i(Forget(third.cache, to), inum_of, from) :
         /\ cache' = flush_inode_cache(fourth.cache)
         /\ inum_of' = [inum_of EXCEPT ![to] = fourth.inum, ![from] = -1]
  BY DEF RenameOver
<1>2. PICK second \in name_i(first.cache, inum_of, to) :
      \E third \in name_i(second.cache, inum_of, to) :
      \E fourth \in name_i(Forget(third.cache, to), inum_of, from) :
         /\ cache' = flush_inode_cache(fourth.cache)
         /\ inum_of' = [inum_of EXCEPT ![to] = fourth.inum, ![from] = -1]
  BY <1>1
<1>3. PICK third \in name_i(second.cache, inum_of, to) :
      \E fourth \in name_i(Forget(third.cache, to), inum_of, from) :
         /\ cache' = flush_inode_cache(fourth.cache)
         /\ inum_of' = [inum_of EXCEPT ![to] = fourth.inum, ![from] = -1]
  BY <1>2
<1> DEFINE d == Forget(third.cache, to)
<1>4. PICK fourth \in name_i(d, inum_of, from) :
         /\ cache' = flush_inode_cache(fourth.cache)
         /\ inum_of' = [inum_of EXCEPT ![to] = fourth.inum, ![from] = -1]
  BY <1>3
<1>5. inum_of[from] # -1 /\ inum_of[to] # -1 /\ from # to
  BY DEF RenameOver
<1>6. Good(first.cache, inum_of) /\ Roomy(first.cache) /\ Cached(first.cache, from)
  BY <1>0, <1>5, LookedSeparate DEF Looked
<1>7. /\ Good(second.cache, inum_of) /\ Roomy(second.cache)
      /\ Looked(first.cache, second.cache, inum_of, to)
  BY <1>0, <1>6, LookedSeparate
<1>8. Cardinality(second.cache.live) > 1 /\ Cached(second.cache, from)
  <2>1. first.cache.size < capacity \/ Cardinality(first.cache.live) > 1
    <3>1. CASE Cached(first.cache, to)
      BY <1>5, <1>6, <3>1, TwoEntries
    <3>2. CASE ~ Cached(first.cache, to)
      BY <1>6, <3>2, RoomLeft
    <3> QED
      BY <3>1, <3>2
  <2>2. Cached(second.cache, from)
    BY <1>0, <1>6, <1>7, KeepsCached
  <2> QED
    BY <1>0, <1>5, <1>6, <1>7, <2>1, <2>2, LookedTwice
<1>9. /\ Good(third.cache, inum_of) /\ Roomy(third.cache)
      /\ Looked(second.cache, third.cache, inum_of, to)
  BY <1>0, <1>7, LookedSeparate
<1>10. Cardinality(third.cache.live) > 1 /\ Cached(third.cache, from)
  <2>1. Cardinality(third.cache.live) > 1
    BY <1>0, <1>7, <1>8, <1>9, LookedCount
  <2> QED
    BY <1>0, <1>7, <1>8, <1>9, <2>1, KeepsCached
<1>11. Good(d, inum_of) /\ Forgot(third.cache, d, to)
  BY <1>9, <1>10, ForgetIs DEF Roomy
<1> HIDE DEF d
<1>12. Insertable(d, from)
  <2>1. CASE d = EmptyCache
    <3>1. d.size = 0 /\ capacity \in Nat \ {0}
      BY <2>1, EmptyIs, CacheAssumption
    <3> QED
      BY <3>1 DEF Insertable
  <2>2. CASE d # EmptyCache
    <3>1. Own(d) /\ Cached(d, from)
      BY <1>5, <1>9, <1>10, <1>11, <2>2, ForgotSeparate DEF Roomy
    <3> QED
      BY <3>1 DEF Insertable
  <2> QED
    BY <2>1, <2>2
<1>13. fourth.inum = inum_of[from] /\ Looked(d, fourth.cache, inum_of, from)
  BY <1>0, <1>11, <1>12, NameIs
<1>14. Good(fourth.cache, inum_of)
  BY <1>13 DEF Looked
<1>15. cache' = EmptyCache /\ inum_of' \in Dir
  BY <1>0, <1>4, <1>13, <1>14, Flushed, RenamedDir
<1> QED
  BY <1>15, EmptySeparate DEF IInvSeparate

\* A careful deletion keeps the invariant: the entry that goes is not the only one, and
\* the counter, which stays, was low enough.
LEMMA UnlinkSeparate ==
    ASSUME SeparateBuckets, Cardinality(Path) <= capacity, IInvSeparate, NEW p \in Path,
           Careful(p), Unlink(p)
    PROVE  IInvSeparate'
<1>0. inum_of \in Dir /\ Good(cache, inum_of) /\ Roomy(cache)
  BY DEF IInvSeparate
<1>1. PICK r \in name_i(cache, inum_of, p) : cache' = Forget(r.cache, p)
  BY DEF Unlink
<1>2. inum_of' = [inum_of EXCEPT ![p] = -1] /\ inum_of[p] # -1
  BY DEF Unlink
<1>3. inum_of' \in Dir
  BY <1>0, <1>2 DEF Dir
<1>4. /\ Good(r.cache, inum_of) /\ Roomy(r.cache) /\ Looked(cache, r.cache, inum_of, p)
  BY <1>0, LookedSeparate
<1>5. PICK q : q # p /\ Cached(cache, q)
  BY DEF Careful, Cached
<1>6. cache.size + Cardinality(Path) <= capacity /\ cache.size < capacity
  <2>1. cache.size \in Nat /\ Cardinality(Path) > 0
    BY <1>0, CacheFields, PathCount DEF Good
  <2> QED
    BY <2>1, PathCount DEF Careful
<1>7. Cardinality(r.cache.live) > 1
  BY <1>0, <1>2, <1>4, <1>5, <1>6, LookedTwice
<1> DEFINE d == Forget(r.cache, p)
<1>8. Good(d, inum_of) /\ Forgot(r.cache, d, p)
  BY <1>4, <1>7, ForgetIs DEF Roomy
<1>9. cache' = d
  BY <1>1
<1> HIDE DEF d
<1>10. CASE d = EmptyCache
  BY <1>3, <1>9, <1>10, EmptySeparate DEF IInvSeparate
<1>11. CASE d # EmptyCache
  <2>1. Own(d) /\ ~ Cached(d, p)
    BY <1>4, <1>8, <1>11, ForgotSeparate DEF Roomy
  <2>2. Good(d, inum_of')
    BY <1>0, <1>2, <1>8, <2>1, OtherDir
  <2>3. /\ Cardinality(d.live) = Cardinality(r.cache.live) - 1
        /\ Cardinality(d.live) \in Nat
        /\ d.size = r.cache.size
    BY <1>4, <1>7, <1>8, <1>11, ForgotSome
  <2>4. /\ Cardinality(r.cache.live) \in Nat /\ cache.size \in Nat /\ r.cache.size \in Nat
        /\ r.cache.size <= cache.size + 1
        /\ r.cache.size = cache.size \/ Cardinality(r.cache.live) = Cardinality(cache.live) + 1
    BY <1>0, <1>4, LookedCount
  <2>5. Roomy(d)
    BY <1>6, <1>7, <2>1, <2>3, <2>4, PathCount DEF Roomy
  <2> QED
    BY <1>3, <1>9, <2>2, <2>5 DEF IInvSeparate
<1> QED
  BY <1>10, <1>11

\* The invariant holds always.
LEMMA SeparateInductive ==
    ASSUME SeparateBuckets, Cardinality(Path) <= capacity
    PROVE  SpecCareful => []IInvSeparate
<1>1. ASSUME IInvSeparate, [NextCareful]_vars PROVE IInvSeparate'
  <2>1. CASE UNCHANGED vars
    BY <1>1, <2>1 DEF vars, IInvSeparate
  <2>2. ASSUME NEW p \in Path, Lookup(p) PROVE IInvSeparate'
    BY <1>1, <2>2, LookupSeparate
  <2>3. ASSUME NEW p \in Path, Create(p) PROVE IInvSeparate'
    BY <1>1, <2>3, CreateSeparate
  <2>4. ASSUME NEW from \in Path, NEW to \in Path, Rename(from, to) PROVE IInvSeparate'
    BY <1>1, <2>4, RenameSeparate
  <2>5. ASSUME NEW from \in Path, NEW to \in Path, RenameOver(from, to) PROVE IInvSeparate'
    BY <1>1, <2>5, RenameOverSeparate
  <2>6. ASSUME NEW p \in Path, Careful(p), Unlink(p) PROVE IInvSeparate'
    BY <1>1, <2>6, UnlinkSeparate
  <2> QED
    BY <1>1, <2>1, <2>2, <2>3, <2>4, <2>5, <2>6 DEF NextCareful, NextNoUnlink
<1> QED
  BY <1>1, InitSeparate, PTL DEF SpecCareful

\* Paths with buckets of their own, a capacity for all of them, and deletions only as
\* Careful allows: name_i gives what the directory holds, in particular nothing for a
\* deleted path.
THEOREM CarefulCoherent ==
    ASSUME SeparateBuckets, Cardinality(Path) <= capacity
    PROVE  SpecCareful => []Coherent
<1>1. IInvSeparate => Coherent
  BY GoodCoherent DEF IInvSeparate
<1> QED
  BY <1>1, SeparateInductive, PTL

\* Under the same assumptions no operation of the cache follows a pointer to a freed
\* entry.
THEOREM CarefulFaultless ==
    ASSUME SeparateBuckets, Cardinality(Path) <= capacity
    PROVE  SpecCareful => []NoFault
<1>1. IInvSeparate => NoFault
  BY GoodFaultless DEF IInvSeparate
<1> QED
  BY <1>1, SeparateInductive, PTL

\* Under the same assumptions the list runs from head to tail through all entries, and
\* back.
THEOREM CarefulOrdered ==
    ASSUME SeparateBuckets, Cardinality(Path) <= capacity
    PROVE  SpecCareful => []ListSound
<1>1. IInvSeparate => ListSound
  BY GoodOrdered DEF IInvSeparate
<1> QED
  BY <1>1, SeparateInductive, PTL

\* Under the same assumptions every entry is found from its bucket, so that deleting a
\* path leaves no entry of it.
THEOREM EntriesFound ==
    ASSUME SeparateBuckets, Cardinality(Path) <= capacity
    PROVE  SpecCareful => []Findable
<1>1. ASSUME IInvSeparate PROVE Findable
  <2>1. SUFFICES ASSUME NEW n \in cache.live
                 PROVE  Find(cache, cache.map[hash_index[cache.heap[n].key]], cache.heap[n].key) =
                           [ok |-> TRUE, node |-> n]
    BY DEF Findable
  <2>2. Good(cache, inum_of) /\ Own(cache)
    BY <1>1 DEF IInvSeparate, Roomy
  <2> DEFINE key == cache.heap[n].key
             s == Find(cache, cache.map[hash_index[key]], key)
  <2>3. key \in Path /\ cache.map[hash_index[key]] = n
    BY <2>2, EntryIs DEF Good, Own
  <2> HIDE DEF key
  <2>4. s = [ok |-> TRUE, node |-> s.node] /\ s.node = cache.map[hash_index[key]]
    BY <2>2, <2>3, Search
  <2> QED
    BY <2>3, <2>4 DEF key
<1> QED
  BY <1>1, SeparateInductive, PTL
=============================================================================
