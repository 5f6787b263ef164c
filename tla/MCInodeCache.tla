---------------------------- MODULE MCInodeCache ----------------------------
(***************************************************************************)
(* Small caches.  hash_func adds up upper-case letters only, so paths      *)
(* without any share a bucket.                                             *)
(***************************************************************************)
EXTENDS InodeCache, TLC

CONSTANTS a, b, c   \* the paths

Paths == {a, b, c}

\* Paths in lower case.
OneBucket == [p \in Paths |-> 0]

\* Paths that differ in their upper-case letters.
OwnBuckets == a :> 0 @@ b :> 1 @@ c :> 2

\* Addresses are interchangeable.
Addresses == Permutations(Node)
=============================================================================
