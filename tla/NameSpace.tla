------------------------------ MODULE NameSpace ------------------------------
(***************************************************************************)
(* What callers expect of the directory tree: files and directories are    *)
(* created under names that are not taken, empty ones are removed, and a   *)
(* rename moves a name, replacing what was there, in one step.             *)
(***************************************************************************)
CONSTANTS Inum, Name, Root

VARIABLES
    entries,   \* records [dir, name, inum]
    dirs       \* the inodes that are directories

At(d, n) == {e \in entries : e.dir = d /\ e.name = n}

\* e is a file, or a directory without entries.
Removable(e) == \A other \in entries : other.dir # e.inum

Init == entries = {} /\ dirs = {Root}

Create(d, n, i) ==
    /\ d \in dirs
    /\ At(d, n) = {}
    /\ i \notin dirs /\ \A e \in entries : e.inum # i
    /\ entries' = entries \cup {[dir |-> d, name |-> n, inum |-> i]}
    /\ dirs' \in {dirs, dirs \cup {i}}

Remove(e) ==
    /\ Removable(e)
    /\ entries' = entries \ {e}
    /\ dirs' = dirs \ {e.inum}

Move(e, d, n) ==
    /\ d \in dirs
    /\ \A old \in At(d, n) : Removable(old) /\ old.inum # e.inum
    /\ entries' = (entries \ ({e} \cup At(d, n))) \cup {[dir |-> d, name |-> n, inum |-> e.inum]}
    /\ dirs' = dirs \ {old.inum : old \in At(d, n)}

Next ==
    \/ \E d \in dirs, n \in Name, i \in Inum : Create(d, n, i)
    \/ \E e \in entries : Remove(e)
    \/ \E e \in entries, d \in dirs, n \in Name : Move(e, d, n)

Spec == Init /\ [][Next]_<<entries, dirs>>
=============================================================================
