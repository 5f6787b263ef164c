----------------------------- MODULE BlockPool -----------------------------
(***************************************************************************)
(* What the data-block allocator promises to the layers above it: a block  *)
(* handed out is handed to exactly one client until that client returns    *)
(* it.  uses[b] counts the outstanding hand-outs of block b.               *)
(***************************************************************************)
EXTENDS Naturals

CONSTANT Blocks

VARIABLE uses

Init == uses = [b \in Blocks |-> 0]

\* allocate_data_block: some block nobody holds becomes held once.
Acquire(b) ==
    /\ uses[b] = 0
    /\ uses' = [uses EXCEPT ![b] = 1]

\* free_data_block: the single holder of the block gives it back.
Release(b) ==
    /\ uses[b] = 1
    /\ uses' = [uses EXCEPT ![b] = 0]

Next == \E b \in Blocks : Acquire(b) \/ Release(b)

Spec == Init /\ [][Next]_uses
=============================================================================
