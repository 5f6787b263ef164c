----------------------------- MODULE MCBlockMap -----------------------------
(***************************************************************************)
(* Block maps of small files: one direct block, two addresses per block.   *)
(***************************************************************************)
EXTENDS BlockMap

CONSTANTS Long, Short   \* size limits of the first and of the other file

\* One file that goes far into the triple indirect level, one with a lower limit.
Files == {"long", "short"}
Limits == [f \in Files |-> IF f = "long" THEN Long ELSE Short]

\* The tree of the given level below a block, without block numbers.
Shape(b, level) ==
    [d \in 0..level |-> {q \in 0..(Span(d) - 1) : Below(mem, b, d, q) # 0}]

\* States behave alike if they differ only in the words of free blocks, which
\* allocate_data_block clears before anyone reads them, or in which number a
\* block has, as long as each is where it should be.
Visible ==
    <<[f \in File |-> <<node[f].i_blocks_num,
                        [i \in 0..(D - 1) |-> node[f].i_direct_blocks[i] # 0],
                        [k \in Level |-> Shape(node[f].i_indirect[k], k)]>>],
      Cardinality(Available(listed)), failed, MappingCorrect, NoSharing>>
=============================================================================
