------------------------------ MODULE FileSpec ------------------------------
(***************************************************************************)
(* What callers expect of files: a file is a sequence of bytes.  A write   *)
(* may be short, but it says how many bytes it wrote.  A file that grows   *)
(* is filled up with zeros.  A crash can tear a write.                     *)
(***************************************************************************)
EXTENDS Integers, Sequences

CONSTANTS File, Byte

VARIABLES
    content,    \* the bytes of each file
    returned    \* what the last call returned

\* s with the bytes of data at the given offset, and zeros in between.
Overwrite(s, offset, data) ==
    IF data = << >>
    THEN s
    ELSE LET end == offset + Len(data)
         IN [i \in 1..(IF end > Len(s) THEN end ELSE Len(s)) |->
                IF i > offset /\ i <= end THEN data[i - offset]
                ELSE IF i <= Len(s) THEN s[i] ELSE 0]

Resize(s, length) == [i \in 1..length |-> IF i <= Len(s) THEN s[i] ELSE 0]

Init == content = [f \in File |-> << >>] /\ returned = 0

Write(f, offset, data) ==
    /\ returned' \in 0..Len(data)
    /\ content' = [content EXCEPT ![f] = Overwrite(@, offset, SubSeq(data, 1, returned'))]

\* A truncation succeeds, or is refused, or extends the file by too little.
Truncate(f, length) ==
    \/ /\ returned' = 0
       /\ content' = [content EXCEPT ![f] = Resize(@, length)]
    \/ /\ returned' = -1
       /\ \/ UNCHANGED content
          \/ \E l \in Len(content[f])..(length - 1) :
                content' = [content EXCEPT ![f] = Resize(@, l)]

Remove(f) == returned' = 0 /\ content' = [content EXCEPT ![f] = << >>]

\* A write that a crash cut short: the file has its length.
Torn(f, offset, data) ==
    /\ UNCHANGED returned
    /\ \E k \in 0..Len(data) :
          content' = [content EXCEPT ![f] =
              Resize(Overwrite(@, offset, SubSeq(data, 1, k)), Len(@))]
=============================================================================
