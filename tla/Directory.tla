------------------------------ MODULE Directory ------------------------------
(***************************************************************************)
(* The records of a directory (directory_ops.c).  A data block of a        *)
(* directory holds records [length | inode number | name] one behind the   *)
(* other from its first byte on; a length of 0 ends them.  Here a block is *)
(* the sequence of its records, and their lengths decide which byte each   *)
(* starts at and what still fits.  The searches stop by byte position, as  *)
(* in the code.  Names longer than MAX_FILE_NAME_LENGTH, 255 as in the     *)
(* kernel, do not get this far and are left out.                           *)
(***************************************************************************)
EXTENDS Integers, Sequences, FiniteSets, FiniteSetsExt, SequencesExt

CONSTANTS
    BLOCK_SIZE,
    RECORD_FIXED_LEN,    \* bytes of a record's length and inode number
    Name,                \* names callers use
    NameLength           \* strlen of each name

ASSUME RecordAssumption ==
    /\ BLOCK_SIZE \in Nat /\ RECORD_FIXED_LEN \in Nat \ {0}
    /\ {".", ".."} \cap Name = {}
    /\ NameLength \in [Name -> Nat \ {0}]
    /\ BLOCK_SIZE >= 2 * RECORD_FIXED_LEN + 5    \* "." and ".." fit in a block
    /\ \A n \in Name : RECORD_FIXED_LEN + NameLength[n] + 1 <= BLOCK_SIZE    \* and so does a name

Strlen(n) == IF n = "." THEN 1 ELSE IF n = ".." THEN 2 ELSE NameLength[n]

LAST_POSSIBLE_RECORD == BLOCK_SIZE - RECORD_FIXED_LEN

\* The name is stored with its terminating zero.
RecordLength(r) == RECORD_FIXED_LEN + Strlen(r.name) + 1

\* The byte at which record i starts; for i = Len(records) + 1, the first byte
\* behind the records.
Offset(records, i) ==
    LET end[k \in 0..Len(records)] ==
            IF k = 0 THEN 0 ELSE end[k - 1] + RecordLength(records[k])
    IN end[i - 1]

-----------------------------------------------------------------------------

\* The places, as pairs of a block and a record in it, where a directory of the
\* given blocks has a record of this name that the search comes past.
Matches(blocks, name) ==
    {p \in UNION {{l} \X DOMAIN blocks[l] : l \in DOMAIN blocks} :
        /\ blocks[p[1]][p[2]].name = name
        /\ Offset(blocks[p[1]], p[2]) <= LAST_POSSIBLE_RECORD}

Before(p, q) == p[1] < q[1] \/ (p[1] = q[1] /\ p[2] <= q[2])

\* The first of them, <<0, 0>> if there is none.
get_file_position_in_dir(blocks, name) ==
    LET matches == Matches(blocks, name)
    IN IF matches = {}
       THEN <<0, 0>>
       ELSE CHOOSE p \in matches : \A q \in matches : Before(p, q)

\* Mutant: the zero behind the name is not counted.
HasRoom_without_zero(records, name) ==
    LET free_from == Offset(records, Len(records) + 1)
    IN BLOCK_SIZE - free_from - RECORD_FIXED_LEN >= Strlen(name)

\* Whether a record of this name fits behind the records of a block.
HasRoom(records, name) ==
    LET free_from == Offset(records, Len(records) + 1)
    IN /\ free_from <= LAST_POSSIBLE_RECORD
       /\ BLOCK_SIZE - free_from - RECORD_FIXED_LEN >= Strlen(name) + 1

\* The first block that has room, 0 if a new one is needed.
BlockWithRoom(blocks, name) ==
    LET with_room == {l \in DOMAIN blocks : HasRoom(blocks[l], name)}
    IN IF with_room = {} THEN 0 ELSE Min(with_room)

\* The block rewritten without record i, the ones behind it moved up.
Without(records, i) == RemoveAt(records, i)

\* What altfs_readdir passes on of a block.
Listed(records) ==
    {records[i] : i \in {j \in DOMAIN records : Offset(records, j) < LAST_POSSIBLE_RECORD}}
=============================================================================
