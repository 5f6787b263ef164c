CONSTANTS
    a = a
    b = b
    c = c
    Path <- Paths
    Node = {n1, n2, n3, n4, n5}
    NULL = NULL
    capacity = 4
    hash_index <- OneBucket
SPECIFICATION SpecNoUnlink
INVARIANTS TypeOK Coherent NoFault ListSound
SYMMETRY Addresses
