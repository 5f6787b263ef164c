CONSTANTS
    a = a
    b = b
    c = c
    Path <- Paths
    Node = {n1, n2, n3, n4, n5, n6}
    NULL = NULL
    capacity = 5
    hash_index <- OwnBuckets
SPECIFICATION SpecCareful
INVARIANTS Coherent NoFault ListSound Findable
SYMMETRY Addresses
