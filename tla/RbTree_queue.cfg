SPECIFICATION TreeSpec
CONSTANTS
    Nodes = {1, 2, 3, 4, 5, 6, 7, 8, 9, 10}
    key <- MCKey
    NULL = NULL
INVARIANT RedBlack
PROPERTY IsOrderedQueue
