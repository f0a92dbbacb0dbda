CONSTANTS
    BLOCK_SIZE = 20
    ALIGN_AMOUNT = 2
    CHUNK_HEADER = 2
    BLOCK_HEADER = 2
    FREE_SIZE = 2
    MovesJumbo = TRUE
    Sizes <- MCSizes
    Bases <- MCBases
SPECIFICATION Spec
INVARIANTS
    JumboIntact
