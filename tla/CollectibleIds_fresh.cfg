\* Seeds that repeat, three blocks, and in each the inherent and three more
\* extrinsics.
SPECIFICATION Spec
CONSTANTS
    Seeds = {s1, s2}
    MaxExtrinsics = 4
    LastBlock = 3
\* The model stops after the last block.
CHECK_DEADLOCK FALSE
SYMMETRY Symmetry
INVARIANTS
    IdentifierIsFresh
PROPERTIES
    BurntStaysBurnt
