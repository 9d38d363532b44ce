\* One request with a folded field, in one piece.
\* Numbers and offsets in urls have four bits, digits are ternary and chunk sizes quaternary.
CONSTANTS
    ULLONG_MAX = 15
    Base = 3
    HexBase = 4
    MaxHeaderSize = 22
    Streams <- FoldedStreams
    MaxPort = 7
    UINT16_MAX = 15
SPECIFICATION Spec
CHECK_DEADLOCK FALSE
INVARIANT OncePerField
