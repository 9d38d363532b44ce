\* One request with two Transfer-Encoding fields, the last of which is not chunked.
\* Numbers and offsets in urls have four bits, digits are ternary and chunk sizes quaternary.
CONSTANTS
    ULLONG_MAX = 15
    Base = 3
    HexBase = 4
    MaxHeaderSize = 40
    Streams <- CodingStreams
    MaxPort = 7
    UINT16_MAX = 15
SPECIFICATION Spec
CHECK_DEADLOCK FALSE
INVARIANT Refuses
