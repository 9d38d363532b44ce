\* Requests, responses, urls and damaged streams, cut everywhere.
\* Numbers and offsets in urls have four bits, digits are ternary and chunk sizes quaternary.
CONSTANTS
    ULLONG_MAX = 15
    Base = 3
    HexBase = 4
    MaxHeaderSize = 22
    Streams <- MCStreams
    MaxPort = 7
    UINT16_MAX = 15
SPECIFICATION Spec
CHECK_DEADLOCK FALSE
INVARIANTS TypeOK TellsTheMessage Accepts Refuses CallbackOrder
    Assertions HeadBounded StoresTheRequest UrlParts UrlRead FieldsStored OneFraming
PROPERTIES GoesForward BodyAsDeclared
