\* Every file of up to four units, growing by up to two while it is sent.
CONSTANTS
    Files <- MCFiles
    BUFFER_SIZE = 4
    MaxAppends = 2
SPECIFICATION Spec
CHECK_DEADLOCK FALSE
INVARIANTS TypeOK PageSent
PROPERTIES Ends
