\* The script prints two lines.
CONSTANTS
    Scripts <- MCPrinter
    Bodies = {0}
    InCapacity = 1
    OutCapacity = 2
    BUFFER_SIZE = 4
    StatusLength = 2
SPECIFICATION Spec
CHECK_DEADLOCK FALSE
INVARIANTS FaithfulRelay
