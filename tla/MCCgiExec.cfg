\* Every script of up to five calls against bodies of up to three units.
CONSTANTS
    Scripts <- MCScripts
    Bodies = {0, 1, 2, 3}
    InCapacity = 1
    OutCapacity = 3
    BUFFER_SIZE = 2
    StatusLength = 1
SPECIFICATION Spec
CHECK_DEADLOCK FALSE
INVARIANTS TypeOK NothingLost ReturnsOnlyIfConforming NoDeadlock
PROPERTIES ReturnsIfConforming RunSpec
