\* Two threads that make two calls, at two levels, while the settings change; a
\* table for two callbacks.
CONSTANTS
    Threads = {t1, t2}
    NoThread = NoThread
    Files = {f1}
    Levels = {0, 1}
    MAX_CALLBACKS = 2
    MaxCalls = 2
SPECIFICATION Spec
CHECK_DEADLOCK FALSE
INVARIANTS TypeOK Serialized Delivered
PROPERTIES EveryCallReturns
