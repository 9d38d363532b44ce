\* One client whose request may be read before all of it arrived.
CONSTANTS
    Conns = {c1}
    NoConn = NoConn
    Messages <- MCMessages
    BUFFER_SIZE = 2
    Backlog = 2
    Limits = {6}
    PeerResets = FALSE
    ForkFails = FALSE
    PagesVanish = FALSE
    LargePages = FALSE
SPECIFICATION Spec
CHECK_DEADLOCK FALSE
INVARIANTS ParsedWhole
