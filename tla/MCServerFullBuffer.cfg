\* A request of exactly BUFFER_SIZE units.
CONSTANTS
    Conns = {c1, c2}
    NoConn = NoConn
    Messages <- MCFullBuffer
    BUFFER_SIZE = 2
    Backlog = 2
    Limits = {6}
    PeerResets = FALSE
    ForkFails = FALSE
    PagesVanish = FALSE
    LargePages = FALSE
SPECIFICATION FairSpec
CHECK_DEADLOCK FALSE
PROPERTIES EventuallyClosed
