\* Requests whose bodies cannot be cut off and whose reads never come back
\* exactly full, no resets, descriptors to spare even for two failed forks.
CONSTANTS
    Conns = {c1, c2}
    NoConn = NoConn
    Messages <- MCWholeMessages
    BUFFER_SIZE = 2
    Backlog = 2
    Limits = {10}
    PeerResets = FALSE
    ForkFails = TRUE
    PagesVanish = FALSE
    LargePages = TRUE
SPECIFICATION FairSpec
CHECK_DEADLOCK FALSE
PROPERTIES EventuallyClosed
