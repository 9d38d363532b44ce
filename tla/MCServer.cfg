\* Two clients, every kind of request, resets, failing forks, and too few
\* descriptors for two scripts or for a page.
CONSTANTS
    Conns = {c1, c2}
    NoConn = NoConn
    Messages <- MCMessages
    BUFFER_SIZE = 2
    Backlog = 2
    Limits = {2, 5}
    PeerResets = TRUE
    ForkFails = TRUE
    PagesVanish = TRUE
    LargePages = TRUE
SPECIFICATION Spec
CHECK_DEADLOCK FALSE
INVARIANTS TypeOK Owned FdConservation AnswersFit
PROPERTIES SilentAfterClose OneAtATime ServiceSpec ScriptSpec
SYMMETRY Clients
