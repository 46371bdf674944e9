\* Two connections, one after the other on the same block: the accept loop, two
\* workers and the ping thread.  No symmetry: it is unsound for liveness.
CONSTANTS
    Blocks = {b1}
    Workers = {w1, w2}
    NoBlock = NoBlock
    MaxConn = 2
SPECIFICATION FairSpec
\* A process whose heap is corrupt stops.
CHECK_DEADLOCK FALSE
INVARIANTS
    OneReceive
    NoUseAfterFree
PROPERTIES
    StalledForGood
    DeadPeerClosed
    PingedIsClosed
