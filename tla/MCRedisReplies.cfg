\* Three reply objects and three commands.
CONSTANTS
    Replies = {a, b, c}
    NoReply = NoReply
    MayFail = TRUE
    MaxCommands = 3
    MaxElements = 2
SPECIFICATION Spec
SYMMETRY Symmetric
\* The program may stop using the connection, or wait for an answer that was left
\* to nobody.
CHECK_DEADLOCK FALSE
INVARIANTS
    TypeOK
    InOrder
    OwnAnswer
