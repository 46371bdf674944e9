\* Two connections of two users, and two messages.
CONSTANTS
    Conns = {c1, c2}
    Users = {u1, u2}
    NoUser = NoUser
    Absent = Absent
    Null = Null
    NoConn = NoConn
    MayFail = TRUE
    MaxMessages = 2
SPECIFICATION MessagesSpec
SYMMETRY Symmetric
\* The run ends when every connection has.
CHECK_DEADLOCK FALSE
INVARIANTS
    Reachable
    EntryLive
    NoneLost
    SentOnce
PROPERTIES
    OwnEntryOnly
    NotifyReceiver
    ReceiverOnly
