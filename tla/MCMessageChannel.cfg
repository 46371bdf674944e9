\* Two clients, two workers and MessageThread, on Winsock.
CONSTANTS
    Clients = {c1, c2}
    Threads = {w1, w2, m1}
    MessageThread = m1
    Buffers = {w1, w2, m1}
    Buffer <- OwnBuffer
    NoEntry = NoEntry
    MaxSockets = 2
    MaxNotified = 2
SPECIFICATION Spec
CHECK_DEADLOCK FALSE
PROPERTY
    Notified
