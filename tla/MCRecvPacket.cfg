CONSTANTS
    Streams <- MCStreams
    HeaderLen = 3
    NameLen = 4
    SizeLen = 2
    BufSize = 5
    MaxReads = 2
SPECIFICATION Spec
\* The run ends with the connection, or in freed memory.
CHECK_DEADLOCK FALSE
INVARIANTS
    WithinField
    EndedByClient
PROPERTIES
    ImplementsPacketStream
    EveryPacketHanded
