\* The same clients, over a network that may cut a field in three.
CONSTANTS
    Streams <- MCStreams
    HeaderLen = 3
    NameLen = 4
    SizeLen = 2
    BufSize = 5
    MaxReads = 3
SPECIFICATION Spec
CHECK_DEADLOCK FALSE
INVARIANT HandedIntact
