\* Three rows, and a client that makes two requests.
CONSTANTS
    MaxRows = 3
    Pages <- MCPages
    LongRows = {2}
    LocationRows = 2
    MayFail = TRUE
    MaxRequests = 2
SPECIFICATION FairSpec
\* The run ends when the client has made its requests, or with the process.
CHECK_DEADLOCK FALSE
INVARIANTS
    TypeOK
    ListFits
    ListIsPage
    CountIsRows
    PagesWhole
    HandlesClosed
PROPERTY
    RequestEnds
