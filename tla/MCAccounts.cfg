\* Three clients and two ids, on a database that may refuse a statement.
CONSTANTS
    phone = phone
    tablet = tablet
    laptop = laptop
    alice = alice
    bob = bob
    Conns = {phone, laptop, tablet}
    Users = {alice, bob}
    NoUser = NoUser
    NoValue = NoValue
    MayFail = TRUE
    Values = {5, 12}
    MaxRequests = 4
SPECIFICATION Spec
SYMMETRY Symmetric
\* The run ends when the clients have made their requests.
CHECK_DEADLOCK FALSE
INVARIANTS
    UniqueId
    Complete
PROPERTY
    LoginAccepted
    LinkStored
