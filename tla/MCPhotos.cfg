\* Two users, each logged in once, on a database that may refuse a statement.
CONSTANTS
    alice = alice
    bob = bob
    phone = phone
    laptop = laptop
    Conns = {phone, laptop}
    Users = {alice, bob}
    Nobody = Nobody
    UserOf <- MCUserOf
    MayFail = TRUE
    MaxPhotos = 2
    MaxComments = 1
    MaxRequests = 6
SPECIFICATION Spec
\* The run ends when the clients have made their requests.
CHECK_DEADLOCK FALSE
INVARIANT
    LikesCount
