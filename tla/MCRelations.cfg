\* Two users, one of them logged in twice, on a database that may refuse a statement.
CONSTANTS
    alice = alice
    bob = bob
    phone = phone
    tablet = tablet
    laptop = laptop
    Conns = {phone, tablet, laptop}
    Users = {alice, bob}
    Nobody = Nobody
    UserOf <- MCUserOf
    MaxFailures = 2
    MaxRequests = 4
SYMMETRY Symmetric
SPECIFICATION Spec
\* The run ends when the clients have made their requests.
CHECK_DEADLOCK FALSE
INVARIANTS
    FollowsBounded
    FollowingCounted
    FriendsNotUndercounted
PROPERTIES
    FollowAnswerTrue
    UnfriendAnswerTrue
