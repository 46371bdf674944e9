\* Three connections: clients log in on a second one before the first is gone.
CONSTANTS
    Conns = {c1, c2, c3}
    Users = {u1, u2}
    NoUser = NoUser
    Absent = Absent
    Null = Null
    NoConn = NoConn
SPECIFICATION Spec
SYMMETRY Symmetric
\* The run ends when every connection has.
CHECK_DEADLOCK FALSE
INVARIANT
    Listed
