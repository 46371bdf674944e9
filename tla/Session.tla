------------------------------- MODULE Session -------------------------------
(***************************************************************************)
(* Who is logged in where: the pointer `user` of each connection and the   *)
(* global map<string,Session> from user ids to connections, which message  *)
(* notifications look up.                                                  *)
(*                                                                         *)
(* The handlers of different connections interleave; a connection runs one *)
(* handler at a time (Connection!OneReceive).  The ping thread tears a     *)
(* connection down whatever its handler is doing.  csSession is held for   *)
(* one map operation at a time, so each of those is one step; the reads of *)
(* GetConnectionFromID, which take no lock, are steps of their own; the    *)
(* walk over the map is one.  The two pointers of an entry are read and    *)
(* written together.  A handle that the ping thread freed under a running  *)
(* handler is taken to hold no user, whatever the handler writes there.    *)
(***************************************************************************)
EXTENDS Naturals

CONSTANTS
    Conns,     \* connections; a handle's address is not used again here
    Users,     \* user ids
    NoUser,    \* handle->user == NULL
    Absent,    \* the map has no entry for the id
    Null,      \* an entry whose handle is NULL: what session[id] inserts
    NoConn     \* no connection

ASSUME SessionAssumption ==
    /\ NoUser \notin Users
    /\ Absent \notin Conns /\ Null \notin Conns /\ Absent # Null
    /\ NoConn \notin Conns /\ NoConn # Null

VARIABLES
    open,      \* connections whose handle is allocated
    fresh,     \* connections not accepted yet
    user,      \* user[c]: handle->user->id
    session,   \* session[u]: the handle in the map's entry
    hpc,       \* what the handler of c does next
    arg,       \* arg[c]: the id the handler works on
    stale,     \* handlers that point to a map node which was erased
    target,    \* target[c]: the handle that the handler of c notifies
    pingPc, pingAt,  \* the ping thread's teardown
    midway,    \* connections that the ping thread began to tear down while
               \* their handler was running
    twice,     \* history: users who were logged in on two connections at a
               \* time, or whose connection logged in as somebody else
    crashed    \* a NULL handle was dereferenced

handlerVars == <<hpc, arg, stale, target>>
pingVars == <<pingPc, pingAt>>
vars == <<open, fresh, user, session, handlerVars, pingVars, midway, twice, crashed>>

TypeOK ==
    /\ open \in SUBSET Conns
    /\ fresh \in SUBSET Conns
    /\ user \in [Conns -> Users \cup {NoUser}]
    /\ session \in [Users -> Conns \cup {Absent, Null}]
    /\ hpc \in [Conns -> {"idle", "login", "push", "logout", "forget", "query", "store",
                          "check", "index", "read", "send", "erase", "free"}]
    /\ arg \in [Conns -> Users \cup {NoUser}]
    /\ \A c \in Conns :
          hpc[c] \in {"login", "push", "store", "check", "index", "read", "send"}
            => arg[c] \in Users
    /\ stale \in SUBSET Conns
    /\ target \in [Conns -> Conns \cup {Absent, Null, NoConn}]
    /\ pingPc \in {"idle", "erase", "free"}
    /\ pingAt \in Conns \cup {NoConn}
    /\ pingPc # "idle" => pingAt \in Conns
    /\ midway \in SUBSET Conns
    /\ twice \in SUBSET Users
    /\ crashed \in BOOLEAN

Init ==
    /\ open = {}
    /\ fresh = Conns
    /\ user = [c \in Conns |-> NoUser]
    /\ session = [u \in Users |-> Absent]
    /\ hpc = [c \in Conns |-> "idle"]
    /\ arg = [c \in Conns |-> NoUser]
    /\ stale = {}
    /\ target = [c \in Conns |-> NoConn]
    /\ pingPc = "idle"
    /\ pingAt = NoConn
    /\ midway = {}
    /\ twice = {}
    /\ crashed = FALSE

-----------------------------------------------------------------------------
\* RunServer accepts a connection: user = NULL.
Accept(c) ==
    /\ c \in fresh
    /\ fresh' = fresh \ {c}
    /\ open' = open \cup {c}
    /\ UNCHANGED <<user, session, handlerVars, pingVars, midway, twice, crashed>>

\* ProcessPacket calls a handler of c.
Begin(c, step, u) ==
    /\ c \in open /\ hpc[c] = "idle"
    /\ hpc' = [hpc EXCEPT ![c] = step]
    /\ arg' = [arg EXCEPT ![c] = u]
    /\ midway' = IF pingAt = c THEN midway \cup {c} ELSE midway
    /\ UNCHANGED <<open, fresh, user, session, stale, target, pingVars, crashed>>

Goto(c, step) == hpc' = [hpc EXCEPT ![c] = step]

\* The handler returns.
Return(c) ==
    /\ Goto(c, "idle")
    /\ arg' = [arg EXCEPT ![c] = NoUser]

\* The map's entry of u is erased: pointers to its node dangle.
EraseEntry(u) ==
    /\ session' = [session EXCEPT ![u] = Absent]
    /\ stale' = stale \cup {d \in Conns : hpc[d] = "read" /\ arg[d] = u}

\* VARIANT of Erase: the entry is left in the map.
EraseNothing(c) == UNCHANGED <<session, stale>>

\* Logout: the entry of this connection's user is erased, whichever connection
\* the entry belongs to.
Erase(c) ==
    IF user[c] # NoUser THEN EraseEntry(user[c]) ELSE UNCHANGED <<session, stale>>

-----------------------------------------------------------------------------
(* LoginTry.                                                               *)

\* c is logged in as u, or about to be.
Is(c, u) == user[c] = u \/ (hpc[c] \in {"login", "push"} /\ arg[c] = u)

\* QueryUser found the account and the password is right (otherwise nothing
\* changes).  Whether the connection, or the user, is logged in already is not
\* looked at.
LoginTry(c, u) ==
    /\ Begin(c, "login", u)
    /\ twice' = twice \cup (IF \E d \in Conns \ {c} : Is(d, u) THEN {u} ELSE {})
                      \cup ({user[c]} \ {u, NoUser})

\* d.handle->user = CreateUser(), a copy of the account.
SetUser(c) ==
    /\ hpc[c] = "login"
    /\ user' = IF c \in open THEN [user EXCEPT ![c] = arg[c]] ELSE user
    /\ Goto(c, "push")
    /\ UNCHANGED <<open, fresh, session, arg, stale, target, pingVars, midway, twice, crashed>>

\* VARIANT of PushSession: map::insert, which keeps an entry that is there.
PushSessionInserts(c) ==
    /\ hpc[c] = "push"
    /\ session' = [session EXCEPT ![arg[c]] = IF @ = Absent THEN c ELSE @]
    /\ Return(c)
    /\ UNCHANGED <<open, fresh, user, stale, target, pingVars, midway, twice, crashed>>

\* PushSession: session[id] = this connection.
PushSession(c) ==
    /\ hpc[c] = "push"
    /\ session' = [session EXCEPT ![arg[c]] = c]
    /\ Return(c)
    /\ UNCHANGED <<open, fresh, user, stale, target, pingVars, midway, twice, crashed>>

-----------------------------------------------------------------------------
(* LogoutTry.                                                              *)

LogoutTry(c) ==
    /\ user[c] # NoUser
    /\ Begin(c, "logout", user[c])
    /\ UNCHANGED twice

LogoutErase(c) ==
    /\ hpc[c] = "logout"
    /\ Erase(c)
    /\ Goto(c, "forget")
    /\ UNCHANGED <<open, fresh, user, arg, target, pingVars, midway, twice, crashed>>

\* DisposeUser and user = NULL.
LogoutForget(c) ==
    /\ hpc[c] = "forget"
    /\ user' = [user EXCEPT ![c] = NoUser]
    /\ Return(c)
    /\ UNCHANGED <<open, fresh, session, stale, target, pingVars, midway, twice, crashed>>

-----------------------------------------------------------------------------
(* The end of a connection.                                                *)

\* A worker gets the failed completion of c: OnDisconnected, then Logout.
Disconnect(c) == Begin(c, "erase", NoUser) /\ UNCHANGED twice

DisconnectErase(c) ==
    /\ hpc[c] = "erase"
    /\ Erase(c)
    /\ Goto(c, "free")
    /\ UNCHANGED <<open, fresh, user, arg, target, pingVars, midway, twice, crashed>>

\* The handle is freed.
DisconnectFree(c) ==
    /\ hpc[c] = "free"
    /\ open' = open \ {c}
    /\ user' = [user EXCEPT ![c] = NoUser]
    /\ Return(c)
    /\ UNCHANGED <<fresh, session, stale, target, pingVars, midway, twice, crashed>>

\* The ping thread's timeout of c, whatever its handler is doing.
PingTimeout(c) ==
    /\ pingPc = "idle" /\ c \in open
    /\ pingPc' = "erase" /\ pingAt' = c
    /\ midway' = IF hpc[c] = "idle" THEN midway ELSE midway \cup {c}
    /\ UNCHANGED <<open, fresh, user, session, handlerVars, twice, crashed>>

PingErase ==
    /\ pingPc = "erase"
    /\ Erase(pingAt)
    /\ pingPc' = "free"
    /\ UNCHANGED <<open, fresh, user, hpc, arg, target, pingAt, midway, twice, crashed>>

PingFree ==
    /\ pingPc = "free"
    /\ open' = open \ {pingAt}
    /\ user' = [user EXCEPT ![pingAt] = NoUser]
    /\ pingPc' = "idle" /\ pingAt' = NoConn
    /\ UNCHANGED <<fresh, session, handlerVars, midway, twice, crashed>>

-----------------------------------------------------------------------------
(* Messages.  Here the database work of the two handlers is one step; it is *)
(* taken apart in Messages.                                                *)

MessageQuery(c) ==
    /\ user[c] # NoUser
    /\ Begin(c, "query", user[c])
    /\ UNCHANGED twice

MessageQueried(c) ==
    /\ hpc[c] = "query"
    /\ Return(c)
    /\ UNCHANGED <<open, fresh, user, session, stale, target, pingVars, midway, twice, crashed>>

MessagePush(c, u) ==
    /\ user[c] # NoUser
    /\ Begin(c, "store", u)
    /\ UNCHANGED twice

\* Stored or not, the receiver is told that a message has come.
MessageStored(c) ==
    /\ hpc[c] = "store"
    /\ Goto(c, "check")
    /\ UNCHANGED <<open, fresh, user, session, arg, stale, target, pingVars, midway, twice, crashed>>

\* isSessionOpened walks the map without the lock.
IsSessionOpened(c) ==
    /\ hpc[c] = "check"
    /\ IF session[arg[c]] = Absent THEN Return(c) ELSE Goto(c, "index") /\ UNCHANGED arg
    /\ UNCHANGED <<open, fresh, user, session, stale, target, pingVars, midway, twice, crashed>>

\* VARIANT of GetConnection: the entry is reset.
GetConnectionResets(c) ==
    /\ hpc[c] = "index"
    /\ session' = [session EXCEPT ![arg[c]] = Null]
    /\ Goto(c, "read")
    /\ UNCHANGED <<open, fresh, user, arg, stale, target, pingVars, midway, twice, crashed>>

\* &session[id], without the lock: an entry that is gone by now is inserted
\* again, empty.
GetConnection(c) ==
    /\ hpc[c] = "index"
    /\ session' = [session EXCEPT ![arg[c]] = IF @ = Absent THEN Null ELSE @]
    /\ Goto(c, "read")
    /\ UNCHANGED <<open, fresh, user, arg, stale, target, pingVars, midway, twice, crashed>>

\* VARIANT of NotifyRead: the sender's own handle.
NotifyReadOwn(c) ==
    /\ hpc[c] = "read"
    /\ target' = [target EXCEPT ![c] = c]
    /\ stale' = stale \ {c}
    /\ Goto(c, "send")
    /\ UNCHANGED <<open, fresh, user, session, arg, pingVars, midway, twice, crashed>>

\* s->handle and s->io, the arguments of NetSendMsgPacket, are read from the
\* node, without the lock.  A node that was erased meanwhile holds anything.
NotifyRead(c) ==
    /\ hpc[c] = "read"
    /\ target' = [target EXCEPT ![c] = IF c \in stale THEN NoConn ELSE session[arg[c]]]
    /\ stale' = stale \ {c}
    /\ Goto(c, "send")
    /\ UNCHANGED <<open, fresh, user, session, arg, pingVars, midway, twice, crashed>>

\* NetSendMsgPacket to that handle.  NULL ends the process; a handle that was
\* freed by now, or never was one, may or may not.
NotifySend(c) ==
    /\ hpc[c] = "send"
    /\ \/ target[c] \in open /\ UNCHANGED crashed
       \/ target[c] = Null /\ crashed' = TRUE
       \/ target[c] \notin open \cup {Null} /\ crashed' \in BOOLEAN
    /\ Return(c)
    /\ target' = [target EXCEPT ![c] = NoConn]
    /\ UNCHANGED <<open, fresh, user, session, stale, pingVars, midway, twice>>

-----------------------------------------------------------------------------
HandlerStep(c) ==
    \/ SetUser(c) \/ PushSession(c)
    \/ LogoutErase(c) \/ LogoutForget(c)
    \/ DisconnectErase(c) \/ DisconnectFree(c)
    \/ IsSessionOpened(c) \/ GetConnection(c) \/ NotifyRead(c) \/ NotifySend(c)

ClientStep(c) ==
    \/ Accept(c) \/ LogoutTry(c) \/ Disconnect(c)
    \/ \E u \in Users : LoginTry(c, u)

MessageStep(c) ==
    \/ MessageQuery(c) \/ MessageQueried(c) \/ MessageStored(c)
    \/ \E u \in Users : MessagePush(c, u)

PingStep == (\E c \in Conns : PingTimeout(c)) \/ PingErase \/ PingFree

Next ==
    /\ ~crashed
    /\ (\E c \in Conns : ClientStep(c) \/ HandlerStep(c) \/ MessageStep(c)) \/ PingStep

Spec == Init /\ [][Next]_vars

-----------------------------------------------------------------------------
(* Properties.                                                             *)

\* c is logged in and nobody is changing that.
LoggedIn(c) ==
    /\ c \in open /\ user[c] # NoUser
    /\ hpc[c] \notin {"login", "push", "forget", "free"}
    /\ ~(pingPc = "free" /\ pingAt = c)
    /\ c \notin midway

\* A user is in the map, at the connection it is logged in on, so that the
\* messages for it are announced there; if it has never been logged in on two
\* connections at a time, nor left its connection to another user.
Reachable ==
    \A c \in Conns : LoggedIn(c) /\ user[c] \notin twice => session[user[c]] = c

\* "At login the map gets the connection under the user id": a user with a
\* logged-in connection has some connection in the map.  This does not hold when
\* clients reconnect before the server has noticed that the old connection is
\* dead: the end of the old one erases the entry of the new one.
Listed == \A c \in Conns : LoggedIn(c) => session[user[c]] \in Conns

\* A connection in the map is open and logged in as that user, if the user has
\* never been logged in on two connections at a time, nor left its connection
\* to another user: logout, the failed completion and the ping timeout take it
\* out of the map before its handle goes.  (A connection torn down while its
\* handler runs, perhaps a login, is left out: the handler may enter it again.)
EntryLive ==
    \A u \in Users \ twice : session[u] \in Conns \ midway =>
        session[u] \in open /\ user[session[u]] = u

\* The entry of such a user is erased or replaced only by the connection it
\* stands for: not by a sender that looks it up, nor by the end of a connection
\* which the user has left.
OwnEntryOnly ==
    [][\A u \in Users \ twice : session[u] \in Conns \ midway /\ session'[u] # session[u]
          => hpc[session[u]] \in {"logout", "erase"} \/ pingAt = session[u]]_vars

=============================================================================
