---------------------------- MODULE MessagesProofs ----------------------------
(***************************************************************************)
(* Proofs about Session and about Messages, which composes it with the     *)
(* table of messages: for every set of connections and users and any       *)
(* number of messages.                                                     *)
(***************************************************************************)
EXTENDS Messages, TLAPS

USE SessionAssumption DEF handlerVars, pingVars


-----------------------------------------------------------------------------
(* Every state of the specification is well typed.                         *)

Steps == {"idle", "login", "push", "logout", "forget", "query", "store",
          "check", "index", "read", "send", "erase", "free"}

\* A handler that begins, or goes on, keeps the types of hpc and arg.
HandlerTyped ==
    /\ hpc \in [Conns -> Steps]
    /\ arg \in [Conns -> Users \cup {NoUser}]
    /\ \A c \in Conns :
          hpc[c] \in {"login", "push", "store", "check", "index", "read", "send"}
            => arg[c] \in Users

LEMMA BeginTyped ==
    ASSUME HandlerTyped, NEW c \in Conns, NEW step \in Steps, NEW u \in Users \cup {NoUser},
           step \in {"login", "push", "store", "check", "index", "read", "send"}
             => u \in Users,
           Begin(c, step, u)
    PROVE  HandlerTyped'
  BY DEF HandlerTyped, Begin

LEMMA GotoTyped ==
    ASSUME HandlerTyped, NEW c \in Conns, NEW step \in Steps, Goto(c, step), UNCHANGED arg,
           step \in {"login", "push", "store", "check", "index", "read", "send"}
            => arg[c] \in Users
    PROVE  HandlerTyped'
  BY DEF HandlerTyped, Goto

LEMMA ReturnTyped ==
    ASSUME HandlerTyped, NEW c \in Conns, Return(c)
    PROVE  HandlerTyped'
  BY DEF HandlerTyped, Return, Goto, Steps

LEMMA EraseTyped ==
    ASSUME TypeOK, NEW c \in Conns, Erase(c)
    PROVE  session' \in [Users -> Conns \cup {Absent, Null}] /\ stale' \in SUBSET Conns
  BY DEF Erase, EraseEntry, TypeOK

LEMMA TypeStep == TypeOK /\ [Next]_vars => TypeOK'
<1> SUFFICES ASSUME TypeOK, [Next]_vars PROVE TypeOK'
  OBVIOUS
<1>0. HandlerTyped
  BY DEF HandlerTyped, TypeOK, Steps
<1>a. ASSUME NEW c \in Conns, ClientStep(c) PROVE TypeOK'
  <2>1. CASE Accept(c)
    BY <2>1 DEF Accept, TypeOK
  <2>2. ASSUME NEW step \in Steps, NEW u \in Users \cup {NoUser},
               step \in {"login", "push", "store", "check", "index", "read", "send"}
             => u \in Users,
               Begin(c, step, u), twice' \in SUBSET Users
        PROVE  TypeOK'
    <3>1. HandlerTyped'
      BY <1>0, <2>2, BeginTyped
    <3>2. /\ midway' \in SUBSET Conns
          /\ UNCHANGED <<open, fresh, user, session, stale, target, pingVars, crashed>>
      BY <2>2 DEF Begin, TypeOK
    <3> QED
      BY <2>2, <3>1, <3>2 DEF HandlerTyped, TypeOK, Steps
  <2>3. CASE LogoutTry(c)
    <3>1. user[c] \in Users \cup {NoUser}
      BY DEF TypeOK
    <3> QED
      BY <2>2, <2>3, <3>1 DEF LogoutTry, Steps, TypeOK
  <2>4. CASE Disconnect(c)
    BY <2>2, <2>4 DEF Disconnect, Steps, TypeOK
  <2>5. ASSUME NEW u \in Users, LoginTry(c, u) PROVE TypeOK'
    <3>1. user[c] \in Users \cup {NoUser}
      BY DEF TypeOK
    <3>2. twice' \in SUBSET Users
      BY <2>5, <3>1 DEF LoginTry, TypeOK
    <3> QED
      BY <2>2, <2>5, <3>2 DEF LoginTry, Steps
  <2> QED
    BY <1>a, <2>1, <2>3, <2>4, <2>5 DEF ClientStep
<1>b. ASSUME NEW c \in Conns, MessageStep(c) PROVE TypeOK'
  <2>1. ASSUME NEW step \in {"query", "store"}, NEW u \in Users \cup {NoUser},
               step = "store" => u \in Users, Begin(c, step, u), UNCHANGED twice
        PROVE  TypeOK'
    <3>1. HandlerTyped'
      BY <1>0, <2>1, BeginTyped DEF Steps
    <3>2. /\ midway' \in SUBSET Conns
          /\ UNCHANGED <<open, fresh, user, session, stale, target, pingVars, crashed>>
      BY <2>1 DEF Begin, TypeOK
    <3> QED
      BY <2>1, <3>1, <3>2 DEF HandlerTyped, TypeOK, Steps
  <2>2. CASE MessageQuery(c)
    <3>1. user[c] \in Users \cup {NoUser}
      BY DEF TypeOK
    <3> QED
      BY <2>1, <2>2, <3>1 DEF MessageQuery
  <2>3. ASSUME NEW u \in Users, MessagePush(c, u) PROVE TypeOK'
    BY <2>1, <2>3 DEF MessagePush
  <2>4. CASE MessageQueried(c)
    <3>1. HandlerTyped'
      BY <1>0, <2>4, ReturnTyped DEF MessageQueried
    <3> QED
      BY <2>4, <3>1 DEF MessageQueried, HandlerTyped, TypeOK, Steps
  <2>5. CASE MessageStored(c)
    <3>1. HandlerTyped'
      BY <1>0, <2>5, GotoTyped DEF MessageStored, HandlerTyped, Steps
    <3> QED
      BY <2>5, <3>1 DEF MessageStored, HandlerTyped, TypeOK, Steps
  <2> QED
    BY <1>b, <2>2, <2>3, <2>4, <2>5 DEF MessageStep
<1>c. ASSUME NEW c \in Conns, HandlerStep(c) PROVE TypeOK'
  <2>1. UNCHANGED <<fresh, pingVars, midway, twice>>
    BY <1>c DEF HandlerStep, SetUser, PushSession, LogoutErase, LogoutForget, DisconnectErase,
                DisconnectFree, IsSessionOpened, GetConnection, NotifyRead, NotifySend
  <2>2. HandlerTyped'
    <3>1. \/ Return(c)
          \/ /\ UNCHANGED arg
             /\ \E step \in Steps :
                   /\ Goto(c, step)
                   /\ step \in {"login", "push", "store", "check", "index", "read", "send"}
                        => arg[c] \in Users
      BY <1>0, <1>c
      DEF HandlerStep, SetUser, PushSession, LogoutErase, LogoutForget, DisconnectErase,
          DisconnectFree, IsSessionOpened, GetConnection, NotifyRead, NotifySend, HandlerTyped, Steps
    <3> QED
      BY <1>0, <3>1, GotoTyped, ReturnTyped
  <2>3. /\ open' \in SUBSET Conns /\ user' \in [Conns -> Users \cup {NoUser}]
        /\ crashed' \in BOOLEAN
    BY <1>c
    DEF HandlerStep, SetUser, PushSession, LogoutErase, LogoutForget, DisconnectErase,
        DisconnectFree, IsSessionOpened, GetConnection, NotifyRead, NotifySend, TypeOK
  <2>4. /\ session' \in [Users -> Conns \cup {Absent, Null}]
        /\ stale' \in SUBSET Conns
        /\ target' \in [Conns -> Conns \cup {Absent, Null, NoConn}]
    <3>1. CASE Erase(c) /\ UNCHANGED target
      BY <3>1, EraseTyped DEF TypeOK
    <3>2. CASE (PushSession(c) \/ GetConnection(c)) /\ UNCHANGED <<stale, target>>
      BY <3>2 DEF PushSession, GetConnection, TypeOK
    <3>3. CASE UNCHANGED <<session, stale, target>>
      BY <3>3 DEF TypeOK
    <3>4. CASE NotifyRead(c)
      <4>2. arg[c] \in Users
        BY <3>4 DEF NotifyRead, TypeOK
      <4> QED
        BY <3>4, <4>2 DEF NotifyRead, TypeOK
    <3>5. CASE NotifySend(c)
      BY <3>5 DEF NotifySend, TypeOK
    <3> QED
      BY <1>c, <3>1, <3>2, <3>3, <3>4, <3>5
      DEF HandlerStep, SetUser, PushSession, GetConnection, LogoutErase, LogoutForget,
          DisconnectErase, DisconnectFree, IsSessionOpened
  <2> QED
    BY <2>1, <2>2, <2>3, <2>4 DEF HandlerTyped, TypeOK, Steps
<1>d. CASE PingStep
  <2>1. ASSUME NEW c \in Conns, PingTimeout(c) PROVE TypeOK'
    BY <2>1 DEF PingTimeout, TypeOK
  <2>2. CASE PingErase
    <3>1. pingAt \in Conns
      BY <2>2 DEF PingErase, TypeOK
    <3> QED
      BY <2>2, <3>1, EraseTyped DEF PingErase, TypeOK
  <2>3. CASE PingFree
    BY <2>3 DEF PingFree, TypeOK
  <2> QED
    BY <1>d, <2>1, <2>2, <2>3 DEF PingStep
<1>e. CASE UNCHANGED vars
  BY <1>e DEF vars, TypeOK
<1> QED
  BY <1>a, <1>b, <1>c, <1>d, <1>e DEF Next

LEMMA InitTyped == Init => TypeOK
  BY DEF Init, TypeOK

\* Every reachable state is well typed.
THEOREM TypeCorrect == Spec => []TypeOK
  BY InitTyped, TypeStep, PTL DEF Spec

-----------------------------------------------------------------------------
(* The map of sessions, for users who were never logged in on two          *)
(* connections at a time.                                                  *)

Alone == \A u \in Users \ twice : \A c, d \in Conns : Is(c, u) /\ Is(d, u) => c = d

\* A login is of a connection that is logged in as nobody, or as the same user;
\* otherwise that user is left out.
LoggingIn ==
    \A c \in Conns :
        /\ hpc[c] = "login" => user[c] \in {NoUser, arg[c]} \cup twice
        /\ hpc[c] = "push" /\ c \in open => user[c] = arg[c]

NotAccepted == \A c \in fresh : c \notin open /\ hpc[c] = "idle" /\ user[c] = NoUser

\* A handler that runs on a freed handle is one that the ping thread caught.
Caught ==
    /\ \A c \in Conns : hpc[c] # "idle" /\ c \notin midway => c \in open
    /\ pingPc = "idle" => pingAt = NoConn
    /\ pingAt \in Conns /\ hpc[pingAt] # "idle" => pingAt \in midway

\* Whoever took its entry out of the map is not in the map.
TakenOut ==
    \A c \in Conns \ midway :
        hpc[c] \in {"forget", "free"} \/ (pingPc = "free" /\ pingAt = c)
            => \A u \in Users \ twice : session[u] # c

MapInv == Alone /\ LoggingIn /\ NotAccepted /\ Caught /\ TakenOut /\ Reachable /\ EntryLive

IInv == TypeOK /\ MapInv

\* A handler begins, moves on or ends, outside logins, logouts and teardowns; at
\* most it puts an empty entry into the map.
Moves(c) ==
    /\ hpc[c] \notin {"login", "push", "forget", "free"}
    /\ \E step \in Steps \ {"login", "push", "forget", "free"} : hpc' = [hpc EXCEPT ![c] = step]
    /\ \A d \in Conns \ {c} : arg'[d] = arg[d]
    /\ midway' = IF hpc[c] = "idle" /\ pingAt = c THEN midway \cup {c} ELSE midway
    /\ hpc[c] = "idle" => c \in open
    /\ \A u \in Users : session'[u] = session[u] \/ (session[u] = Absent /\ session'[u] = Null)
    /\ UNCHANGED <<open, fresh, user, pingVars, twice>>

LEMMA MovesStep ==
    ASSUME IInv, TypeOK', NEW c \in Conns, Moves(c)
    PROVE  IInv'
<1>1. PICK step \in Steps \ {"login", "push", "forget", "free"} : hpc' = [hpc EXCEPT ![c] = step]
  BY DEF Moves
<1>2. /\ hpc'[c] = step
      /\ \A d \in Conns \ {c} : hpc'[d] = hpc[d] /\ arg'[d] = arg[d]
      /\ hpc[c] \notin {"login", "push", "forget", "free"}
      /\ UNCHANGED <<open, fresh, user, pingPc, pingAt, twice>>
      /\ midway \subseteq midway' /\ \A d \in Conns \ {c} : d \in midway' => d \in midway
      /\ hpc[c] = "idle" => c \in open
  BY <1>1 DEF Moves, IInv, TypeOK
<1>3. \A u \in Users : \A d \in Conns : session'[u] = d <=> session[u] = d
  BY DEF Moves, IInv, TypeOK
<1>4. Alone'
  BY <1>2 DEF IInv, MapInv, Alone, Is
<1>5. LoggingIn'
  BY <1>2 DEF IInv, MapInv, LoggingIn
<1>6. NotAccepted'
  BY <1>2 DEF IInv, MapInv, NotAccepted, TypeOK
<1>7. Caught'
  BY <1>2 DEF IInv, MapInv, Caught, Moves
<1>8. TakenOut'
  BY <1>2, <1>3 DEF IInv, MapInv, TakenOut
<1>9. Reachable'
  <2>1. \A d \in Conns : LoggedIn(d)' => LoggedIn(d)
    BY <1>2 DEF LoggedIn
  <2>2. \A d \in Conns : LoggedIn(d) => user[d] \in Users
    BY DEF LoggedIn, IInv, TypeOK
  <2> QED
    BY <1>2, <1>3, <2>1, <2>2 DEF IInv, MapInv, Reachable
<1>10. EntryLive'
  BY <1>2, <1>3 DEF IInv, MapInv, EntryLive
<1> QED
  BY <1>4, <1>5, <1>6, <1>7, <1>8, <1>9, <1>10 DEF IInv, MapInv

LEMMA MovesAre ==
    ASSUME TypeOK, NEW c \in Conns,
           LogoutTry(c) \/ Disconnect(c) \/ MessageStep(c) \/ IsSessionOpened(c)
             \/ GetConnection(c) \/ NotifyRead(c) \/ NotifySend(c)
    PROVE  Moves(c)
<1>1. ASSUME NEW step \in {"logout", "erase", "query", "store"}, NEW u, Begin(c, step, u),
             UNCHANGED twice
      PROVE  Moves(c)
  BY <1>1 DEF Begin, Moves, TypeOK, Steps
<1>2. CASE LogoutTry(c) \/ Disconnect(c) \/ MessageQuery(c) \/ \E u \in Users : MessagePush(c, u)
  BY <1>1, <1>2 DEF LogoutTry, Disconnect, MessageQuery, MessagePush
<1>3. CASE MessageQueried(c) \/ NotifySend(c)
  BY <1>3 DEF MessageQueried, NotifySend, Return, Goto, Moves, Steps, TypeOK
<1>4. CASE IsSessionOpened(c)
  BY <1>4 DEF IsSessionOpened, Return, Goto, Moves, Steps, TypeOK
<1>5. CASE MessageStored(c) \/ GetConnection(c) \/ NotifyRead(c)
  BY <1>5 DEF MessageStored, GetConnection, NotifyRead, Goto, Moves, Steps, TypeOK
<1> QED
  BY <1>2, <1>3, <1>4, <1>5 DEF MessageStep

\* The other steps of handlers.
LEMMA AcceptStep ==
    ASSUME IInv, TypeOK', NEW c \in Conns, Accept(c)
    PROVE  IInv'
<1>1. /\ c \in fresh /\ fresh' = fresh \ {c} /\ open' = open \cup {c}
      /\ UNCHANGED <<user, session, hpc, arg, pingPc, pingAt, midway, twice>>
      /\ user[c] = NoUser /\ hpc[c] = "idle"
  BY DEF Accept, IInv, MapInv, NotAccepted
<1>2. Alone' /\ LoggingIn' /\ TakenOut'
  BY <1>1 DEF IInv, MapInv, Alone, Is, LoggingIn, TakenOut
<1>3. NotAccepted' /\ Caught'
  BY <1>1 DEF IInv, MapInv, NotAccepted, Caught
<1>4. Reachable'
  BY <1>1 DEF IInv, MapInv, Reachable, LoggedIn
<1>5. EntryLive'
  BY <1>1 DEF IInv, MapInv, EntryLive
<1> QED
  BY <1>2, <1>3, <1>4, <1>5 DEF IInv, MapInv

LEMMA LoginTryStep ==
    ASSUME IInv, TypeOK', NEW c \in Conns, NEW u \in Users, LoginTry(c, u)
    PROVE  IInv'
<1>1. /\ c \in open /\ hpc[c] = "idle"
      /\ hpc'[c] = "login" /\ arg'[c] = u
      /\ \A d \in Conns \ {c} : hpc'[d] = hpc[d] /\ arg'[d] = arg[d]
      /\ midway' = IF pingAt = c THEN midway \cup {c} ELSE midway
      /\ UNCHANGED <<open, fresh, user, session, pingPc, pingAt>>
      /\ twice \subseteq twice'
  BY DEF LoginTry, Begin, IInv, TypeOK
<1>0. /\ u \notin twice' => \A d \in Conns \ {c} : ~Is(d, u)
      /\ user[c] \in {NoUser, u} \cup twice'
  BY DEF LoginTry
<1>2. Alone'
  <2>1. \A d \in Conns, v \in Users : Is(d, v)' => Is(d, v) \/ (d = c /\ v = u)
    BY <1>1 DEF Is
  <2>2. u \notin twice' => \A d \in Conns \ {c} : ~Is(d, u)'
    BY <1>0, <2>1
  <2>3. \A v \in Users \ {u} : \A d \in Conns : Is(d, v)' => Is(d, v)
    BY <2>1
  <2> QED
    BY <1>1, <2>2, <2>3 DEF IInv, MapInv, Alone
<1>3. LoggingIn' /\ NotAccepted' /\ Caught'
  <2>1. LoggingIn'
    BY <1>0, <1>1 DEF IInv, MapInv, LoggingIn
  <2>2. NotAccepted'
    BY <1>1 DEF IInv, MapInv, NotAccepted, TypeOK
  <2>3. Caught'
    BY <1>1 DEF IInv, MapInv, Caught
  <2> QED
    BY <2>1, <2>2, <2>3
<1>4. TakenOut'
  BY <1>1 DEF IInv, MapInv, TakenOut
<1>5. Reachable'
  BY <1>1 DEF IInv, MapInv, Reachable, LoggedIn
<1>6. EntryLive'
  BY <1>1 DEF IInv, MapInv, EntryLive
<1> QED
  BY <1>2, <1>3, <1>4, <1>5, <1>6 DEF IInv, MapInv

LEMMA SetUserStep ==
    ASSUME IInv, TypeOK', NEW c \in Conns, SetUser(c)
    PROVE  IInv'
<1>1. /\ hpc[c] = "login" /\ user[c] \in {NoUser, arg[c]} \cup twice /\ arg[c] \in Users
      /\ hpc'[c] = "push" /\ user'[c] = IF c \in open THEN arg[c] ELSE user[c]
      /\ \A d \in Conns \ {c} : hpc'[d] = hpc[d] /\ user'[d] = user[d]
      /\ UNCHANGED <<open, fresh, session, arg, pingPc, pingAt, midway, twice>>
  BY DEF SetUser, Goto, IInv, MapInv, LoggingIn, TypeOK
<1>2. Alone'
  BY <1>1 DEF IInv, MapInv, Alone, Is
<1>3. LoggingIn' /\ NotAccepted' /\ Caught'
  <2>1. LoggingIn'
    BY <1>1 DEF IInv, MapInv, LoggingIn
  <2>2. NotAccepted'
    BY <1>1 DEF IInv, MapInv, NotAccepted, TypeOK
  <2>3. Caught'
    BY <1>1 DEF IInv, MapInv, Caught
  <2> QED
    BY <2>1, <2>2, <2>3
<1>4. TakenOut'
  BY <1>1 DEF IInv, MapInv, TakenOut
<1>5. Reachable'
  BY <1>1 DEF IInv, MapInv, Reachable, LoggedIn
<1>6. EntryLive'
  BY <1>1 DEF IInv, MapInv, EntryLive
<1> QED
  BY <1>2, <1>3, <1>4, <1>5, <1>6 DEF IInv, MapInv

LEMMA PushSessionStep ==
    ASSUME IInv, TypeOK', NEW c \in Conns, PushSession(c)
    PROVE  IInv'
<1>1. /\ hpc[c] = "push" /\ arg[c] \in Users /\ Is(c, arg[c])
      /\ hpc'[c] = "idle" /\ session'[arg[c]] = c
      /\ \A d \in Conns \ {c} : hpc'[d] = hpc[d] /\ arg'[d] = arg[d]
      /\ \A u \in Users \ {arg[c]} : session'[u] = session[u]
      /\ UNCHANGED <<open, fresh, user, pingPc, pingAt, midway, twice>>
      /\ c \notin midway => c \in open
      /\ c \in open => user[c] = arg[c]
  BY DEF PushSession, Return, Goto, IInv, MapInv, LoggingIn, Caught, Is, TypeOK
<1>2. Alone'
  BY <1>1 DEF IInv, MapInv, Alone, Is
<1>3. LoggingIn' /\ NotAccepted' /\ Caught'
  <2>1. LoggingIn'
    BY <1>1 DEF IInv, MapInv, LoggingIn
  <2>2. NotAccepted'
    BY <1>1 DEF IInv, MapInv, NotAccepted, TypeOK
  <2>3. Caught'
    BY <1>1 DEF IInv, MapInv, Caught
  <2> QED
    BY <2>1, <2>2, <2>3
<1>4. TakenOut'
  BY <1>1 DEF IInv, MapInv, TakenOut, Caught
<1>5. Reachable'
  <2>1. ASSUME NEW d \in Conns, LoggedIn(d)', user'[d] \notin twice'
        PROVE  session'[user'[d]] = d
    <3>1. CASE d = c
      BY <1>1, <2>1, <3>1 DEF LoggedIn
    <3>2. CASE d # c
      <4>1. LoggedIn(d) /\ user[d] \in Users \ twice /\ Is(d, user[d])
        BY <1>1, <2>1, <3>2 DEF LoggedIn, Is, IInv, TypeOK
      <4>2. user[d] # arg[c]
        BY <1>1, <3>2, <4>1 DEF IInv, MapInv, Alone
      <4> QED
        BY <1>1, <4>1, <4>2 DEF IInv, MapInv, Reachable
    <3> QED
      BY <3>1, <3>2
  <2> QED
    BY <2>1 DEF Reachable
<1>6. EntryLive'
  BY <1>1 DEF IInv, MapInv, EntryLive
<1> QED
  BY <1>2, <1>3, <1>4, <1>5, <1>6 DEF IInv, MapInv

\* An entry that is erased belongs to the one that erases it.
LEMMA OwnErase ==
    ASSUME IInv, TypeOK', NEW c \in Conns, Erase(c)
    PROVE  /\ \A u \in Users : session'[u] = IF user[c] = u THEN Absent ELSE session[u]
           /\ \A d \in Conns \ {c} :
                 LoggedIn(d) /\ user[d] \notin twice => session'[user[d]] = d
           /\ c \notin midway => \A u \in Users \ twice : session'[u] # c
<1>1. \A u \in Users : session'[u] = IF user[c] = u THEN Absent ELSE session[u]
  BY DEF Erase, EraseEntry, IInv, TypeOK
<1>2. ASSUME NEW d \in Conns \ {c}, LoggedIn(d), user[d] \notin twice PROVE session'[user[d]] = d
  <2>1. user[d] \in Users /\ Is(d, user[d]) /\ session[user[d]] = d
    BY <1>2 DEF LoggedIn, Is, IInv, TypeOK, MapInv, Reachable
  <2>2. user[c] # user[d]
    BY <1>2, <2>1 DEF Is, IInv, MapInv, Alone
  <2> QED
    BY <1>1, <2>1, <2>2
<1>3. c \notin midway => \A u \in Users \ twice : session'[u] # c
  BY <1>1 DEF IInv, MapInv, EntryLive
<1> QED
  BY <1>1, <1>2, <1>3

LEMMA HandlerEraseStep ==
    ASSUME IInv, TypeOK', NEW c \in Conns, LogoutErase(c) \/ DisconnectErase(c)
    PROVE  IInv'
<1>1. /\ hpc[c] \in {"logout", "erase"} /\ hpc'[c] \in {"forget", "free"}
      /\ \A d \in Conns \ {c} : hpc'[d] = hpc[d]
      /\ UNCHANGED <<open, fresh, user, arg, pingPc, pingAt, midway, twice>>
      /\ Erase(c)
  BY DEF LogoutErase, DisconnectErase, Goto, IInv, TypeOK
<1>0. /\ \A u \in Users : session'[u] = IF user[c] = u THEN Absent ELSE session[u]
      /\ \A d \in Conns \ {c} : LoggedIn(d) /\ user[d] \notin twice => session'[user[d]] = d
      /\ c \notin midway => \A u \in Users \ twice : session'[u] # c
  BY <1>1, OwnErase
<1>2. Alone'
  BY <1>1 DEF IInv, MapInv, Alone, Is
<1>3. LoggingIn' /\ NotAccepted' /\ Caught'
  <2>1. LoggingIn'
    BY <1>1 DEF IInv, MapInv, LoggingIn
  <2>2. NotAccepted'
    BY <1>1 DEF IInv, MapInv, NotAccepted, TypeOK
  <2>3. Caught'
    BY <1>1 DEF IInv, MapInv, Caught
  <2> QED
    BY <2>1, <2>2, <2>3
<1>4. TakenOut'
  BY <1>0, <1>1 DEF IInv, MapInv, TakenOut
<1>5. Reachable'
  <2>1. \A d \in Conns : LoggedIn(d)' => d # c /\ LoggedIn(d)
    BY <1>1 DEF LoggedIn
  <2> QED
    BY <1>0, <1>1, <2>1 DEF Reachable
<1>6. EntryLive'
  BY <1>0, <1>1 DEF IInv, MapInv, EntryLive
<1> QED
  BY <1>2, <1>3, <1>4, <1>5, <1>6 DEF IInv, MapInv

\* The user of a connection whose entry is gone is forgotten, at logout or with
\* the handle.
LEMMA HandlerForgetStep ==
    ASSUME IInv, TypeOK', NEW c \in Conns, LogoutForget(c) \/ DisconnectFree(c)
    PROVE  IInv'
<1>1. /\ hpc[c] \in {"forget", "free"} /\ hpc'[c] = "idle" /\ user'[c] = NoUser
      /\ \A d \in Conns \ {c} : hpc'[d] = hpc[d] /\ user'[d] = user[d] /\ arg'[d] = arg[d]
      /\ open' = open \/ open' = open \ {c}
      /\ UNCHANGED <<fresh, session, pingPc, pingAt, midway, twice>>
      /\ c \notin midway => \A u \in Users \ twice : session[u] # c
  BY DEF LogoutForget, DisconnectFree, Return, Goto, IInv, MapInv, TakenOut, TypeOK
<1>2. Alone'
  BY <1>1 DEF IInv, MapInv, Alone, Is
<1>3. LoggingIn' /\ NotAccepted' /\ Caught'
  <2>1. LoggingIn'
    BY <1>1 DEF IInv, MapInv, LoggingIn
  <2>2. NotAccepted'
    BY <1>1 DEF IInv, MapInv, NotAccepted, TypeOK
  <2>3. Caught'
    BY <1>1 DEF IInv, MapInv, Caught
  <2> QED
    BY <2>1, <2>2, <2>3
<1>4. TakenOut'
  BY <1>1 DEF IInv, MapInv, TakenOut
<1>5. Reachable'
  BY <1>1 DEF IInv, MapInv, Reachable, LoggedIn
<1>6. EntryLive'
  BY <1>1 DEF IInv, MapInv, EntryLive
<1> QED
  BY <1>2, <1>3, <1>4, <1>5, <1>6 DEF IInv, MapInv

\* The teardown by the ping thread.
LEMMA PingTimeoutStep ==
    ASSUME IInv, TypeOK', NEW c \in Conns, PingTimeout(c)
    PROVE  IInv'
<1>1. /\ pingPc = "idle" /\ pingPc' = "erase" /\ pingAt' = c
      /\ midway' = IF hpc[c] = "idle" THEN midway ELSE midway \cup {c}
      /\ UNCHANGED <<open, fresh, user, session, hpc, arg, twice>>
  BY DEF PingTimeout
<1>2. Alone' /\ LoggingIn' /\ NotAccepted' /\ Caught'
  BY <1>1 DEF IInv, MapInv, Alone, Is, LoggingIn, NotAccepted, Caught
<1>3. TakenOut'
  BY <1>1 DEF IInv, MapInv, TakenOut
<1>4. Reachable'
  BY <1>1 DEF IInv, MapInv, Reachable, LoggedIn
<1>5. EntryLive'
  BY <1>1 DEF IInv, MapInv, EntryLive
<1> QED
  BY <1>2, <1>3, <1>4, <1>5 DEF IInv, MapInv

LEMMA PingEraseStep ==
    ASSUME IInv, TypeOK', PingErase
    PROVE  IInv'
<1>1. /\ pingPc = "erase" /\ pingPc' = "free" /\ pingAt \in Conns
      /\ UNCHANGED <<open, fresh, user, hpc, arg, pingAt, midway, twice>>
      /\ Erase(pingAt)
  BY DEF PingErase, IInv, TypeOK
<1>0. /\ \A u \in Users : session'[u] = IF user[pingAt] = u THEN Absent ELSE session[u]
      /\ \A d \in Conns \ {pingAt} : LoggedIn(d) /\ user[d] \notin twice => session'[user[d]] = d
      /\ pingAt \notin midway => \A u \in Users \ twice : session'[u] # pingAt
  BY <1>1, OwnErase
<1>2. Alone' /\ LoggingIn' /\ NotAccepted' /\ Caught'
  BY <1>1 DEF IInv, MapInv, Alone, Is, LoggingIn, NotAccepted, Caught
<1>3. TakenOut'
  BY <1>0, <1>1 DEF IInv, MapInv, TakenOut
<1>4. Reachable'
  <2>1. \A d \in Conns : LoggedIn(d)' => d # pingAt /\ LoggedIn(d)
    BY <1>1 DEF LoggedIn
  <2> QED
    BY <1>0, <1>1, <2>1 DEF Reachable
<1>5. EntryLive'
  BY <1>0, <1>1 DEF IInv, MapInv, EntryLive
<1> QED
  BY <1>2, <1>3, <1>4, <1>5 DEF IInv, MapInv

LEMMA PingFreeStep ==
    ASSUME IInv, TypeOK', PingFree
    PROVE  IInv'
<1>1. /\ pingPc = "free" /\ pingPc' = "idle" /\ pingAt \in Conns /\ pingAt' = NoConn
      /\ open' = open \ {pingAt} /\ user'[pingAt] = NoUser
      /\ \A d \in Conns \ {pingAt} : user'[d] = user[d]
      /\ UNCHANGED <<fresh, session, hpc, arg, midway, twice>>
      /\ pingAt \notin midway => \A u \in Users \ twice : session[u] # pingAt
  BY DEF PingFree, IInv, MapInv, TakenOut, TypeOK
<1>2. Alone'
  BY <1>1 DEF IInv, MapInv, Alone, Is
<1>3. LoggingIn' /\ NotAccepted' /\ Caught'
  <2>1. LoggingIn'
    BY <1>1 DEF IInv, MapInv, LoggingIn, Caught
  <2>2. NotAccepted'
    BY <1>1 DEF IInv, MapInv, NotAccepted, TypeOK
  <2>3. Caught'
    BY <1>1 DEF IInv, MapInv, Caught
  <2> QED
    BY <2>1, <2>2, <2>3
<1>4. TakenOut'
  BY <1>1 DEF IInv, MapInv, TakenOut
<1>5. Reachable'
  BY <1>1 DEF IInv, MapInv, Reachable, LoggedIn
<1>6. EntryLive'
  BY <1>1 DEF IInv, MapInv, EntryLive
<1> QED
  BY <1>2, <1>3, <1>4, <1>5, <1>6 DEF IInv, MapInv

LEMMA InvStep ==
    ASSUME IInv, [Next]_vars
    PROVE  IInv'
<1>0. TypeOK'
  BY TypeStep DEF IInv
<1>1. ASSUME NEW c \in Conns, ClientStep(c) \/ HandlerStep(c) \/ MessageStep(c) PROVE IInv'
  <2>1. CASE LogoutTry(c) \/ Disconnect(c) \/ MessageStep(c) \/ IsSessionOpened(c)
               \/ GetConnection(c) \/ NotifyRead(c) \/ NotifySend(c)
    BY <1>0, <2>1, MovesAre, MovesStep DEF IInv
  <2>2. CASE Accept(c) \/ \E u \in Users : LoginTry(c, u)
    BY <1>0, <2>2, AcceptStep, LoginTryStep
  <2>3. CASE \/ SetUser(c) \/ PushSession(c) \/ LogoutErase(c) \/ LogoutForget(c)
             \/ DisconnectErase(c) \/ DisconnectFree(c)
    BY <1>0, <2>3, SetUserStep, PushSessionStep, HandlerEraseStep, HandlerForgetStep
  <2> QED
    BY <1>1, <2>1, <2>2, <2>3 DEF ClientStep, HandlerStep
<1>2. CASE PingStep
  BY <1>0, <1>2, PingTimeoutStep, PingEraseStep, PingFreeStep DEF PingStep
<1>3. CASE UNCHANGED vars
  BY <1>0, <1>3
  DEF vars, IInv, MapInv, Alone, Is, LoggingIn, NotAccepted, Caught, TakenOut, Reachable,
      LoggedIn, EntryLive
<1> QED
  BY <1>1, <1>2, <1>3 DEF Next

LEMMA InvInit == Init => IInv
<1> SUFFICES ASSUME Init PROVE IInv
  OBVIOUS
<1>1. TypeOK
  BY InitTyped
<1>2. Alone /\ LoggingIn /\ NotAccepted /\ Caught
  BY DEF Init, Alone, Is, LoggingIn, NotAccepted, Caught
<1>3. TakenOut /\ Reachable /\ EntryLive
  BY DEF Init, TakenOut, Reachable, LoggedIn, EntryLive
<1> QED
  BY <1>1, <1>2, <1>3 DEF IInv, MapInv

LEMMA Invariant == Spec => []IInv
<1>1. Init => IInv
  BY InvInit
<1>2. IInv /\ [Next]_vars => IInv'
  BY InvStep
<1> QED
  BY <1>1, <1>2, PTL DEF Spec

\* A logged-in user who was never logged in on two connections at a time, nor
\* left one to another user, is in the map, at its connection.
THEOREM ReachableHolds == Spec => []Reachable
<1>1. IInv => Reachable
  BY DEF IInv, MapInv
<1> QED
  BY <1>1, Invariant, PTL

\* The connection in the entry of such a user is open and logged in as that user,
\* unless it was torn down while its handler was running.
THEOREM EntryLiveHolds == Spec => []EntryLive
<1>1. IInv => EntryLive
  BY DEF IInv, MapInv
<1> QED
  BY <1>1, Invariant, PTL

\* Only the connection that the entry of such a user stands for erases or
\* replaces it.
THEOREM OwnEntryOnlyHolds == Spec => OwnEntryOnly
<1>1. ASSUME IInv, [Next]_vars, NEW u \in Users \ twice, session[u] \in Conns \ midway,
             session'[u] # session[u]
      PROVE  hpc[session[u]] \in {"logout", "erase"} \/ pingAt = session[u]
  <2>a. PICK d \in Conns : d = session[u]
    BY <1>1
  <2>0. d \in Conns /\ d = session[u] /\ d \notin midway /\ user[d] = u /\ Is(d, u)
        /\ d # Absent /\ TypeOK'
    BY <1>1, <2>a, TypeStep DEF IInv, MapInv, EntryLive, Is
  <2>1. ASSUME NEW c \in Conns, Moves(c) PROVE FALSE
    BY <1>1, <2>0, <2>1 DEF Moves
  <2>2. ASSUME NEW c \in Conns, PushSession(c) PROVE FALSE
    <3>1. arg[c] = u /\ c # d
      BY <1>1, <2>0, <2>2 DEF PushSession, IInv, TypeOK
    <3>2. Is(c, u)
      BY <2>2, <3>1 DEF PushSession, Is
    <3> QED
      BY <1>1, <2>0, <3>1, <3>2 DEF IInv, MapInv, Alone
  <2>3. ASSUME NEW c \in Conns, Erase(c) PROVE c = d
    <3>1. user[c] = u
      BY <1>1, <2>0, <2>3, OwnErase DEF IInv
    <3> QED
      BY <1>1, <2>0, <3>1 DEF IInv, MapInv, Alone, Is
  <2>4. ASSUME NEW c \in Conns, ClientStep(c) \/ HandlerStep(c) \/ MessageStep(c)
        PROVE  hpc[d] \in {"logout", "erase"}
    <3>1. CASE LogoutErase(c) \/ DisconnectErase(c)
      BY <2>3, <3>1 DEF LogoutErase, DisconnectErase
    <3>2. CASE Accept(c) \/ (\E v \in Users : LoginTry(c, v)) \/ SetUser(c) \/ LogoutForget(c)
                 \/ DisconnectFree(c)
      BY <1>1, <3>2 DEF Accept, LoginTry, Begin, SetUser, LogoutForget, DisconnectFree
    <3>3. CASE LogoutTry(c) \/ Disconnect(c) \/ MessageStep(c) \/ IsSessionOpened(c)
                 \/ GetConnection(c) \/ NotifyRead(c) \/ NotifySend(c)
      BY <1>1, <2>1, <3>3, MovesAre DEF IInv
    <3> QED
      BY <2>2, <2>4, <3>1, <3>2, <3>3 DEF ClientStep, HandlerStep
  <2>5. CASE PingStep
    <3>1. PingErase
      BY <1>1, <2>5 DEF PingStep, PingTimeout, PingFree
    <3>2. pingAt \in Conns /\ Erase(pingAt)
      BY <1>1, <3>1 DEF PingErase, IInv, TypeOK
    <3> QED
      BY <2>0, <2>3, <3>2
  <2> QED
    BY <1>1, <2>0, <2>4, <2>5 DEF Next, vars
<1>2. IInv /\ [Next]_vars =>
        [\A u \in Users \ twice : session[u] \in Conns \ midway /\ session'[u] # session[u]
            => hpc[session[u]] \in {"logout", "erase"} \/ pingAt = session[u]]_vars
  BY <1>1
<1> QED
  BY <1>2, Invariant, PTL DEF OwnEntryOnly, Spec

-----------------------------------------------------------------------------
(* The messages.                                                           *)

USE MessagesAssumption DEF MessageIds, messageVars

-----------------------------------------------------------------------------
(* Messages implements Session.                                            *)

LEMMA SessionStep == [MessagesNext]_allVars => [Next]_vars
<1> SUFFICES ASSUME [MessagesNext]_allVars PROVE [Next]_vars
  OBVIOUS
<1>1. CASE UNCHANGED allVars
  BY <1>1 DEF allVars
<1>2. CASE MessagesNext
  <2>0. ~crashed
    BY <1>2 DEF MessagesNext
  <2>1. ASSUME NEW c \in Conns, TableStep(c) PROVE [Next]_vars
    <3>1. CASE PushInsert(c) \/ PushLastInsertId(c) \/ QuerySelect(c) \/ QueryDelete(c) \/ QueryInfo(c)
      <4>1. MessageStored(c) \/ MessageQueried(c) \/ UNCHANGED vars
        BY <3>1 DEF PushInsert, PushLastInsertId, QuerySelect, QueryDelete, QueryInfo
      <4> QED
        BY <2>0, <4>1 DEF Next, MessageStep
    <3>2. CASE QueryBegin(c)
      BY <2>0, <3>2 DEF QueryBegin, Next, MessageStep
    <3>3. ASSUME NEW u \in Users, PushBegin(c, u) PROVE [Next]_vars
      BY <2>0, <3>3 DEF PushBegin, Next, MessageStep
    <3> QED
      BY <2>1, <3>1, <3>2, <3>3 DEF TableStep
  <2>2. CASE (\E c \in Conns : ClientStep(c) \/ HandlerStep(c)) \/ PingStep
    BY <2>0, <2>2 DEF Next
  <2> QED
    BY <1>2, <2>1, <2>2 DEF MessagesNext
<1> QED
  BY <1>1, <1>2

\* The table and the statements on it do not change what Session does.
THEOREM Implements == MessagesSpec => Spec
<1>1. MessagesInit => Init
  BY DEF MessagesInit
<1> QED
  BY <1>1, SessionStep, PTL DEF MessagesSpec, Spec

-----------------------------------------------------------------------------
(* Every state of the specification is well typed.                         *)

\* The other steps of Session start and end no work on the table, and leave the
\* user of a connection that works on it alone as long as it is open.
LEMMA Elsewhere ==
    ASSUME TypeOK, NotAccepted,
           (\E c \in Conns : ClientStep(c) \/ HandlerStep(c)) \/ PingStep
    PROVE  \A d \in Conns :
               /\ hpc'[d] = "store" <=> hpc[d] = "store"
               /\ hpc'[d] = "query" <=> hpc[d] = "query"
               /\ hpc[d] = "query" /\ d \in open' => d \in open /\ user'[d] = user[d]
<1> SUFFICES ASSUME NEW d \in Conns
             PROVE  /\ hpc'[d] = "store" <=> hpc[d] = "store"
                    /\ hpc'[d] = "query" <=> hpc[d] = "query"
                    /\ hpc[d] = "query" /\ d \in open' => d \in open /\ user'[d] = user[d]
  OBVIOUS
<1>1. ASSUME NEW c \in Conns, Accept(c)
      PROVE  UNCHANGED <<hpc, user>> /\ (hpc[d] = "query" /\ d \in open' => d \in open)
  BY <1>1 DEF Accept, NotAccepted
<1>2. ASSUME NEW c \in Conns, NEW step \in {"login", "logout", "erase"}, NEW u, Begin(c, step, u)
      PROVE  /\ hpc'[d] = "store" <=> hpc[d] = "store"
             /\ hpc'[d] = "query" <=> hpc[d] = "query"
             /\ UNCHANGED <<open, user>>
  BY <1>2 DEF Begin, TypeOK
<1>3. ASSUME NEW c \in Conns, LogoutTry(c) \/ Disconnect(c) \/ \E u \in Users : LoginTry(c, u)
      PROVE  /\ hpc'[d] = "store" <=> hpc[d] = "store"
             /\ hpc'[d] = "query" <=> hpc[d] = "query"
             /\ UNCHANGED <<open, user>>
  BY <1>2, <1>3 DEF LogoutTry, Disconnect, LoginTry
<1>4. ASSUME NEW c \in Conns, HandlerStep(c)
      PROVE  /\ hpc'[d] = "store" <=> hpc[d] = "store"
             /\ hpc'[d] = "query" <=> hpc[d] = "query"
             /\ hpc[d] = "query" /\ d \in open' => d \in open /\ user'[d] = user[d]
  <2>1. \E step \in Steps \ {"store", "query"} : hpc' = [hpc EXCEPT ![c] = step]
    BY <1>4
    DEF HandlerStep, SetUser, PushSession, LogoutErase, LogoutForget, DisconnectErase,
        DisconnectFree, IsSessionOpened, GetConnection, NotifyRead, NotifySend, Return, Goto, Steps
  <2>2. hpc[c] \notin {"store", "query"}
    BY <1>4
    DEF HandlerStep, SetUser, PushSession, LogoutErase, LogoutForget, DisconnectErase,
        DisconnectFree, IsSessionOpened, GetConnection, NotifyRead, NotifySend
  <2>3. d # c => (d \in open' => d \in open) /\ user'[d] = user[d]
    BY <1>4
    DEF HandlerStep, SetUser, PushSession, LogoutErase, LogoutForget, DisconnectErase,
        DisconnectFree, IsSessionOpened, GetConnection, NotifyRead, NotifySend, TypeOK
  <2> QED
    BY <2>1, <2>2, <2>3 DEF TypeOK
<1>5. CASE PingStep
  BY <1>5 DEF PingStep, PingTimeout, PingErase, PingFree, TypeOK
<1> QED
  BY <1>1, <1>3, <1>4, <1>5 DEF ClientStep

\* What a statement of the handler of c does to the handler, and to Session.
LEMMA RunTyped ==
    ASSUME TypeOK, TableTypeOK, NEW c \in Conns, pushes' \in Nat, pushes' >= pushes,
           NEW statement \in {"none", "insert", "lastInsertId", "select", "delete", "info"},
           NEW m \in 0 .. pushes', Run(c, statement, m),
           m = 0 <=> statement \in {"none", "select"},
           \A d \in Conns \ {c} : hpc'[d] = hpc[d],
           statement \in {"insert", "lastInsertId"} <=> hpc'[c] = "store",
           statement \in {"select", "delete", "info"} <=> hpc'[c] = "query"
    PROVE  /\ mpc' \in [Conns -> {"none", "insert", "lastInsertId", "select", "delete", "info"}]
           /\ held' \in [Conns -> 0 .. pushes']
           /\ \A d \in Conns : held'[d] = 0 <=> mpc'[d] \in {"none", "select"}
           /\ \A d \in Conns : mpc'[d] \in {"insert", "lastInsertId"} <=> hpc'[d] = "store"
           /\ \A d \in Conns : mpc'[d] \in {"select", "delete", "info"} <=> hpc'[d] = "query"
<1>1. pushes \in Nat /\ held \in [Conns -> 0 .. pushes]
  BY DEF TableTypeOK
<1>2. held' \in [Conns -> 0 .. pushes']
  BY <1>1 DEF Run
<1> QED
  BY <1>2 DEF Run, TableTypeOK

LEMMA StatementTyped ==
    ASSUME TypeOK, TableTypeOK, NEW c \in Conns,
           PushInsert(c) \/ PushLastInsertId(c) \/ QuerySelect(c) \/ QueryDelete(c) \/ QueryInfo(c)
    PROVE  TableTypeOK'
<1>0. /\ pushes' = pushes /\ pushes \in 0 .. MaxMessages /\ to' = to
      /\ pushes' \in Nat /\ pushes' >= pushes /\ MaxMessages \in Nat
  BY DEF PushInsert, PushLastInsertId, QuerySelect, QueryDelete, QueryInfo, TableTypeOK
<1>1. ASSUME MessageStored(c) \/ MessageQueried(c), Run(c, "none", 0)
      PROVE  /\ mpc' \in [Conns -> {"none", "insert", "lastInsertId", "select", "delete", "info"}]
             /\ held' \in [Conns -> 0 .. pushes']
             /\ \A d \in Conns : held'[d] = 0 <=> mpc'[d] \in {"none", "select"}
             /\ \A d \in Conns : mpc'[d] \in {"insert", "lastInsertId"} <=> hpc'[d] = "store"
             /\ \A d \in Conns : mpc'[d] \in {"select", "delete", "info"} <=> hpc'[d] = "query"
  <2>1. /\ hpc'[c] \notin {"store", "query"}
        /\ \A d \in Conns \ {c} : hpc'[d] = hpc[d]
    BY <1>1 DEF MessageStored, MessageQueried, Return, Goto, TypeOK
  <2> QED
    BY <1>0, <1>1, <2>1, RunTyped
<1>2. ASSUME UNCHANGED vars, NEW m \in 0 .. pushes,
             NEW statement \in {"lastInsertId", "select", "delete", "info"}, Run(c, statement, m),
             m = 0 <=> statement = "select",
             statement = "lastInsertId" <=> mpc[c] = "insert",
             mpc[c] \in {"insert", "select", "delete", "info"}
      PROVE  /\ mpc' \in [Conns -> {"none", "insert", "lastInsertId", "select", "delete", "info"}]
             /\ held' \in [Conns -> 0 .. pushes']
             /\ \A d \in Conns : held'[d] = 0 <=> mpc'[d] \in {"none", "select"}
             /\ \A d \in Conns : mpc'[d] \in {"insert", "lastInsertId"} <=> hpc'[d] = "store"
             /\ \A d \in Conns : mpc'[d] \in {"select", "delete", "info"} <=> hpc'[d] = "query"
  <2>1. /\ hpc' = hpc
        /\ statement \in {"insert", "lastInsertId"} <=> hpc'[c] = "store"
        /\ statement \in {"select", "delete", "info"} <=> hpc'[c] = "query"
    BY <1>2 DEF vars, TableTypeOK
  <2> QED
    BY <1>0, <1>2, <2>1, RunTyped
<1>3. CASE PushInsert(c)
  <2>1. held[c] \in 1 .. pushes /\ mpc[c] = "insert"
    BY <1>3 DEF PushInsert, TableTypeOK
  <2>2. CASE Run(c, "lastInsertId", held[c]) /\ UNCHANGED <<vars, failed>>
             /\ stored' = stored \cup {held[c]}
    <3>1. UNCHANGED vars /\ failed' = failed /\ stored' \subseteq 1 .. pushes'
      BY <1>0, <2>1, <2>2 DEF TableTypeOK
    <3>2. UNCHANGED got
      BY <1>3 DEF PushInsert
    <3> QED
      BY <1>0, <1>2, <2>1, <2>2, <3>1, <3>2 DEF TableTypeOK
  <2>3. CASE /\ Run(c, "none", 0) /\ MessageStored(c) /\ UNCHANGED stored
             /\ failed' = failed \cup {held[c]}
    <3>1. failed' \subseteq MessageIds
      <4>1. held[c] \in MessageIds
        BY <1>0, <2>1
      <4> QED
        BY <2>3, <4>1 DEF TableTypeOK
    <3>2. stored' \subseteq 1 .. pushes'
      BY <1>0, <2>3 DEF TableTypeOK
    <3>3. UNCHANGED got
      BY <1>3 DEF PushInsert
    <3> QED
      BY <1>0, <1>1, <2>3, <3>1, <3>2, <3>3 DEF TableTypeOK
  <2> QED
    BY <1>3, <2>2, <2>3 DEF PushInsert
<1>4. CASE PushLastInsertId(c)
  BY <1>0, <1>1, <1>4 DEF PushLastInsertId, TableTypeOK
<1>5. CASE QuerySelect(c)
  <2>1. \A m \in For(user[c]) : m \in 1 .. pushes
    BY DEF For, TableTypeOK
  <2> QED
    BY <1>0, <1>1, <1>2, <1>5, <2>1 DEF QuerySelect, TableTypeOK
<1>6. CASE QueryDelete(c)
  <2>1. held[c] \in 1 .. pushes
    BY <1>6 DEF QueryDelete, TableTypeOK
  <2> QED
    BY <1>0, <1>1, <1>2, <1>6, <2>1 DEF QueryDelete, TableTypeOK
<1>7. CASE QueryInfo(c)
  <2>1. held[c] \in 1 .. MaxMessages
    BY <1>0, <1>7 DEF QueryInfo, TableTypeOK
  <2>2. got' \in [MessageIds -> Nat]
    <3>1. got' = got \/ got' = [got EXCEPT ![held[c]] = got[held[c]] + 1]
      BY <1>7 DEF QueryInfo
    <3>2. got[held[c]] + 1 \in Nat
      BY <2>1 DEF TableTypeOK
    <3> QED
      BY <3>1, <3>2 DEF TableTypeOK
  <2>3. failed' \subseteq MessageIds
    <3>1. failed' = failed \/ failed' = failed \cup {held[c]}
      BY <1>7 DEF QueryInfo
    <3> QED
      BY <2>1, <3>1 DEF TableTypeOK
  <2> QED
    <3>1. Run(c, "select", 0) /\ UNCHANGED <<vars, stored>> /\ mpc[c] = "info"
      BY <1>7 DEF QueryInfo
    <3>2. 0 \in 0 .. pushes
      BY <1>0
    <3> QED
      BY <1>0, <1>2, <2>2, <2>3, <3>1, <3>2 DEF TableTypeOK
<1> QED
  BY <1>3, <1>4, <1>5, <1>6, <1>7

LEMMA PushBeginTyped ==
    ASSUME TypeOK, TableTypeOK, NEW c \in Conns, NEW u \in Users, PushBegin(c, u)
    PROVE  TableTypeOK'
<1>1. /\ pushes \in Nat /\ pushes' = pushes + 1 /\ pushes' \in 1 .. MaxMessages
      /\ MaxMessages \in Nat
  BY DEF PushBegin, TableTypeOK
<1>2. hpc'[c] = "store" /\ \A d \in Conns \ {c} : hpc'[d] = hpc[d]
  BY DEF PushBegin, MessagePush, Begin, TypeOK
<1>3. /\ mpc' \in [Conns -> {"none", "insert", "lastInsertId", "select", "delete", "info"}]
      /\ held' \in [Conns -> 0 .. pushes']
      /\ \A d \in Conns : held'[d] = 0 <=> mpc'[d] \in {"none", "select"}
      /\ \A d \in Conns : mpc'[d] \in {"insert", "lastInsertId"} <=> hpc'[d] = "store"
      /\ \A d \in Conns : mpc'[d] \in {"select", "delete", "info"} <=> hpc'[d] = "query"
  <2>1. Run(c, "insert", pushes') /\ pushes' \in 0 .. pushes' /\ pushes' >= pushes
    BY <1>1 DEF PushBegin
  <2> QED
    BY <1>1, <1>2, <2>1, RunTyped
<1>4. to' \in [MessageIds -> Users \cup {NoUser}] /\ stored' \subseteq 1 .. pushes'
  BY <1>1 DEF PushBegin, TableTypeOK
<1> QED
  BY <1>1, <1>3, <1>4 DEF PushBegin, TableTypeOK

LEMMA QueryBeginTyped ==
    ASSUME TypeOK, TableTypeOK, NEW c \in Conns, QueryBegin(c)
    PROVE  TableTypeOK'
<1>1. pushes \in Nat /\ pushes' = pushes
  BY DEF QueryBegin, TableTypeOK
<1>2. hpc'[c] = "query" /\ \A d \in Conns \ {c} : hpc'[d] = hpc[d]
  BY DEF QueryBegin, MessageQuery, Begin, TypeOK
<1>3. /\ mpc' \in [Conns -> {"none", "insert", "lastInsertId", "select", "delete", "info"}]
      /\ held' \in [Conns -> 0 .. pushes']
      /\ \A d \in Conns : held'[d] = 0 <=> mpc'[d] \in {"none", "select"}
      /\ \A d \in Conns : mpc'[d] \in {"insert", "lastInsertId"} <=> hpc'[d] = "store"
      /\ \A d \in Conns : mpc'[d] \in {"select", "delete", "info"} <=> hpc'[d] = "query"
  <2>1. Run(c, "select", 0) /\ 0 \in 0 .. pushes' /\ pushes' >= pushes
    BY <1>1 DEF QueryBegin
  <2> QED
    BY <1>1, <1>2, <2>1, RunTyped
<1> QED
  BY <1>3 DEF QueryBegin, TableTypeOK

LEMMA MessagesTypeStep ==
    ASSUME TypeOK, NotAccepted, TableTypeOK, [MessagesNext]_allVars
    PROVE  TableTypeOK'
<1>1. ASSUME NEW c \in Conns, TableStep(c) PROVE TableTypeOK'
  BY <1>1, StatementTyped, PushBeginTyped, QueryBeginTyped DEF TableStep
<1>2. CASE /\ (\E c \in Conns : ClientStep(c) \/ HandlerStep(c)) \/ PingStep
           /\ UNCHANGED messageVars
  BY <1>2, Elsewhere DEF TableTypeOK
<1>3. CASE UNCHANGED allVars
  BY <1>3 DEF allVars, vars, TableTypeOK
<1> QED
  BY <1>1, <1>2, <1>3 DEF MessagesNext

LEMMA NotAcceptedStep ==
    ASSUME TypeOK, NotAccepted, [Next]_vars
    PROVE  NotAccepted'
<1>1. ASSUME NEW c \in Conns, Accept(c) PROVE NotAccepted'
  BY <1>1 DEF Accept, NotAccepted, TypeOK
<1>2. ASSUME NEW c \in Conns, NEW step, NEW u, Begin(c, step, u) PROVE NotAccepted'
  BY <1>2 DEF Begin, NotAccepted, TypeOK
<1>3. ASSUME NEW c \in Conns, ClientStep(c) \/ MessageStep(c) PROVE NotAccepted'
  <2>1. CASE MessageQueried(c) \/ MessageStored(c)
    BY <2>1 DEF MessageQueried, MessageStored, Return, Goto, NotAccepted, TypeOK
  <2> QED
    BY <1>1, <1>2, <1>3, <2>1
    DEF ClientStep, LogoutTry, Disconnect, LoginTry, MessageStep, MessageQuery, MessagePush
<1>4. ASSUME NEW c \in Conns, HandlerStep(c) PROVE NotAccepted'
  <2>1. /\ hpc[c] # "idle" /\ fresh' = fresh /\ open' \subseteq open
        /\ \A d \in Conns \ {c} : hpc'[d] = hpc[d] /\ user'[d] = user[d]
    BY <1>4
    DEF HandlerStep, SetUser, PushSession, LogoutErase, LogoutForget, DisconnectErase,
        DisconnectFree, IsSessionOpened, GetConnection, NotifyRead, NotifySend, Return, Goto, TypeOK
  <2> QED
    BY <2>1 DEF NotAccepted, TypeOK
<1>5. CASE PingStep
  BY <1>5 DEF PingStep, PingTimeout, PingErase, PingFree, NotAccepted, TypeOK
<1>6. CASE UNCHANGED vars
  BY <1>6 DEF vars, NotAccepted
<1> QED
  BY <1>3, <1>4, <1>5, <1>6 DEF Next

Typed == TypeOK /\ NotAccepted /\ TableTypeOK

LEMMA TypedAlways == MessagesSpec => []Typed
<1>1. MessagesInit => Typed
  <2> SUFFICES ASSUME MessagesInit PROVE Typed
    OBVIOUS
  <2>1. TypeOK
    BY InitTyped DEF MessagesInit
  <2>2. NotAccepted
    BY DEF MessagesInit, Init, NotAccepted
  <2>3. TableTypeOK
    <3>1. MaxMessages \in Nat
      OBVIOUS
    <3> QED
      BY <3>1 DEF MessagesInit, Init, TableTypeOK
  <2> QED
    BY <2>1, <2>2, <2>3 DEF Typed
<1>2. Typed /\ [MessagesNext]_allVars => Typed'
  BY SessionStep, TypeStep, NotAcceptedStep, MessagesTypeStep DEF Typed
<1> QED
  BY <1>1, <1>2, PTL DEF MessagesSpec

WatchTypeOK == watch \in [Conns -> SUBSET Conns]

LEMMA WatchTyped == MessagesSpec => []WatchTypeOK
<1>1. MessagesInit => WatchTypeOK
  BY DEF MessagesInit, WatchTypeOK
<1>2. WatchTypeOK /\ [MessagesNext]_allVars => WatchTypeOK'
  BY DEF MessagesNext, Watch, allVars, WatchTypeOK
<1> QED
  BY <1>1, <1>2, PTL DEF MessagesSpec

\* Every reachable state of the table and its handlers is well typed.
THEOREM MessagesTypeCorrect == MessagesSpec => []MessagesTypeOK
<1>1. Typed /\ WatchTypeOK => MessagesTypeOK
  BY DEF Typed, WatchTypeOK, MessagesTypeOK
<1> QED
  BY <1>1, TypedAlways, WatchTyped, PTL

-----------------------------------------------------------------------------
(* No message is lost.                                                     *)

Accounted(m) ==
    \/ m \in stored \cup failed
    \/ got[m] > 0
    \/ \E c \in Conns : held[c] = m /\ mpc[c] \in {"insert", "info"}

\* What a statement of the handler of c has to see to: the message in the hands
\* of the handler, and those it takes out of the table.
LEMMA StaysAccounted ==
    ASSUME TableTypeOK, NEW c \in Conns, NEW m, Accounted(m),
           NEW statement, NEW n, Run(c, statement, n),
           held[c] = m /\ mpc[c] \in {"insert", "info"} => Accounted(m)',
           m \in stored => m \in stored' \/ Accounted(m)',
           failed \subseteq failed', got[m] > 0 => got'[m] > 0
    PROVE  Accounted(m)'
<1>1. CASE \E d \in Conns \ {c} : held[d] = m /\ mpc[d] \in {"insert", "info"}
  BY <1>1 DEF Run, Accounted, TableTypeOK
<1> QED
  BY <1>1 DEF Accounted

LEMMA NoneLostStep ==
    ASSUME Typed, NoneLost, [MessagesNext]_allVars
    PROVE  NoneLost'
<1> SUFFICES ASSUME NEW m \in 1 .. pushes' PROVE Accounted(m)'
  BY DEF NoneLost, Accounted
<1>0. TableTypeOK /\ \A k \in 1 .. pushes : Accounted(k)
  BY DEF Typed, NoneLost, Accounted
<1>1. ASSUME NEW c \in Conns, NEW u \in Users, PushBegin(c, u) PROVE Accounted(m)'
  <2>1. /\ pushes \in Nat /\ pushes' = pushes + 1 /\ Run(c, "insert", pushes')
        /\ UNCHANGED <<stored, got, failed>>
    BY <1>0, <1>1 DEF PushBegin, TableTypeOK
  <2>2. CASE m = pushes'
    BY <1>0, <2>1, <2>2 DEF Run, Accounted, TableTypeOK
  <2>3. CASE m \in 1 .. pushes
    <3>1. mpc[c] \notin {"insert", "info"}
      BY <1>0, <1>1 DEF PushBegin, MessagePush, Begin, TableTypeOK
    <3>2. m \in stored => m \in stored'
      BY <2>1
    <3> QED
      BY <1>0, <2>1, <2>3, <3>1, <3>2, StaysAccounted
  <2> QED
    BY <2>1, <2>2, <2>3
<1>2. ASSUME NEW c \in Conns,
             PushInsert(c) \/ PushLastInsertId(c) \/ QueryBegin(c) \/ QuerySelect(c)
                \/ QueryDelete(c) \/ QueryInfo(c)
      PROVE  Accounted(m)'
  <2>1. m \in 1 .. pushes /\ m \in MessageIds
    BY <1>0, <1>2
    DEF PushInsert, PushLastInsertId, QueryBegin, QuerySelect, QueryDelete, QueryInfo, TableTypeOK
  <2>2. CASE PushInsert(c)
    <3>1. held[c] = m => m \in stored' \cup failed'
      BY <2>2 DEF PushInsert
    <3>2. stored \subseteq stored' /\ failed \subseteq failed' /\ UNCHANGED got
      BY <2>2 DEF PushInsert
    <3>3. \E statement, n : Run(c, statement, n)
      BY <2>2 DEF PushInsert
    <3> QED
      BY <1>0, <2>1, <3>1, <3>2, <3>3, StaysAccounted DEF Accounted
  <2>3. CASE PushLastInsertId(c) \/ QueryBegin(c) \/ QuerySelect(c)
    <3>1. mpc[c] \notin {"insert", "info"}
      BY <1>0, <2>3
      DEF PushLastInsertId, QueryBegin, MessageQuery, Begin, QuerySelect, TableTypeOK
    <3>2. UNCHANGED <<stored, got, failed>>
      BY <2>3 DEF PushLastInsertId, QueryBegin, QuerySelect
    <3>3. \E statement, n : Run(c, statement, n)
      BY <2>3 DEF PushLastInsertId, QueryBegin, QuerySelect
    <3> QED
      BY <1>0, <2>1, <3>1, <3>2, <3>3, StaysAccounted
  <2>4. CASE QueryDelete(c)
    <3>1. mpc[c] = "delete" /\ UNCHANGED <<got, failed>>
      BY <2>4 DEF QueryDelete
    <3>2. CASE stored' = stored \ {held[c]} /\ Run(c, "info", held[c])
      <4>1. held[c] = m => Accounted(m)'
        BY <1>0, <3>2 DEF Run, Accounted, TableTypeOK
      <4>2. m \in stored => m \in stored' \/ Accounted(m)'
        BY <3>2, <4>1
      <4> QED
        BY <1>0, <2>1, <3>1, <3>2, <4>2, StaysAccounted
    <3>3. CASE Run(c, "none", 0) /\ UNCHANGED stored
      BY <1>0, <2>1, <3>1, <3>3, StaysAccounted
    <3> QED
      BY <2>4, <3>2, <3>3 DEF QueryDelete
  <2>5. CASE QueryInfo(c)
    <3>1. Run(c, "select", 0) /\ UNCHANGED stored
      BY <2>5 DEF QueryInfo
    <3>2. held[c] = m => m \in failed' \/ got'[m] > 0
      BY <1>0, <2>1, <2>5 DEF QueryInfo, TableTypeOK
    <3>3. got[m] > 0 => got'[m] > 0
      BY <1>0, <2>1, <2>5 DEF QueryInfo, TableTypeOK
    <3>4. failed \subseteq failed'
      BY <2>5 DEF QueryInfo
    <3> QED
      BY <1>0, <2>1, <3>1, <3>2, <3>3, <3>4, StaysAccounted DEF Accounted
  <2> QED
    BY <1>2, <2>2, <2>3, <2>4, <2>5
<1>3. CASE UNCHANGED messageVars
  BY <1>0, <1>3 DEF Accounted
<1> QED
  BY <1>1, <1>2, <1>3 DEF MessagesNext, TableStep, allVars

\* A message that was stored stays in the table until it is sent to its receiver.
THEOREM NoneLostHolds == MessagesSpec => []NoneLost
<1>1. MessagesInit => NoneLost
  BY DEF MessagesInit, NoneLost
<1> QED
  BY <1>1, NoneLostStep, TypedAlways, PTL DEF MessagesSpec

-----------------------------------------------------------------------------
(* Messages are sent to their receivers.                                   *)

\* The message in the hands of a handler is for the user that it serves.
Serving ==
    \A c \in open : mpc[c] \in {"delete", "info"} => user[c] = to[held[c]]

LEMMA ServingStep ==
    ASSUME Typed, Serving, [MessagesNext]_allVars
    PROVE  Serving'
<1>0. /\ TypeOK /\ NotAccepted /\ TableTypeOK
      /\ open \subseteq Conns /\ pushes \in Nat
  BY DEF Typed, TypeOK, TableTypeOK
<1>1. ASSUME NEW c \in Conns, TableStep(c) PROVE Serving'
  <2>0. UNCHANGED <<open, user>>
    BY <1>1
    DEF TableStep, PushBegin, PushInsert, PushLastInsertId, QueryBegin, QuerySelect, QueryDelete,
        QueryInfo, MessagePush, MessageQuery, MessageStored, MessageQueried, Begin, vars
  <2>1. ASSUME NEW u \in Users, PushBegin(c, u) PROVE Serving'
    <3>1. /\ Run(c, "insert", pushes + 1)
          /\ to' = [to EXCEPT ![pushes + 1] = u]
      BY <2>1 DEF PushBegin
    <3>2. \A d \in Conns \ {c} : mpc'[d] = mpc[d] /\ held'[d] = held[d] /\ to'[held[d]] = to[held[d]]
      BY <1>0, <3>1 DEF Run, TableTypeOK
    <3>3. mpc'[c] = "insert"
      BY <1>0, <3>1 DEF Run, TableTypeOK
    <3> QED
      BY <1>0, <2>0, <3>2, <3>3 DEF Serving
  <2>2. CASE PushInsert(c) \/ PushLastInsertId(c) \/ QueryBegin(c) \/ QuerySelect(c)
                \/ QueryDelete(c) \/ QueryInfo(c)
    <3>1. /\ to' = to
          /\ \/ \E statement \in {"none", "lastInsertId", "select"} : \E n : Run(c, statement, n)
             \/ \E n \in For(user[c]) : Run(c, "delete", n)
             \/ mpc[c] = "delete" /\ Run(c, "info", held[c])
      BY <2>2
      DEF PushInsert, PushLastInsertId, QueryBegin, QuerySelect, QueryDelete, QueryInfo
    <3>2. \A d \in Conns \ {c} : mpc'[d] = mpc[d] /\ held'[d] = held[d]
      BY <1>0, <3>1 DEF Run, TableTypeOK
    <3>3. c \in open /\ mpc'[c] \in {"delete", "info"} => user[c] = to[held'[c]]
      <4>1. CASE \E statement \in {"none", "lastInsertId", "select"} : \E n : Run(c, statement, n)
        BY <1>0, <4>1 DEF Run, TableTypeOK
      <4>2. CASE \E n \in For(user[c]) : Run(c, "delete", n)
        BY <1>0, <4>2 DEF Run, For, TableTypeOK
      <4>3. CASE mpc[c] = "delete" /\ Run(c, "info", held[c])
        BY <1>0, <4>3 DEF Run, Serving, TableTypeOK
      <4> QED
        BY <3>1, <4>1, <4>2, <4>3
    <3> QED
      BY <1>0, <2>0, <3>1, <3>2, <3>3 DEF Serving
  <2> QED
    BY <1>1, <2>1, <2>2 DEF TableStep
<1>2. CASE /\ (\E c \in Conns : ClientStep(c) \/ HandlerStep(c)) \/ PingStep
           /\ UNCHANGED messageVars
  <2>1. \A d \in Conns : hpc[d] = "query" /\ d \in open' => d \in open /\ user'[d] = user[d]
    BY <1>0, <1>2, Elsewhere
  <2>2. \A d \in Conns : mpc[d] \in {"delete", "info"} => hpc[d] = "query"
    BY <1>0 DEF TableTypeOK
  <2>3. open' \subseteq Conns
    BY <1>0, <1>2, SessionStep, TypeStep DEF Next, TypeOK
  <2> QED
    BY <1>2, <2>1, <2>2, <2>3 DEF Serving
<1>3. CASE UNCHANGED allVars
  BY <1>3 DEF allVars, vars, Serving
<1> QED
  BY <1>1, <1>2, <1>3 DEF MessagesNext

\* A message is sent to a connection of its receiver only.
THEOREM ReceiverOnlyHolds == MessagesSpec => ReceiverOnly
<1>1. MessagesInit => Serving
  BY DEF MessagesInit, Init, Serving
<1>2. Serving => \A c \in Conns : QueryInfo(c) /\ c \in open \ midway => user[c] = to[held[c]]
  BY DEF Serving, QueryInfo
<1>3. MessagesSpec => []Serving
  BY <1>1, ServingStep, TypedAlways, PTL DEF MessagesSpec
<1> QED
  BY <1>2, <1>3, PTL DEF ReceiverOnly

-----------------------------------------------------------------------------
(* No message is sent twice.                                               *)

\* The messages pushed have receivers.
Addressed == \A m \in 1 .. pushes : to[m] \in Users

\* A message that was sent, to a user who was never logged in on two connections
\* at a time, is neither in the table nor in the hands of an open connection that
\* may yet send it, and was sent once.
Gone ==
    \A m \in MessageIds :
        /\ m \notin 1 .. pushes => got[m] = 0
        /\ m \in 1 .. pushes /\ to[m] \notin twice =>
              /\ got[m] <= 1
              /\ got[m] > 0 =>
                    /\ m \notin stored
                    /\ \A c \in open : mpc[c] \in {"delete", "info"} => held[c] # m

\* A message about to be sent has been deleted.
Deleted == \A c \in Conns : mpc[c] = "info" => held[c] \notin stored

\* A message about to be inserted was not, and is in nobody else's hands.
New ==
    \A c \in Conns : mpc[c] = "insert" =>
        /\ held[c] \notin stored /\ got[held[c]] = 0
        /\ \A d \in Conns \ {c} : held[d] # held[c]

Once == Addressed /\ Gone /\ Deleted /\ New

\* Two open connections hold different messages, of such users.
LEMMA Single ==
    ASSUME Typed, Serving, Addressed, Alone, NEW c \in open, NEW d \in open,
           mpc[c] \in {"delete", "info"}, mpc[d] \in {"delete", "info"}, held[c] = held[d],
           to[held[c]] \notin twice
    PROVE  c = d
<1>0. /\ c \in Conns /\ d \in Conns
      /\ pushes \in Nat /\ held[c] \in 0 .. pushes
      /\ held[c] = 0 <=> mpc[c] \in {"none", "select"}
  BY DEF Typed, TypeOK, TableTypeOK
<1>1. c \in Conns /\ d \in Conns /\ held[c] \in 1 .. pushes
  BY <1>0
<1>2. user[c] = to[held[c]] /\ user[d] = to[held[c]] /\ to[held[c]] \in Users
  BY <1>1 DEF Serving, Addressed
<1> QED
  BY <1>1, <1>2 DEF Alone, Is

LEMMA OncePush ==
    ASSUME Typed, Once, NEW c \in Conns, NEW u \in Users, PushBegin(c, u)
    PROVE  Once'
<1>0. /\ TableTypeOK /\ open \subseteq Conns
      /\ pushes \in Nat /\ pushes' = pushes + 1 /\ pushes' \in MessageIds
      /\ to' = [to EXCEPT ![pushes + 1] = u] /\ Run(c, "insert", pushes + 1)
      /\ UNCHANGED <<stored, got, open, twice>>
  BY DEF Typed, TypeOK, TableTypeOK, PushBegin, MessagePush, Begin
<1>1. /\ mpc'[c] = "insert" /\ held'[c] = pushes + 1
      /\ \A d \in Conns \ {c} : mpc'[d] = mpc[d] /\ held'[d] = held[d] /\ held[d] \in 0 .. pushes
  BY <1>0 DEF Run, TableTypeOK
<1>2. Addressed'
  BY <1>0 DEF Once, Addressed, TableTypeOK
<1>3. Gone'
  BY <1>0, <1>1 DEF Once, Gone
<1>4. Deleted'
  BY <1>0, <1>1 DEF Once, Deleted
<1>5. New'
  <2>1. pushes + 1 \notin stored
    BY <1>0 DEF TableTypeOK
  <2>2. got[pushes + 1] = 0
    BY <1>0 DEF Once, Gone, TableTypeOK
  <2> QED
    BY <1>0, <1>1, <2>1, <2>2 DEF Once, New
<1> QED
  BY <1>2, <1>3, <1>4, <1>5 DEF Once

\* A statement that ends with another statement, or none, and no message sent.
LEMMA OnceStatement ==
    ASSUME Typed, Once, NEW c \in Conns,
           PushInsert(c) \/ PushLastInsertId(c) \/ QueryBegin(c) \/ QuerySelect(c) \/ QueryDelete(c)
    PROVE  Once'
<1>0. /\ TableTypeOK /\ open \subseteq Conns /\ pushes \in Nat
      /\ UNCHANGED <<pushes, to, got, open, twice>>
  BY DEF Typed, TypeOK, TableTypeOK, PushInsert, PushLastInsertId, QueryBegin, QuerySelect,
         QueryDelete, MessageQuery, Begin, MessageStored, MessageQueried, vars
<1>1. Addressed'
  BY <1>0 DEF Once, Addressed
<1>2. ASSUME NEW statement \in {"none", "lastInsertId", "select"}, NEW n, Run(c, statement, n),
             n = 0 \/ n = held[c], stored' = stored
      PROVE  Once'
  <2>1. /\ mpc'[c] = statement /\ held'[c] \in {0, held[c]}
        /\ \A d \in Conns \ {c} : mpc'[d] = mpc[d] /\ held'[d] = held[d]
    BY <1>0, <1>2 DEF Run, TableTypeOK
  <2>2. Gone' /\ Deleted'
    BY <1>0, <1>2, <2>1 DEF Once, Gone, Deleted
  <2>3. New'
    <3>1. \A d \in Conns : mpc[d] = "insert" => held[d] # 0
      BY <1>0 DEF TableTypeOK
    <3> QED
      BY <1>0, <1>2, <2>1, <3>1 DEF Once, New
  <2> QED
    BY <1>1, <2>2, <2>3 DEF Once
<1>3. ASSUME mpc[c] = "insert", Run(c, "lastInsertId", held[c]), stored' = stored \cup {held[c]}
      PROVE  Once'
  <2>1. /\ mpc'[c] = "lastInsertId" /\ held'[c] = held[c] /\ held[c] \in 1 .. pushes
        /\ \A d \in Conns \ {c} : mpc'[d] = mpc[d] /\ held'[d] = held[d]
    BY <1>0, <1>3 DEF Run, TableTypeOK
  <2>2. got[held[c]] = 0 /\ \A d \in Conns \ {c} : held[d] # held[c]
    BY <1>3 DEF Once, New
  <2>3. Gone'
    BY <1>0, <1>3, <2>1, <2>2 DEF Once, Gone
  <2>4. Deleted'
    BY <1>0, <1>3, <2>1, <2>2 DEF Once, Deleted
  <2>5. New'
    BY <1>0, <1>3, <2>1, <2>2 DEF Once, New
  <2> QED
    BY <1>1, <2>3, <2>4, <2>5 DEF Once
<1>4. ASSUME NEW n \in stored, Run(c, "delete", n), stored' = stored
      PROVE  Once'
  <2>1. /\ mpc'[c] = "delete" /\ held'[c] = n
        /\ \A d \in Conns \ {c} : mpc'[d] = mpc[d] /\ held'[d] = held[d]
    BY <1>0, <1>4 DEF Run, TableTypeOK
  <2>2. Gone' /\ Deleted' /\ New'
    BY <1>0, <1>4, <2>1 DEF Once, Gone, Deleted, New
  <2> QED
    BY <1>1, <2>2 DEF Once
<1>5. ASSUME mpc[c] = "delete", Run(c, "info", held[c]), stored' = stored \ {held[c]}
      PROVE  Once'
  <2>1. /\ mpc'[c] = "info" /\ held'[c] = held[c]
        /\ \A d \in Conns \ {c} : mpc'[d] = mpc[d] /\ held'[d] = held[d]
    BY <1>0, <1>5 DEF Run, TableTypeOK
  <2>2. Gone'
    BY <1>0, <1>5, <2>1 DEF Once, Gone
  <2>3. Deleted' /\ New'
    BY <1>0, <1>5, <2>1 DEF Once, Deleted, New
  <2> QED
    BY <1>1, <2>2, <2>3 DEF Once
<1>6. CASE PushInsert(c)
  <2>1. CASE Run(c, "none", 0) /\ UNCHANGED stored
    BY <1>2, <2>1
  <2> QED
    BY <1>3, <1>6, <2>1 DEF PushInsert
<1>7. CASE PushLastInsertId(c) \/ QueryBegin(c)
  BY <1>2, <1>7 DEF PushLastInsertId, QueryBegin
<1>8. CASE QuerySelect(c)
  BY <1>2, <1>4, <1>8 DEF QuerySelect, For
<1>9. CASE QueryDelete(c)
  <2>1. CASE Run(c, "none", 0) /\ UNCHANGED stored
    BY <1>2, <2>1
  <2> QED
    BY <1>5, <1>9, <2>1 DEF QueryDelete
<1> QED
  BY <1>6, <1>7, <1>8, <1>9

LEMMA OnceInfo ==
    ASSUME Typed, Serving, Alone, Once, NEW c \in Conns, QueryInfo(c)
    PROVE  Once'
<1>0. /\ TableTypeOK /\ open \subseteq Conns /\ pushes \in Nat /\ MaxMessages \in Nat
      /\ UNCHANGED <<pushes, to, stored, open, twice>> /\ mpc[c] = "info"
      /\ held[c] \in 1 .. pushes /\ held[c] \in MessageIds
  <2>1. TableTypeOK /\ open \subseteq Conns /\ MaxMessages \in Nat
    BY DEF Typed, TypeOK
  <2>2. UNCHANGED <<pushes, to, stored, open, twice>> /\ mpc[c] = "info"
    BY DEF QueryInfo, vars
  <2>3. pushes \in 0 .. MaxMessages /\ held[c] \in 1 .. pushes
    BY <2>1, <2>2 DEF TableTypeOK
  <2> QED
    BY <2>1, <2>2, <2>3
<1>1. /\ mpc'[c] = "select" /\ held'[c] = 0
      /\ \A d \in Conns \ {c} : mpc'[d] = mpc[d] /\ held'[d] = held[d]
  BY <1>0 DEF Run, QueryInfo, TableTypeOK
<1>2. /\ \A m \in MessageIds \ {held[c]} : got'[m] = got[m]
      /\ \/ got'[held[c]] = got[held[c]]
         \/ c \in open /\ got'[held[c]] = got[held[c]] + 1
  BY <1>0 DEF QueryInfo, TableTypeOK
<1>3. Addressed' /\ Deleted'
  BY <1>0, <1>1 DEF Once, Addressed, Deleted
<1>4. New'
  <2>1. ASSUME NEW d \in Conns, mpc'[d] = "insert"
        PROVE  /\ held'[d] \notin stored' /\ got'[held'[d]] = 0
               /\ \A e \in Conns \ {d} : held'[e] # held'[d]
    <3>1. d # c /\ mpc[d] = "insert" /\ held'[d] = held[d]
      BY <1>1, <2>1
    <3>2. /\ held[d] \notin stored /\ got[held[d]] = 0
          /\ \A e \in Conns \ {d} : held[e] # held[d]
      BY <2>1, <3>1 DEF Once, New
    <3>3. held[d] \in MessageIds \ {held[c]} /\ held[d] # 0
      BY <1>0, <3>1, <3>2 DEF TableTypeOK
    <3> QED
      BY <1>0, <1>1, <1>2, <2>1, <3>1, <3>2, <3>3
  <2> QED
    BY <2>1 DEF New
<1>5. Gone'
  <2>1. ASSUME NEW m \in MessageIds \ {held[c]}
        PROVE  /\ m \notin 1 .. pushes' => got'[m] = 0
               /\ m \in 1 .. pushes' /\ to'[m] \notin twice' =>
                     /\ got'[m] <= 1
                     /\ got'[m] > 0 =>
                           /\ m \notin stored'
                           /\ \A d \in open' : mpc'[d] \in {"delete", "info"} => held'[d] # m
    BY <1>0, <1>1, <1>2, <2>1 DEF Once, Gone
  <2>2. ASSUME to[held[c]] \notin twice
        PROVE  /\ got'[held[c]] <= 1
               /\ got'[held[c]] > 0 =>
                     /\ held[c] \notin stored'
                     /\ \A d \in open' : mpc'[d] \in {"delete", "info"} => held'[d] # held[c]
    <3>1. CASE got'[held[c]] = got[held[c]]
      BY <1>0, <1>1, <2>2, <3>1 DEF Once, Gone
    <3>2. CASE c \in open /\ got'[held[c]] = got[held[c]] + 1
      <4>1. got[held[c]] = 0 /\ held[c] \notin stored
        BY <1>0, <2>2, <3>2 DEF Once, Gone, Deleted, TableTypeOK
      <4>2. \A d \in open \ {c} : mpc[d] \in {"delete", "info"} => held[d] # held[c]
        BY <1>0, <2>2, <3>2, Single DEF Once
      <4> QED
        BY <1>0, <1>1, <3>2, <4>1, <4>2
    <3> QED
      BY <1>2, <3>1, <3>2
  <2> QED
    BY <1>0, <2>1, <2>2 DEF Gone
<1> QED
  BY <1>3, <1>4, <1>5 DEF Once

\* The users left out stay left out.
LEMMA TwiceGrows ==
    ASSUME (\E c \in Conns : ClientStep(c) \/ HandlerStep(c)) \/ PingStep
    PROVE  twice \subseteq twice'
<1>1. CASE \E c \in Conns : ClientStep(c)
  BY <1>1 DEF ClientStep, Accept, LoginTry, LogoutTry, Disconnect
<1>2. CASE \E c \in Conns : HandlerStep(c)
  BY <1>2
  DEF HandlerStep, SetUser, PushSession, LogoutErase, LogoutForget, DisconnectErase,
      DisconnectFree, IsSessionOpened, GetConnection, NotifyRead, NotifySend
<1>3. CASE PingStep
  BY <1>3 DEF PingStep, PingTimeout, PingErase, PingFree
<1> QED
  BY <1>1, <1>2, <1>3

LEMMA OnceStep ==
    ASSUME Typed, Serving, Alone, Once, [MessagesNext]_allVars
    PROVE  Once'
<1>1. ASSUME NEW c \in Conns, TableStep(c) PROVE Once'
  BY <1>1, OncePush, OnceStatement, OnceInfo DEF TableStep
<1>2. CASE /\ (\E c \in Conns : ClientStep(c) \/ HandlerStep(c)) \/ PingStep
           /\ UNCHANGED messageVars
  <2>0. TypeOK /\ NotAccepted /\ TableTypeOK
    BY DEF Typed
  <2>1. \A d \in Conns : hpc[d] = "query" /\ d \in open' => d \in open
    BY <1>2, <2>0, Elsewhere
  <2>2. \A d \in Conns : mpc[d] \in {"delete", "info"} => hpc[d] = "query"
    BY <2>0 DEF TableTypeOK
  <2>3. open' \subseteq Conns
    BY <1>2, <2>0, SessionStep, TypeStep DEF Next, TypeOK
  <2>4. Addressed' /\ Deleted' /\ New'
    BY <1>2 DEF Once, Addressed, Deleted, New
  <2>5. twice \subseteq twice'
    BY <1>2, TwiceGrows
  <2>6. Gone'
    BY <1>2, <2>1, <2>2, <2>3, <2>5 DEF Once, Gone
  <2> QED
    BY <2>4, <2>6 DEF Once
<1>3. CASE UNCHANGED allVars
  BY <1>3 DEF allVars, vars, Once, Addressed, Gone, Deleted, New
<1> QED
  BY <1>1, <1>2, <1>3 DEF MessagesNext

\* No message is sent twice to a user who was never logged in on two connections
\* at a time, nor left one to another user.
THEOREM SentOnceHolds == MessagesSpec => []SentOnce
<1>1. MessagesInit => Serving /\ Once
  <2> SUFFICES ASSUME MessagesInit PROVE Serving /\ Once
    OBVIOUS
  <2>1. Serving
    BY DEF MessagesInit, Init, Serving
  <2>2. Once
    BY DEF MessagesInit, Init, Once, Addressed, Gone, Deleted, New
  <2> QED
    BY <2>1, <2>2
<1>2. Serving /\ Once /\ Typed /\ Alone /\ [MessagesNext]_allVars => (Serving /\ Once)'
  BY ServingStep, OnceStep
<1>3. IInv => Alone
  BY DEF IInv, MapInv
<1>4. Typed /\ Once => SentOnce
  <2> SUFFICES ASSUME Typed, Once, NEW m \in 1 .. pushes, to[m] \notin twice PROVE got[m] <= 1
    BY DEF SentOnce
  <2>1. m \in MessageIds
    BY DEF Typed, TableTypeOK
  <2> QED
    BY <2>1 DEF Once, Gone
<1> QED
  BY <1>1, <1>2, <1>3, <1>4, TypedAlways, Implements, Invariant, PTL DEF MessagesSpec

-----------------------------------------------------------------------------
(* The receiver who stays logged in is notified.                           *)

\* A connection that is watched is in the node, and in the hands of the sender.
Watched ==
    \A c \in Conns : \A d \in watch[c] :
        /\ d \in Conns /\ Looking(c) /\ LoggedIn(d) /\ user[d] = arg[c]
        /\ arg[c] \notin twice =>
              /\ hpc[c] = "read" => c \notin stale
              /\ hpc[c] = "send" => target[c] = d

\* A step that takes the node away from under a sender is the end, or the
\* logout, of the connection in it.
LEMMA NodeErased ==
    ASSUME IInv, [Next]_vars, NEW c \in Conns, hpc[c] = "read", c \notin stale, c \in stale',
           arg[c] \notin twice, NEW d \in Conns, LoggedIn(d), user[d] = arg[c]
    PROVE  ~LoggedIn(d)'
<1>0. arg[c] \in Users /\ Is(d, arg[c])
  BY DEF IInv, TypeOK, Is
<1>1. ASSUME NEW e \in Conns, Erase(e) PROVE e = d
  <2>1. user[e] = arg[c]
    BY <1>1 DEF Erase, EraseEntry
  <2> QED
    BY <1>0, <2>1 DEF IInv, MapInv, Alone, Is
<1>2. ASSUME NEW e \in Conns, ClientStep(e) \/ HandlerStep(e) \/ MessageStep(e)
      PROVE  ~LoggedIn(d)'
  <2>1. LogoutErase(e) \/ DisconnectErase(e)
    BY <1>2
    DEF ClientStep, Accept, LoginTry, LogoutTry, Disconnect, Begin, HandlerStep, SetUser,
        PushSession, LogoutForget, DisconnectFree, IsSessionOpened, GetConnection, NotifyRead,
        NotifySend, MessageStep, MessageQuery, MessageQueried, MessagePush, MessageStored
  <2>2. e = d /\ hpc'[e] \in {"forget", "free"}
    BY <1>1, <2>1 DEF LogoutErase, DisconnectErase, Goto, IInv, TypeOK
  <2> QED
    BY <2>2 DEF LoggedIn
<1>3. CASE PingStep
  <2>1. PingErase
    BY <1>3 DEF PingStep, PingTimeout, PingFree
  <2>2. pingAt = d /\ pingPc' = "free" /\ pingAt' = d
    BY <1>1, <2>1 DEF PingErase, IInv, TypeOK
  <2> QED
    BY <2>2 DEF LoggedIn
<1> QED
  BY <1>2, <1>3 DEF Next, vars

\* How a sender comes to the step that it does next.
LEMMA SenderMoves ==
    ASSUME TypeOK, [Next]_vars, NEW c \in Conns, Looking(c)'
    PROVE  /\ hpc[c] = "store" \/ Looking(c)
           /\ arg'[c] = arg[c]
           /\ hpc'[c] = "read" => hpc[c] = "read" \/ (hpc[c] = "index" /\ GetConnection(c))
           /\ hpc'[c] = "send" => (hpc[c] = "send" /\ target'[c] = target[c])
                                    \/ NotifyRead(c)
<1>1. ASSUME NEW e \in Conns, ClientStep(e) \/ MessageStep(e)
      PROVE  /\ hpc'[c] = hpc[c] \/ (hpc[c] = "store" /\ hpc'[c] = "check")
             /\ arg'[c] = arg[c] /\ target' = target
  BY <1>1
  DEF ClientStep, Accept, LoginTry, LogoutTry, Disconnect, MessageStep, MessageQuery,
      MessageQueried, MessagePush, MessageStored, Begin, Return, Goto, Looking, TypeOK
<1>2. ASSUME NEW e \in Conns, HandlerStep(e), e # c
      PROVE  hpc'[c] = hpc[c] /\ arg'[c] = arg[c] /\ target'[c] = target[c]
  BY <1>2
  DEF HandlerStep, SetUser, PushSession, LogoutErase, LogoutForget, DisconnectErase,
      DisconnectFree, IsSessionOpened, GetConnection, NotifyRead, NotifySend, Return, Goto, TypeOK
<1>3. CASE HandlerStep(c)
  <2>1. IsSessionOpened(c) \/ GetConnection(c) \/ NotifyRead(c)
    BY <1>3
    DEF HandlerStep, SetUser, PushSession, LogoutErase, LogoutForget, DisconnectErase,
        DisconnectFree, NotifySend, Return, Goto, Looking, TypeOK
  <2> QED
    BY <2>1 DEF IsSessionOpened, GetConnection, NotifyRead, Return, Goto, Looking, TypeOK
<1>4. CASE PingStep \/ UNCHANGED vars
  BY <1>4 DEF PingStep, PingTimeout, PingErase, PingFree, vars, Looking
<1> QED
  BY <1>1, <1>2, <1>3, <1>4 DEF Next, Looking

\* Only a handler about to read from its node has a node that was erased.
StaleReads == \A c \in stale : hpc[c] = "read"

LEMMA StaleStep ==
    ASSUME TypeOK, StaleReads, [Next]_vars
    PROVE  StaleReads'
<1>1. ASSUME NEW c \in Conns, ClientStep(c) \/ MessageStep(c) PROVE StaleReads'
  BY <1>1
  DEF ClientStep, Accept, LoginTry, LogoutTry, Disconnect, MessageStep, MessageQuery,
      MessageQueried, MessagePush, MessageStored, Begin, Return, Goto, StaleReads, TypeOK
<1>2. ASSUME NEW c \in Conns, HandlerStep(c) PROVE StaleReads'
  <2>1. CASE LogoutErase(c) \/ DisconnectErase(c)
    BY <2>1 DEF LogoutErase, DisconnectErase, Erase, EraseEntry, Goto, StaleReads, TypeOK
  <2>2. CASE NotifyRead(c)
    BY <2>2 DEF NotifyRead, Goto, StaleReads, TypeOK
  <2>3. CASE SetUser(c) \/ PushSession(c) \/ LogoutForget(c) \/ DisconnectFree(c)
               \/ IsSessionOpened(c) \/ GetConnection(c) \/ NotifySend(c)
    BY <2>3
    DEF SetUser, PushSession, LogoutForget, DisconnectFree, IsSessionOpened, GetConnection,
        NotifySend, Return, Goto, StaleReads, TypeOK
  <2> QED
    BY <1>2, <2>1, <2>2, <2>3 DEF HandlerStep
<1>3. CASE PingStep
  BY <1>3 DEF PingStep, PingTimeout, PingErase, PingFree, Erase, EraseEntry, StaleReads, TypeOK
<1>4. CASE UNCHANGED vars
  BY <1>4 DEF vars, StaleReads
<1> QED
  BY <1>1, <1>2, <1>3, <1>4 DEF Next

LEMMA WatchedStep ==
    ASSUME IInv, Watched, WatchTypeOK, StaleReads, [MessagesNext]_allVars
    PROVE  Watched'
<1>0. TypeOK /\ [Next]_vars
  BY SessionStep DEF IInv
<1>1. CASE UNCHANGED allVars
  BY <1>1 DEF allVars, vars, Watched, Looking, LoggedIn
<1>2. CASE MessagesNext
  <2> SUFFICES ASSUME NEW c \in Conns, NEW d \in watch'[c]
               PROVE  /\ d \in Conns /\ Looking(c)' /\ LoggedIn(d)' /\ user'[d] = arg'[c]
                      /\ arg'[c] \notin twice' =>
                            /\ hpc'[c] = "read" => c \notin stale'
                            /\ hpc'[c] = "send" => target'[c] = d
    BY DEF Watched
  <2>1. /\ d \in Conns /\ Looking(c)' /\ LoggedIn(d)' /\ user'[d] = arg'[c]
        /\ hpc[c] = "store" \/ d \in watch[c]
    BY <1>2 DEF MessagesNext, Watch, WatchTypeOK
  <2>2. /\ hpc[c] = "store" \/ Looking(c)
        /\ arg'[c] = arg[c]
        /\ hpc'[c] = "read" => hpc[c] = "read" \/ (hpc[c] = "index" /\ GetConnection(c))
        /\ hpc'[c] = "send" => (hpc[c] = "send" /\ target'[c] = target[c]) \/ NotifyRead(c)
    BY <1>0, <2>1, SenderMoves
  <2>3. twice \subseteq twice'
    <3>1. CASE \E e \in Conns : TableStep(e)
      BY <3>1
      DEF TableStep, PushBegin, PushInsert, PushLastInsertId, QueryBegin, QuerySelect, QueryDelete,
          QueryInfo, MessagePush, MessageQuery, MessageStored, MessageQueried, vars
    <3> QED
      BY <1>2, <3>1, TwiceGrows DEF MessagesNext
  <2>4. ASSUME arg[c] \notin twice, hpc'[c] = "read" PROVE c \notin stale'
    <3>1. CASE hpc[c] = "read"
      <4>1. LoggedIn(d) /\ user[d] = arg[c] /\ c \notin stale
        BY <2>1, <2>4, <3>1 DEF Watched
      <4> QED
        BY <1>0, <2>1, <2>4, <3>1, <4>1, NodeErased
    <3>2. CASE hpc[c] = "index" /\ GetConnection(c)
      BY <3>2 DEF GetConnection, StaleReads
    <3> QED
      BY <2>2, <2>4, <3>1, <3>2
  <2>5. ASSUME arg[c] \notin twice, hpc'[c] = "send" PROVE target'[c] = d
    <3>1. CASE hpc[c] = "send" /\ target'[c] = target[c]
      BY <2>1, <2>5, <3>1 DEF Watched
    <3>2. CASE NotifyRead(c)
      <4>1. hpc[c] = "read" /\ c \notin stale /\ LoggedIn(d) /\ user[d] = arg[c]
        BY <2>1, <2>5, <3>2 DEF NotifyRead, Watched
      <4>2. session[arg[c]] = d
        BY <2>1, <2>5, <4>1 DEF IInv, MapInv, Reachable
      <4> QED
        BY <1>0, <3>2, <4>1, <4>2 DEF NotifyRead, TypeOK
    <3> QED
      BY <2>2, <2>5, <3>1, <3>2
  <2> QED
    BY <2>1, <2>2, <2>3, <2>4, <2>5
<1> QED
  BY <1>1, <1>2

\* A receiver that has been logged in on one connection ever since the sender
\* began to look for it is notified there, if it was never logged in on two.
THEOREM NotifyReceiverHolds == MessagesSpec => NotifyReceiver
<1>1. ASSUME IInv, Watched, [Next]_vars, NEW c \in Conns, NEW d \in Conns,
             d \in watch[c], arg[c] \notin twice, hpc[c] # "idle", hpc'[c] = "idle"
      PROVE  hpc[c] = "send" /\ target[c] = d /\ ~crashed'
  <2>1. Looking(c) /\ LoggedIn(d) /\ user[d] = arg[c] /\ (hpc[c] = "send" => target[c] = d)
    BY <1>1 DEF Watched
  <2>2. session[arg[c]] = d /\ d # Absent /\ d \in open
    BY <1>1, <2>1 DEF IInv, MapInv, Reachable, LoggedIn
  <2>3. ASSUME NEW e \in Conns, ClientStep(e) \/ MessageStep(e) PROVE FALSE
    BY <1>1, <2>1, <2>3
    DEF ClientStep, Accept, LoginTry, LogoutTry, Disconnect, MessageStep, MessageQuery,
        MessageQueried, MessagePush, MessageStored, Begin, Return, Goto, Looking, IInv, TypeOK
  <2>4. ASSUME NEW e \in Conns, HandlerStep(e)
        PROVE  NotifySend(c) \/ IsSessionOpened(c)
    BY <1>1, <2>1, <2>4
    DEF HandlerStep, SetUser, PushSession, LogoutErase, LogoutForget, DisconnectErase,
        DisconnectFree, IsSessionOpened, GetConnection, NotifyRead, NotifySend, Return, Goto,
        Looking, IInv, TypeOK
  <2>5. CASE PingStep \/ UNCHANGED vars
    BY <1>1, <2>5 DEF PingStep, PingTimeout, PingErase, PingFree, vars
  <2>6. ~IsSessionOpened(c)
    BY <1>1, <2>2 DEF IsSessionOpened, Goto, IInv, TypeOK
  <2>7. CASE NotifySend(c) /\ ~crashed
    BY <2>1, <2>2, <2>7 DEF NotifySend
  <2> QED
    BY <1>1, <2>3, <2>4, <2>5, <2>6, <2>7 DEF Next
<1>2. MessagesInit => Watched /\ StaleReads
  BY DEF MessagesInit, Init, Watched, StaleReads
<1>3. IInv /\ Watched /\ WatchTypeOK /\ StaleReads /\ [MessagesNext]_allVars
        => (Watched /\ StaleReads)'
  BY WatchedStep, StaleStep, SessionStep DEF IInv
<1>4. IInv /\ Watched /\ [MessagesNext]_allVars =>
        [\A c, d \in Conns :
            d \in watch[c] /\ arg[c] \notin twice /\ hpc[c] # "idle" /\ hpc'[c] = "idle"
              => hpc[c] = "send" /\ target[c] = d /\ ~crashed']_allVars
  BY <1>1, SessionStep
<1>5. MessagesSpec => [](Watched /\ StaleReads)
  BY <1>2, <1>3, WatchTyped, Implements, Invariant, PTL DEF MessagesSpec
<1> QED
  BY <1>4, <1>5, Implements, Invariant, PTL DEF NotifyReceiver, MessagesSpec

=============================================================================
