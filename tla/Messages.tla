------------------------------- MODULE Messages -------------------------------
(***************************************************************************)
(* The table message, in which messages wait for their receivers, and what *)
(* its handlers do to it: the database work that Session leaves out of     *)
(* MessagePush and MessageQuery.                                           *)
(*                                                                         *)
(* Every SQL statement is committed by itself and may be refused.  The     *)
(* database numbers the messages.  MessageNotifyOk changes nothing: its    *)
(* statement names the column receiver, and those that fill the table and  *)
(* read it name receiver_id, so it is refused.  Texts, types and the       *)
(* numbers that notifications carry are not modelled.                      *)
(***************************************************************************)
EXTENDS Session

CONSTANTS
    MayFail,    \* can the database refuse a statement
    MaxMessages \* BOUND: the messages that are pushed, refused ones included

ASSUME MessagesAssumption ==
    /\ MayFail \in BOOLEAN
    /\ MaxMessages \in Nat

VARIABLES
    pushes,  \* messages pushed so far; the number of the latest one
    to,      \* to[m]: the receiver of message m
    stored,  \* the rows of the table
    mpc,     \* the statement that the handler of c runs next
    held,    \* the message that the handler of c works on
    got,     \* got[m]: how often m was sent to a connection
    failed,  \* the messages whose insert was refused, or that NetSendPacket
             \* could not send
    watch    \* history: the connections that have been logged in as the
             \* receiver ever since the handler of c began to look for one

messageVars == <<pushes, to, stored, mpc, held, got, failed>>
allVars == <<vars, messageVars, watch>>

MessageIds == 1 .. MaxMessages

TableTypeOK ==
    /\ pushes \in 0 .. MaxMessages
    /\ to \in [MessageIds -> Users \cup {NoUser}]
    /\ stored \subseteq 1 .. pushes
    /\ mpc \in [Conns -> {"none", "insert", "lastInsertId", "select", "delete", "info"}]
    /\ held \in [Conns -> 0 .. pushes]
    /\ \A c \in Conns : held[c] = 0 <=> mpc[c] \in {"none", "select"}
    /\ \A c \in Conns : mpc[c] \in {"insert", "lastInsertId"} <=> hpc[c] = "store"
    /\ \A c \in Conns : mpc[c] \in {"select", "delete", "info"} <=> hpc[c] = "query"
    /\ got \in [MessageIds -> Nat]
    /\ failed \subseteq MessageIds

MessagesTypeOK == TableTypeOK /\ watch \in [Conns -> SUBSET Conns]

MessagesInit ==
    /\ Init
    /\ pushes = 0
    /\ to = [m \in MessageIds |-> NoUser]
    /\ stored = {}
    /\ mpc = [c \in Conns |-> "none"]
    /\ held = [c \in Conns |-> 0]
    /\ got = [m \in MessageIds |-> 0]
    /\ failed = {}
    /\ watch = [c \in Conns |-> {}]

-----------------------------------------------------------------------------
\* The handler goes on to another statement, about message m.
Run(c, statement, m) ==
    /\ mpc' = [mpc EXCEPT ![c] = statement]
    /\ held' = [held EXCEPT ![c] = m]

-----------------------------------------------------------------------------
(* MessagePush.                                                            *)

PushBegin(c, u) ==
    /\ pushes < MaxMessages
    /\ MessagePush(c, u)
    /\ pushes' = pushes + 1
    /\ to' = [to EXCEPT ![pushes'] = u]
    /\ Run(c, "insert", pushes')
    /\ UNCHANGED <<stored, got, failed>>

\* Refused, PushMessage returns at once.
PushInsert(c) ==
    /\ mpc[c] = "insert"
    /\ \/ /\ stored' = stored \cup {held[c]}
          /\ Run(c, "lastInsertId", held[c])
          /\ UNCHANGED <<vars, failed>>
       \/ /\ MayFail
          /\ failed' = failed \cup {held[c]}
          /\ Run(c, "none", 0)
          /\ MessageStored(c)
          /\ UNCHANGED stored
    /\ UNCHANGED <<pushes, to, got>>

\* select LAST_INSERT_ID(): the message is stored even if that is refused and
\* the sender is told that the push failed.
PushLastInsertId(c) ==
    /\ mpc[c] = "lastInsertId"
    /\ Run(c, "none", 0)
    /\ MessageStored(c)
    /\ UNCHANGED <<pushes, to, stored, got, failed>>

-----------------------------------------------------------------------------
(* MessageQuery: one message at a time is selected, deleted and sent, until *)
(* QueryMessage returns RESULT_FAILED.                                     *)

QueryBegin(c) ==
    /\ MessageQuery(c)
    /\ Run(c, "select", 0)
    /\ UNCHANGED <<pushes, to, stored, got, failed>>

For(u) == {m \in stored : to[m] = u}

\* VARIANT of QuerySelect: the first row is taken, whoever it is for.
QuerySelectAny(c) ==
    /\ mpc[c] = "select"
    /\ \/ /\ \E m \in stored : Run(c, "delete", m)
          /\ UNCHANGED vars
       \/ /\ For(user[c]) = {} \/ MayFail
          /\ Run(c, "none", 0)
          /\ MessageQueried(c)
    /\ UNCHANGED <<pushes, to, stored, got, failed>>

\* One row is fetched; no row, or a refusal, ends the loop.
QuerySelect(c) ==
    /\ mpc[c] = "select"
    /\ \/ /\ \E m \in For(user[c]) : Run(c, "delete", m)
          /\ UNCHANGED vars
       \/ /\ For(user[c]) = {} \/ MayFail
          /\ Run(c, "none", 0)
          /\ MessageQueried(c)
    /\ UNCHANGED <<pushes, to, stored, got, failed>>

\* VARIANT of QueryDelete: what DbExecute returns is not looked at.
QueryDeleteUnchecked(c) ==
    /\ mpc[c] = "delete"
    /\ \/ stored' = stored \ {held[c]}
       \/ MayFail /\ UNCHANGED stored
    /\ Run(c, "info", held[c])
    /\ UNCHANGED <<vars, pushes, to, got, failed>>

\* VARIANT of QueryDelete: all the messages of the receiver are deleted.
QueryDeleteAll(c) ==
    /\ mpc[c] = "delete"
    /\ stored' = stored \ For(user[c])
    /\ Run(c, "info", held[c])
    /\ UNCHANGED <<vars, pushes, to, got, failed>>

\* The result of the deletion becomes that of QueryMessage, and false is
\* RESULT_FAILED: the loop ends, and the message, not sent, is still there.  A
\* row that another handler has deleted meanwhile is deleted without complaint.
QueryDelete(c) ==
    /\ mpc[c] = "delete"
    /\ \/ /\ stored' = stored \ {held[c]}
          /\ Run(c, "info", held[c])
          /\ UNCHANGED vars
       \/ /\ MayFail
          /\ Run(c, "none", 0)
          /\ MessageQueried(c)
          /\ UNCHANGED stored
    /\ UNCHANGED <<pushes, to, got, failed>>

\* MESSAGE_INFO; nobody looks whether it could be sent: the client may be gone,
\* or the ping thread may have closed the connection.
QueryInfo(c) ==
    /\ mpc[c] = "info"
    /\ \/ c \in open /\ got' = [got EXCEPT ![held[c]] = @ + 1] /\ UNCHANGED failed
       \/ failed' = failed \cup {held[c]} /\ UNCHANGED got
    /\ Run(c, "select", 0)
    /\ UNCHANGED <<vars, pushes, to, stored>>

-----------------------------------------------------------------------------
TableStep(c) ==
    \/ PushInsert(c) \/ PushLastInsertId(c)
    \/ QueryBegin(c) \/ QuerySelect(c) \/ QueryDelete(c) \/ QueryInfo(c)
    \/ \E u \in Users : PushBegin(c, u)

\* c looks for the connection of a receiver, to notify it.
Looking(c) == hpc[c] \in {"check", "index", "read", "send"}

Watch ==
    watch' = [c \in Conns |->
        IF Looking(c)'
          THEN {d \in IF hpc[c] = "store" THEN Conns ELSE watch[c] :
                    (LoggedIn(d) /\ user[d] = arg[c])'}
          ELSE {}]

MessagesNext ==
    /\ ~crashed
    /\ \/ \E c \in Conns : TableStep(c)
       \/ /\ (\E c \in Conns : ClientStep(c) \/ HandlerStep(c)) \/ PingStep
          /\ UNCHANGED messageVars
    /\ Watch

MessagesSpec == MessagesInit /\ [][MessagesNext]_allVars

-----------------------------------------------------------------------------
(* Properties.                                                             *)

\* A receiver that has been logged in on one connection ever since the sender
\* began to look for it is notified there: whoever logs in and out, or is torn
\* down, between the look-up, the reading of the entry and the sending.  (If it
\* was ever logged in on two connections at a time, it may be on the other one.)
NotifyReceiver ==
    [][\A c, d \in Conns :
          d \in watch[c] /\ arg[c] \notin twice /\ hpc[c] # "idle" /\ hpc'[c] = "idle"
            => hpc[c] = "send" /\ target[c] = d /\ ~crashed']_allVars

\* A message that was stored stays in the table until it is sent to its
\* receiver: refused statements, logouts and other queries in between lose none.
\* (The exception are messages that could not be sent: they are lost, for they
\* are deleted first and the result of NetSendPacket is ignored.)
NoneLost ==
    \A m \in 1 .. pushes :
        \/ m \in stored \cup failed
        \/ got[m] > 0
        \/ \E c \in Conns : held[c] = m /\ mpc[c] \in {"insert", "info"}

\* No message is sent twice, though it is read and deleted by two statements,
\* if its receiver was never logged in on two connections at a time, nor left its
\* connection to another user.  (Two connections of a user may both read a
\* message before either deletes it.)
SentOnce == \A m \in 1 .. pushes : to[m] \notin twice => got[m] <= 1

\* A message is sent to a connection of its receiver only: whoever logs in and
\* out meanwhile, the handler holds messages of the user it serves.
ReceiverOnly ==
    [][\A c \in Conns : QueryInfo(c) /\ c \in open \ midway => user[c] = to[held[c]]]_allVars

=============================================================================
