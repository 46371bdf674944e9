---------------------------- MODULE MessageChannel ----------------------------
(***************************************************************************)
(* The message channel: a second socket that a client opens to be told of  *)
(* messages, which MessageThread accepts and remembers under the client's  *)
(* address.                                                                *)
(*                                                                         *)
(* map<char *,SOCKET> compares pointers, and the pointer is what inet_ntoa *)
(* returns: not the address but the buffer it was written to.  Winsock has *)
(* one buffer per thread; other libraries have one for all.  A client is   *)
(* its address here.  Operations on the map are one step each, although no *)
(* lock makes them so.                                                     *)
(***************************************************************************)
EXTENDS Naturals

CONSTANTS
    Clients,       \* clients, each with an address of its own
    Threads,       \* workers, the ping thread and MessageThread
    MessageThread,
    Buffers,       \* where inet_ntoa writes
    Buffer,        \* Buffer[t]: the buffer of a thread
    NoEntry,       \* the map has no entry for the pointer
    MaxSockets,    \* BOUND: message sockets accepted
    MaxNotified    \* BOUND: notifications

VARIABLES
    connected,  \* clients with a connection to the server
    msockMap,   \* msockMap[b]: the socket in the entry of b, 0 if it is new
    sockets,    \* message sockets accepted so far, which numbers them
    channel,    \* channel[c]: the message socket that c opened last, or 0
    closed,     \* sockets that the server has closed
    headers,    \* headers[c]: MESSAGE_NOTIFY headers on c's channel
    bodies,     \* bodies[c]: the data of such packets on c's connection
    notified    \* notifications so far

vars == <<connected, msockMap, sockets, channel, closed, headers, bodies, notified>>

ChannelTypeOK ==
    /\ connected \subseteq Clients
    /\ msockMap \in [Buffers -> (0 .. sockets) \cup {NoEntry}]
    /\ sockets \in 0 .. MaxSockets
    /\ channel \in [Clients -> 0 .. sockets]
    /\ closed \subseteq 1 .. sockets
    /\ headers \in [Clients -> 0 .. notified]
    /\ bodies \in [Clients -> 0 .. notified]
    /\ notified \in 0 .. MaxNotified

Init ==
    /\ connected = {}
    /\ msockMap = [b \in Buffers |-> NoEntry]
    /\ sockets = 0
    /\ channel = [c \in Clients |-> 0]
    /\ closed = {}
    /\ headers = [c \in Clients |-> 0]
    /\ bodies = [c \in Clients |-> 0]
    /\ notified = 0

-----------------------------------------------------------------------------
Accept(c) ==
    /\ connected' = connected \cup {c}
    /\ UNCHANGED <<msockMap, sockets, channel, closed, headers, bodies, notified>>

\* The socket that was in the entry stays open.
AcceptChannel(c) ==
    /\ sockets < MaxSockets
    /\ sockets' = sockets + 1
    /\ msockMap' = [msockMap EXCEPT ![Buffer[MessageThread]] = sockets']
    /\ channel' = [channel EXCEPT ![c] = sockets']
    /\ UNCHANGED <<connected, closed, headers, bodies, notified>>

\* DeleteConn, by a worker or by the ping thread.
DeleteConn(t, c) ==
    /\ c \in connected
    /\ connected' = connected \ {c}
    /\ closed' = closed \cup ({msockMap[Buffer[t]]} \ {0, NoEntry})
    /\ msockMap' = [msockMap EXCEPT ![Buffer[t]] = NoEntry]
    /\ UNCHANGED <<sockets, channel, headers, bodies, notified>>

\* msockMap[p]: an entry that is not there is inserted, with socket 0.
Found(t) == IF msockMap[Buffer[t]] = NoEntry THEN 0 ELSE msockMap[Buffer[t]]

\* WSASend of the header succeeds.
Sent(s) == s \in (1 .. sockets) \ closed

\* NetSendMsgPacket to c, by a worker.  The header is sent on the message socket;
\* the data follow, if that went well, on the connection.
NetSendMsgPacket(t, c) ==
    /\ c \in connected /\ notified < MaxNotified
    /\ notified' = notified + 1
    /\ msockMap' = [msockMap EXCEPT ![Buffer[t]] = Found(t)]
    /\ headers' = [d \in Clients |->
          IF Sent(Found(t)) /\ channel[d] = Found(t) THEN headers[d] + 1 ELSE headers[d]]
    /\ bodies' = IF Sent(Found(t)) THEN [bodies EXCEPT ![c] = @ + 1] ELSE bodies
    /\ UNCHANGED <<connected, sockets, channel, closed>>

-----------------------------------------------------------------------------
Next ==
    \/ \E c \in Clients : Accept(c) \/ AcceptChannel(c)
    \/ \E t \in Threads \ {MessageThread}, c \in Clients :
          DeleteConn(t, c) \/ NetSendMsgPacket(t, c)

Spec == Init /\ [][Next]_vars

-----------------------------------------------------------------------------
(* Properties.                                                             *)

\* "A message comes in: find the receiver's connection and send it there": a
\* client that has opened its message channel is told of a message on it.  It is
\* not: the thread that notifies looks in its own buffer's entry.
Notified ==
    [][\A t \in Threads, c \in Clients :
          NetSendMsgPacket(t, c) /\ channel[c] # 0 => headers'[c] = headers[c] + 1]_vars

=============================================================================
