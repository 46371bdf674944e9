----------------------------- MODULE Connection -----------------------------
(***************************************************************************)
(* The life of a client connection of the SocialMe server: the accept loop *)
(* (RunServer), the completion workers (CompletionThread) and the ping     *)
(* thread (PingThread), which share, without a lock, the list `conn` and   *)
(* one heap block per connection.                                          *)
(*                                                                         *)
(* A block stands for the two heap objects malloc gives a connection, its  *)
(* PER_HANDLE_DATA and its PER_IO_DATA, always allocated and freed         *)
(* together.  Freed blocks are given to later connections, so a pointer    *)
(* kept by a completion packet or a thread may come to designate another   *)
(* connection: that is part of the model.  What a read of a freed block    *)
(* returns is left open (an arbitrary choice), and a second free of it     *)
(* leaves the heap corrupt, where the model stops.  A write to a freed     *)
(* block reaches its fields; that it may also corrupt the heap would only  *)
(* stop the model sooner.  An operation on the list `conn` is one step:    *)
(* what two at once leave of the list is outside the model.                *)
(*                                                                         *)
(* A receive operation passes from hand to hand: WSARecv posts it          *)
(* (pending), the kernel completes it (a packet in the completion queue),  *)
(* a worker dequeues the packet and posts the next one.  This chain is the *)
(* only thing that keeps a connection served, and the only thing that      *)
(* keeps two workers off the same connection.                              *)
(***************************************************************************)
EXTENDS Integers

CONSTANTS
    Blocks,    \* the addresses malloc may return for a connection's objects
    Workers,   \* the completion threads
    NoBlock,   \* a thread that is at no block
    MaxConn    \* BOUND: how many connections the accept loop serves

ASSUME ConnectionAssumption ==
    /\ MaxConn \in Nat
    /\ NoBlock \notin Blocks

VARIABLES
    \* the heap and the kernel
    mem,       \* mem[b]: is the block allocated
    sock,      \* sock[b]: hClntSock of the block's connection
    pend,      \* pend[b]: receive operations pending in the kernel
    dataQ,     \* dataQ[b]: queued completions that carry bytes
    failQ,     \* failQ[b]: queued completions with 0 bytes or ret = FALSE
    \* fields of the block
    flag,      \* overlapped.flag
    pinged,    \* pingtime: 0, or 0 since the PING was sent at the tick 0, or set at
               \* the last scan that came by, or at an earlier one
    heard,     \* lastResp was set since the ping thread last came by
    \* shared data
    conn,      \* conn[b]: nodes of list<Session> conn that point to b
    connCnt,   \* conn_cnt of the monitor window
    \* threads
    accepted,  \* N of RunServer: connections accepted so far
    accPc, accAt,          \* the accept loop
    pc, at,                \* the workers
    pingPc, pingAt, toScan,\* the ping thread, and the nodes ahead of it
    \* history and outcome
    foreign,   \* b was freed, or is being freed, by a thread that does not
               \* hold its receive operation
    corrupt    \* undefined behaviour has destroyed the process

heapVars == <<mem, sock, pend, dataQ, failQ>>
fieldVars == <<flag, pinged, heard>>
listVars == <<conn, connCnt>>
accVars == <<accepted, accPc, accAt>>
workVars == <<pc, at>>
pingVars == <<pingPc, pingAt, toScan>>
ghostVars == <<foreign, corrupt>>
vars == <<heapVars, fieldVars, listVars, accVars, workVars, pingVars, ghostVars>>

\* Worker states between the dequeue of a completion and either the post of
\* the next receive or the release of the block.
Holding == {"proc", "repost", "close", "unlink", "free"}

WorkerStates == Holding \cup {"get", "tail"}

TypeOK ==
    /\ mem \in [Blocks -> {"free", "live"}]
    /\ sock \in [Blocks -> {"open", "eof", "closed"}]
    /\ pend \in [Blocks -> Nat]
    /\ dataQ \in [Blocks -> Nat]
    /\ failQ \in [Blocks -> Nat]
    /\ flag \in [Blocks -> {"recv", "send"}]
    /\ pinged \in [Blocks -> {"no", "zero", "sent", "aged"}]
    /\ heard \in [Blocks -> BOOLEAN]
    /\ conn \in [Blocks -> Nat]
    /\ connCnt \in Int
    /\ accepted \in 0 .. MaxConn
    /\ accPc \in {"accept", "count", "post"}
    /\ accAt \in Blocks \cup {NoBlock}
    /\ (accAt = NoBlock) <=> (accPc = "accept")
    /\ pc \in [Workers -> WorkerStates]
    /\ at \in [Workers -> Blocks \cup {NoBlock}]
    /\ \A w \in Workers : (at[w] = NoBlock) <=> (pc[w] = "get")
    /\ pingPc \in {"sleep", "scan", "visit", "close", "free", "unlink"}
    /\ pingAt \in Blocks \cup {NoBlock}
    /\ (pingAt = NoBlock) <=> (pingPc \in {"sleep", "scan"})
    /\ toScan \in SUBSET Blocks
    /\ foreign \in [Blocks -> BOOLEAN]
    /\ corrupt \in BOOLEAN

Init ==
    /\ mem = [b \in Blocks |-> "free"]
    /\ sock = [b \in Blocks |-> "closed"]
    /\ pend = [b \in Blocks |-> 0]
    /\ dataQ = [b \in Blocks |-> 0]
    /\ failQ = [b \in Blocks |-> 0]
    /\ flag = [b \in Blocks |-> "send"]
    /\ pinged = [b \in Blocks |-> "no"]
    /\ heard = [b \in Blocks |-> FALSE]
    /\ conn = [b \in Blocks |-> 0]
    /\ connCnt = 0
    /\ accepted = 0
    /\ accPc = "accept"
    /\ accAt = NoBlock
    /\ pc = [w \in Workers |-> "get"]
    /\ at = [w \in Workers |-> NoBlock]
    /\ pingPc = "sleep"
    /\ pingAt = NoBlock
    /\ toScan = {}
    /\ foreign = [b \in Blocks |-> FALSE]
    /\ corrupt = FALSE

-----------------------------------------------------------------------------
(* Memory and tokens.                                                      *)

\* A read of a field: its value while the block is allocated, anything after.
Read(b, field, values) == IF mem[b] = "live" THEN {field[b]} ELSE values

\* Somebody in the program holds the receive operation of b.
HeldByWorker(w, b) == pc[w] \in Holding /\ at[w] = b
HeldByAcceptor(b) == accPc # "accept" /\ accAt = b
ReapedByPing(b) == pingPc \in {"close", "free", "unlink"} /\ pingAt = b

Queued(b) == pend[b] + dataQ[b] + failQ[b]

\* No completion, worker or ping timeout still refers to the block.
Unreferenced(b) ==
    /\ Queued(b) = 0
    /\ \A w \in Workers : ~HeldByWorker(w, b)
    /\ ~HeldByAcceptor(b)
    /\ ~ReapedByPing(b)

\* WSARecv on the block's socket.  It fails if the socket is closed, and may fail
\* on any other; then nothing will complete, and nobody looks.
PostRecv(b) ==
    \/ sock[b] # "closed" /\ pend' = [pend EXCEPT ![b] = @ + 1]
    \/ UNCHANGED pend

\* closesocket: the receive operations still pending complete with ret = FALSE.
CloseSocket(b) ==
    /\ sock' = [sock EXCEPT ![b] = "closed"]
    /\ failQ' = [failQ EXCEPT ![b] = @ + pend[b]]
    /\ pend' = [pend EXCEPT ![b] = 0]

\* free(handle); free(io).
FreeBlock(b) ==
    /\ mem' = [mem EXCEPT ![b] = "free"]
    /\ corrupt' = (mem[b] = "free")

\* DeleteConn erases the first node that points to b; without one it runs off
\* its end, and the iterator it returns is garbage.
DeleteConn(b) ==
    /\ conn' = [conn EXCEPT ![b] = IF @ > 0 THEN @ - 1 ELSE 0]
    /\ toScan' = IF conn[b] > 1 THEN toScan ELSE toScan \ {b}

-----------------------------------------------------------------------------
(* The accept loop.                                                        *)

\* accept returns a client that is not blacklisted; its block is allocated
\* and initialised, and OnConnected opens its database connection and appends
\* it to conn.  malloc leaves overlapped.flag as it finds it.
Accept(b) ==
    /\ accPc = "accept" /\ accepted < MaxConn
    /\ mem[b] = "free"
    /\ accPc' = "count" /\ accAt' = b /\ accepted' = accepted + 1
    /\ mem' = [mem EXCEPT ![b] = "live"]
    /\ sock' = [sock EXCEPT ![b] = "open"]
    /\ pinged' = [pinged EXCEPT ![b] = "no"]
    /\ heard' = [heard EXCEPT ![b] = FALSE]
    /\ \E f \in {"recv", "send"} : flag' = [flag EXCEPT ![b] = f]
    /\ conn' = [conn EXCEPT ![b] = @ + 1]
    /\ toScan' = IF pingPc = "sleep" THEN toScan ELSE toScan \cup {b}
    /\ foreign' = [foreign EXCEPT ![b] = ~Unreferenced(b)]
    /\ UNCHANGED <<pend, dataQ, failQ, connCnt, workVars, pingPc, pingAt, corrupt>>

\* PushConnection counts it in the monitor window.
CountConnection ==
    /\ accPc = "count"
    /\ accPc' = "post"
    /\ connCnt' = connCnt + 1
    /\ UNCHANGED <<heapVars, fieldVars, conn, accepted, accAt, workVars, pingVars, ghostVars>>

\* NetRecvPacket posts its first receive.
FirstRecv ==
    /\ accPc = "post"
    /\ accPc' = "accept" /\ accAt' = NoBlock
    /\ flag' = [flag EXCEPT ![accAt] = "recv"]
    /\ PostRecv(accAt)
    /\ UNCHANGED <<mem, sock, dataQ, failQ, pinged, heard, listVars, accepted,
                   workVars, pingVars, ghostVars>>

-----------------------------------------------------------------------------
(* The network.                                                            *)

\* Bytes arrive and complete a pending receive.
Arrive(b) ==
    /\ sock[b] = "open" /\ pend[b] > 0
    /\ pend' = [pend EXCEPT ![b] = @ - 1]
    /\ dataQ' = [dataQ EXCEPT ![b] = @ + 1]
    /\ UNCHANGED <<mem, sock, failQ, fieldVars, listVars, accVars, workVars, pingVars, ghostVars>>

\* The client closes its end, or its connection breaks.
PeerClose(b) ==
    /\ sock[b] = "open"
    /\ sock' = [sock EXCEPT ![b] = "eof"]
    /\ UNCHANGED <<mem, pend, dataQ, failQ, fieldVars, listVars, accVars, workVars,
                   pingVars, ghostVars>>

\* A pending receive of a closed peer completes with 0 bytes or an error.
Eof(b) ==
    /\ sock[b] = "eof" /\ pend[b] > 0
    /\ pend' = [pend EXCEPT ![b] = @ - 1]
    /\ failQ' = [failQ EXCEPT ![b] = @ + 1]
    /\ UNCHANGED <<mem, sock, dataQ, fieldVars, listVars, accVars, workVars, pingVars, ghostVars>>

-----------------------------------------------------------------------------
(* The completion workers.                                                 *)

Take(w, b, s) == pc' = [pc EXCEPT ![w] = s] /\ at' = [at EXCEPT ![w] = b]

Goto(w, s) == pc' = [pc EXCEPT ![w] = s] /\ UNCHANGED at

Leave(w) == pc' = [pc EXCEPT ![w] = "get"] /\ at' = [at EXCEPT ![w] = NoBlock]

\* VARIANT of DequeueData: an answer to the PING clears pingtime.
DequeueDataResetsPing(w, b) ==
    /\ pc[w] = "get" /\ dataQ[b] > 0
    /\ "recv" \in Read(b, flag, {"recv", "send"})
    /\ dataQ' = [dataQ EXCEPT ![b] = @ - 1]
    /\ heard' = [heard EXCEPT ![b] = TRUE]
    /\ pinged' = [pinged EXCEPT ![b] = "no"]
    /\ Take(w, b, "proc")
    /\ UNCHANGED <<mem, sock, pend, failQ, flag, listVars, accVars, pingVars, ghostVars>>

\* GetQueuedCompletionStatus returns a packet of b whose flag is ASYNC_RECV
\* and that carries bytes: lastResp is set and the bytes are processed.
DequeueData(w, b) ==
    /\ pc[w] = "get" /\ dataQ[b] > 0
    /\ "recv" \in Read(b, flag, {"recv", "send"})
    /\ dataQ' = [dataQ EXCEPT ![b] = @ - 1]
    /\ heard' = [heard EXCEPT ![b] = TRUE]
    /\ Take(w, b, "proc")
    /\ UNCHANGED <<mem, sock, pend, failQ, flag, pinged, listVars, accVars, pingVars, ghostVars>>

\* It carries 0 bytes, or failed: the connection is torn down, unless its field
\* `disconnected` is set, which no code does but a freed block may seem to say.
DequeueFail(w, b) ==
    /\ pc[w] = "get" /\ failQ[b] > 0
    /\ "recv" \in Read(b, flag, {"recv", "send"})
    /\ failQ' = [failQ EXCEPT ![b] = @ - 1]
    /\ \/ Take(w, b, "close")
       \/ mem[b] = "free" /\ Take(w, b, "proc")
    /\ UNCHANGED <<mem, sock, pend, dataQ, fieldVars, listVars, accVars, pingVars, ghostVars>>

\* The flag is not ASYNC_RECV: the packet is dropped, and nothing is posted.
DequeueDrop(w, b) ==
    /\ pc[w] = "get"
    /\ "send" \in Read(b, flag, {"recv", "send"})
    /\ \/ /\ dataQ[b] > 0
          /\ dataQ' = [dataQ EXCEPT ![b] = @ - 1]
          /\ UNCHANGED failQ
       \/ /\ failQ[b] > 0
          /\ failQ' = [failQ EXCEPT ![b] = @ - 1]
          /\ UNCHANGED dataQ
    /\ UNCHANGED <<mem, sock, pend, fieldVars, listVars, accVars, workVars, pingVars, ghostVars>>

\* VARIANT of ShortRead: no `continue`; the piece is processed as well.
ShortReadFallsThrough(w) ==
    /\ pc[w] = "proc"
    /\ UNCHANGED workVars
    /\ PostRecv(at[w])
    /\ UNCHANGED <<mem, sock, dataQ, failQ, fieldVars, listVars, accVars, pingVars, ghostVars>>

\* Fewer bytes than asked for: the rest is requested at once with a bare
\* WSARecv, which does not set the flag.
ShortRead(w) ==
    /\ pc[w] = "proc"
    /\ Leave(w)
    /\ PostRecv(at[w])
    /\ UNCHANGED <<mem, sock, dataQ, failQ, fieldVars, listVars, accVars, pingVars, ghostVars>>

\* A header, a name, a size or a datum before the last one: NetRecv asks for
\* the next field.
NextField(w) ==
    /\ pc[w] = "proc"
    /\ Goto(w, "tail")
    /\ flag' = [flag EXCEPT ![at[w]] = "recv"]
    /\ PostRecv(at[w])
    /\ UNCHANGED <<mem, sock, dataQ, failQ, pinged, heard, listVars, accVars, pingVars,
                   ghostVars>>

\* The packet is complete: ProcessPacket runs its handler, which may notify
\* another connection (MessagePush) and then leaves ASYNC_SEND in its flag.
\* The flag of the worker's own connection is set again by NetRecvPacket.
ProcessPacket(w) ==
    /\ pc[w] = "proc"
    /\ Goto(w, "repost")
    /\ \/ UNCHANGED flag
       \/ \E t \in Blocks : flag' = [flag EXCEPT ![t] = "send"]
    /\ UNCHANGED <<heapVars, pinged, heard, listVars, accVars, pingVars, ghostVars>>

\* NetRecvPacket asks for the next packet's header.
NextPacket(w) ==
    /\ pc[w] = "repost"
    /\ Goto(w, "tail")
    /\ flag' = [flag EXCEPT ![at[w]] = "recv"]
    /\ PostRecv(at[w])
    /\ UNCHANGED <<mem, sock, dataQ, failQ, pinged, heard, listVars, accVars, pingVars,
                   ghostVars>>

\* With the next receive already posted, the worker still clears the OVERLAPPED
\* (all but the flag, which is not part of it) and reads `disconnected`: false,
\* unless the block has been freed meanwhile.
Tail(w) ==
    /\ pc[w] = "tail"
    /\ \/ Leave(w) /\ UNCHANGED foreign
       \/ /\ mem[at[w]] = "free"
          /\ Goto(w, "close")
          /\ foreign' = [foreign EXCEPT ![at[w]] = TRUE]
    /\ UNCHANGED <<heapVars, fieldVars, listVars, accVars, pingVars, corrupt>>

\* Teardown: OnDisconnected and Logout, whose effects are outside this module.
Disconnect(w) ==
    /\ pc[w] = "close"
    /\ Goto(w, "unlink")
    /\ UNCHANGED <<heapVars, fieldVars, listVars, accVars, pingVars, ghostVars>>

\* DeleteConnection and DeleteConn.
Unlink(w) ==
    /\ pc[w] = "unlink"
    /\ Goto(w, "free")
    /\ connCnt' = connCnt - 1
    /\ DeleteConn(at[w])
    /\ UNCHANGED <<heapVars, fieldVars, accVars, pingPc, pingAt, ghostVars>>

\* VARIANT of Release: no `continue`; the completion is processed as well.
ReleaseFallsThrough(w) ==
    /\ pc[w] = "free"
    /\ Goto(w, "proc")
    /\ CloseSocket(at[w])
    /\ FreeBlock(at[w])
    /\ UNCHANGED <<dataQ, fieldVars, listVars, accVars, pingVars, foreign>>

\* closesocket and both frees.
Release(w) ==
    /\ pc[w] = "free"
    /\ Leave(w)
    /\ CloseSocket(at[w])
    /\ FreeBlock(at[w])
    /\ UNCHANGED <<dataQ, fieldVars, listVars, accVars, pingVars, foreign>>

-----------------------------------------------------------------------------
(* The ping thread.                                                        *)

\* The 3 s wait is over: the scan of conn begins.
PingWake ==
    /\ pingPc = "sleep"
    /\ pingPc' = "scan"
    /\ toScan' = {b \in Blocks : conn[b] > 0}
    /\ UNCHANGED <<heapVars, fieldVars, listVars, accVars, workVars, pingAt, ghostVars>>

PingNext(b) ==
    /\ pingPc = "scan" /\ b \in toScan
    /\ pingPc' = "visit" /\ pingAt' = b
    /\ toScan' = toScan \ {b}
    /\ UNCHANGED <<heapVars, fieldVars, listVars, accVars, workVars, ghostVars>>

PingEnd ==
    /\ pingPc = "scan" /\ toScan = {}
    /\ pingPc' = "sleep"
    /\ UNCHANGED <<heapVars, fieldVars, listVars, accVars, workVars, pingAt, toScan, ghostVars>>

PingOn == pingPc' = "scan" /\ pingAt' = NoBlock

\* The node or the block under the iterator was erased or freed by a worker:
\* what the loop does next is undefined.
Dangling == conn[pingAt] = 0 \/ mem[pingAt] = "free"

PingDangling ==
    /\ pingPc = "visit" /\ Dangling
    /\ PingOn
    /\ corrupt' \in BOOLEAN
    /\ UNCHANGED <<heapVars, fieldVars, listVars, accVars, workVars, toScan, foreign>>

\* pingtime is 0.
Unpinged == pinged[pingAt] \in {"no", "zero"}

\* Silent for 3 s: a PING is sent, which leaves ASYNC_SEND in the flag of the
\* receive that is pending.  A connection not heard from since the previous
\* scan has been silent long enough; one that was may have been.  pingtime is the
\* tick of the PING, which may be 0, but not at two scans in a row.
PingSend ==
    /\ pingPc = "visit" /\ ~Dangling
    /\ Unpinged
    /\ PingOn
    /\ \/ pinged' = [pinged EXCEPT ![pingAt] = "sent"]
       \/ pinged[pingAt] = "no" /\ pinged' = [pinged EXCEPT ![pingAt] = "zero"]
    /\ flag' = [flag EXCEPT ![pingAt] = "send"]
    /\ heard' = [heard EXCEPT ![pingAt] = FALSE]
    /\ UNCHANGED <<heapVars, listVars, accVars, workVars, toScan, ghostVars>>

\* VARIANT of PingSkip: every scan sets pingtime anew.
PingSkipRenews ==
    /\ pingPc = "visit" /\ ~Dangling
    /\ \/ Unpinged /\ heard[pingAt] /\ pinged' = [pinged EXCEPT ![pingAt] = "no"]
       \/ ~Unpinged /\ pinged' = [pinged EXCEPT ![pingAt] = "sent"]
    /\ PingOn
    /\ heard' = [heard EXCEPT ![pingAt] = FALSE]
    /\ UNCHANGED <<heapVars, flag, listVars, accVars, workVars, toScan, ghostVars>>

\* VARIANT of PingSkip: a receive is posted for the answer to the PING.
PingSkipPostsRecv ==
    /\ pingPc = "visit" /\ ~Dangling
    /\ \/ /\ Unpinged /\ heard[pingAt]
          /\ pinged' = [pinged EXCEPT ![pingAt] = "no"]
          /\ UNCHANGED <<pend, flag>>
       \/ /\ pinged[pingAt] = "sent"
          /\ pinged' = [pinged EXCEPT ![pingAt] = "aged"]
          /\ flag' = [flag EXCEPT ![pingAt] = "recv"]
          /\ PostRecv(pingAt)
    /\ PingOn
    /\ heard' = [heard EXCEPT ![pingAt] = FALSE]
    /\ UNCHANGED <<mem, sock, dataQ, failQ, listVars, accVars, workVars, toScan, ghostVars>>

\* Not silent for 3 s, or pinged less than 4 s ago, which cannot be so for the
\* second scan in a row.
PingSkip ==
    /\ pingPc = "visit" /\ ~Dangling
    /\ \/ Unpinged /\ heard[pingAt] /\ pinged' = [pinged EXCEPT ![pingAt] = "no"]
       \/ pinged[pingAt] = "sent" /\ pinged' = [pinged EXCEPT ![pingAt] = "aged"]
    /\ PingOn
    /\ heard' = [heard EXCEPT ![pingAt] = FALSE]
    /\ UNCHANGED <<heapVars, flag, listVars, accVars, workVars, toScan, ghostVars>>

\* Pinged 4 s ago or more: the teardown begins (OnDisconnected, Logout and
\* DeleteConnection), whoever holds the connection's receive.
PingTimeout ==
    /\ pingPc = "visit" /\ ~Dangling
    /\ ~Unpinged
    /\ pingPc' = "close"
    /\ connCnt' = connCnt - 1
    /\ foreign' = [foreign EXCEPT ![pingAt] = TRUE]
    /\ UNCHANGED <<heapVars, fieldVars, conn, accVars, workVars, pingAt, toScan, corrupt>>

PingClose ==
    /\ pingPc = "close"
    /\ pingPc' = "free"
    /\ CloseSocket(pingAt)
    /\ UNCHANGED <<mem, dataQ, fieldVars, listVars, accVars, workVars, pingAt, toScan, ghostVars>>

PingFree ==
    /\ pingPc = "free"
    /\ pingPc' = "unlink"
    /\ FreeBlock(pingAt)
    /\ UNCHANGED <<sock, pend, dataQ, failQ, fieldVars, listVars, accVars, workVars, pingAt,
                   toScan, foreign>>

\* DeleteConn runs after the frees; the loop goes on from what it returns.
PingUnlink ==
    /\ pingPc = "unlink"
    /\ PingOn
    /\ DeleteConn(pingAt)
    /\ corrupt' \in BOOLEAN
    /\ corrupt' => conn[pingAt] = 0
    /\ UNCHANGED <<heapVars, fieldVars, connCnt, accVars, workVars, foreign>>

-----------------------------------------------------------------------------
AcceptStep == (\E b \in Blocks : Accept(b)) \/ CountConnection \/ FirstRecv

NetworkStep == \E b \in Blocks : Arrive(b) \/ PeerClose(b) \/ Eof(b)

DequeueStep(w) ==
    \E b \in Blocks : DequeueData(w, b) \/ DequeueFail(w, b) \/ DequeueDrop(w, b)

WorkerStep(w) ==
    \/ DequeueStep(w)
    \/ ShortRead(w) \/ NextField(w) \/ ProcessPacket(w) \/ NextPacket(w) \/ Tail(w)
    \/ Disconnect(w) \/ Unlink(w) \/ Release(w)

PingStep ==
    \/ PingWake \/ (\E b \in Blocks : PingNext(b)) \/ PingEnd
    \/ PingDangling \/ PingSend \/ PingSkip
    \/ PingTimeout \/ PingClose \/ PingFree \/ PingUnlink

Next ==
    /\ ~corrupt
    /\ \/ AcceptStep
       \/ NetworkStep
       \/ \E w \in Workers : WorkerStep(w)
       \/ PingStep

Spec == Init /\ [][Next]_vars

-----------------------------------------------------------------------------
(* Fairness.  Completion packets are dequeued in the order they were queued *)
(* (GetQueuedCompletionStatus is first in, first out), so one cannot be     *)
(* passed over for ever while workers keep asking: strong fairness per      *)
(* block.  A thread that is not waiting takes its next step, since the      *)
(* handlers, sends and locks it goes through are assumed to return; the     *)
(* kernel completes the receives of a closed peer.  Nothing obliges a       *)
(* client to connect, to send or to close.                                  *)

WorkerBody(w) ==
    \/ ShortRead(w) \/ NextField(w) \/ ProcessPacket(w) \/ NextPacket(w) \/ Tail(w)
    \/ Disconnect(w) \/ Unlink(w) \/ Release(w)

Dequeued(b) ==
    \E w \in Workers : DequeueData(w, b) \/ DequeueFail(w, b) \/ DequeueDrop(w, b)

Fairness ==
    /\ WF_vars(~corrupt /\ (CountConnection \/ FirstRecv))
    /\ WF_vars(~corrupt /\ PingStep)
    /\ \A w \in Workers : WF_vars(~corrupt /\ WorkerBody(w))
    /\ \A b \in Blocks : WF_vars(~corrupt /\ Eof(b)) /\ SF_vars(~corrupt /\ Dequeued(b))

FairSpec == Spec /\ Fairness

-----------------------------------------------------------------------------
(* Properties.                                                             *)

\* The block was never freed behind the back of the thread that holds its
\* receive operation.
Clean(b) == ~foreign[b]

\* A connection has at most one receive operation, in one place: pending or
\* queued, or in the hands of one worker, or of the accept loop.  CompletionThread
\* has no lock per connection: this is all that keeps two workers from reading
\* into one buffer and running two handlers of one client at once.
OneReceive ==
    \A b \in Blocks : Clean(b) =>
        /\ Queued(b) <= 1
        /\ HeldByAcceptor(b) => Queued(b) = 0
        /\ \A w \in Workers : HeldByWorker(w, b) =>
              /\ Queued(b) = 0 /\ ~HeldByAcceptor(b)
              /\ \A v \in Workers : HeldByWorker(v, b) => v = w

\* The block a worker, the accept loop or a completion packet is about to use
\* is allocated, and so is freed at most once: the worker that gets the failed
\* completion may free it without asking the others.  Only the ping thread's
\* timeout, and the read of `disconnected` after the next receive was posted,
\* break this (they make the block foreign).
NoUseAfterFree ==
    \A b \in Blocks : Clean(b) /\ ~Unreferenced(b) => mem[b] = "live"

\* A connection whose completion packet was dropped, because a PING or a
\* message notification had left ASYNC_SEND in its flag, has no receive left.
\* Nor has one whose WSARecv failed.
Stalled(b) == mem[b] = "live" /\ Clean(b) /\ Unreferenced(b)

\* No later event gives a stalled connection a receive again: the server never
\* reads another byte from it, not even the answer to the PING, and only the
\* ping timeout ends it.
StalledForGood ==
    [][\A b \in Blocks : Stalled(b) => Stalled(b)' \/ ReapedByPing(b)']_vars

\* A connection whose client is gone is closed in the end, by the worker that
\* gets the failed completion or, if that packet was dropped or no receive was
\* posted, by the ping thread.
DeadPeerClosed ==
    \A b \in Blocks : Clean(b) /\ sock[b] = "eof" ~> sock[b] = "closed" \/ corrupt

\* A connection whose pingtime was set is closed in the end whatever the client
\* answers: no code sets pingtime back to 0.
PingedIsClosed ==
    \A b \in Blocks : Clean(b) /\ pinged[b] \in {"sent", "aged"} /\ mem[b] = "live" ~>
        sock[b] = "closed" \/ corrupt

=============================================================================
