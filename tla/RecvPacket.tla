----------------------------- MODULE RecvPacket -----------------------------
(***************************************************************************)
(* How CompletionThread and NetRecv assemble packets from the byte stream  *)
(* of one connection.                                                      *)
(*                                                                         *)
(* A packet travels as a header (which carries the number of data), then a *)
(* name, a size and the bytes of each datum.  The worker asks for one      *)
(* field at a time; TCP may deliver it in several pieces.  A byte is known *)
(* by the field it was sent in and its place there, <<field, place>>, so   *)
(* that a field is assembled rightly when it holds all the bytes of one.   *)
(*                                                                         *)
(* One completion and its handling by a worker are one step: a connection  *)
(* has one receive at a time (Connection!OneReceive).  Other threads send  *)
(* on the connection meanwhile, or tear it down.  The model stops where    *)
(* Connection goes on: at a connection that is torn down; and where the    *)
(* code has no behaviour of its own left: in a freed packet, and past the  *)
(* end of the buffer.                                                      *)
(***************************************************************************)
EXTENDS Naturals, Sequences, SequencesExt

CONSTANTS
    Streams,    \* what clients send: sequences of packets, a packet being
                \* the sequence of the sizes of its data
    HeaderLen,  \* sizeof(NetPacketHeader)
    NameLen,    \* MAX_NAME_LENGTH
    SizeLen,    \* sizeof(int)
    BufSize,    \* BUFSIZE
    MaxReads    \* BOUND: the pieces TCP delivers a field in

ASSUME RecvPacketAssumption ==
    /\ {HeaderLen, NameLen, SizeLen} \subseteq 1 .. BufSize
    /\ MaxReads \in Nat \ {0}
    /\ BufSize \in Nat
    /\ Streams \subseteq Seq(Seq(Nat))

VARIABLES
    sent,        \* the fields this client sends, packet by packet
    inbound,     \* the bytes of them that no worker has got yet
    flag,        \* overlapped.flag: "recv" (ASYNC_RECV) or "send" (ASYNC_SEND)
    posted,      \* is a receive outstanding
    recvState,   \* PER_IO_DATA.recvState
    dataIndex,   \* PER_IO_DATA.dataIndex
    size,        \* PER_IO_DATA.size: the length of the current field
    bytesToRecv, \* PER_IO_DATA.bytesToRecv
    wsaBuf,      \* where in the buffer the kernel writes, and how many bytes
    buffer,      \* PER_IO_DATA.buffer
    reads,       \* completions of the current field so far
    count,       \* header.count of the packet being assembled
    packet,      \* its fields so far
    allocated,   \* does PER_HANDLE_DATA.packet point to an allocated NetPacket
    handed,      \* the packets handed to ProcessPacket
    closed       \* why the connection has been torn down: "end" (a completion
                 \* of 0 bytes), "error" (a failed one), "ping" (the ping
                 \* thread), or "no" while it has not

ioVars == <<recvState, dataIndex, size, bytesToRecv, wsaBuf, reads>>
packetVars == <<count, packet, allocated, handed>>
vars == <<sent, inbound, flag, posted, ioVars, buffer, packetVars, closed>>

-----------------------------------------------------------------------------
(* What a client sends.                                                    *)

Field(len, value) == [len |-> len, value |-> value]

\* The fields of a packet whose data have the sizes p.
FieldsOf(p) ==
    <<Field(HeaderLen, Len(p))>> \o
    FlattenSeq([j \in DOMAIN p |->
        <<Field(NameLen, 0), Field(SizeLen, p[j]), Field(p[j], 0)>>])

Packed(s) == [i \in DOMAIN s |-> FieldsOf(s[i])]

\* Packet i of stream s starts after this many fields.
FieldsBefore(s, i) == Len(FlattenSeq(SubSeq(Packed(s), 1, i - 1)))

BytesOf(f, g) == [k \in 1 .. f[g].len |-> <<g, k>>]

AllBytes(f) == FlattenSeq([g \in DOMAIN f |-> BytesOf(f, g)])

\* The packets of a stream, as sequences of the bytes of their fields.
PacketsOf(s) ==
    LET f == FlattenSeq(Packed(s))
    IN  [i \in DOMAIN s |->
            [j \in DOMAIN FieldsOf(s[i]) |-> BytesOf(f, FieldsBefore(s, i) + j)]]

\* The number that the bytes of a header or of a size stand for: the one that
\* was sent, or, if they are not the bytes of one field, any (BufSize + 1 for
\* all that do not fit the buffer).
ValuesRead(bytes) ==
    LET whole == {g \in DOMAIN sent.fields : bytes = BytesOf(sent.fields, g)}
    IN  IF whole = {} THEN 0 .. BufSize + 1 ELSE {sent.fields[g].value : g \in whole}

-----------------------------------------------------------------------------
NoByte == <<0, 0>>

\* RunServer creates the packet and NetRecvPacket asks for a header.  WSARecv may
\* fail, here and below, which nobody looks at: then no receive is outstanding.
Init ==
    /\ \E s \in Streams :
          sent = [fields |-> FlattenSeq(Packed(s)), packets |-> PacketsOf(s)]
    /\ inbound = AllBytes(sent.fields)
    /\ flag = "recv" /\ posted \in BOOLEAN
    /\ recvState = "HEADER" /\ dataIndex = 0
    /\ size = HeaderLen /\ bytesToRecv = HeaderLen
    /\ wsaBuf = [off |-> 0, len |-> HeaderLen]
    /\ reads = 0
    /\ buffer = [k \in 1 .. BufSize |-> NoByte]
    /\ count = 0 /\ packet = <<>> /\ allocated = TRUE /\ handed = <<>>
    /\ closed = "no"

\* NetRecv(size), in the state that says what the field is.
NetRecv(state, len) ==
    /\ flag' = "recv" /\ posted' \in BOOLEAN
    /\ recvState' = state
    /\ size' = len /\ bytesToRecv' = len
    /\ wsaBuf' = [off |-> 0, len |-> len]
    /\ reads' = 0

NetRecvPacket == NetRecv("HEADER", HeaderLen) /\ dataIndex' = 0

\* The buffer once the kernel has written the next n bytes at wsaBuf.
Written(n) ==
    [k \in 1 .. BufSize |->
        IF k \in wsaBuf.off + 1 .. wsaBuf.off + n THEN inbound[k - wsaBuf.off] ELSE buffer[k]]

\* There is a receive, whose completion a worker takes for one.
Receiving == closed = "no" /\ posted /\ flag = "recv"

\* A receive completes with n bytes.  A field longer than the buffer is asked for
\* all the same: its bytes go past the end, where the model stops.
Completion(n) ==
    /\ Receiving /\ size <= BufSize
    /\ n \in 1 .. wsaBuf.len /\ n <= Len(inbound)
    /\ inbound' = SubSeq(inbound, n + 1, Len(inbound))
    /\ buffer' = Written(n)

\* VARIANT of ShortRead: the whole field is asked for again.
ShortReadWhole(n) ==
    /\ Completion(n)
    /\ n < bytesToRecv /\ reads + 1 < MaxReads
    /\ wsaBuf' = [off |-> n, len |-> bytesToRecv]
    /\ reads' = reads + 1
    /\ posted' \in BOOLEAN
    /\ UNCHANGED <<sent, flag, recvState, dataIndex, size, bytesToRecv, packetVars, closed>>

\* VARIANT of ShortRead: the rest is asked for at the start of the buffer.
ShortReadAtStart(n) ==
    /\ Completion(n)
    /\ n < bytesToRecv /\ reads + 1 < MaxReads
    /\ wsaBuf' = [off |-> 0, len |-> bytesToRecv - n]
    /\ bytesToRecv' = bytesToRecv - n
    /\ reads' = reads + 1
    /\ posted' \in BOOLEAN
    /\ UNCHANGED <<sent, flag, recvState, dataIndex, size, packetVars, closed>>

\* Fewer bytes than the target: the rest is asked for, to be written n bytes
\* into the buffer, n being what this completion brought.  The flag is not set.
ShortRead(n) ==
    /\ Completion(n)
    /\ n < bytesToRecv /\ reads + 1 < MaxReads
    /\ wsaBuf' = [off |-> n, len |-> bytesToRecv - n]
    /\ bytesToRecv' = bytesToRecv - n
    /\ reads' = reads + 1
    /\ posted' \in BOOLEAN
    /\ UNCHANGED <<sent, flag, recvState, dataIndex, size, packetVars, closed>>

\* The field is complete: its bytes are copied into the packet.
FieldDone(n, state) ==
    /\ Completion(n) /\ n >= bytesToRecv
    /\ recvState = state
    /\ UNCHANGED <<sent, closed>>

Content(n) == SubSeq(Written(n), 1, size)

\* The packet is complete.  ProcessPacket gets it, NetDisposePacket frees it,
\* and the NetPacket that NetCreatePacket returns is kept by nobody: the next
\* packet is assembled in the freed one, which is sound only when malloc has
\* returned the block just freed.
PacketDone(fields) ==
    /\ handed' = Append(handed, fields)
    /\ packet' = <<>>
    /\ allocated' \in BOOLEAN
    /\ NetRecvPacket

HeaderDone(n) ==
    /\ FieldDone(n, "HEADER")
    /\ \E c \in ValuesRead(Content(n)) :
          /\ count' = c
          /\ \/ /\ c = 0
                /\ PacketDone(<<Content(n)>>)
             \/ /\ c # 0
                /\ packet' = <<Content(n)>>
                /\ NetRecv("DATANAME", NameLen)
                /\ UNCHANGED <<dataIndex, allocated, handed>>

DataNameDone(n) ==
    /\ FieldDone(n, "DATANAME")
    /\ packet' = Append(packet, Content(n))
    /\ NetRecv("DATASIZE", SizeLen)
    /\ UNCHANGED <<dataIndex, count, allocated, handed>>

DataSizeDone(n) ==
    /\ FieldDone(n, "DATASIZE")
    /\ packet' = Append(packet, Content(n))
    /\ \E len \in ValuesRead(Content(n)) : NetRecv("DATA", len)
    /\ UNCHANGED <<dataIndex, count, allocated, handed>>

\* VARIANT of DataDone: the number of data is off by one.
DataDoneOneMore(n) ==
    /\ FieldDone(n, "DATA")
    /\ UNCHANGED count
    /\ \/ /\ dataIndex + 1 > count
          /\ PacketDone(Append(packet, Content(n)))
       \/ /\ dataIndex + 1 <= count
          /\ dataIndex' = dataIndex + 1
          /\ packet' = Append(packet, Content(n))
          /\ NetRecv("DATANAME", NameLen)
          /\ UNCHANGED <<allocated, handed>>

DataDone(n) ==
    /\ FieldDone(n, "DATA")
    /\ UNCHANGED count
    /\ \/ /\ dataIndex + 1 >= count
          /\ PacketDone(Append(packet, Content(n)))
       \/ /\ dataIndex + 1 < count
          /\ dataIndex' = dataIndex + 1
          /\ packet' = Append(packet, Content(n))
          /\ NetRecv("DATANAME", NameLen)
          /\ UNCHANGED <<allocated, handed>>

TearDown(why) ==
    /\ closed' = why
    /\ UNCHANGED <<sent, inbound, flag, posted, ioVars, buffer, packetVars>>

\* VARIANT of ZeroBytes: any short completion ends the connection.
ShortBytes == Receiving /\ (inbound = <<>> \/ wsaBuf.len < size) /\ TearDown("end")

\* A receive of 0 bytes: the client has sent everything and closed, or the
\* datum is empty, and then the receive completes at once with 0 bytes too.
ZeroBytes == Receiving /\ (inbound = <<>> \/ wsaBuf.len = 0) /\ TearDown("end")

\* The connection is lost, and the receive fails.
ConnectionReset == Receiving /\ TearDown("error")

\* The client has been silent for too long for the ping thread.
PingTimeout == closed = "no" /\ TearDown("ping")

\* Another thread sends on the connection: the ping thread a PING, or a worker a
\* notification for the user.  The flag is the one the receive uses.
Send ==
    /\ Receiving
    /\ flag' = "send"
    /\ UNCHANGED <<sent, inbound, posted, ioVars, buffer, packetVars, closed>>

\* The receive completes, with bytes or without: a worker reads the flag, takes
\* the completion for that of the send and drops it.  Nothing asks for more.
Dropped ==
    /\ closed = "no" /\ posted /\ flag = "send"
    /\ posted' = FALSE
    /\ UNCHANGED <<sent, inbound, flag, ioVars, buffer, packetVars, closed>>

Receive ==
    /\ allocated
    /\ \E n \in 1 .. BufSize :
          ShortRead(n) \/ HeaderDone(n) \/ DataNameDone(n) \/ DataSizeDone(n) \/ DataDone(n)

Next == Receive \/ ZeroBytes \/ ConnectionReset \/ PingTimeout \/ Send \/ Dropped

\* What is sent arrives, and a worker takes every completion.
Spec == Init /\ [][Next]_vars /\ WF_vars(Receive \/ Dropped)
-----------------------------------------------------------------------------
(* Properties.                                                             *)

\* The kernel is never asked to write outside the bytes of the field, however
\* the rest of a short read is computed.  (Nobody checks that the field is inside
\* the buffer: the size of a datum is the client's number.)
WithinField == wsaBuf.off + wsaBuf.len <= size /\ bytesToRecv <= size

\* The handlers get the packets the client sent, whole and in order (until a
\* packet is assembled in freed memory, where the model stops).
Promised == INSTANCE PacketStream WITH expected <- sent.packets
ImplementsPacketStream == Promised!Spec

\* The same as an invariant: "as long as the target amount is not all received,
\* ask again for what is missing" (the comments on the short read) makes every
\* field whole.
HandedIntact == IsPrefix(handed, sent.packets)

\* The server ends a connection only when its client has, or at an empty datum,
\* whose receive of 0 bytes it takes for the client's end.
EndedByClient ==
    closed = "end" /\ inbound # <<>>
        => size = 0 /\ \E g \in DOMAIN sent.fields : sent.fields[g].len = 0

\* Every packet of a client that sends no empty datum is handed over in the end,
\* unless one of these comes first: the completion of a receive is dropped or the
\* receive is refused (nothing is posted again, and the rest is never read), the
\* connection is reset, the ping thread gives it up, a datum does not fit the
\* buffer, or the packet is assembled in freed memory.
EveryPacketHanded ==
    (\A g \in DOMAIN sent.fields : sent.fields[g].len > 0)
        => <>(\/ handed = sent.packets
              \/ ~posted \/ closed \in {"error", "ping"}
              \/ size > BufSize \/ ~allocated)

=============================================================================
