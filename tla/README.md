# SocialMe server: a TLA+ model

SocialMe is a Windows server (C/C++, IO completion ports, a CUBRID database) for a
mobile social network. This directory holds TLA+ modules of its server process
(`src/PacketPacker/PacketPacker`), the TLC configurations that check them, and
TLAPS proofs of theorems about them. Paths below are relative to
`src/PacketPacker/PacketPacker` unless they start with `src/`.

## 1. The system

One process. `RunServer` (`ServerMain.cpp`) accepts clients in a loop; two or
more threads run `CompletionThread`, taking completion packets of all sockets
from one completion port; one thread runs `PingThread`. Each client has one
`PER_HANDLE_DATA` and one `PER_IO_DATA` on the heap (`Server.h`), a database
connection, and after a login a `User`. All threads share, mostly without a
lock: `list<Session> conn` (every connection), `map<string,Session> session`
(who is logged in where), `msockMap`, the monitor's counter `conn_cnt`.

| Component | State | Operations | Talks to |
|---|---|---|---|
| Connection lifecycle: `ServerMain.cpp`, `ConnectionHandler.cpp`, `Monitor_Connection.cpp` | the heap objects, the one receive operation per connection, `overlapped.flag`, `conn`, `conn_cnt` | accept; dequeue a completion, ask for the next field, run a packet, tear down; scan, ping, tear down | all below; the kernel (completions) |
| Ping clock: `PingThread` | `lastResp`, `pingtime` | receive (sets `lastResp`), scan | connections |
| Framing: `CompletionThread`, `PacketPacker.cpp` | `recvState`, `dataIndex`, `size`, the buffer, the packet in assembly | one completed receive | network, dispatch |
| Sending: `PacketPacker.cpp` (`NetSendPacket`) | `overlapped.flag` | send fields in order | framing of the peer; receive completions (through the flag) |
| Dispatch: `ServerHandler.cpp` | none | run the handler of a packet type | handlers |
| Sessions: `Session.cpp`, `LoginHandler.cpp`, `MessageHandler.cpp` | `session`, `handle->user` | login, logout, end of a connection, find and notify a receiver | connections, ping thread |
| Follows, friends: `follow.cpp`, `friend.cpp` and handlers | tables `follow`, `friend`; `account.followed`, `account.friends` | (un)follow, (un)friend, query | database |
| Photos: `Photo.cpp`, `PhotoComment.cpp`, `PhotoHandler.cpp` | tables `photo`, `photo_like`, `photo_comment`; `photo.like` | post, delete, like, dislike, comment | database |
| Accounts: `RegistHandler.cpp`, `User.cpp`, `UserHandler.cpp`, `PostHandler.cpp` | tables `account`, `account2` | register, log in, update, query, count posts | database |
| Messages: `Message.cpp`, `MessageHandler.cpp` | table `message` | push, query (takes the message), delete | sessions, database |
| Message channel: `MessageThread`, `NetSendMsgPacket` | `msockMap` | a client opens a second socket; a message is announced on it | sessions, connections |
| Cache client: `redis.cpp` on `src/Redis/include/redispp.*` | the list of outstanding replies, the stream of answers | send a command, read, copy, assign or drop its reply, transactions | the redis server |
| Database wrappers: `database_mysql.cpp` | the cursor of a statement, its handle | prepare, execute, move on, fetch, count, close | the CUBRID server |
| Queries: the `*Query*` handlers, `location.cpp`, `Payment.cpp` | one statement, one list in memory | list by pages, count, look up, push a location or payment | database |
| Blacklist, push, monitor window, control shell, start-up | files, a window | load, show | connections |

What is hard in it, and what makes each part correct:

* **Connection.** Nothing locks a connection. That two workers never serve one
  client rests on there being exactly one receive operation per connection,
  handed on from kernel to queue to worker (`OneReceive`). The worker that gets
  the failed completion frees the memory, so nobody else may refer to it
  (`NoUseAfterFree`). The ping thread frees connections without holding their
  receive, and a send overwrites the flag by which the pending receive's
  completion will be judged; a judged-wrong completion is dropped, and with it
  the chain of receives (`StalledForGood`). Then only the ping timeout gets rid
  of the connection (`DeadPeerClosed`).
* **Ping clock.** Unsigned arithmetic on a clock that wraps; 0 stands for "not
  pinged" and is a possible time; `pingtime` is never reset. How long can a
  silent client stay, and is anybody closed too early?
* **Framing.** Arbitrary cuts of the byte stream; end of packet by counting;
  receives of 0 bytes. Handlers must get what was sent.
* **Sessions.** A map changed by workers and by the ping thread, and read by
  senders of notifications in steps that take no lock. A logged-in user must be
  found, and notified, at its live connection (`Reachable`, `NotifyReceiver`).
* **Messages.** A message waits in a table; the handler that fetches it selects
  one row, deletes it, sends it and goes on. It must reach its receiver
  (`ReceiverOnly`), must not be lost when a statement is refused or a handler is cut
  short (`NoneLost`; it is lost when the send fails), and must not be sent twice
  (`SentOnce`).
* **Accounts.** A registration is a look-up, two inserts and an update, each
  committed by itself. How many rows can an id get (`UniqueId`)? An answer that
  says "ok" must be true (`Complete`, `LinkStored`, `LoginAccepted`).
* **Message channel.** A map whose keys are pointers into buffers that every
  thread has of its own: is a client told of a message (`Notified`)?
* **Cache client.** Commands are sent at once and their answers read when somebody
  asks, in any order, of reply objects that are copied, assigned and destroyed
  meanwhile. Each must get the answer to its own command (`InOrder`, `OwnAnswer`).
* **Queries.** A handler reads rows in a loop, by a cursor, into memory whose size
  comes from the client's two numbers, while other clients insert and delete. The
  list must fit (`ListFits`) and be what was selected (`ListIsPage`), counts must be
  right (`CountIsRows`), pages must fit together (`PagesWhole`), and whatever fails,
  the statement must be closed (`HandlesClosed`) and the loop must end
  (`RequestEnds`). The list's entries have 16 bytes, whatever the rows hold.
* **Relations, photos.** A request is several SQL statements, each committed by
  itself and each of which may be refused; other clients' statements run in
  between, those of a second connection of the same user, too. How far can counters
  and rows come apart, and is an answer that says "ok" true anyway?

## 2. Modules

| Module | Models | Runs | Proofs |
|---|---|---|---|
| `Connection` | accept loop, workers, ping thread over heap, kernel, list | `connection` | `ConnectionProofs` |
| `PingClock` | the two tests of `PingThread` against real time | `ping_clock` | `ConnectionProofs` |
| `PacketStream` | abstract specification: packets handed over whole, in order, once | | |
| `RecvPacket` | the receive state machine; implements `PacketStream` | `recv`, `recv_fragments` | `RecvPacketProofs` |
| `Session` | logins, logouts, teardowns, notification | `messages`, `session_reconnect` | `MessagesProofs` |
| `Messages` | `Session` composed with the table message | `messages` | `MessagesProofs` |
| `Accounts` | registration, login, profile, links to other sites | `accounts` | `AccountsProofs` |
| `Relations` | follows and friends | `relations` | `RelationsProofs` |
| `Photos` | photos, likes, comments | `photos` | `PhotosProofs` |
| `Queries` | the handlers that list, count and look up, with the database wrappers | `queries` | `QueriesProofs` |
| `MessageChannel` | `msockMap` and the notifications that look sockets up in it | `message_channel` | |
| `RedisReplies` | the cache client's replies | `redis` | `RedisRepliesProofs` |

`MC*` modules only give constants their values and define symmetry sets. A
definition introduced as a VARIANT is a plausible bug in the definition that
follows it; no behaviour uses it. It is there to show that the properties can
tell the two apart.

How the modules fit together: `Connection` establishes that one worker at a time
handles a connection; `RecvPacket` (one completion and its handling are one step)
and `Session` (one handler per connection) rely on it, and so do the database
modules (requests of one connection do not overlap). What `Connection` shows of
dropped completions is an action of `RecvPacket` (`Dropped`). The exception `Connection`
leaves, a teardown by the ping thread while a handler runs, is in `Session`
again (`PingTimeout`, `midway`). `PingClock` justifies the values that `pinged` has in
`Connection`.

### Connection

`pend`, `dataQ`, `failQ` count what a block's receive operation is in: pending in
the kernel, queued with bytes, queued as failed. `mem`, `sock`, `flag`, `pinged`,
`heard` are the block's fields; `conn[b]` counts the list's nodes; `pc`, `at` are
the workers' places, `accPc`, `accAt` the accept loop's, `pingPc`, `pingAt`,
`toScan` the ping thread's. Actions: `Accept` (socket, objects, list node) -
`CountConnection` - `FirstRecv`; `DequeueData`, `DequeueFail`, `DequeueDrop` (the
packet is ignored because the flag is `ASYNC_SEND`); `ShortRead`, `NextField`,
`ProcessPacket`, `NextPacket`, `Tail` (the read of `disconnected` after the next
receive was posted); `Disconnect` - `Unlink` - `Release`; `PingWake`, `PingNext`,
`PingSend`, `PingSkip`, `PingTimeout` - `PingClose` - `PingFree` - `PingUnlink`,
`PingEnd`, and `PingDangling` for an iterator on an erased node.

Every WSARecv may fail at once (`PostRecv`), which nobody looks at: the block then has
no receive. A PING sent at the tick 0 leaves `pingtime` at 0 (`pinged` is "zero"), so
the block counts as not pinged (`Unpinged`); the next scan is at another tick.

Abstractions: the two heap objects of a connection are one block (always
allocated and freed together), and freed blocks are used again, so stale pointers
may meet a new connection; a read of a freed block may return anything; a double
free, or `DeleteConn` running off the list, ends the process (`corrupt`).
Operations on the list are atomic: what two concurrent ones do to the links of a
`std::list` is undefined and is not modelled. Socket numbers are not reused.
`foreign` is history: the block was freed by somebody who does not hold its
receive. `OneReceive` and `NoUseAfterFree` speak of blocks that are not foreign;
that foreign blocks exist, through a ping timeout during a handler or through
the late read of `disconnected`, is what the code does and is in the model.

### PingClock

A tick is a second. `tick` wraps at `TickRange`; `silence` and `sincePing` are
real time, which the code does not have. Names that `Connection` has as well begin with
`Clock` (`ClockSpec`, `ClockNext`, ...; `AcceptClient` is its accept), so that one module
can hold the proofs about both.

### RecvPacket, PacketStream

Bytes are pairs of the field they were sent in and their place in it, so a field
is right exactly when it consists of all bytes of one field in order. Actions:
`ShortRead`, `HeaderDone`, `DataNameDone`, `DataSizeDone`, `DataDone` for a
completion with bytes, `ZeroBytes` for one without, `ConnectionReset` for a failed
one. The first five post the next receive, or fail to (`posted`). `Send` is another
thread's send on the connection, which overwrites `flag`; `Dropped` is the completion
that is then taken for that of the send. `PingTimeout` is the ping thread's teardown,
and `closed` says why a connection was torn down. `ImplementsPacketStream` is
the refinement `INSTANCE PacketStream WITH expected <- sent.packets`. A number that
is read from bytes which are not those of one field may be any (`ValuesRead`).

Nobody compares the size of a datum, which the client sends, with the buffer: the
receive is asked for all the same (`DataSizeDone`), and its bytes go past the end. The
model stops there (`Completion`), and (`allocated`) when the next packet would be
assembled in the packet just freed, which the code does when `malloc` does not return
the same address.

### Session

`session[u]` is the map's entry (`Absent`, or `Null` for what `session[id]`
inserts), `user[c]` is `handle->user->id`, `hpc`/`arg` the handler's place,
`stale` the handlers whose map node was erased under them, `target[c]` the handle
that a sender has read from the map. One operation under `csSession` is one step. The
walk of `isSessionOpened`, which takes no lock, is one step; the rest of a notification is
three: `GetConnection` gets the node (and inserts one that is gone), `NotifyRead` reads
the handle from it (from an erased node: anything), `NotifySend` sends to that handle,
which may be freed by then. The two pointers of an entry are read and written
together. `PushSession` after the ping thread freed the handle enters it all the
same; a freed handle is taken to hold no user.

Clients log in wherever they like, also on two connections as one user and on one
connection as a second user. `twice` is history: the users who were logged in on two
connections at a time, or whose connection logged in as somebody else. Of these the
code promises little: the end of the first connection erases the entry of the second
(the run `session_reconnect`), and the entry of the user who was left dangles. The
properties speak of the other users. `midway` are connections that the ping thread tears
down while their handler runs; a login among these may be entered into the map after it
was taken out.

### Messages

`Messages` EXTENDS `Session` and takes its two message handlers apart: where
`Session` has one step for the database work (`MessageQueried`, `MessageStored`),
`Messages` has a step per statement. `stored` is the table, `to[m]` a row's
receiver, `mpc`/`held` the statement and the message of each handler; `got` counts how
often a message was sent, `failed` are those whose insert was refused or that
`NetSendPacket` could not send. `PushBegin` -
`PushInsert` - `PushLastInsertId` is `MessagePush` up to the notification;
`QueryBegin` - (`QuerySelect` - `QueryDelete` - `QueryInfo`)* is `MessageQuery`. The
result of the deletion is what ends the caller's loop, so a message whose
deletion is refused is not sent and stays. The result of the send is looked at by
nobody (`MessageHandler.cpp:36`): on a socket that the client has closed, too, the
message is deleted and lost. `watch[c]` is history: the connections that have been
logged in as the receiver ever since the sender at c began to look for one.
Seen without the table a behaviour is one of `Session` (theorem `Implements`), so what is
proved of `Session` holds here.
`MessageNotifyOk` changes nothing here (its handle is in `Queries`): `DeleteMessage` names the column `receiver`
where `PushMessage` and `QueryMessage` name `receiver_id`, so its statement is
taken as refused.

### Accounts

`account` and `account2` are sets of numbered rows: nothing in the repository says
that `id` is a key. `RegistTry` (the look-up) - `RegistAccount` - `RegistAccount2`
- `RegistAndroid` (with the answer, `RegistAnswer`) is one registration; a refused
insert skips the second one and not the update. The other actions are handlers
of one statement. `races` and `disturbed` are history: `races[u]` counts the
registrations of u that went on although their look-up was refused (which says that
the id is free) or while another of u was under way; `disturbed` are the ids for which
a statement of a registration was refused. `LoginTry` here is the password's comparison; what
follows it is in `Session`. `UserUpdateNateon` and `UserQueryNateon`, which do to another
column what the Facebook pair does, are in `Queries`. `PostIncrease` reaches `UpdateUser` with a
`User` that holds only a number of posts: its empty nick and job are written, and
the last digit of the number is cut off (`PostIsRefused`).

### Relations, Photos

A row is known by its two users (user and photo), a table by how often it holds
each row: `src/db_manual.txt` lists columns and no keys. Each action is one
statement with the branch on its result; `hpc` is the statement that comes next.

In `Relations` a user may have several connections, whose requests then interleave:
the look-up and the insert of `Follow` are two transactions, and a row may come to be
there twice. `FollowsBounded` says how often, for any number of connections. The
other properties speak of users logged in once (`Sole(u)`; "one user, one db
connection" in the source). `failures[u]` counts the statements of u that the database refused: the
code undoes nothing, so each may put a counter off by one. A look-up that is refused
may say anything. In `Photos` a statement is refused if `MayFail`, `refused` records which
photos' likes that was about, and `SoleLogins` is a premise of `LikesCount`.

All clients of the two modules are logged in. The handlers of photos, and `FriendAdd` and
`FriendDelete`, read `handle->user` without asking; a request before a login ends the
server (section 6) and is left out.

Database numbers start at 1 and are not used twice; clients name photos and comments
that were posted, deleted ones included, and for a comment they may send the number
of a photo, which is what the server told them (`PhotoHandler.cpp:189`).

### Queries

One connection, whose handler is at `pc`: `DbPrepare` (in each handler's action, or
`Deny` when it ends without a statement) - an execution (`QueryFollowerList` ...
`DeleteMessage`, or `DbExecuteRefused`) - rounds of the loop (`FetchRow`, `NoMoreRows`,
`FetchFails`; `CountRow`, `CountEnd` for `DbResultCount`; `DbNext`) - `DbCloseQuery` - the
answer (`AnswerIdList` ... `AnswerShort`). `cursor` holds the rows that the statement
selected when it was executed, and the place in them; `list` the entries there is
memory for and those written; `value` what is counted or read; `open` the statements
not closed, `leaked` how many of them are pushes that were refused
(`PushLocation` and `PushPayment` return without closing). `Insert` and `Delete` are
the handlers of other connections. `table` stands for whatever table the client's
statements are about: two requests are about the same one. `paging` is history:
the list a client reads page by page, what the table held when it began, and
whether anything disturbed it since. What the rows contain is left out, and with
it the text of the answers; clients send the fields that handlers read.

Taken from the server that is not here: `rownum between min and max` selects the
rows from the min-th to the max-th, in the order of their insertion as long as no
statement asks for another; a cursor at the end says so; reading a column with no
row fetched fails. An entry of a list of ids has 16 bytes, and ids may have 16 characters (`LongRows`):
the NUL goes into the next entry, whose id writes over it, so that two ids are read as
one (`RunTogether`), or past the end of the list. What is undefined stops at `corrupt`:
that NUL, a row written to a list that `malloc` had no memory for, more users than
`QueryLocation` has memory for (`LocationRows`), a list read that a refused
statement never set, a handler that uses `handle->user` before a login, a number
printed as a text (`PhotoCommentQuery`), a packet that is sent after it was freed
(`PaymentQuery`, always).

### MessageChannel

`Buffer[t]` is where `inet_ntoa` writes when thread t calls it, `msockMap[b]` the
entry of buffer b, `channel[c]` the socket that client c opened last. `AcceptChannel`
is one round of `MessageThread`; `DeleteConn` closes whatever the caller's buffer
stands for; `NetSendMsgPacket` looks up (and so inserts) the entry of its own
buffer, sends the header there and, if that went well, the data on the main
connection. `Buffer` is a constant: with one buffer per thread (Winsock) a worker
finds nothing that `MessageThread` put in.

### RedisReplies

`obj[o]` is a reply object: whose command it answers, whether it is still to be
read (`conn`), and for a `MultiBulkEnumerator` what was read of it. `outstanding` is
the linked list, `stream` what the server has answered and nobody has read (an
item knows its command), `held` what it keeps until EXEC. A read is a sequence of
steps: `Result`, `NextElement` or `Destroy` say whose answer is wanted, then `ReadOne`
and `ReadAll` read the answers before it, and it; `Failed` is what an error makes of a reply.
`Dispose` unlinks an object that ends. `ReadFails` is an error, a nil, or
a stream that has failed. `Copy` and `Assign` hand the place in the list over.
`CutOff` is a connection lost in the body of a bulk answer: nobody looks at the result
of that read (`redispp.cpp:821-824`), so the reply gets NULs, or the part that came, for
a good answer (`Torn`).

In a transaction the server queues a command or refuses it (`refusals`); a reply whose
command was refused will get no answer. `Commit` reads the statuses and the number that
EXEC answers; after a refusal it throws at the first error
(`CommitThrows`, `redispp.cpp:1331-1341`) and leaves the rest in the stream, to nobody
(`orphaned`). MULTI and DISCARD themselves are not refused.

Three things that a program may do leave an answer to nobody, and set `careless`:
`type()` while replies are outstanding, an enumerator dropped before its header, a
transaction aborted with commands in it or read from too early. A destructor may do the
same when an earlier reply's error makes it give up (`orphaned`). The behaviours end
there; until there the answers in the stream are those of the list, in order.
`redis.cpp` itself uses one temporary reply per command.

## 3. Runs

Each row of the runs in `PROJECT.json` is one question.

| Run | Bounds | Shows |
|---|---|---|
| `connection` | 1 block, 2 workers, 2 connections, no symmetry | `OneReceive`, `NoUseAfterFree`, `StalledForGood` in every interleaving of 4 threads; `DeadPeerClosed`, `PingedIsClosed` under `FairSpec` |
| `ping_clock` | 1 client, the clock wraps at 32, scans up to 1 tick late, every starting time | `SilentGone`, `PingDooms`, `GracePeriod` |
| `recv` | all pairs of six packet shapes, one with a datum longer than the buffer; fields in at most 2 pieces; sends, refused receives, resets and timeouts | `WithinField`, `EndedByClient`, `ImplementsPacketStream`; `EveryPacketHanded` under fairness |
| `recv_fragments` | at most 3 pieces | violated: `HandedIntact` |
| `messages` | 2 connections, 2 users who log in wherever they like, 2 messages, statements and sends may fail | `Reachable`, `EntryLive`, `OwnEntryOnly`, `NotifyReceiver`; `NoneLost`, `SentOnce`, `ReceiverOnly` |
| `session_reconnect` | 3 connections, 2 users | violated: `Listed` |
| `accounts` | 3 connections, 2 ids, 4 requests, statements may be refused | `UniqueId`, `Complete`, `LoginAccepted`, `LinkStored` |
| `relations` | 2 users, one on two connections, 4 requests, 2 refused statements of each user | `FollowsBounded`, `FollowingCounted`, `FriendsNotUndercounted`, `FollowAnswerTrue`, `UnfriendAnswerTrue` |
| `photos` | 2 users, 2 photos, 1 comment, 6 requests, statements may be refused | `LikesCount` |
| `queries` | 2 requests, 3 rows, 4 pages (`<<1,1>>`, `<<2,3>>`, `<<2,1>>`, `<<3,1>>`), the second row's id as long as an entry, memory for 2 locations, everything may fail | `TypeOK`, `ListFits`, `ListIsPage`, `CountIsRows`, `PagesWhole`, `HandlesClosed`; `RequestEnds` under `FairSpec` |
| `message_channel` | 2 clients, 2 workers, 2 message sockets, one buffer per thread | violated: `Notified` |
| `redis` | 3 reply objects, 3 commands, 2 elements; commands refused in transactions, answers cut off | `TypeOK`, `InOrder`, `OwnAnswer` |

Why the bounds are enough. In `connection` the second connection is accepted on
the memory of the first, which is how stale pointers meet a new connection; two
connections beside each other share only the list and the ping thread, which
visits every node of a scan. A third worker could only do what one of the two
does, since a block has one receive; the safety properties are proved for any
number of blocks and workers. In
`PingClock` the clients do not influence each other, and 32 ticks are more than
the longest wait (16), so that every wait meets every position of the wrap.
Streams of two packets cover what a packet leaves for the next one; sizes 0 to 4
against a buffer of 5 cover empty data and the split of each field, and one of 6 the
datum that does not fit. Two
connections let one user log out and the other log in or push while a query is
between its statements; two messages let a loop go round twice, or two receivers
have one each. Both connections may be logged in as one user, too, which is how `twice`
is filled. What is proved of `Session` and `Messages` holds for any number. Three
clients let two contend for an id while a third looks on. Four requests of two
users (six for photos) let each relation be made and unmade with another request
in between. Two connections of one user are the fewest whose look-up and insert can
cross, and two refused statements let those of two requests, or both of one, fail; the
bounds that they add to are proved for any number of both. Three replies let one be
read, copied or destroyed that has another before it and another after it; two elements let an enumerator be left half read.
In `queries` two requests are a page and the one that goes on from it, with rows
inserted before, between and after; three rows fill both pages or leave the second
one short, and are one more than there is memory for locations.

## 4. Fairness

Safety is checked on `Spec`, without fairness. `Connection!FairSpec` adds: weak
fairness of each worker between two dequeues, of the accept loop after an accept and of the ping
thread (threads that do not wait run, and sends, handlers and locks are assumed
to return); weak fairness of the kernel completing the receive of a closed peer;
strong fairness of dequeuing a given block's packet, since
`GetQueuedCompletionStatus` is first in, first out and a worker that has nothing
to do waits in it. No client has to do anything. Liveness includes the escape
`corrupt`: nothing is promised by a process that has ended. `RecvPacket` has
`WF_vars(Receive \/ Dropped)`: what a client has sent arrives, and a worker takes every
completion. That does not make a connection go on for ever: a completion may be dropped
and a receive refused, and then nothing is read any more, which `EveryPacketHanded` says.
No fairness is asked of sends, resets and timeouts, which need not happen. `Queries!FairSpec`
has weak fairness of the handler alone: its worker runs, and the calls to the
database and `NetSendPacket` return; clients and other connections need not do
anything.

## 5. Proofs

All theorems hold for every value of the constants that satisfies the modules'
assumptions (`ConnectionAssumption`, `PingClockAssumption`, `RecvPacketAssumption`, `QueriesAssumption`,
`SessionAssumption`, `MessagesAssumption`, `AccountsAssumption`,
`RelationsAssumption`, `PhotosAssumption`, `RedisAssumption`: finite sets of
users where counts are taken, a natural number for each bound, distinct special
values).

* `ConnectionProofs`, first part, about `PingClock`: `ClockTypeCorrect`, `SilentGoneHolds`, `PingDoomsHolds`,
  `GracePeriodHolds`, for every `TickRange` and `Slack` such that a scan is not late by
  a third of the counter's range. `ClockInv(c)` ties the code's numbers to real time:
  of a client that is pinged, that `pingtime` lies `sincePing` ago; of one that is not,
  why it is not (`NotPinged`: it was heard of, it is new, its PING fell on the tick 0,
  or its `lastResp` of 0 seemed recent right after a wrap), each with a bound on its
  silence. `ElapsedIs` is the one place where the wrap is computed.
* `ConnectionProofs`, second part, about `Connection`: `TypeCorrect`, `OneReceiveHolds`, `NoUseAfterFreeHolds`,
  `StalledForGoodHolds`, for any sets of blocks and workers. `OneReceive` is not
  inductive: an accept must not get memory that somebody still refers to.
  `BlockInv(b)` says, for a block that is not foreign, that there is at most one
  token (pending, queued, held by one worker or by the accept loop), that a block
  with a token is allocated, and that the ping thread is not past its timeout
  there; `BlockStep` shows that each action keeps it, one step per action.
  `StalledStep` does the same for the action property.
* `RecvPacketProofs`: `WithinFieldHolds`, for every stream of packets, whatever sizes and
  counts are read, and any number of pieces: a receive asks for bytes of the current
  field only (that the field is inside the buffer is not so in general, and not
  claimed). `FieldInv` says that the receive asked for lies in its field; a short
  read keeps it, since the place and the length of the rest add up to what was
  asked for before. `Implements`, `EndedByClientHolds` and `HandedIntactHolds`, for
  streams of packets of any sizes (up to a datum that does not fit, where the model
  stops), have the hypothesis `MaxReads <= 2`: a field arrives in one piece or two. That is
  where they hold: `recv_fragments` violates `HandedIntact` with three. Their
  invariant `IInv` says that the state of the assembly follows one of the streams
  (`Follows`): what was handed over, and the packet in assembly, are the first
  fields sent (`Assembled`); state, index, count and length belong to the field
  that is being received (`Place`); of that field the bytes that came are at the
  start of the buffer, the rest is to go behind them, and what the kernel still
  has to deliver begins where they end (`Pieces`). One lemma per completion
  (`HeaderDoneFollows` ... `DataDoneFollows`) shows that the place moves on by one
  field; `ReadValue` is why the count and the sizes read are the ones sent: two
  fields that are whole never share a byte.
  The rest is about where the k-th field of a stream, and the k-th byte of a
  field, are. `FlattenSeq` is a fold; what it computes (`Layout`: piece i starts
  after the pieces before it, and the pieces fill the whole) is proved once, with
  an induction over the sets of indices (`SetInduction`, from the least element of
  a set of numbers).
* `RelationsProofs`: `TypeCorrect`, `FollowsBoundedHolds`, `FollowingCountedHolds`,
  `FriendsNotUndercountedHolds`, `FollowAnswerTrueHolds`, `UnfriendAnswerTrueHolds`.
  For `FollowsBounded`, `RowsInv(u, v)` counts the handlers about to insert the row along
  with the rows: an answered look-up lets a handler through only while there is no row,
  and then at most all connections of u are about to insert one; a refused look-up is
  counted. The counters come near the rows only between
  requests; `FollowInv(u)` and `FriendInv(u)` say where they are at each statement of
  u's request, and that where the first statement will change nothing, because the
  look-up was refused, that refusal pays for it. The lemmas split steps of u's
  connection (`FollowOwn`, `FriendOwn`) from everybody else's (`FollowOther`,
  `FriendOther`), which touch no row of u's. `AnswerInv(c)` is what a handler that
  will answer ok has done. Cardinality facts come from `FiniteSetTheorems`.
* `PhotosProofs`: `TypeCorrect`, `LikesCountHolds`. `photo.like` counts neither the
  rows nor the requests but something in between: `Counted(p)`, the users with a
  row, plus the one whose like is counted and not inserted yet, minus the one
  whose row is not deleted yet. `LikesInv(p)` says `like[p] = Cardinality(Counted(p))`,
  that what a handler's look-up found is still so, and that photos yet to be
  posted have no likes. A statement about another photo changes nothing of this
  (`Elsewhere`); each statement about p changes `Counted(p)` by the one user who
  runs it, or not at all (`Here`).
* `MessagesProofs`, first part, about `Session`: `TypeCorrect`, `ReachableHolds`, `EntryLiveHolds`,
  `OwnEntryOnlyHolds`, with no hypothesis on who logs in where; what they say of a user,
  they say while it is not in `twice`. No two connections are, or are becoming, such a
  user (`Alone`), and a login takes no such user's connection from it (`LoggingIn`). A
  handler's place says what the map holds for its user (`TakenOut`), a handler that runs
  on a freed handle is one the ping thread caught (`Caught`), and a connection not
  accepted is nobody (`NotAccepted`). Each action keeps each of these conjuncts; the
  properties follow from them.
* `MessagesProofs`, second part: `Implements` (each step is a step of `Session` or
  leaves its variables alone, the table's steps being its one-step handlers),
  `MessagesTypeCorrect`, `NoneLostHolds`, `ReceiverOnlyHolds`, `SentOnceHolds`,
  `NotifyReceiverHolds`. For
  `ReceiverOnly`, `Serving` says that a handler holds messages of the user that its
  connection is logged in as. For `SentOnce`, what was sent to a user not in `twice` is no
  longer stored, nor in hands that may send it (`Gone`), a message held for sending is
  deleted (`Deleted`), one being inserted is nobody else's (`New`); that two handlers
  never hold the same one (`Single`) follows from `Serving` and `Alone`. For
  `NotifyReceiver`, `Watched` follows a connection that stays logged in through the four
  reads of a sender: its node is not erased (`NodeErased`: only its own logout or end
  does that), so the handle read from it is the connection's. Nodes that were erased matter
  to those about to read only (`StaleReads`).
* `AccountsProofs`: `TypeCorrect`, `UniqueIdHolds`, `CompleteHolds`, `LoginAcceptedHolds`,
  `LinkStoredHolds`. `Bounded` counts the registrations about to insert an id along with
  its rows, against `races`: one that its look-up let through found no row, and found
  nobody else at it or is counted. `Halfway` says what a registration has inserted by the
  time it gets to a statement, unless one was refused; `Sole`, that a client registers
  alone an id nobody raced for.

* `QueriesProofs`: `TypeCorrect`, `ListFitsHolds`, `ListIsPageHolds`, `CountIsRowsHolds`,
  `PagesWholeHolds`, `HandlesClosedHolds`, for any pages (negative and reversed ones,
  too), any table and any number of requests, whatever fails. `IInv` has five
  parts. `Handles` counts the statements that are open at each place of the handler.
  `Reading` says where the cursor stands in each loop and that what the loop has
  written, or counted, is made of the rows before it: `ListIsPage` and `CountIsRows`
  are that at the loop's end. `Memory` says that a statement for a page selects no
  more rows than `malloc` was asked for, which is what `ListFits` rests on, since the
  loop itself compares with no size. `Covered` is for `PagesWhole`, which is far
  from inductive: while a client turns pages, those it has been told of are rows
  of the table up to the place `upto`, each once, and all of them that were there
  at the start (`Covers`); the page being read stands behind them (`Stands`); and
  the rows that were there at the start are a beginning of the table, because
  inserts append (`Begins`). A deletion ends that (`calm`), as it does in the code:
  the pages after it are shifted.
* `RedisRepliesProofs`: `Invariant`, `TypeCorrect`, `InOrderHolds`, `OwnAnswerHolds`, for any
  reply objects, any number of commands and multi bulk answers of any size. The
  unread replies of the list are split by the transaction: those commanded before
  MULTI (`Before`) and those since (`During`), less those whose command was refused, which
  are owed nothing. `InStep` says that the answers in
  `stream` serve the first and those in `held` the second (`Serves`): each piece of an
  answer belongs to a duty (a command, and how many items of its answer are still
  to be read), each duty has all its items, and answers stand whole and in the order of
  their commands (`InPieces`). `Ordered` says that the unread replies stand in the
  list in that order, too, `Statuses` that "+QUEUED" comes behind all answers and only
  in a transaction, and `Begun` that only the reply whose answer comes next can have
  been read in part. `InOrder` is not inductive: it speaks of the last item of each
  answer and says nothing of the items before it, which is what a read takes.
  `OwnAnswer` needs `InStep` for the same reason: the item at the head of the stream
  is one of the first unread reply's. Each action is a lemma; `Copy` and `Assign`,
  which put another object into the place of the first, rest on what replacing one
  element does to a list without repetitions (`Replaced`). `CommitThrowsStep` and
  `CutOffStep` are the two ways in which what follows in the stream is lost. Once an answer
  was left to nobody (`careless`, `orphaned`) or the stream has failed (`broken`), the types,
  `OwnAnswer` and `Wanted` (the answer a read waits for can still come) are what is left.

Model-checked only: the liveness properties (`DeadPeerClosed`, `PingedIsClosed`,
`EveryPacketHanded`, `RequestEnds`), which are out of this prover's reach. Every
invariant and action property of a passing run is proved. Proved only, and not
checked by a run: the type invariants of `Connection`, `PingClock`, `Session`, `Messages`,
`Accounts`, `Relations` and `Photos`.

## 6. Disagreements between the code and what is said of it

* `recv_fragments`: a field that arrives in three pieces is put together wrongly:
  the third is written behind the first (`ServerMain.cpp:271`).
* `session_reconnect`: when a user logs in on a second connection, the end of the
  first one erases the entry of the second (`Session.cpp:50`).
* `message_channel`: a client with an open message channel is not told of messages
  on it (`PacketPacker.cpp:90`, `ServerMain.cpp:207`).

Also met while modelling, and in the models as they are, without a run of their
own:

* `account.followed` counts whom a user follows (`follow.cpp:78-79`, `:109-110`), and
  the server answers it as `FOLLOW_INFO_FOLLOWER_COUNT`, the number of followers
  (`FollowHandler.cpp:168-177`, `follow.cpp:152`); `FollowingCounted` is about the first;
* `FriendAdd` and `FriendDelete` (`FriendHandler.cpp:15`, `:42`) and the handlers of photos
  (`PhotoHandler.cpp:22`, `:45`, `:128`, `:152`, `:183`, `:208`) read `handle->user` of a client that
  need not be logged in, which ends the server;
* `PhotoCommentPush` tells the client the photo's number as `comment_id` (`PhotoHandler.cpp:189`);
* an id of 16 characters, which `db_manual.txt` allows, is copied with its NUL into an
  entry of 16 bytes (`follow.cpp:203`, `:243`, `friend.cpp:166`): two ids run together, and the
  last one writes past the list;
* the size of a datum is the client's number, and nobody compares it with the buffer
  (`ServerMain.cpp:322-327`);
* `MessageQuery` deletes a message, sends it, and does not look whether the send went
  well (`MessageHandler.cpp:36`): a message that could not be sent is lost;
* a connection that is logged in may log in as another user (`LoginHandler.cpp`): the
  entry of the first one stays in the map when the connection ends;
* a bulk answer whose body was cut off by a lost connection is returned as a good result
  (`redispp.cpp:821-824`);
* the commit of a transaction with a refused command throws before it has read all
  answers (`redispp.cpp:1331-1341`), and those left are taken for the answers to other
  commands;
* a client is pinged after 3 000 ms of silence (`ServerMain.cpp:395`), where the
  comment two lines above says 30 seconds;
* `PostIncrease` and `PostDecrease` empty the nick and the job of the account they
  name, need no login, and lose the last digit of the number (`User.cpp:187`);
* `DeletePhotoComment` compares a comment's number with `photo_id`
  (`PhotoComment.cpp:47`), so other comments of the user may go and the one named stay;
* `FollowedCount`, `QueryFriendCount`, `QueryUserPost` and `QueryUserComment` read a
  column before the cursor stands on a row, so the numbers are -1 and the comment
  is never set;
* `IsFollowed` is true for no row and false for one (`follow.cpp:53`);
* `QueryLocation` has memory for 100 users (`location.cpp:51`);
* `PaymentQuery` frees the packet with the number of payments before it sends it,
  and frees the request, which its caller frees again (`PaymentHandler.cpp:50`, `:67`);
* `QueryPhotoCommentList` prints a number as a text (`PhotoComment.cpp:69`);
* the id lists and the photo list read what a refused statement never set
  (`follow.cpp:209`, `Photo.cpp:78`);
* `LocationPush`, `PostQuery` and `MessageNotifyOk` use `handle->user` of a client that
  need not be logged in;
* adding somebody twice before being added back counts one person twice in
  `account.friends` (`friend.cpp:66`), which `FRIEND_QUERY_COUNT` answers with as the
  number of persons; `FriendsNotUndercounted` is what holds;
* the data of a notification would go to the main connection, not to the message
  channel (`PacketPacker.cpp:229`), and a `MultiBulkEnumerator` that is assigned leaves
  its pending elements behind;
* `UserQuery` sends no answer when there is no such user;
* `MESSAGE_INFO` carries the sender in the field `receiver` (`MessageHandler.cpp:31`),
  and `MessagePush` notifies the receiver even when the message was not stored;
* a failed registration may keep the id taken: the row of `account` stays when a
  later statement is refused;
* `UserUpdateFacebook` answers ok for an account that has no row in `account2`.

## 7. Not modelled

Sends that block or are cut short; what concurrent operations do inside
`std::list` and `std::map`; database columns that no decision depends on, and the
texts of answers. Of the cache client: the commands without a reply, and texts.
Connecting to the database. Blacklist, monitor window, control shell, log, push
service, start-up: no shared state beyond `conn_cnt`. Functions that nothing calls:
`QueryWaitingList`, `QueryUserAndroid`, `CubTest`, `NetRecvPacketData`. Not in the built
server: the CUBRID back end file, the echo server, the test bed, the file server
form. Vendored libraries.

## 8. Plan

Done first, because everything else rests on it: `Connection` with its proofs,
`PingClock`, `RecvPacket`, `Session`; then the database modules `Relations` and
`Photos`; then `Messages`, composed with `Session`, and `Accounts`, all four with
proofs; then `MessageChannel`, `RedisReplies` and `Queries`; then the proofs of `Queries` and
that the framing implements `PacketStream`, and those of `RedisReplies`.
What could follow: a theorem that `Photos` and `Relations` implement one abstract
specification of a counter beside its rows.
