----------------------------- MODULE RedisReplies -----------------------------
(***************************************************************************)
(* The Redis client that redis.cpp is built on: commands are sent at once, *)
(* their answers are read when somebody wants one.                         *)
(*                                                                         *)
(* Each command returns a reply object, which is linked into the list of   *)
(* outstanding replies until its answer is read.  The server answers in    *)
(* the order of the commands, so the answers of all replies linked before  *)
(* are read first.  A read that fails throws; destructors swallow that.    *)
(* Copies and assignments move the duty to read from one object to another.*)
(*                                                                         *)
(* One thread uses the connection.  What an answer says is not modelled,   *)
(* but for whether it is the value that the reader expects, and whether it *)
(* is all there.  MULTI and DISCARD are not refused.  Commands with no     *)
(* reply object (quit, shutdown, subscribe and the like) are left out:     *)
(* nothing reads what the server says to them.                             *)
(***************************************************************************)
EXTENDS Naturals, SequencesExt

CONSTANTS
    Replies,      \* the program's variables and temporaries of reply types
    NoReply,      \* no result is wanted
    MayFail,      \* can the server answer with an error
    MaxCommands,  \* BOUND: commands sent
    MaxElements   \* BOUND: the elements of a multi bulk answer

ASSUME RedisAssumption ==
    /\ NoReply \notin Replies
    /\ MayFail \in BOOLEAN
    /\ MaxCommands \in Nat /\ MaxElements \in Nat

VARIABLES
    obj,         \* the reply objects
    outstanding, \* outstandingReplies
    stream,      \* what the server has sent and nobody has read; empty if broken
    commands,    \* commands sent so far
    wanted,      \* the object whose answer is being read
    dying,       \* ... by its destructor
    inMulti,     \* a Transaction is Dirty
    multiFrom,   \* the commands that were sent before it
    held,        \* the answers that the server keeps for EXEC
    refusals,    \* the commands that it refused to queue
    broken,      \* failbit or badbit: no read succeeds any more
    careless,    \* the program did what leaves an answer to nobody
    orphaned     \* a read that threw did: see ReadFails, CommitThrows

readVars == <<wanted, dying>>
multiVars == <<inMulti, multiFrom, held, refusals>>
flags == <<broken, careless, orphaned>>
vars == <<obj, outstanding, stream, commands, readVars, multiVars, flags>>

\* The types of the replies that each family of commands returns.
KeyCommands == {"bool", "multi", "string", "void", "int"}
StringCommands == {"void", "string", "bool", "int"}
ListCommands == {"int", "multi", "void", "string"}
SetCommands == {"bool", "string", "int", "multi"}
HashCommands == {"bool", "string", "int", "multi"}
ServerCommands == {"void", "int", "string"}
Kinds == KeyCommands \cup StringCommands \cup ListCommands \cup SetCommands
         \cup HashCommands \cup ServerCommands

NoObject == [kind |-> "none", command |-> 0, conn |-> FALSE, value |-> 0,
             header |-> FALSE, count |-> 0, pending |-> <<>>]

\* What a bulk answer is taken for whose body is not all there: NULs in place of
\* what is missing.
Torn == MaxCommands + 1

Item == [command : 0 .. MaxCommands, more : Nat, says : {"value", "nil", "error"}]

TypeOK ==
    /\ \A o \in Replies :
          /\ obj[o].kind \in Kinds \cup {"none"}
          /\ obj[o].command \in 0 .. commands
          /\ obj[o].value \in 0 .. commands \cup {Torn}
          /\ obj[o].count \in 0 .. MaxElements
          /\ obj[o].pending \in Seq(1 .. commands \cup {Torn})
          /\ obj[o].kind = "none" => obj[o] = NoObject
          /\ obj[o].conn => \E i \in DOMAIN outstanding : outstanding[i] = o
    /\ \A i \in DOMAIN outstanding : obj[outstanding[i]].kind # "none"
    /\ \A i, j \in DOMAIN outstanding : outstanding[i] = outstanding[j] => i = j
    /\ stream \in Seq(Item) /\ held \in Seq(Item)
    /\ commands \in 0 .. MaxCommands /\ multiFrom \in 0 .. commands
    /\ refusals \subseteq 1 .. commands
    /\ wanted \in Replies \cup {NoReply}
    /\ <<dying, inMulti, broken, careless, orphaned>> \in [1 .. 5 -> BOOLEAN]

Init ==
    /\ obj = [o \in Replies |-> NoObject]
    /\ outstanding = <<>> /\ stream = <<>> /\ held = <<>>
    /\ commands = 0 /\ multiFrom = 0 /\ refusals = {}
    /\ wanted = NoReply
    /\ dying = FALSE /\ inMulti = FALSE
    /\ broken = FALSE /\ careless = FALSE /\ orphaned = FALSE

-----------------------------------------------------------------------------
(* The list and the stream.                                                *)

\* The list once o is unlinked.
Without(o) == RemoveFirst(outstanding, o)

\* readResult has something to read for o.
Unread(o) ==
    /\ obj[o].conn
    /\ obj[o].kind = "multi" => ~obj[o].header \/ obj[o].count > 0

\* VARIANT of First: result() reads without clearPendingResults().
FirstIsWanted == wanted

\* The reply that is read next: those linked before the wanted one come first.
First == outstanding[Min({i \in DOMAIN outstanding : Unread(outstanding[i])})]

\* The first n items of the stream are read.
Drop(s, n) == SubSeq(s, n + 1, Len(s))

\* A stream that has failed sends nothing.
Send(items) == stream' = IF broken THEN stream ELSE stream \o items

\* What the server may answer to command n.
Answers(n, kind) ==
    {<<[command |-> n, more |-> 0, says |-> s]>> : s \in
        (IF kind = "multi" THEN {} ELSE {"value"})
        \cup (IF kind = "string" THEN {"nil"} ELSE {})
        \cup (IF MayFail THEN {"error"} ELSE {})}
    \cup (IF kind = "multi"
          THEN {[i \in 1 .. e + 1 |-> [command |-> n, more |-> e + 1 - i, says |-> "value"]] :
                   e \in 0 .. MaxElements}
          ELSE {})

\* "+OK", "+QUEUED" and the head of EXEC's answer, or an error in their place,
\* which the Transaction's QueuedReply reads.
Status(says) == <<[command |-> 0, more |-> 0, says |-> says]>>

-----------------------------------------------------------------------------
(* Commands.                                                               *)

\* Between two calls of the library.
Idle == wanted = NoReply /\ ~careless /\ ~orphaned

\* The constructor of a reply: it is linked last.
Link(o, kind) ==
    /\ obj' = [obj EXCEPT ![o] = [NoObject EXCEPT !.kind = kind, !.command = commands',
                                                   !.conn = TRUE]]
    /\ outstanding' = Append(outstanding, o)

\* EXECUTE_COMMAND_SYNC, and the reply object.  In a transaction the server queues
\* the command, or refuses to: then no answer to it will come.
Command(o, kind) ==
    /\ Idle /\ obj[o].kind = "none" /\ commands < MaxCommands
    /\ commands' = commands + 1
    /\ Link(o, kind)
    /\ \/ /\ \E answer \in Answers(commands', kind) :
                IF inMulti THEN Send(Status("value")) /\ held' = held \o answer
                           ELSE Send(answer) /\ UNCHANGED held
          /\ UNCHANGED refusals
       \/ /\ inMulti /\ MayFail
          /\ Send(Status("error"))
          /\ refusals' = refusals \cup {commands'}
          /\ UNCHANGED held
    /\ UNCHANGED <<readVars, inMulti, multiFrom, flags>>

\* type() reads the next answer at once, whoever it is for.
TypeCommand ==
    /\ Idle /\ commands < MaxCommands
    /\ commands' = commands + 1
    /\ careless' = (inMulti \/ \E o \in Replies : Unread(o))
    /\ UNCHANGED <<obj, outstanding, stream, readVars, multiVars, broken, orphaned>>

-----------------------------------------------------------------------------
(* Reading.                                                                *)

\* o was returned by a command that the open transaction queued: its answer will
\* not come before EXEC.
Queued(o) == inMulti /\ obj[o].command > multiFrom

Want(o, destructor) ==
    /\ careless' = Queued(o)
    /\ wanted' = o /\ dying' = destructor
    /\ UNCHANGED <<obj, outstanding, stream, commands, multiVars, broken, orphaned>>

\* result(), if the answer has not been read yet.
Result(o) ==
    /\ Idle /\ obj[o].conn /\ obj[o].kind # "multi"
    /\ Want(o, FALSE)

\* next() of a MultiBulkEnumerator; at the end it leaves the list.
NextElement(o) ==
    /\ Idle /\ obj[o].kind = "multi"
    /\ \/ /\ obj[o].pending # <<>>
          /\ obj' = [obj EXCEPT ![o].value = Head(obj[o].pending), ![o].pending = Tail(@)]
          /\ UNCHANGED <<outstanding, stream, commands, readVars, multiVars, flags>>
       \/ /\ obj[o].pending = <<>> /\ Unread(o)
          /\ Want(o, FALSE)
       \/ /\ obj[o].pending = <<>> /\ obj[o].conn /\ ~Unread(o)
          /\ obj' = [obj EXCEPT ![o].conn = FALSE]
          /\ outstanding' = Without(o)
          /\ UNCHANGED <<stream, commands, readVars, multiVars, flags>>

\* The wanted answer was read, or a read threw.  A destructor ends either way.
Return(o, objs, list) ==
    /\ wanted' = NoReply /\ dying' = FALSE
    /\ obj' = IF dying THEN [objs EXCEPT ![o] = NoObject] ELSE objs
    /\ outstanding' = IF dying THEN RemoveFirst(list, o) ELSE list

Readable == wanted # NoReply /\ ~careless /\ ~orphaned /\ stream # <<>>
Good == Readable /\ ~broken /\ Head(stream).says = "value"

\* The answer of a reply that has one item is read, and is taken for v.
GotOne(v) ==
    /\ obj[First].kind # "multi"
    /\ LET objs == [obj EXCEPT ![First].conn = FALSE, ![First].value = v]
       IN  IF First = wanted
           THEN Return(wanted, objs, Without(First))
           ELSE /\ obj' = objs /\ outstanding' = Without(First)
                /\ UNCHANGED readVars

ReadOne ==
    /\ Good /\ GotOne(Head(stream).command)
    /\ stream' = Tail(stream)
    /\ UNCHANGED <<commands, multiVars, flags>>

\* The elements of the multi bulk answer that comes next, behind its header if that
\* is still to be read.
Elements(headerRead) ==
    LET skip == IF headerRead THEN 0 ELSE 1
    IN  [i \in 1 .. Head(stream).more + 1 - skip |-> stream[i + skip].command]

\* A multi bulk answer that stands before the wanted one is read to its end, into
\* pending; then its reply leaves the list.
GotAll(elements) ==
    /\ obj[First].kind = "multi" /\ First # wanted
    /\ obj' = [obj EXCEPT ![First] =
                  [@ EXCEPT !.conn = FALSE, !.header = TRUE, !.count = 0,
                            !.pending = obj[First].pending \o elements]]
    /\ outstanding' = Without(First)
    /\ UNCHANGED readVars

ReadAll ==
    /\ Good /\ GotAll(Elements(obj[First].header))
    /\ stream' = Drop(stream, Head(stream).more + 1)
    /\ UNCHANGED <<commands, multiVars, flags>>

\* next() reads the header, and ends if there are no elements.
ReadHeader ==
    /\ Good /\ obj[First].kind = "multi" /\ First = wanted /\ ~obj[wanted].header
    /\ stream' = Tail(stream)
    /\ LET count == Head(stream).more
           objs == [obj EXCEPT ![wanted] = [@ EXCEPT !.header = TRUE, !.count = count,
                                                !.conn = count # 0]]
       IN  IF count = 0
           THEN Return(wanted, objs, Without(wanted))
           ELSE obj' = objs /\ UNCHANGED <<outstanding, readVars>>
    /\ UNCHANGED <<commands, multiVars, flags>>

\* ... and one element.
GotElement(v) ==
    /\ obj[First].kind = "multi" /\ First = wanted /\ obj[wanted].header
    /\ Return(wanted, [obj EXCEPT ![wanted].count = @ - 1, ![wanted].value = v], outstanding)

ReadElement ==
    /\ Good /\ GotElement(Head(stream).command)
    /\ stream' = Tail(stream)
    /\ UNCHANGED <<commands, multiVars, flags>>

\* The connection is lost in the body of a bulk answer.  The read of a body is not
\* looked at: the one that was cut off counts as read, and only the next one fails.
\* If that is another element for pending, those read before it are gone.
CutOff ==
    /\ Good
    /\ \/ obj[First].kind = "string" /\ GotOne(Torn)
       \/ GotElement(Torn)
       \/ LET elements == Elements(obj[First].header)
          IN  \/ elements # <<>> /\ GotAll([elements EXCEPT ![Len(elements)] = Torn])
              \/ /\ obj[First].kind = "multi" /\ First # wanted
                 /\ \E left \in 0 .. Len(elements) - 1 :
                       Return(wanted, [obj EXCEPT ![First].header = TRUE, ![First].count = left],
                              outstanding)
    /\ broken' = TRUE /\ stream' = <<>>
    /\ UNCHANGED <<commands, multiVars, careless, orphaned>>

\* What a read that failed makes of a reply: it is not read again, though it stays
\* in the list.
Failed(e) ==
    IF e.kind # "multi" THEN [e EXCEPT !.conn = FALSE]
    ELSE [e EXCEPT !.header = TRUE, !.count = IF e.header THEN @ - 1 ELSE 0]

\* The answer is an error or nil, or the stream has failed before: the read
\* throws, and so does the result() that was called, whosever answer it was.  A
\* status and a nil are read to their end; of another error the stream fails for
\* good.  A destructor gives up here: the answer of its own object, if it is not
\* the one that failed, stays in the stream and belongs to nobody.
ReadFails ==
    /\ wanted # NoReply /\ ~careless /\ ~orphaned
    /\ broken \/ (stream # <<>> /\ Head(stream).says # "value")
    /\ broken' = (broken \/ (Head(stream).says = "error" /\ obj[First].kind # "void"))
    /\ stream' = IF broken' THEN <<>> ELSE Tail(stream)
    /\ orphaned' = (dying /\ First # wanted /\ ~broken')
    /\ Return(wanted, [obj EXCEPT ![First] = Failed(obj[First])], outstanding)
    /\ UNCHANGED <<commands, multiVars, careless>>

-----------------------------------------------------------------------------
(* The life of reply objects.                                              *)

\* The elements that an enumerator which ends or is assigned to reads away.
LeftToRead(o) == IF obj[o].conn /\ ~broken THEN obj[o].count ELSE 0

\* VARIANT of Dispose: the object is not unlinked.
DisposeLinked(o, items) ==
    /\ obj' = [obj EXCEPT ![o] = NoObject]
    /\ stream' = Drop(stream, items)
    /\ UNCHANGED outstanding

Dispose(o, items) ==
    /\ obj' = [obj EXCEPT ![o] = NoObject]
    /\ stream' = Drop(stream, items)
    /\ outstanding' = Without(o)

\* The destructor.  That of an enumerator reads the elements that are left, but
\* does nothing if it has not come to the header.
Destroy(o) ==
    /\ Idle /\ obj[o].kind # "none"
    /\ IF obj[o].conn /\ obj[o].kind # "multi"
       THEN Want(o, TRUE)
       ELSE /\ careless' = (obj[o].conn /\ ~obj[o].header)
            /\ Dispose(o, LeftToRead(o))
            /\ UNCHANGED <<commands, readVars, multiVars, broken, orphaned>>

\* VARIANT of Move: the new object is linked last.
MoveLast(o, p) ==
    outstanding' = LET others == RemoveFirst(Without(p), o)
                   IN  IF obj[o].conn THEN Append(others, p) ELSE others

\* p takes the place of o in the list.
Move(o, p) ==
    outstanding' =
        LET others == Without(p)
        IN  IF obj[o].conn
            THEN ReplaceAll(others, o, p)
            ELSE RemoveFirst(others, o)

\* The copy constructor.
Copy(o, p) ==
    /\ Idle /\ obj[o].kind # "none" /\ obj[p].kind = "none"
    /\ obj' = [obj EXCEPT ![p] = obj[o], ![o] = [@ EXCEPT !.conn = FALSE, !.pending = <<>>]]
    /\ Move(o, p)
    /\ UNCHANGED <<stream, commands, readVars, multiVars, flags>>

\* p = o.  If p has not been read, operator= begins with Result(p), and goes on
\* here unless that throws; an enumerator reads the elements it has left, but not
\* its header.  The elements that are pending stay with o.
Assign(o, p) ==
    /\ Idle /\ o # p /\ obj[o].kind # "none" /\ obj[p].kind = obj[o].kind
    /\ obj[p].conn => obj[p].kind = "multi" /\ obj[p].count = LeftToRead(p)
    /\ obj' = [obj EXCEPT ![p] = [obj[o] EXCEPT !.pending = <<>>], ![o].conn = FALSE]
    /\ stream' = Drop(stream, LeftToRead(p))
    /\ careless' = (obj[p].conn /\ ~obj[p].header)
    /\ Move(o, p)
    /\ UNCHANGED <<commands, readVars, multiVars, broken, orphaned>>

-----------------------------------------------------------------------------
(* Transactions.                                                           *)

\* MULTI.
BeginTransaction ==
    /\ Idle /\ ~inMulti /\ commands < MaxCommands
    /\ inMulti' = TRUE /\ multiFrom' = commands
    /\ Send(Status("value"))
    /\ UNCHANGED <<obj, outstanding, commands, readVars, held, refusals, flags>>

Before == {o \in Replies : Unread(o) /\ ~Queued(o)}
During == {o \in Replies : Unread(o) /\ Queued(o) /\ obj[o].command \notin refusals}

NoTransaction == inMulti' = FALSE /\ multiFrom' = 0 /\ held' = <<>> /\ refusals' = {}

\* commit(): QueuedReply reads what MULTI, each command and EXEC were answered,
\* taking no heed of replies that were outstanding before.  An error for EXEC is not
\* a number and the stream fails, as if the connection was lost before.
Commit ==
    /\ Idle /\ inMulti /\ (refusals = {} \/ broken)
    /\ careless' = (Before # {})
    /\ stream' = IF broken THEN <<>> ELSE held
    /\ NoTransaction
    /\ UNCHANGED <<obj, outstanding, commands, readVars, broken, orphaned>>

\* It throws where a command was refused.  What the other commands and EXEC were
\* answered stays in the stream, before the answers that the replies wait for.  (A
\* count of EXEC that is not the commands' number comes of a refusal too.)
CommitThrows ==
    /\ Idle /\ inMulti /\ ~broken
    /\ \E n \in DOMAIN stream :
          /\ stream[n].command = 0 /\ stream[n].says = "error"
          /\ \A i \in 1 .. n - 1 : stream[i].command # 0 \/ stream[i].says = "value"
          /\ stream' = Drop(stream, n) \o Status("value") \o held
    /\ orphaned' = TRUE
    /\ careless' = (Before # {})
    /\ NoTransaction
    /\ UNCHANGED <<obj, outstanding, commands, readVars, broken>>

\* abort(), also by the destructor: the commands will not be answered, and their
\* replies, that of a refused one among them, do not learn of it.
Abort ==
    /\ Idle /\ inMulti
    /\ careless' = (\E o \in Replies : Unread(o))
    /\ stream' = <<>>
    /\ NoTransaction
    /\ UNCHANGED <<obj, outstanding, commands, readVars, broken, orphaned>>

-----------------------------------------------------------------------------
\* The connection is lost, where a read will find that out or nobody reads: ioStream
\* does not recover.
ConnectionLost ==
    /\ ~broken /\ broken' = TRUE /\ stream' = <<>>
    /\ UNCHANGED <<obj, outstanding, commands, readVars, multiVars, careless, orphaned>>

-----------------------------------------------------------------------------
Read == ReadOne \/ ReadAll \/ ReadHeader \/ ReadElement \/ CutOff \/ ReadFails

Next ==
    \/ \E o \in Replies, kind \in Kinds : Command(o, kind)
    \/ TypeCommand \/ BeginTransaction \/ Commit \/ CommitThrows \/ Abort
    \/ \E o \in Replies : Result(o) \/ NextElement(o) \/ Destroy(o)
    \/ \E o, p \in Replies : Copy(o, p) \/ Assign(o, p)
    \/ Read \/ ConnectionLost

Spec == Init /\ [][Next]_vars

-----------------------------------------------------------------------------
(* Properties.                                                             *)

\* Of the answers that are still to be read, one and no more ends for each unread
\* reply whose command was not refused by a transaction, they come in the order of
\* the list, and nothing else comes, whatever was copied, assigned, destroyed or
\* read out of turn, and whatever was answered with an error.  (Unless the program
\* left an answer to nobody, or a read that threw did: in a destructor, or in the
\* commit of a transaction with a refused command; or the stream has failed.)
InOrder ==
    ~careless /\ ~orphaned /\ ~broken =>
        LET answers == stream \o held
            ends(o) == {i \in DOMAIN answers :
                           answers[i].command = obj[o].command /\ answers[i].more = 0}
        IN  /\ \A o \in Replies : Unread(o) /\ obj[o].command \notin refusals =>
                  \E i \in DOMAIN answers : ends(o) = {i}
            /\ \A i \in DOMAIN answers : answers[i].command # 0 =>
                  \E o \in Replies : Unread(o) /\ obj[o].command = answers[i].command
            /\ \A i, j \in DOMAIN outstanding :
                  i < j /\ Unread(outstanding[i]) /\ Unread(outstanding[j]) =>
                     \A x \in ends(outstanding[i]), y \in ends(outstanding[j]) : x < y

\* What e may be given for an answer, `lost` saying that the connection was lost.
Owns(e, lost) ==
    {e.command} \cup (IF lost /\ e.kind \in {"string", "multi"} THEN {Torn} ELSE {})

\* A reply, or an element of it, is the answer to its own command, all of it, also on
\* a stream that has failed; only when the connection was lost in its body can a
\* text be another.
OwnAnswer ==
    \A o \in Replies :
        /\ obj[o].value \in {0} \cup Owns(obj[o], broken)
        /\ \A i \in DOMAIN obj[o].pending : obj[o].pending[i] \in Owns(obj[o], broken)

=============================================================================
