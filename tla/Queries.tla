------------------------------- MODULE Queries -------------------------------
(***************************************************************************)
(* The handlers that ask the database and answer with what it says: lists, *)
(* counts, truth values and single columns, read through a cursor.         *)
(*                                                                         *)
(* One connection is modelled; the others are there as what they do to the *)
(* table.  A handler prepares one statement, executes it, reads its rows in*)
(* a loop, closes it and sends its answer.  What a statement selects is    *)
(* fixed when it is executed; the order of rows, which no statement asks   *)
(* for, is taken to be that of their insertion.  Clients send the fields   *)
(* that a handler reads, and pages whose size in bytes does not overflow.  *)
(*                                                                         *)
(* Lists of ids have 16 bytes for each, and an id may have 16 characters   *)
(* (db_manual.txt) and ends with a NUL.  In the lists of photos, locations *)
(* and payments such a text runs into the number behind it in its entry,   *)
(* which is set later; what is told of it then is not modelled, and texts  *)
(* that run over their entry are left out.                                 *)
(*                                                                         *)
(* A write outside the list's memory, and the use of a pointer that was    *)
(* never set or that was freed, is undefined: `corrupt` ends the behaviour.*)
(***************************************************************************)
EXTENDS Integers, Sequences, SequencesExt

CONSTANTS
    MaxRows,      \* BOUND: the rows that are inserted
    Pages,        \* the <<min, max>> that the client asks for
    LongRows,     \* the rows whose id has 16 characters
    LocationRows, \* the rows that QueryLocation has memory for
    MayFail,      \* can statements, fetches and malloc fail
    MaxRequests   \* BOUND: the requests that the client makes

ASSUME QueriesAssumption ==
    /\ MaxRows \in Nat
    /\ Pages \subseteq Int \X Int
    /\ LongRows \subseteq Nat
    /\ LocationRows \in Nat
    /\ MayFail \in BOOLEAN
    /\ MaxRequests \in Nat

VARIABLES
    table,    \* the rows that the client's statements are about, in order
    inserted, \* the rows inserted so far, numbered from 1
    pc,       \* where the handler is
    kind,     \* what was asked for last
    page,     \* the min and max of the request
    cursor,   \* the rows selected, and the number of the row it stands on
    list,     \* the entries there is memory for, and those written
    value,    \* the number that is found out
    failed,   \* has something failed since the request
    answer,   \* the answer to the last request
    open,     \* statements that are not closed
    leaked,   \* updates that were refused
    corrupt,  \* has something undefined happened
    requests, \* requests so far
    paging    \* the list that the client reads page by page: see Turn

tables == <<table, inserted>>
statements == <<open, leaked>>
vars == <<tables, pc, kind, page, cursor, list, value, failed, answer, statements,
          corrupt, requests, paging>>

\* The packet types of the requests, by what they are about.
FollowKinds == {"isFollowing", "isFollowed", "followingCount", "followedCount",
                "following", "followers"}
FriendKinds == {"isFriend", "friendCount", "friends"}
UserKinds == {"comment", "nateon", "image", "commentUpdate", "nateonUpdate"}
LocationKinds == {"location", "locations"}
PhotoKinds == {"photos", "comments"}
PostKinds == {"postCount"}
PaymentKinds == {"payment", "payments"}
Kinds == FollowKinds \cup FriendKinds \cup UserKinds \cup LocationKinds \cup PhotoKinds
         \cup PostKinds \cup PaymentKinds \cup {"notifyOk", "version"}

\* And by how they are answered.
IdLists == {"followers", "following", "friends"}
Paged == IdLists \cup {"photos", "payments"}
Counted == {"isFollowing", "isFollowed", "isFriend", "followingCount"}
Leaking == {"location", "payment"}
Updates == Leaking \cup {"commentUpdate", "nateonUpdate", "notifyOk"}

Null == -1   \* list.alloc: malloc has returned NULL
Unset == -2  \* list.alloc: the pointer was never set

NoPage == <<0, 0>>

TypeOK ==
    /\ inserted \in 0 .. MaxRows
    /\ ToSet(table) \subseteq 1 .. inserted /\ IsInjective(table)
    /\ pc \in {"idle", "execute", "fetch", "count", "next", "close", "answer"}
    /\ kind \in Kinds /\ page \in Pages \cup {NoPage}
    /\ ToSet(cursor.rows) \subseteq 1 .. inserted
    /\ cursor.pos \in 0 .. Len(cursor.rows) + 1
    /\ list.alloc >= Unset
    /\ ToSet(list.ids) \subseteq ToSet(cursor.rows)
    /\ value \in Int
    /\ {failed, corrupt, paging.calm} \subseteq BOOLEAN
    /\ answer \in {"none", "ok", "failed", "garbage"}
    /\ leaked \in 0 .. requests /\ open \in leaked .. leaked + 1
    /\ requests \in 0 .. MaxRequests
    /\ paging.of \in Kinds
    /\ paging.start \subseteq 1 .. inserted /\ ToSet(paging.seen) \subseteq 1 .. inserted

NoRows == [rows |-> << >>, pos |-> 0]
NoList == [alloc |-> Unset, ids |-> << >>]

Init ==
    /\ table = << >> /\ inserted = 0
    /\ pc = "idle" /\ kind = "location" /\ page = NoPage
    /\ cursor = NoRows /\ list = NoList /\ value = 0
    /\ failed = FALSE /\ answer = "none"
    /\ open = 0 /\ leaked = 0 /\ corrupt = FALSE /\ requests = 0
    /\ paging = [of |-> "location", upto |-> 0, start |-> {}, seen |-> << >>, calm |-> FALSE]

-----------------------------------------------------------------------------
(* Handlers of other connections.                                          *)

Insert ==
    /\ inserted < MaxRows
    /\ inserted' = inserted + 1
    /\ table' = Append(table, inserted')
    /\ UNCHANGED <<pc, kind, page, cursor, list, value, failed, answer, statements,
                   corrupt, requests, paging>>

Delete(i) ==
    /\ table' = RemoveAt(table, i)
    /\ paging' = [paging EXCEPT !.calm = FALSE]
    /\ UNCHANGED <<inserted, pc, kind, page, cursor, list, value, failed, answer,
                   statements, corrupt, requests>>

-----------------------------------------------------------------------------
(* A request comes in.                                                     *)

Request(k) ==
    /\ pc = "idle" /\ requests < MaxRequests
    /\ requests' = requests + 1
    /\ kind' = k
    /\ UNCHANGED <<tables, cursor, value, failed, leaked, paging>>

\* The handler goes on to its statement, which only a list by pages is about a
\* page of.
DbPrepare(k) ==
    /\ Request(k)
    /\ pc' = "execute" /\ answer' = "none"
    /\ open' = open + 1
    /\ UNCHANGED corrupt

Ask(k) == DbPrepare(k) /\ UNCHANGED <<page, list>>

AskPage(k) == DbPrepare(k) /\ page' \in Pages /\ UNCHANGED list

\* The handler ends without a statement.
Deny(k, a) ==
    /\ Request(k)
    /\ answer' = a
    /\ UNCHANGED <<pc, page, list, open, corrupt>>

Crash(k) ==
    /\ Request(k)
    /\ corrupt' = TRUE
    /\ UNCHANGED <<pc, page, list, answer, open>>

\* The client may not be logged in.
FollowQueryFollowing == Ask("isFollowing")
FollowQueryFollowed == Ask("isFollowed")
FollowQueryFollowingCount == Ask("followingCount") \/ Deny("followingCount", "failed")
FollowQueryFollowedCount == Ask("followedCount") \/ Deny("followedCount", "failed")
FollowQueryFollowingList == AskPage("following") \/ Deny("following", "failed")
FollowQueryFollowedList == AskPage("followers") \/ Deny("followers", "failed")
FriendQueryFriend == Ask("isFriend")
FriendQueryCount == Ask("friendCount")
FriendQueryList == AskPage("friends")
PhotoQuery == AskPage("photos")
LocationQuery == Ask("locations")
UserQueryComment == Ask("comment") \/ Deny("comment", "failed")
UserQueryNateon == Ask("nateon") \/ Deny("nateon", "failed")

\* Without memory for a user nothing is asked.
UserQueryImage == Ask("image") \/ (MayFail /\ Deny("image", "failed"))

\* handle->user is used without a look at it, and is NULL before a login.
LocationPush == Ask("location") \/ Crash("location")
PostQuery == Ask("postCount") \/ Crash("postCount")

MessageNotifyOk == Ask("notifyOk") \/ Crash("notifyOk")

UserUpdateComment == Ask("commentUpdate") \/ Deny("commentUpdate", "failed")
UserUpdateNateon == Ask("nateonUpdate") \/ Deny("nateonUpdate", "failed")

\* QueryPhotoCommentList gives photo_id to sprintf as the address of a text; 0
\* becomes "(null)", which is the number of no photo.
PhotoCommentQuery == AskPage("comments") \/ Crash("comments")

VersionCheck == \E a \in {"ok", "failed"} : Deny("version", a)

Size(p) == p[2] - p[1] + 1

\* malloc takes a negative size for a very large one.
Malloc(n) ==
    \/ list' = [alloc |-> IF n < 0 THEN Null ELSE n, ids |-> << >>]
    \/ MayFail /\ list' = [alloc |-> Null, ids |-> << >>]

\* Without a login, or without memory, the answer is made and not sent.
PaymentQuery ==
    \/ /\ DbPrepare("payments") /\ page' \in Pages
       /\ Malloc(Size(page')) /\ list'.alloc # Null
    \/ Deny("payments", "none")

PaymentPush == Ask("payment") \/ Deny("payment", "none")

-----------------------------------------------------------------------------
(* The statement is executed, or refused.                                  *)

\* VARIANT of PageOf: max is taken for the first row that is not wanted.
PageOfBefore(s) == SubSeq(s, Max({1, page[1]}), Min({Len(s), page[2] - 1}))

\* "rownum between min and max".
PageOf(s) == SubSeq(s, Max({1, page[1]}), Min({Len(s), page[2]}))

\* The client goes on to the next page of its list, or begins a list.  `start`
\* is what the table held then, and `calm` says that each page followed the one
\* before, that nothing was deleted meanwhile, and that nothing failed.
Turn ==
    LET goesOn == paging.of = kind /\ page[1] = paging.upto + 1
    IN  paging' = [of    |-> kind,
                   upto  |-> page[2],
                   start |-> IF goesOn THEN paging.start ELSE ToSet(table),
                   seen  |-> IF goesOn THEN paging.seen ELSE << >>,
                   calm  |-> /\ page[1] <= page[2]
                             /\ IF goesOn THEN paging.calm ELSE page[1] = 1]

Execute(rows, next) ==
    /\ pc = "execute"
    /\ cursor' = [rows |-> rows, pos |-> 0]
    /\ pc' = next
    /\ UNCHANGED <<tables, kind, page, failed, answer, statements, corrupt, requests>>

QueryPage(next) == kind \in Paged /\ Execute(PageOf(table), next) /\ Turn /\ UNCHANGED value

\* VARIANT of QueryIdList: there is no memory for the last row.
QueryIdListShort(k) == kind = k /\ Malloc(Size(page) - 1) /\ QueryPage("fetch")

\* Lists of ids do not look at what malloc returns.
QueryIdList(k) == kind = k /\ Malloc(Size(page)) /\ QueryPage("fetch")

QueryFollowerList == QueryIdList("followers")
QueryFollowingList == QueryIdList("following")
QueryFriendList == QueryIdList("friends")

\* The lists of photos, comments and locations return NULL without memory.
QueryPhotoList ==
    /\ kind = "photos" /\ Malloc(Size(page))
    /\ QueryPage(IF list'.alloc = Null THEN "close" ELSE "fetch")

QueryPhotoCommentList ==
    /\ kind = "comments" /\ Malloc(Size(page))
    /\ Execute(<< >>, IF list'.alloc = Null THEN "close" ELSE "fetch")
    /\ UNCHANGED <<value, paging>>

QueryLocation ==
    /\ kind = "locations" /\ Malloc(LocationRows)
    /\ Execute(table, IF list'.alloc = Null THEN "close" ELSE "fetch")
    /\ UNCHANGED <<value, paging>>

QueryPayment == kind = "payments" /\ QueryPage("fetch") /\ UNCHANGED list

\* DbResultCount counts from 1.
CountRows(k) ==
    /\ kind = k /\ Execute(table, "count")
    /\ value' = 1
    /\ UNCHANGED <<list, paging>>

IsFollowing == CountRows("isFollowing")
IsFollowed == CountRows("isFollowed")
IsFriended == CountRows("isFriend")
FollowingCount == CountRows("followingCount")

\* DbGetNumber and DbGetString read a column of the row that was fetched last:
\* there is none, and they return -1.
GetUnfetched(k) ==
    /\ kind = k /\ Execute(table, "close")
    /\ value' = -1
    /\ UNCHANGED <<list, paging>>

FollowedCount == GetUnfetched("followedCount")
QueryFriendCount == GetUnfetched("friendCount")
QueryUserPost == GetUnfetched("postCount")
QueryUserComment == GetUnfetched("comment")

QueryRow(k) == kind = k /\ Execute(table, "next") /\ UNCHANGED <<list, value, paging>>

QueryUserNateon == QueryRow("nateon")
QueryUser == QueryRow("image")

\* What is written is not modelled.
Push(k) == kind = k /\ Execute(<< >>, "close") /\ UNCHANGED <<list, value, paging>>

PushLocation == Push("location")
PushPayment == Push("payment")
UpdateUserComment == Push("commentUpdate")
UpdateUserNateon == Push("nateonUpdate")
DeleteMessage == Push("notifyOk")

Executed ==
    \/ QueryFollowerList \/ QueryFollowingList \/ QueryFriendList
    \/ QueryPhotoList \/ QueryPhotoCommentList \/ QueryLocation \/ QueryPayment
    \/ IsFollowing \/ IsFollowed \/ IsFriended \/ FollowingCount
    \/ FollowedCount \/ QueryFriendCount \/ QueryUserPost \/ QueryUserComment
    \/ QueryUserNateon \/ QueryUser
    \/ PushLocation \/ PushPayment
    \/ UpdateUserComment \/ UpdateUserNateon \/ DeleteMessage

\* What the callers of DbResultCount make of the number of rows.
Counting(n) ==
    CASE kind = "followingCount" -> n
      [] kind = "isFollowed"     -> IF n - 1 # 0 THEN 1 ELSE 0
      [] OTHER                   -> IF n # 0 THEN 1 ELSE 0

\* The handler goes to its end, except that PushLocation and PushPayment leave
\* the statement open.  What the rows would have set is not set: a number may be
\* anything.
DbExecuteRefused ==
    /\ pc = "execute" /\ MayFail
    /\ failed' = TRUE
    /\ IF kind \in Leaking
       THEN pc' = "answer" /\ leaked' = leaked + 1
       ELSE pc' = "close" /\ UNCHANGED leaked
    /\ \/ kind \in Counted /\ value' \in {Counting(n) : n \in -1 .. 1}
       \/ kind \in {"followedCount", "friendCount"} /\ value' \in -1 .. 1
       \/ kind \notin Counted \cup {"followedCount", "friendCount"} /\ value' = -1
    /\ paging' = [paging EXCEPT !.calm = FALSE]
    /\ UNCHANGED <<tables, kind, page, cursor, list, answer, open, corrupt, requests>>

-----------------------------------------------------------------------------
(* Reading rows: DbCursor moves on, DbFetch gets the row.                  *)

AtEnd == cursor.pos >= Len(cursor.rows)

Step(from, to, pos) ==
    /\ pc = from /\ pc' = to
    /\ cursor' = [cursor EXCEPT !.pos = pos]
    /\ UNCHANGED <<tables, kind, page, answer, statements, requests>>

\* One round of the loop of a list: the row goes where the next entry is.  The
\* NUL of a long id goes to the entry after it.
FetchRow ==
    /\ ~AtEnd /\ Step("fetch", "fetch", cursor.pos + 1)
    /\ LET row  == cursor.rows[cursor.pos + 1]
           nuls == IF kind \in IdLists /\ row \in LongRows THEN 1 ELSE 0
       IN  /\ list' = [list EXCEPT !.ids = Append(@, row)]
           /\ corrupt' = (Len(list.ids) + 1 + nuls > list.alloc)
    /\ UNCHANGED <<value, failed, paging>>

\* VARIANT of NoMoreRows: the last round counts as an entry.
NoMoreRowsLast ==
    /\ AtEnd /\ Step("fetch", "close", Len(cursor.rows) + 1)
    /\ list' = [list EXCEPT !.ids = SubSeq(@, 1, Len(@) - 1)]
    /\ UNCHANGED <<value, failed, corrupt, paging>>

NoMoreRows ==
    /\ AtEnd /\ Step("fetch", "close", Len(cursor.rows) + 1)
    /\ UNCHANGED <<list, value, failed, corrupt, paging>>

\* VARIANT of FetchFails: the list is read again.
FetchFailsRetry ==
    /\ MayFail /\ ~AtEnd /\ Step("fetch", "fetch", 0)
    /\ list' = [list EXCEPT !.ids = << >>]
    /\ UNCHANGED <<value, failed, corrupt, paging>>

\* The loop ends as if there were no more rows.
FetchFails ==
    /\ MayFail /\ ~AtEnd /\ Step("fetch", "close", cursor.pos + 1)
    /\ failed' = TRUE /\ paging' = [paging EXCEPT !.calm = FALSE]
    /\ UNCHANGED <<list, value, corrupt>>

\* DbResultCount.
CountRow ==
    /\ ~AtEnd /\ Step("count", "count", cursor.pos + 1)
    /\ value' = value + 1
    /\ UNCHANGED <<list, failed, corrupt, paging>>

\* VARIANT of CountEnd: the count is not put right.
CountEndLen(fails) ==
    /\ IF fails THEN MayFail /\ ~AtEnd ELSE AtEnd
    /\ Step("count", "close", cursor.pos + 1 - value)
    /\ value' = Counting(value)
    /\ failed' = fails
    /\ UNCHANGED <<list, corrupt, paging>>

\* VARIANT of CountEnd: the cursor goes back by one row too many.
CountEndBack(fails) ==
    /\ IF fails THEN MayFail /\ ~AtEnd ELSE AtEnd
    /\ Step("count", "close", cursor.pos - value)
    /\ value' = Counting(value - 1)
    /\ failed' = fails
    /\ UNCHANGED <<list, corrupt, paging>>

\* It ends at the last row, or with a row that cannot be fetched, and goes back
\* by as many rows as it has moved.
CountEnd(fails) ==
    /\ IF fails THEN MayFail /\ ~AtEnd ELSE AtEnd
    /\ Step("count", "close", cursor.pos + 1 - value)
    /\ value' = Counting(value - 1)
    /\ failed' = fails
    /\ UNCHANGED <<list, corrupt, paging>>

\* DbNext, for the handlers that want one row.
DbNext ==
    /\ Step("next", "close", cursor.pos + 1)
    /\ UNCHANGED <<list, value, corrupt, paging>>
    /\ \/ ~AtEnd /\ UNCHANGED failed
       \/ AtEnd /\ failed' = TRUE
       \/ MayFail /\ failed' = TRUE

-----------------------------------------------------------------------------
(* The statement is closed and the answer is sent.                         *)

\* VARIANT of DbCloseQuery: not after a failure.
DbCloseQueryUnlessFailed ==
    /\ pc = "close" /\ pc' = "answer"
    /\ open' = IF failed THEN open ELSE open - 1
    /\ UNCHANGED <<tables, kind, page, cursor, list, value, failed, answer, leaked,
                   corrupt, requests, paging>>

DbCloseQuery ==
    /\ pc = "close" /\ pc' = "answer"
    /\ open' = open - 1
    /\ UNCHANGED <<tables, kind, page, cursor, list, value, failed, answer, leaked,
                   corrupt, requests, paging>>

\* `says` is the answer, "none" if nothing is sent.
NetSendPacket(says, undefined) ==
    /\ pc = "answer" /\ pc' = "idle"
    /\ answer' = says
    /\ corrupt' = undefined
    /\ cursor' = NoRows /\ list' = NoList /\ value' = 0
    /\ failed' = FALSE
    /\ UNCHANGED <<tables, kind, page, statements, requests>>

\* The client is told of the rows of a page.
Told == paging' = IF kind \in Paged THEN [paging EXCEPT !.seen = @ \o list.ids] ELSE paging

\* The NUL of a long id was written over by the next id: the two read as one.
RunTogether == \E i \in 1 .. Len(list.ids) - 1 : list.ids[i] \in LongRows

\* A list that was never set is read, and freed, all the same.
AnswerIdList ==
    /\ kind \in IdLists
    /\ \/ list.alloc # Unset /\ ~RunTogether /\ NetSendPacket("ok", FALSE) /\ Told
       \/ /\ list.alloc # Unset /\ RunTogether /\ NetSendPacket("garbage", FALSE)
          /\ paging' = [paging EXCEPT !.calm = FALSE]
       \/ /\ list.alloc = Unset
          /\ NetSendPacket("garbage", FALSE) \/ NetSendPacket("none", TRUE)
          /\ UNCHANGED paging

\* NULL, which a pointer that was never set may happen to be, says that there
\* was no memory.
AnswerArray ==
    /\ kind \in {"photos", "comments", "locations"}
    /\ \/ list.alloc >= 0 /\ NetSendPacket("ok", FALSE) /\ Told
       \/ /\ list.alloc < 0 /\ NetSendPacket("failed", FALSE)
          /\ paging' = [paging EXCEPT !.calm = FALSE]
       \/ list.alloc = Unset /\ NetSendPacket("none", TRUE) /\ UNCHANGED paging

\* PaymentQuery sends a packet that it has freed, and frees the request, which
\* CompletionThread frees again.
AnswerPayment == kind = "payments" /\ NetSendPacket("none", TRUE) /\ UNCHANGED paging

\* -1 stands for a failure, except in FollowQueryFollowedCount.
AnswerNumber ==
    /\ kind \in Counted \cup {"followedCount", "friendCount", "postCount"}
    /\ NetSendPacket(IF kind \in {"friendCount", "postCount"} /\ value = -1 THEN "failed" ELSE "ok", FALSE)
    /\ UNCHANGED paging

\* UserQueryComment sends a text that nothing was written to.
AnswerComment ==
    /\ kind = "comment"
    /\ \/ failed /\ NetSendPacket("failed", FALSE)
       \/ ~failed /\ (NetSendPacket("garbage", FALSE) \/ NetSendPacket("none", TRUE))
    /\ UNCHANGED paging

\* UserQueryImage, LocationPush and MessageNotifyOk send nothing.
AnswerShort ==
    /\ kind \in {"nateon", "image"} \cup Updates
    /\ NetSendPacket(IF kind \in {"image", "location", "notifyOk"} THEN "none"
                     ELSE IF failed THEN "failed" ELSE "ok", FALSE)
    /\ UNCHANGED paging

-----------------------------------------------------------------------------
FollowRequest ==
    \/ FollowQueryFollowing \/ FollowQueryFollowed
    \/ FollowQueryFollowingCount \/ FollowQueryFollowedCount
    \/ FollowQueryFollowingList \/ FollowQueryFollowedList

FriendRequest == FriendQueryFriend \/ FriendQueryCount \/ FriendQueryList

PhotoRequest == PhotoQuery \/ PhotoCommentQuery

UserRequest ==
    \/ UserQueryComment \/ UserQueryNateon \/ UserQueryImage \/ PostQuery
    \/ UserUpdateComment \/ UserUpdateNateon \/ MessageNotifyOk \/ VersionCheck
    \/ LocationPush \/ LocationQuery
    \/ PaymentPush \/ PaymentQuery

\* CompletionThread goes on with the handler.
Handler ==
    \/ Executed \/ DbExecuteRefused
    \/ FetchRow \/ NoMoreRows \/ FetchFails
    \/ CountRow \/ (\E fails \in BOOLEAN : CountEnd(fails)) \/ DbNext
    \/ DbCloseQuery
    \/ AnswerIdList \/ AnswerArray \/ AnswerPayment \/ AnswerNumber \/ AnswerComment \/ AnswerShort

Others == Insert \/ (\E i \in DOMAIN table : Delete(i))

Next ==
    /\ ~corrupt
    /\ \/ FollowRequest \/ FriendRequest \/ PhotoRequest \/ UserRequest
       \/ Handler
       \/ Others

Spec == Init /\ [][Next]_vars

\* The worker that runs the handler goes on, and the database and the send
\* return.
FairSpec == Spec /\ WF_vars(~corrupt /\ Handler)

-----------------------------------------------------------------------------
(* Properties.                                                             *)

\* A list has an entry of its memory for each row: for pages the number of rows
\* asked for and the memory come from the same two numbers, negative ones included.
\* What is written outside the memory all the same is a row behind a malloc that
\* returned NULL, the users beyond the LocationRows there is memory for, or the NUL
\* of an id of 16 characters in the last entry; nothing else.
ListFits ==
    /\ kind # "locations" /\ list.alloc >= 0 => Len(list.ids) <= list.alloc
    /\ corrupt /\ pc = "fetch" =>
          \/ list.alloc = Null
          \/ kind = "locations"
          \/ kind \in IdLists /\ Last(list.ids) \in LongRows /\ Len(list.ids) = list.alloc

\* The loop of a list writes each row that was selected, in order and once; a
\* shorter list is answered only after a fetch that failed.  (An id of 16
\* characters is there and cannot be read by itself: see RunTogether.)
ListIsPage ==
    /\ IsPrefix(list.ids, cursor.rows)
    /\ pc = "answer" /\ kind \in Paged \cup {"locations", "comments"} /\ ~failed /\ list.alloc >= 0 =>
          list.ids = cursor.rows

\* FOLLOW_QUERY_FOLLOWING_COUNT is answered with the number of rows that u follows,
\* and FOLLOW_QUERY_FOLLOWING and FRIEND_QUERY_FRIEND with whether there is one,
\* unless a statement or a fetch failed.  These three only: FOLLOW_QUERY_FOLLOWED,
\* FOLLOW_QUERY_FOLLOWED_COUNT and FRIEND_QUERY_COUNT are answered otherwise.
CountIsRows ==
    pc = "answer" /\ ~failed =>
        /\ kind = "followingCount" => value = Len(cursor.rows)
        /\ kind \in {"isFollowing", "isFriend"} => (value = 1 <=> cursor.rows # << >>)

\* A client that reads a list page by page, while others insert rows, is told of
\* no row twice; and when a page comes back short it has been told of every row
\* there was when it began.
PagesWhole ==
    paging.calm /\ pc = "idle" /\ ~corrupt =>
        /\ IsInjective(paging.seen)
        /\ Len(paging.seen) < paging.upto => paging.start \subseteq ToSet(paging.seen)

\* Every statement is closed, whichever way a handler leaves its loop, except
\* for updates that are refused.
HandlesClosed == pc = "idle" => open = leaked

\* Every request comes to its end: the loops over rows end with the rows, and
\* with a fetch that fails.
RequestEnds == pc # "idle" ~> pc = "idle" \/ corrupt

=============================================================================
