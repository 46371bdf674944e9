---------------------------- MODULE QueriesProofs ----------------------------
(***************************************************************************)
(* Proofs about Queries, for every set of pages and any number of rows and *)
(* requests.                                                               *)
(***************************************************************************)
EXTENDS Queries, SequenceTheorems, TLAPS

USE QueriesAssumption DEF tables, statements, NoRows, NoList, NoPage, Null, Unset

-----------------------------------------------------------------------------
(* Sequences.                                                              *)

LEMMA MaxOfTwo == ASSUME NEW a \in Int, NEW b \in Int
                  PROVE  Max({a, b}) = IF a >= b THEN a ELSE b
<1>1. \E x \in {a, b} : \A y \in {a, b} : x >= y
  OBVIOUS
<1> QED
  BY <1>1 DEF Max

LEMMA MinOfTwo == ASSUME NEW a \in Int, NEW b \in Int
                  PROVE  Min({a, b}) = IF a <= b THEN a ELSE b
<1>1. \E x \in {a, b} : \A y \in {a, b} : x <= y
  OBVIOUS
<1> QED
  BY <1>1 DEF Min

\* The rows of a page stand in it as they stand in the table.
LEMMA PageRows ==
    ASSUME NEW S, NEW s \in Seq(S), page \in Int \X Int
    PROVE  /\ PageOf(s) \in Seq(S)
           /\ Size(page) >= 0 => Len(PageOf(s)) <= Size(page)
           /\ Size(page) < 0 => PageOf(s) = << >>
           /\ page[1] >= 1 =>
                /\ \A k \in 1 .. Len(PageOf(s)) :
                      page[1] - 1 + k \in 1 .. Len(s) /\ PageOf(s)[k] = s[page[1] - 1 + k]
                /\ \A i \in 1 .. Len(s) :
                      page[1] <= i /\ i <= page[2] => i - page[1] + 1 <= Len(PageOf(s))
<1> DEFINE m == Max({1, page[1]})
           n == Min({Len(s), page[2]})
<1>0. page[1] \in Int /\ page[2] \in Int /\ Len(s) \in Nat
  OBVIOUS
<1>1. m = (IF 1 >= page[1] THEN 1 ELSE page[1]) /\ n = (IF Len(s) <= page[2] THEN Len(s) ELSE page[2])
  BY <1>0, MaxOfTwo, MinOfTwo
<1>2. m \in Int /\ n \in Int /\ PageOf(s) = SubSeq(s, m, n) /\ Size(page) = page[2] - page[1] + 1
  BY <1>0, <1>1 DEF PageOf, Size
<1> HIDE DEF m, n
<1>3. \A i \in m .. n : s[i] \in S
  BY <1>0, <1>1, <1>2
<1>4. /\ SubSeq(s, m, n) \in Seq(S)
      /\ Len(SubSeq(s, m, n)) = IF m <= n THEN n - m + 1 ELSE 0
      /\ \A i \in 1 .. n - m + 1 : SubSeq(s, m, n)[i] = s[m + i - 1]
  BY <1>2, <1>3, SubSeqProperties
<1>5. Size(page) < 0 => PageOf(s) = << >>
  BY <1>0, <1>1, <1>2, <1>4, EmptySeq
<1>6. Size(page) >= 0 => Len(PageOf(s)) <= Size(page)
  BY <1>0, <1>1, <1>2, <1>4
<1>7. ASSUME page[1] >= 1
      PROVE  /\ \A k \in 1 .. Len(PageOf(s)) :
                   page[1] - 1 + k \in 1 .. Len(s) /\ PageOf(s)[k] = s[page[1] - 1 + k]
             /\ \A i \in 1 .. Len(s) :
                   page[1] <= i /\ i <= page[2] => i - page[1] + 1 <= Len(PageOf(s))
  <2>1. m = page[1]
    BY <1>0, <1>1, <1>7
  <2>2. \A k \in 1 .. Len(PageOf(s)) :
            page[1] - 1 + k \in 1 .. Len(s) /\ PageOf(s)[k] = s[page[1] - 1 + k]
    <3> SUFFICES ASSUME NEW k \in 1 .. Len(PageOf(s))
                 PROVE  page[1] - 1 + k \in 1 .. Len(s) /\ PageOf(s)[k] = s[page[1] - 1 + k]
      OBVIOUS
    <3>1. k \in 1 .. n - m + 1 /\ m + k - 1 = page[1] - 1 + k
      BY <1>0, <1>2, <1>4, <2>1
    <3>2. page[1] - 1 + k <= n
      BY <1>0, <1>2, <2>1, <3>1
    <3>3. page[1] - 1 + k \in 1 .. Len(s)
      BY <1>0, <1>1, <1>7, <3>2
    <3>4. SubSeq(s, m, n)[k] = s[m + k - 1]
      BY <1>4, <3>1
    <3> QED
      BY <1>2, <3>1, <3>3, <3>4
  <2>3. ASSUME NEW i \in 1 .. Len(s), page[1] <= i, i <= page[2]
        PROVE  i - page[1] + 1 <= Len(PageOf(s))
    <3>1. m <= i /\ i <= n
      BY <1>0, <1>1, <2>1, <2>3
    <3>2. Len(PageOf(s)) = n - m + 1
      BY <1>2, <1>4, <3>1
    <3> QED
      BY <1>0, <1>2, <2>1, <3>1, <3>2
  <2> QED
    BY <2>2, <2>3
<1> QED
  BY <1>2, <1>4, <1>5, <1>6, <1>7

LEMMA RemovedRow ==
    ASSUME NEW S, NEW s \in Seq(S), NEW i \in 1 .. Len(s), IsInjective(s)
    PROVE  /\ RemoveAt(s, i) \in Seq(S)
           /\ IsInjective(RemoveAt(s, i))
           /\ ToSet(RemoveAt(s, i)) \subseteq ToSet(s)
<1> DEFINE a == SubSeq(s, 1, i - 1)
           b == SubSeq(s, i + 1, Len(s))
<1>1. a \in Seq(S) /\ Len(a) = i - 1 /\ \A k \in 1 .. i - 1 : a[k] = s[k]
  BY SubSeqProperties
<1>2. b \in Seq(S) /\ Len(b) = Len(s) - i /\ \A k \in 1 .. Len(s) - i : b[k] = s[i + k]
  BY SubSeqProperties
<1> HIDE DEF a, b
<1>3. /\ a \o b \in Seq(S) /\ Len(a \o b) = Len(s) - 1
      /\ \A k \in 1 .. Len(s) - 1 : (a \o b)[k] = IF k <= i - 1 THEN s[k] ELSE s[k + 1]
  <2>1. /\ a \o b \in Seq(S) /\ Len(a \o b) = Len(a) + Len(b)
        /\ \A k \in 1 .. Len(a) + Len(b) : (a \o b)[k] = IF k <= Len(a) THEN a[k] ELSE b[k - Len(a)]
    BY <1>1, <1>2, ConcatProperties
  <2>2. \A k \in i .. Len(s) - 1 : b[k - (i - 1)] = s[k + 1]
    <3> SUFFICES ASSUME NEW k \in i .. Len(s) - 1 PROVE b[k - (i - 1)] = s[k + 1]
      OBVIOUS
    <3>1. k - (i - 1) \in 1 .. Len(s) - i /\ i + (k - (i - 1)) = k + 1
      OBVIOUS
    <3> QED
      BY <1>2, <3>1
  <2> QED
    BY <1>1, <1>2, <2>1, <2>2
<1>4. RemoveAt(s, i) = a \o b
  BY DEF RemoveAt, a, b
<1> DEFINE r == a \o b
<1>5. /\ r \in Seq(S) /\ DOMAIN r = 1 .. Len(s) - 1 /\ DOMAIN s = 1 .. Len(s)
      /\ \A k \in 1 .. Len(s) - 1 : r[k] = IF k <= i - 1 THEN s[k] ELSE s[k + 1]
  BY <1>3
<1> HIDE DEF r
<1>6. IsInjective(r)
  <2> SUFFICES ASSUME NEW j \in 1 .. Len(s) - 1, NEW k \in 1 .. Len(s) - 1, r[j] = r[k]
               PROVE  j = k
    BY <1>5 DEF IsInjective
  <2>1. \A x, y \in 1 .. Len(s) : s[x] = s[y] => x = y
    BY <1>5 DEF IsInjective
  <2> QED
    BY <1>5, <2>1
<1>7. ToSet(r) \subseteq ToSet(s)
  BY <1>5 DEF ToSet
<1> QED
  BY <1>4, <1>5, <1>6, <1>7 DEF r

-----------------------------------------------------------------------------
(* The inductive invariant.                                                *)

Steps == {"idle", "execute", "fetch", "count", "next", "close", "answer"}
Listed == Paged \cup {"locations", "comments"}

Types ==
    /\ inserted \in 0 .. MaxRows
    /\ table \in Seq(1 .. inserted) /\ IsInjective(table)
    /\ pc \in Steps /\ kind \in Kinds /\ page \in Pages \cup {NoPage}
    /\ cursor \in [rows : Seq(1 .. inserted), pos : Nat]
    /\ cursor.pos <= Len(cursor.rows) + 1
    /\ list \in [alloc : Int, ids : Seq(1 .. inserted)] /\ list.alloc >= Unset
    /\ value \in Int /\ failed \in BOOLEAN /\ corrupt \in BOOLEAN
    /\ answer \in {"none", "ok", "failed", "garbage"}
    /\ open \in Nat /\ leaked \in Nat /\ requests \in 0 .. MaxRequests
    /\ paging \in [of : Kinds, upto : Int, start : SUBSET (1 .. inserted),
                   seen : Seq(1 .. inserted), calm : BOOLEAN]

\* A statement is open from DbPrepare to DbCloseQuery, or is leaked; a request
\* leaks one at most.
Handles ==
    /\ open = leaked + (IF pc \in {"idle", "answer"} THEN 0 ELSE 1)
    /\ leaked <= requests
    /\ pc = "execute" => leaked < requests

\* Where the cursor stands, and what the loops have made of the rows before it.
Reading ==
    /\ pc = "idle" => cursor = NoRows /\ list = NoList /\ value = 0 /\ ~failed
    /\ pc = "execute" => cursor = NoRows /\ list.ids = << >> /\ ~failed
    /\ pc = "fetch" => kind \in Listed /\ cursor.pos = Len(list.ids)
    /\ pc = "count" => kind \in Counted /\ value = cursor.pos + 1 /\ cursor.pos <= Len(cursor.rows)
    /\ pc = "next" => kind \in {"nateon", "image"} /\ cursor.pos = 0
    /\ Len(list.ids) <= Len(cursor.rows)
    /\ \A k \in 1 .. Len(list.ids) : list.ids[k] = cursor.rows[k]
    /\ pc \in {"close", "answer"} /\ ~failed =>
          /\ kind \in IdLists \/ (kind \in Listed /\ list.alloc >= 0) => list.ids = cursor.rows
          /\ kind \in Counted => value = Counting(Len(cursor.rows))

\* A row that was written outside the memory of its list.
Outside ==
    \/ list.alloc = Null
    \/ kind = "locations"
    \/ kind \in IdLists /\ Last(list.ids) \in LongRows /\ Len(list.ids) = list.alloc

\* The rows of a page have room in the memory of the list.
Memory ==
    /\ list.ids # << >> => kind \in Listed
    /\ pc = "fetch" \/ list.ids # << >> => list.alloc # Unset
    /\ kind \in Paged /\ list.alloc >= 0 => Len(cursor.rows) <= list.alloc
    /\ kind = "comments" => cursor.rows = << >>
    /\ pc = "execute" /\ kind = "payments" => list.alloc = Size(page) /\ list.alloc >= 0
    /\ corrupt /\ pc = "fetch" => Outside

\* The list has been turned to its next page, and the client has not been told of
\* that page yet.
Turned == kind \in Paged /\ pc \in {"fetch", "close", "answer"}

\* q holds, of the rows t, some of the first u, each once: all those in start, and
\* at least u rows if the row at u is one of these.
Covers(t, start, q, u) ==
    /\ IsInjective(q)
    /\ \A k \in 1 .. Len(q) : \E i \in 1 .. Len(t) : i <= u /\ q[k] = t[i]
    /\ \A i \in 1 .. Len(t) : i <= u /\ t[i] \in start => \E k \in 1 .. Len(q) : q[k] = t[i]
    /\ \A i \in 1 .. Len(t) : i = u /\ t[i] \in start => Len(q) >= u

\* rows are those of t from the row at m on, up to that at n at most, and as far as
\* start goes.
Stands(t, start, rows, m, n) ==
    /\ \A k \in 1 .. Len(rows) : m - 1 + k \in 1 .. Len(t) /\ rows[k] = t[m - 1 + k]
    /\ Len(rows) <= n - m + 1
    /\ \A i \in 1 .. Len(t) : m <= i /\ i <= n /\ t[i] \in start => i - m + 1 <= Len(rows)

\* start is a beginning of the table.
Begins(t, start) ==
    /\ \A x \in start : \E i \in 1 .. Len(t) : x = t[i]
    /\ \A i, j \in 1 .. Len(t) : i <= j /\ t[j] \in start => t[i] \in start

Covered ==
    paging.calm /\ ~corrupt =>
        /\ Begins(table, paging.start)
        /\ paging.upto >= 1
        /\ Turned =>
              /\ ~failed /\ list.alloc # Unset
              /\ 1 <= page[1] /\ page[1] <= page[2] /\ paging.upto = page[2]
              /\ Covers(table, paging.start, paging.seen, page[1] - 1)
              /\ Stands(table, paging.start, cursor.rows, page[1], page[2])
        /\ ~Turned => Covers(table, paging.start, paging.seen, paging.upto)

IInv == Types /\ Handles /\ Reading /\ Memory /\ Covered

-----------------------------------------------------------------------------
(* What the actions have in common.                                        *)

Requested == FollowRequest \/ FriendRequest \/ PhotoRequest \/ UserRequest

\* A request for k goes on to its statement, or ends.
Prepared(k) ==
    /\ DbPrepare(k) /\ page' \in Pages \cup {page}
    /\ \/ k # "payments" /\ UNCHANGED list
       \/ k = "payments" /\ Malloc(Size(page')) /\ list'.alloc # Null

Refused(k) ==
    /\ Request(k) /\ UNCHANGED <<pc, page, list, open>>
    /\ corrupt' \in {TRUE, corrupt}
    /\ answer' \in {"none", "ok", "failed", answer}

LEMMA AskForms ==
    ASSUME NEW k \in Kinds
    PROVE  /\ k # "payments" => (Ask(k) => Prepared(k)) /\ (AskPage(k) => Prepared(k))
           /\ \A a \in {"none", "ok", "failed"} : Deny(k, a) => Refused(k)
           /\ Crash(k) => Refused(k)
<1>1. ASSUME k # "payments", Ask(k) PROVE Prepared(k)
  BY <1>1 DEF Ask, Prepared
<1>2. ASSUME k # "payments", AskPage(k) PROVE Prepared(k)
  BY <1>2 DEF AskPage, Prepared
<1>3. ASSUME NEW a \in {"none", "ok", "failed"}, Deny(k, a) PROVE Refused(k)
  BY <1>3 DEF Deny, Refused
<1>4. ASSUME Crash(k) PROVE Refused(k)
  BY <1>4 DEF Crash, Refused
<1> QED
  BY <1>1, <1>2, <1>3, <1>4

LEMMA RequestedForms ==
    ASSUME Requested
    PROVE  \E k \in Kinds : Prepared(k) \/ Refused(k)
<1> USE AskForms DEF Kinds, FollowKinds, FriendKinds, UserKinds, LocationKinds, PhotoKinds,
                     PostKinds, PaymentKinds
<1>1. CASE FollowRequest
  BY <1>1 DEF FollowRequest, FollowQueryFollowing, FollowQueryFollowed,
              FollowQueryFollowingCount, FollowQueryFollowedCount, FollowQueryFollowingList,
              FollowQueryFollowedList
<1>2. CASE FriendRequest
  BY <1>2 DEF FriendRequest, FriendQueryFriend, FriendQueryCount, FriendQueryList
<1>3. CASE PhotoRequest
  BY <1>3 DEF PhotoRequest, PhotoQuery, PhotoCommentQuery
<1>4. CASE PaymentQuery
  <2>1. Prepared("payments") \/ Refused("payments")
    BY <1>4 DEF PaymentQuery, Prepared
  <2> QED
    BY <2>1
<1>5. CASE UserRequest /\ ~PaymentQuery
  BY <1>5 DEF UserRequest, UserQueryComment, UserQueryNateon, UserQueryImage, PostQuery,
              UserUpdateComment, UserUpdateNateon, MessageNotifyOk, VersionCheck,
              LocationPush, LocationQuery, PaymentPush
<1> QED
  BY <1>1, <1>2, <1>3, <1>4, <1>5 DEF Requested

LEMMA ExecutedForms ==
    ASSUME Executed
    PROVE  \/ /\ kind \in Paged \ {"payments"} /\ Malloc(Size(page)) /\ Turn /\ UNCHANGED value
              /\ \/ Execute(PageOf(table), "fetch")
                 \/ kind = "photos" /\ list'.alloc = Null /\ Execute(PageOf(table), "close")
           \/ /\ kind = "payments" /\ Execute(PageOf(table), "fetch")
              /\ Turn /\ UNCHANGED <<value, list>>
           \/ \E rows \in {<< >>, table}, n \in {Size(page), LocationRows} :
              /\ kind \in {"comments", "locations"} /\ Malloc(n) /\ UNCHANGED <<value, paging>>
              /\ kind = "comments" => rows = << >>
              /\ \/ Execute(rows, "fetch")
                 \/ Execute(rows, "close") /\ list'.alloc = Null
           \/ \E rows \in {<< >>, table} : 
              /\ UNCHANGED <<list, paging>>
              /\ \/ kind \in Counted /\ Execute(rows, "count") /\ value' = 1
                 \/ kind \in {"nateon", "image"} /\ Execute(rows, "next") /\ UNCHANGED value
                 \/ kind \notin Listed \cup Counted /\ Execute(rows, "close") /\ value' \in {-1, value}
<1> USE DEF Listed, Paged, IdLists, Counted
<1>1. CASE QueryFollowerList \/ QueryFollowingList \/ QueryFriendList \/ QueryPhotoList
  BY <1>1 DEF QueryFollowerList, QueryFollowingList, QueryFriendList, QueryPhotoList, QueryIdList,
              QueryPage
<1>2. CASE QueryPayment
  BY <1>2 DEF QueryPayment, QueryPage
<1>3. CASE QueryPhotoCommentList \/ QueryLocation
  <2>1. CASE QueryPhotoCommentList
    BY <1>3, <2>1 DEF QueryPhotoCommentList
  <2>2. CASE QueryLocation
    BY <1>3, <2>2 DEF QueryLocation
  <2> QED
    BY <1>3, <2>1, <2>2
<1>4. CASE \/ IsFollowing \/ IsFollowed \/ IsFriended \/ FollowingCount
           \/ FollowedCount \/ QueryFriendCount \/ QueryUserPost \/ QueryUserComment
           \/ QueryUserNateon \/ QueryUser
           \/ PushLocation \/ PushPayment
           \/ UpdateUserComment \/ UpdateUserNateon \/ DeleteMessage
  <2>1. CASE IsFollowing \/ IsFollowed \/ IsFriended \/ FollowingCount
    BY <2>1 DEF IsFollowing, IsFollowed, IsFriended, FollowingCount, CountRows
  <2>2. CASE FollowedCount \/ QueryFriendCount \/ QueryUserPost \/ QueryUserComment
    BY <2>2 DEF FollowedCount, QueryFriendCount, QueryUserPost, QueryUserComment, GetUnfetched
  <2>3. CASE QueryUserNateon \/ QueryUser
    BY <2>3 DEF QueryUserNateon, QueryUser, QueryRow
  <2>4. CASE \/ PushLocation \/ PushPayment
             \/ UpdateUserComment \/ UpdateUserNateon \/ DeleteMessage
    BY <2>4 DEF PushLocation, PushPayment, UpdateUserComment, UpdateUserNateon, DeleteMessage, Push
  <2> QED
    BY <1>4, <2>1, <2>2, <2>3, <2>4
<1> QED
  BY <1>1, <1>2, <1>3, <1>4 DEF Executed

Answers ==
    AnswerIdList \/ AnswerArray \/ AnswerPayment \/ AnswerNumber \/ AnswerComment \/ AnswerShort

LEMMA AnswerForms ==
    ASSUME Answers
    PROVE  \E says \in {"none", "ok", "failed", "garbage"}, undefined \in BOOLEAN :
              /\ NetSendPacket(says, undefined)
              /\ \/ /\ Told
                    /\ kind \in IdLists \/ (kind \in Listed /\ list.alloc >= 0)
                 \/ paging' = [paging EXCEPT !.calm = FALSE]
                 \/ /\ UNCHANGED paging
                    /\ undefined \/ kind \notin Paged \/ list.alloc = Unset
<1> USE DEF Listed, Paged, IdLists, Counted, Updates, Leaking
<1>1. CASE AnswerIdList
  BY <1>1 DEF AnswerIdList
<1>2. CASE AnswerArray
  BY <1>2 DEF AnswerArray
<1>3. CASE AnswerPayment
  BY <1>3 DEF AnswerPayment
<1>4. CASE AnswerNumber
  BY <1>4 DEF AnswerNumber
<1>5. CASE AnswerComment
  BY <1>5 DEF AnswerComment
<1>6. CASE AnswerShort
  BY <1>6 DEF AnswerShort
<1> QED
  BY <1>1, <1>2, <1>3, <1>4, <1>5, <1>6 DEF Answers

-----------------------------------------------------------------------------
(* Types.                                                                  *)

\* What the fields of the records are.
LEMMA Fields ==
    ASSUME Types
    PROVE  /\ cursor.rows \in Seq(1 .. inserted) /\ cursor.pos \in Nat
           /\ cursor = [rows |-> cursor.rows, pos |-> cursor.pos]
           /\ list.alloc \in Int /\ list.ids \in Seq(1 .. inserted)
           /\ list = [alloc |-> list.alloc, ids |-> list.ids]
           /\ Len(cursor.rows) \in Nat /\ Len(list.ids) \in Nat /\ Len(table) \in Nat
           /\ page \in Int \X Int /\ page[1] \in Int /\ page[2] \in Int
           /\ paging.upto \in Int /\ paging.start \subseteq 1 .. inserted
           /\ paging.seen \in Seq(1 .. inserted) /\ Len(paging.seen) \in Nat
           /\ paging.calm \in BOOLEAN /\ paging.of \in Kinds
<1>1. page \in Int \X Int
  BY DEF Types
<1>2. cursor \in [rows : Seq(1 .. inserted), pos : Nat]
  BY DEF Types
<1>3. list \in [alloc : Int, ids : Seq(1 .. inserted)]
  BY DEF Types
<1>4. paging \in [of : Kinds, upto : Int, start : SUBSET (1 .. inserted),
                 seen : Seq(1 .. inserted), calm : BOOLEAN]
  BY DEF Types
<1>5. table \in Seq(1 .. inserted)
  BY DEF Types
<1>6. paging.calm \in BOOLEAN /\ paging.of \in Kinds
  BY <1>4
<1> QED
  BY <1>1, <1>2, <1>3, <1>4, <1>5, <1>6

LEMMA EndOfRows == ASSUME Types PROVE AtEnd <=> ~(cursor.pos < Len(cursor.rows))
  BY Fields DEF AtEnd

\* The cursor moves.
LEMMA CursorTypes ==
    ASSUME Types, NEW x \in Nat, x <= Len(cursor.rows) + 1, cursor' = [cursor EXCEPT !.pos = x],
           inserted' = inserted
    PROVE  /\ cursor' \in [rows : Seq(1 .. inserted'), pos : Nat]
           /\ cursor'.rows = cursor.rows /\ cursor'.pos = x
           /\ cursor'.pos <= Len(cursor'.rows) + 1
<1>1. cursor' = [rows |-> cursor.rows, pos |-> x]
  BY Fields
<1> QED
  BY <1>1, Fields

LEMMA MallocTypes ==
    ASSUME NEW n \in Int, Malloc(n), NEW S
    PROVE  /\ list' \in [alloc : Int, ids : Seq(S)] /\ list'.ids = << >> /\ list'.alloc >= Null
           /\ list'.alloc >= 0 => n >= 0 /\ list'.alloc = n
<1>1. << >> \in Seq(S)
  OBVIOUS
<1>2. PICK a \in Int : list' = [alloc |-> a, ids |-> << >>] /\ a >= Null /\ (a >= 0 => n >= 0 /\ a = n)
  BY DEF Malloc
<1> QED
  BY <1>1, <1>2

LEMMA TurnTypes ==
    ASSUME Types, Turn, kind' = kind
    PROVE  /\ paging' \in [of : Kinds, upto : Int, start : SUBSET (1 .. inserted),
                           seen : Seq(1 .. inserted), calm : BOOLEAN]
           /\ paging'.upto = page[2]
<1> DEFINE goesOn == paging.of = kind /\ page[1] = paging.upto + 1
           start == IF goesOn THEN paging.start ELSE ToSet(table)
           seen == IF goesOn THEN paging.seen ELSE << >>
           calm == page[1] <= page[2] /\ (IF goesOn THEN paging.calm ELSE page[1] = 1)
<1>1. paging' = [of |-> kind, upto |-> page[2], start |-> start, seen |-> seen, calm |-> calm]
  BY DEF Turn
<1>2. ToSet(table) \subseteq 1 .. inserted
  BY DEF Types, ToSet
<1>3. start \in SUBSET (1 .. inserted) /\ seen \in Seq(1 .. inserted)
  <2>1. paging.start \subseteq 1 .. inserted /\ paging.seen \in Seq(1 .. inserted)
    BY Fields
  <2>2. << >> \in Seq(1 .. inserted)
    OBVIOUS
  <2> QED
    BY <1>2, <2>1, <2>2
<1>4. calm \in BOOLEAN
  BY Fields
<1>5. kind \in Kinds /\ page[2] \in Int
  BY Fields DEF Types
<1> HIDE DEF start, seen, calm
<1> QED
  BY <1>1, <1>3, <1>4, <1>5

LEMMA CalmTypes ==
    ASSUME Types, paging' = [paging EXCEPT !.calm = FALSE]
    PROVE  /\ paging' \in [of : Kinds, upto : Int, start : SUBSET (1 .. inserted),
                           seen : Seq(1 .. inserted), calm : BOOLEAN]
           /\ ~paging'.calm
  BY DEF Types

LEMMA RequestTypes ==
    ASSUME Types, NEW k \in Kinds, Prepared(k) \/ Refused(k)
    PROVE  Types'
<1>1. Request(k) /\ pc' \in Steps /\ page' \in Pages \cup {NoPage}
  BY DEF Types, Prepared, DbPrepare, Refused, Steps
<1>2. /\ UNCHANGED <<table, inserted, cursor, value, failed, leaked, paging>>
      /\ kind' = k /\ requests' = requests + 1 /\ requests < MaxRequests
  BY <1>1 DEF Request
<1>3. list' \in [alloc : Int, ids : Seq(1 .. inserted)] /\ list'.alloc >= Unset
  <2>1. CASE UNCHANGED list
    BY <2>1 DEF Types
  <2>2. CASE Malloc(Size(page'))
    <3>1. Size(page') \in Int
      BY <1>1 DEF Size
    <3> QED
      BY <2>2, <3>1, MallocTypes
  <2> QED
    BY <2>1, <2>2 DEF Prepared, Refused
<1>4. answer' \in {"none", "ok", "failed", "garbage"} /\ open' \in Nat
  <2>1. CASE Prepared(k)
    BY <2>1 DEF Prepared, DbPrepare, Types
  <2>2. CASE Refused(k)
    BY <2>2 DEF Refused, Types
  <2> QED
    BY <2>1, <2>2
<1>5. corrupt' \in BOOLEAN
  BY Zenon DEF Types, Prepared, DbPrepare, Refused
<1> QED
  BY <1>1, <1>2, <1>3, <1>4, <1>5 DEF Types

\* A statement selects rows of the table.
LEMMA ExecuteTypes ==
    ASSUME Types, NEW rows \in {<< >>, table, PageOf(table)}, NEW next \in Steps,
           Execute(rows, next),
           list' \in [alloc : Int, ids : Seq(1 .. inserted)], list'.alloc >= Unset, value' \in Int,
           paging' \in [of : Kinds, upto : Int, start : SUBSET (1 .. inserted),
                        seen : Seq(1 .. inserted), calm : BOOLEAN]
    PROVE  Types'
<1>1. rows \in Seq(1 .. inserted)
  <2>1. table \in Seq(1 .. inserted) /\ page \in Int \X Int
    BY Fields DEF Types
  <2>2. PageOf(table) \in Seq(1 .. inserted)
    BY <2>1, PageRows
  <2>3. << >> \in Seq(1 .. inserted)
    OBVIOUS
  <2> QED
    BY <2>1, <2>2, <2>3
<1>2. cursor' = [rows |-> rows, pos |-> 0] /\ pc' = next
  BY DEF Execute
<1>3. UNCHANGED <<table, inserted, kind, page, failed, answer, open, leaked, corrupt, requests>>
  BY DEF Execute
<1>4. cursor' \in [rows : Seq(1 .. inserted), pos : Nat] /\ cursor'.pos <= Len(cursor'.rows) + 1
  BY <1>1, <1>2
<1> QED
  BY <1>2, <1>3, <1>4 DEF Types

LEMMA ExecutedTypes == ASSUME Types, Executed PROVE Types'
<1>0. /\ list \in [alloc : Int, ids : Seq(1 .. inserted)] /\ list.alloc >= Unset /\ value \in Int
      /\ paging \in [of : Kinds, upto : Int, start : SUBSET (1 .. inserted),
                     seen : Seq(1 .. inserted), calm : BOOLEAN]
  BY DEF Types
<1>1. ASSUME NEW n \in Int, Malloc(n)
      PROVE  list' \in [alloc : Int, ids : Seq(1 .. inserted)] /\ list'.alloc >= Unset
  BY <1>1, MallocTypes
<1>2. Size(page) \in Int /\ LocationRows \in Int
  BY Fields DEF Size
<1>3. kind' = kind
  BY ExecutedForms DEF Execute
<1>4. {"fetch", "close", "count", "next"} \subseteq Steps
  BY DEF Steps
<1>5. CASE \E next \in {"fetch", "close"} :
              Execute(PageOf(table), next) /\ Turn /\ (Malloc(Size(page)) \/ UNCHANGED list) /\ UNCHANGED value
  BY <1>0, <1>1, <1>2, <1>3, <1>4, <1>5, TurnTypes, ExecuteTypes
<1>6. CASE \E rows \in {<< >>, table}, n \in {Size(page), LocationRows}, next \in {"fetch", "close"} :
              Execute(rows, next) /\ Malloc(n) /\ UNCHANGED <<value, paging>>
  BY <1>0, <1>1, <1>2, <1>4, <1>6, ExecuteTypes
<1>7. CASE \E rows \in {<< >>, table}, next \in {"count", "next", "close"} :
              Execute(rows, next) /\ UNCHANGED <<list, paging>> /\ value' \in {1, -1, value}
  BY <1>0, <1>4, <1>7, ExecuteTypes
<1> QED
  BY <1>5, <1>6, <1>7, ExecutedForms

LEMMA CountingIsInt == ASSUME NEW n \in Int PROVE Counting(n) \in Int
  BY DEF Counting

LEMMA HandlerTypes ==
    ASSUME Types, Reading, Handles,
           \/ DbExecuteRefused \/ FetchRow \/ NoMoreRows \/ FetchFails
           \/ CountRow \/ (\E fails \in BOOLEAN : CountEnd(fails)) \/ DbNext \/ DbCloseQuery
    PROVE  Types'
<1>1. CASE DbExecuteRefused
  <2>1. value' \in Int
    <3>1. \A n \in -1 .. 1 : Counting(n) \in Int
      BY CountingIsInt
    <3> QED
      BY <1>1, <3>1 DEF DbExecuteRefused
  <2>2. /\ failed' = TRUE /\ paging' = [paging EXCEPT !.calm = FALSE]
        /\ UNCHANGED <<table, inserted, kind, page, cursor, list, answer, open, corrupt, requests>>
    BY <1>1 DEF DbExecuteRefused
  <2>3. pc' \in {"answer", "close"} /\ leaked' \in {leaked, leaked + 1}
    BY <1>1 DEF DbExecuteRefused
  <2>4. pc' \in Steps /\ leaked' \in Nat
    BY <2>3 DEF Types, Steps
  <2> QED
    BY <2>1, <2>2, <2>4, CalmTypes DEF Types
<1>2. CASE FetchRow
  <2>1. /\ pc' = "fetch" /\ cursor' = [cursor EXCEPT !.pos = cursor.pos + 1]
        /\ cursor.pos < Len(cursor.rows)
        /\ list' = [list EXCEPT !.ids = Append(@, cursor.rows[cursor.pos + 1])]
        /\ UNCHANGED <<table, inserted, kind, page, answer, open, leaked, requests, value, failed, paging>>
    BY <1>2, EndOfRows DEF FetchRow, Step
  <2>2. cursor.rows[cursor.pos + 1] \in 1 .. inserted
    <3>1. cursor.rows \in Seq(1 .. inserted) /\ cursor.pos + 1 \in 1 .. Len(cursor.rows)
      BY <2>1, Fields
    <3> QED
      BY <3>1, ElementOfSeq
  <2>3. Append(list.ids, cursor.rows[cursor.pos + 1]) \in Seq(1 .. inserted)
    BY <2>2, Fields, AppendProperties
  <2>4. list' \in [alloc : Int, ids : Seq(1 .. inserted')] /\ list'.alloc = list.alloc
    <3>1. list' = [alloc |-> list.alloc, ids |-> Append(list.ids, cursor.rows[cursor.pos + 1])]
      BY <2>1, Fields
    <3> QED
      BY <2>1, <2>3, <3>1, Fields
  <2>5. cursor' \in [rows : Seq(1 .. inserted'), pos : Nat] /\ cursor'.pos <= Len(cursor'.rows) + 1
    <3>1. cursor.pos + 1 \in Nat /\ cursor.pos + 1 <= Len(cursor.rows) + 1
      BY <2>1, Fields
    <3> QED
      BY <2>1, <3>1, CursorTypes
  <2>6. corrupt' \in BOOLEAN
    BY <1>2 DEF FetchRow
  <2> QED
    BY <2>1, <2>4, <2>5, <2>6 DEF Types, Steps
<1>3. CASE NoMoreRows
  <2>1. /\ pc' = "close" /\ cursor' = [cursor EXCEPT !.pos = Len(cursor.rows) + 1]
        /\ UNCHANGED <<table, inserted, kind, page, answer, open, leaked, requests,
                       list, value, failed, corrupt, paging>>
    BY <1>3 DEF NoMoreRows, Step
  <2>2. cursor' \in [rows : Seq(1 .. inserted'), pos : Nat] /\ cursor'.pos <= Len(cursor'.rows) + 1
    <3>1. Len(cursor.rows) + 1 \in Nat /\ Len(cursor.rows) + 1 <= Len(cursor.rows) + 1
      BY <2>1, Fields
    <3> QED
      BY <2>1, <3>1, CursorTypes
  <2> QED
    BY <2>1, <2>2 DEF Types, Steps
<1>4. CASE FetchFails
  <2>1. /\ pc' = "close" /\ cursor' = [cursor EXCEPT !.pos = cursor.pos + 1]
        /\ cursor.pos < Len(cursor.rows)
        /\ failed' = TRUE /\ paging' = [paging EXCEPT !.calm = FALSE]
        /\ UNCHANGED <<table, inserted, kind, page, answer, open, leaked, requests, list, value, corrupt>>
    BY <1>4, EndOfRows DEF FetchFails, Step
  <2>2. cursor' \in [rows : Seq(1 .. inserted'), pos : Nat] /\ cursor'.pos <= Len(cursor'.rows) + 1
    <3>1. cursor.pos + 1 \in Nat /\ cursor.pos + 1 <= Len(cursor.rows) + 1
      BY <2>1, Fields
    <3> QED
      BY <2>1, <3>1, CursorTypes
  <2> QED
    BY <2>1, <2>2, CalmTypes DEF Types, Steps
<1>5. CASE CountRow
  <2>1. /\ pc' = "count" /\ cursor' = [cursor EXCEPT !.pos = cursor.pos + 1]
        /\ cursor.pos < Len(cursor.rows) /\ value' = value + 1
        /\ UNCHANGED <<table, inserted, kind, page, answer, open, leaked, requests,
                       list, failed, corrupt, paging>>
    BY <1>5, EndOfRows DEF CountRow, Step
  <2>2. cursor' \in [rows : Seq(1 .. inserted'), pos : Nat] /\ cursor'.pos <= Len(cursor'.rows) + 1
    <3>1. cursor.pos + 1 \in Nat /\ cursor.pos + 1 <= Len(cursor.rows) + 1
      BY <2>1, Fields
    <3> QED
      BY <2>1, <3>1, CursorTypes
  <2>3. value' \in Int
    BY <2>1 DEF Types
  <2> QED
    BY <2>1, <2>2, <2>3 DEF Types, Steps
<1>6. ASSUME NEW fails \in BOOLEAN, CountEnd(fails) PROVE Types'
  <2>1. /\ pc = "count"
        /\ pc' = "close" /\ cursor' = [cursor EXCEPT !.pos = cursor.pos + 1 - value]
        /\ value' = Counting(value - 1) /\ failed' = fails
        /\ UNCHANGED <<table, inserted, kind, page, answer, open, leaked, requests, list, corrupt, paging>>
    BY <1>6 DEF CountEnd, Step
  <2>2. cursor.pos + 1 - value = 0
    BY <2>1, Fields DEF Reading
  <2>3. cursor' \in [rows : Seq(1 .. inserted'), pos : Nat] /\ cursor'.pos <= Len(cursor'.rows) + 1
    <3>1. cursor' = [cursor EXCEPT !.pos = 0]
      BY <2>1, <2>2
    <3>2. 0 <= Len(cursor.rows) + 1
      BY Fields
    <3> QED
      BY <2>1, <3>1, <3>2, CursorTypes
  <2>4. value' \in Int
    <3>1. value - 1 \in Int
      BY DEF Types
    <3> QED
      BY <2>1, <3>1, CountingIsInt
  <2> QED
    BY <2>1, <2>3, <2>4 DEF Types, Steps
<1>7. CASE DbNext
  <2>1. /\ pc = "next" /\ pc' = "close" /\ cursor' = [cursor EXCEPT !.pos = cursor.pos + 1]
        /\ failed' \in {failed, TRUE}
        /\ UNCHANGED <<table, inserted, kind, page, answer, open, leaked, requests,
                       list, value, corrupt, paging>>
    BY <1>7 DEF DbNext, Step
  <2>2. cursor' \in [rows : Seq(1 .. inserted'), pos : Nat] /\ cursor'.pos <= Len(cursor'.rows) + 1
    <3>1. cursor.pos + 1 \in Nat /\ cursor.pos + 1 <= Len(cursor.rows) + 1
      BY <2>1, Fields DEF Reading
    <3> QED
      BY <2>1, <3>1, CursorTypes
  <2> QED
    BY <2>1, <2>2 DEF Types, Steps
<1>8. CASE DbCloseQuery
  BY <1>8 DEF DbCloseQuery, Types, Steps, Handles
<1> QED
  BY <1>1, <1>2, <1>3, <1>4, <1>5, <1>6, <1>7, <1>8

LEMMA AnswerTypes == ASSUME Types, Answers PROVE Types'
<1>1. PICK says \in {"none", "ok", "failed", "garbage"}, undefined \in BOOLEAN :
          /\ NetSendPacket(says, undefined)
          /\ Told \/ paging' = [paging EXCEPT !.calm = FALSE] \/ UNCHANGED paging
  BY AnswerForms
<1>2. /\ pc' = "idle" /\ answer' = says /\ corrupt' = undefined
      /\ cursor' = NoRows /\ list' = NoList /\ value' = 0 /\ failed' = FALSE
      /\ UNCHANGED <<table, inserted, kind, page, open, leaked, requests>>
  BY <1>1 DEF NetSendPacket
<1>3. paging' \in [of : Kinds, upto : Int, start : SUBSET (1 .. inserted),
                   seen : Seq(1 .. inserted), calm : BOOLEAN]
  <2>1. CASE UNCHANGED paging
    BY <2>1 DEF Types
  <2>2. CASE paging' = [paging EXCEPT !.calm = FALSE]
    BY <2>2, CalmTypes
  <2>3. CASE paging' = [paging EXCEPT !.seen = @ \o list.ids]
    <3>1. paging.seen \o list.ids \in Seq(1 .. inserted)
      BY Fields, ConcatProperties
    <3> QED
      BY <2>3, <3>1 DEF Types
  <2> QED
    BY <1>1, <2>1, <2>2, <2>3 DEF Told
<1>4. /\ cursor' \in [rows : Seq(1 .. inserted), pos : Nat] /\ cursor'.pos <= Len(cursor'.rows) + 1
      /\ list' \in [alloc : Int, ids : Seq(1 .. inserted)] /\ list'.alloc >= Unset
  <2>1. << >> \in Seq(1 .. inserted) /\ Len(<< >>) = 0
    OBVIOUS
  <2> QED
    BY <1>2, <2>1
<1>5. corrupt' \in BOOLEAN /\ failed' \in BOOLEAN
  BY <1>2, Zenon
<1>6. /\ inserted' \in 0 .. MaxRows /\ table' \in Seq(1 .. inserted') /\ IsInjective(table')
      /\ pc' \in Steps /\ kind' \in Kinds /\ page' \in Pages \cup {NoPage}
      /\ value' \in Int /\ answer' \in {"none", "ok", "failed", "garbage"}
      /\ open' \in Nat /\ leaked' \in Nat /\ requests' \in 0 .. MaxRequests
  BY <1>2 DEF Types, Steps
<1>7. inserted' = inserted
  BY <1>2
<1> QED
  BY <1>3, <1>4, <1>5, <1>6, <1>7 DEF Types

LEMMA InsertTypes == ASSUME Types, Insert PROVE Types'
<1>1. /\ inserted < MaxRows /\ inserted' = inserted + 1 /\ table' = Append(table, inserted + 1)
      /\ UNCHANGED <<pc, kind, page, cursor, list, value, failed, answer, open, leaked,
                     corrupt, requests, paging>>
  BY DEF Insert
<1>2. inserted' \in 0 .. MaxRows /\ 1 .. inserted \subseteq 1 .. inserted'
  BY <1>1 DEF Types
<1>3. table \in Seq(1 .. inserted') /\ inserted + 1 \in 1 .. inserted'
  BY <1>1, <1>2, SeqMonotonic DEF Types
<1>4. /\ table' \in Seq(1 .. inserted') /\ Len(table') = Len(table) + 1
      /\ \A i \in 1 .. Len(table) : table'[i] = table[i]
      /\ table'[Len(table) + 1] = inserted + 1
  BY <1>1, <1>3, AppendProperties
<1>5. IsInjective(table')
  <2> SUFFICES ASSUME NEW i \in 1 .. Len(table) + 1, NEW j \in 1 .. Len(table) + 1,
                      table'[i] = table'[j]
               PROVE  i = j
    BY <1>4, Fields DEF IsInjective
  <2>1. \A k \in 1 .. Len(table) : table[k] \in 1 .. inserted
    BY ElementOfSeq DEF Types
  <2>2. \A x, y \in 1 .. Len(table) : table[x] = table[y] => x = y
    <3>1. DOMAIN table = 1 .. Len(table) /\ IsInjective(table)
      BY DEF Types
    <3> QED
      BY <3>1 DEF IsInjective
  <2>3. inserted \in Nat /\ Len(table) \in Nat
    BY Fields DEF Types
  <2> QED
    BY <1>4, <2>1, <2>2, <2>3
<1>6. cursor' \in [rows : Seq(1 .. inserted'), pos : Nat] /\ cursor'.pos <= Len(cursor'.rows) + 1
  <2>1. cursor.rows \in Seq(1 .. inserted')
    BY <1>2, Fields, SeqMonotonic
  <2> QED
    BY <1>1, <2>1, Fields DEF Types
<1>7. list' \in [alloc : Int, ids : Seq(1 .. inserted')]
  <2>1. list.ids \in Seq(1 .. inserted')
    BY <1>2, Fields, SeqMonotonic
  <2> QED
    BY <1>1, <2>1, Fields
<1>8. paging' \in [of : Kinds, upto : Int, start : SUBSET (1 .. inserted'),
                   seen : Seq(1 .. inserted'), calm : BOOLEAN]
  <2>1. paging.seen \in Seq(1 .. inserted') /\ paging.start \subseteq 1 .. inserted'
    BY <1>2, Fields, SeqMonotonic
  <2> QED
    BY <1>1, <2>1 DEF Types
<1> QED
  BY <1>1, <1>2, <1>4, <1>5, <1>6, <1>7, <1>8 DEF Types

LEMMA DeleteTypes == ASSUME Types, NEW i \in DOMAIN table, Delete(i) PROVE Types'
<1>1. /\ table' = RemoveAt(table, i) /\ paging' = [paging EXCEPT !.calm = FALSE]
      /\ UNCHANGED <<inserted, pc, kind, page, cursor, list, value, failed, answer,
                     open, leaked, corrupt, requests>>
  BY DEF Delete
<1>2. table \in Seq(1 .. inserted) /\ IsInjective(table) /\ i \in 1 .. Len(table)
  BY DEF Types
<1>3. table' \in Seq(1 .. inserted) /\ IsInjective(table')
  BY <1>1, <1>2, RemovedRow
<1> QED
  BY <1>1, <1>3, CalmTypes DEF Types

LEMMA TypesStep == ASSUME IInv, [Next]_vars PROVE Types'
<1>0. Types /\ Reading /\ Handles
  BY DEF IInv
<1>1. CASE Requested
  BY <1>0, <1>1, RequestedForms, RequestTypes
<1>2. CASE Executed
  BY <1>0, <1>2, ExecutedTypes
<1>3. CASE \/ DbExecuteRefused \/ FetchRow \/ NoMoreRows \/ FetchFails
           \/ CountRow \/ (\E fails \in BOOLEAN : CountEnd(fails)) \/ DbNext \/ DbCloseQuery
  BY <1>0, <1>3, HandlerTypes
<1>4. CASE Answers
  BY <1>0, <1>4, AnswerTypes
<1>5. CASE Insert
  BY <1>0, <1>5, InsertTypes
<1>6. CASE \E i \in DOMAIN table : Delete(i)
  BY <1>0, <1>6, DeleteTypes
<1>7. CASE UNCHANGED vars
  BY <1>0, <1>7 DEF vars, Types
<1> QED
  BY <1>1, <1>2, <1>3, <1>4, <1>5, <1>6, <1>7 DEF Next, Handler, Others, Requested, Answers

-----------------------------------------------------------------------------
(* Handles.                                                                *)

LEMMA HandlesStep == ASSUME IInv, [Next]_vars PROVE Handles'
<1> USE DEF Handles
<1>0. /\ Handles /\ pc \in Steps /\ open \in Nat /\ leaked \in Nat /\ requests \in Nat
  BY DEF IInv, Types
<1>1. CASE Requested
  <2>1. PICK k \in Kinds : Prepared(k) \/ Refused(k)
    BY <1>1, RequestedForms
  <2>2. pc = "idle" /\ requests' = requests + 1 /\ leaked' = leaked
    BY <2>1 DEF Prepared, Refused, DbPrepare, Request
  <2>3. (pc' = "execute" /\ open' = open + 1) \/ UNCHANGED <<pc, open>>
    BY <2>1 DEF Prepared, Refused, DbPrepare
  <2> QED
    BY <1>0, <2>2, <2>3
<1>2. CASE Executed
  <2>1. /\ pc = "execute" /\ pc' \in {"fetch", "close", "count", "next"}
        /\ UNCHANGED <<open, leaked, requests>>
    BY <1>2, ExecutedForms DEF Execute
  <2> QED
    BY <1>0, <2>1
<1>3. CASE DbExecuteRefused
  <2>1. /\ pc = "execute" /\ UNCHANGED <<open, requests>>
        /\ \/ pc' = "answer" /\ leaked' = leaked + 1
           \/ pc' = "close" /\ leaked' = leaked
    BY <1>3 DEF DbExecuteRefused
  <2> QED
    BY <1>0, <2>1
<1>4. CASE FetchRow \/ NoMoreRows \/ FetchFails \/ CountRow \/ (\E fails \in BOOLEAN : CountEnd(fails)) \/ DbNext
  <2>1. /\ pc \in {"fetch", "count", "next"} /\ pc' \in {"fetch", "count", "close"}
        /\ UNCHANGED <<open, leaked, requests>>
    BY <1>4 DEF FetchRow, NoMoreRows, FetchFails, CountRow, CountEnd, DbNext, Step
  <2> QED
    BY <1>0, <2>1
<1>5. CASE DbCloseQuery
  BY <1>0, <1>5 DEF DbCloseQuery
<1>6. CASE Answers
  <2>1. pc = "answer" /\ pc' = "idle" /\ UNCHANGED <<open, leaked, requests>>
    BY <1>6, AnswerForms DEF NetSendPacket
  <2> QED
    BY <1>0, <2>1
<1>7. CASE Others \/ UNCHANGED vars
  <2>1. UNCHANGED <<pc, open, leaked, requests>>
    BY <1>7 DEF Others, Insert, Delete, vars
  <2> QED
    BY <1>0, <2>1
<1> QED
  BY <1>1, <1>2, <1>3, <1>4, <1>5, <1>6, <1>7 DEF Next, Handler, Requested, Answers

-----------------------------------------------------------------------------
(* Reading and Memory.                                                     *)

LEMMA MemoryRequest ==
    ASSUME IInv, NEW k \in Kinds, Prepared(k) \/ Refused(k)
    PROVE  Reading' /\ Memory'
<1>0. /\ pc = "idle" /\ cursor = NoRows /\ list = NoList /\ value = 0 /\ ~failed
  BY DEF IInv, Reading, Prepared, Refused, DbPrepare, Request
<1>1. /\ kind' = k /\ UNCHANGED <<cursor, value, failed>>
  BY DEF Prepared, Refused, DbPrepare, Request
<1>2. CASE Refused(k)
  <2>1. UNCHANGED <<pc, page, list>>
    BY <1>2 DEF Refused
  <2> QED
    BY <1>0, <1>1, <2>1 DEF Reading, Memory
<1>3. CASE Prepared(k)
  <2>1. pc' = "execute" /\ page' \in Pages \cup {page}
    BY <1>3 DEF Prepared, DbPrepare
  <2>2. page \in Int \X Int
    BY Fields DEF IInv
  <2>3. Size(page') \in Int
    BY <2>1, <2>2 DEF Size
  <2>4. CASE k # "payments" /\ UNCHANGED list
    BY <1>0, <1>1, <2>1, <2>4 DEF Reading, Memory
  <2>5. CASE k = "payments" /\ Malloc(Size(page')) /\ list'.alloc # Null
    <3>1. list'.ids = << >> /\ list'.alloc = Size(page') /\ list'.alloc >= 0
      BY <2>3, <2>5, MallocTypes
    <3> QED
      BY <1>0, <1>1, <2>1, <2>5, <3>1 DEF Reading, Memory, Size
  <2> QED
    BY <1>3, <2>4, <2>5 DEF Prepared
<1> QED
  BY <1>2, <1>3

\* A list has memory for the rows that are selected for it.
LEMMA MemoryExecuted ==
    ASSUME IInv, ~corrupt, Executed
    PROVE  Reading' /\ Memory'
<1>0. /\ Types /\ pc = "execute" /\ cursor = NoRows /\ list.ids = << >> /\ Memory
      /\ kind = "payments" => list.alloc = Size(page) /\ list.alloc >= 0
      /\ UNCHANGED <<kind, page, failed>> /\ ~corrupt'
  BY ExecutedForms DEF IInv, Reading, Memory, Execute
<1>1. /\ table \in Seq(1 .. inserted) /\ page \in Int \X Int /\ Size(page) \in Int
      /\ LocationRows \in Int /\ Len(table) \in Nat
  BY <1>0, Fields DEF Types, Size
<1>2. /\ PageOf(table) \in Seq(1 .. inserted) /\ Len(PageOf(table)) \in Nat
      /\ Size(page) >= 0 => Len(PageOf(table)) <= Size(page)
  BY <1>1, PageRows
<1> USE DEF Listed, Paged, IdLists, Counted
<1>3. CASE /\ kind \in Paged \ {"payments"} /\ Malloc(Size(page)) /\ Turn /\ UNCHANGED value
           /\ \/ Execute(PageOf(table), "fetch")
              \/ kind = "photos" /\ list'.alloc = Null /\ Execute(PageOf(table), "close")
  <2>1. list'.ids = << >> /\ list'.alloc >= Null /\ (list'.alloc >= 0 => Size(page) >= 0 /\ list'.alloc = Size(page))
    BY <1>1, <1>3, MallocTypes
  <2>2. /\ cursor'.rows = PageOf(table) /\ cursor'.pos = 0 /\ pc' \in {"fetch", "close"}
        /\ pc' = "close" => kind = "photos" /\ list'.alloc = Null
    BY <1>3 DEF Execute
  <2>3. Reading'
    BY <1>0, <1>2, <1>3, <2>1, <2>2 DEF Reading
  <2>4. Memory'
    BY <1>0, <1>2, <1>3, <2>1, <2>2 DEF Memory
  <2> QED
    BY <2>3, <2>4
<1>4. CASE kind = "payments" /\ Execute(PageOf(table), "fetch") /\ Turn /\ UNCHANGED <<value, list>>
  <2>1. cursor'.rows = PageOf(table) /\ cursor'.pos = 0 /\ pc' = "fetch"
    BY <1>4 DEF Execute
  <2> QED
    BY <1>0, <1>2, <1>4, <2>1 DEF Reading, Memory
<1>5. CASE \E rows \in {<< >>, table}, n \in {Size(page), LocationRows} :
              /\ kind \in {"comments", "locations"} /\ Malloc(n) /\ UNCHANGED <<value, paging>>
              /\ kind = "comments" => rows = << >>
              /\ \/ Execute(rows, "fetch")
                 \/ Execute(rows, "close") /\ list'.alloc = Null
  <2>1. PICK rows \in {<< >>, table}, n \in {Size(page), LocationRows} :
              /\ kind \in {"comments", "locations"} /\ Malloc(n)
              /\ kind = "comments" => rows = << >>
              /\ \/ Execute(rows, "fetch")
                 \/ Execute(rows, "close") /\ list'.alloc = Null
    BY <1>5
  <2>2. list'.ids = << >> /\ list'.alloc >= Null
    BY <1>1, <2>1, MallocTypes
  <2>3. /\ cursor'.rows = rows /\ cursor'.pos = 0 /\ pc' \in {"fetch", "close"}
        /\ pc' = "close" => list'.alloc = Null
    BY <2>1 DEF Execute
  <2>4. Len(rows) \in Nat
    BY <1>1, <2>1
  <2> QED
    BY <1>0, <2>1, <2>2, <2>3, <2>4 DEF Reading, Memory
<1>6. CASE \E rows \in {<< >>, table} : 
              /\ UNCHANGED <<list, paging>>
              /\ \/ kind \in Counted /\ Execute(rows, "count") /\ value' = 1
                 \/ kind \in {"nateon", "image"} /\ Execute(rows, "next") /\ UNCHANGED value
                 \/ kind \notin Listed \cup Counted /\ Execute(rows, "close") /\ value' \in {-1, value}
  <2>1. PICK rows \in {<< >>, table} :
              \/ kind \in Counted /\ Execute(rows, "count") /\ value' = 1
              \/ kind \in {"nateon", "image"} /\ Execute(rows, "next")
              \/ kind \notin Listed \cup Counted /\ Execute(rows, "close")
    BY <1>6
  <2>2. /\ cursor'.rows = rows /\ cursor'.pos = 0 /\ list' = list /\ Len(rows) \in Nat
        /\ \/ kind \in Counted /\ pc' = "count" /\ value' = 1
           \/ kind \in {"nateon", "image"} /\ pc' = "next"
           \/ kind \notin Listed \cup Counted /\ pc' = "close"
    BY <1>1, <1>6, <2>1 DEF Execute
  <2>3. kind \notin Paged \cup {"comments"}
    BY <2>2
  <2> QED
    BY <1>0, <2>2, <2>3 DEF Reading, Memory
<1> QED
  BY <1>3, <1>4, <1>5, <1>6, ExecutedForms

LEMMA MemoryFetch ==
    ASSUME IInv, FetchRow \/ NoMoreRows \/ FetchFails
    PROVE  Reading' /\ Memory'
<1>0. /\ Types /\ pc = "fetch" /\ kind \in Listed /\ cursor.pos = Len(list.ids) /\ list.alloc # Unset
      /\ Reading /\ Memory /\ UNCHANGED <<kind, page, value>>
  BY DEF IInv, Reading, Memory, FetchRow, NoMoreRows, FetchFails, Step
<1>1. /\ cursor.rows \in Seq(1 .. inserted) /\ list.ids \in Seq(1 .. inserted)
      /\ Len(cursor.rows) \in Nat /\ Len(list.ids) \in Nat /\ cursor.pos \in Nat
  BY <1>0, Fields
<1>2. kind \notin Counted \cup {"nateon", "image"}
  BY <1>0 DEF Listed, Counted, Paged, IdLists
<1>3. CASE FetchRow
  <2>1. /\ pc' = "fetch" /\ cursor' = [cursor EXCEPT !.pos = cursor.pos + 1]
        /\ cursor.pos < Len(cursor.rows)
        /\ list' = [list EXCEPT !.ids = Append(@, cursor.rows[cursor.pos + 1])]
    BY <1>0, <1>3, EndOfRows DEF FetchRow, Step
  <2>2. cursor'.rows = cursor.rows /\ cursor'.pos = cursor.pos + 1
    BY <1>0, <2>1, Fields
  <2>3. list'.alloc = list.alloc /\ list'.ids = Append(list.ids, cursor.rows[cursor.pos + 1])
    BY <1>0, <2>1, Fields
  <2>4. cursor.rows[cursor.pos + 1] \in 1 .. inserted
    <3>1. cursor.pos + 1 \in 1 .. Len(cursor.rows)
      BY <1>1, <2>1
    <3> QED
      BY <1>1, <3>1, ElementOfSeq
  <2>5. /\ Len(list'.ids) = Len(list.ids) + 1
        /\ \A k \in 1 .. Len(list.ids) : list'.ids[k] = list.ids[k]
        /\ list'.ids[Len(list.ids) + 1] = cursor.rows[cursor.pos + 1]
    BY <1>1, <2>3, <2>4, AppendProperties
  <2>6. Len(list'.ids) <= Len(cursor.rows) /\ \A k \in 1 .. Len(list'.ids) : list'.ids[k] = cursor.rows[k]
    BY <1>0, <1>1, <2>1, <2>5 DEF Reading
  <2>7. Reading'
    BY <1>0, <1>1, <2>1, <2>2, <2>5, <2>6 DEF Reading
  <2>8. Memory'
    <3>1. (corrupt /\ pc = "fetch" => Outside)'
      <4>1. CASE list.alloc # Null /\ kind # "locations" /\ corrupt'
        <5>1. kind \in Paged \/ kind = "comments"
          BY <1>0, <4>1 DEF Listed
        <5>2. kind # "comments"
          BY <1>0, <1>1, <2>1 DEF Memory
        <5>3. list.alloc \in Int /\ list.alloc >= 0
          <6>1. list.alloc \in Int
            BY <1>0, Fields
          <6>2. list.alloc >= Unset
            BY <1>0 DEF Types
          <6>3. list.alloc # Null /\ list.alloc # Unset
            BY <1>0, <4>1
          <6> QED
            BY <6>1, <6>2, <6>3 DEF Unset, Null
        <5>4. Len(list.ids) + 1 <= list.alloc
          BY <1>0, <1>1, <2>1, <5>1, <5>2, <5>3 DEF Memory
        <5>5. /\ kind \in IdLists /\ cursor.rows[cursor.pos + 1] \in LongRows
              /\ Len(list.ids) + 1 = list.alloc
          <6>0. PICK l : l = Len(list.ids)
            OBVIOUS
          <6>1. l \in Nat
            BY <1>0, <6>0, Fields
          <6>2. PICK n : n = IF kind \in IdLists /\ cursor.rows[cursor.pos + 1] \in LongRows THEN 1 ELSE 0
            OBVIOUS
          <6>3. corrupt' <=> (l + 1 + n > list.alloc)
            BY <1>3, <6>0, <6>2 DEF FetchRow
          <6>4. l + 1 + n > list.alloc
            BY <4>1, <6>3
          <6>5. CASE n = 1
            <7>1. kind \in IdLists /\ cursor.rows[cursor.pos + 1] \in LongRows
              BY <6>2, <6>5
            <7>2. l + 1 = list.alloc
              BY <5>3, <5>4, <6>0, <6>1, <6>4, <6>5
            <7> QED
              BY <6>0, <7>1, <7>2
          <6>6. CASE n = 0
            BY <5>3, <5>4, <6>0, <6>1, <6>4, <6>6
          <6> QED
            BY <6>2, <6>5, <6>6
        <5>6. Last(list'.ids) = cursor.rows[cursor.pos + 1]
          BY <2>5, <1>0, <1>1 DEF Last
        <5> QED
          BY <1>0, <2>3, <2>5, <5>5, <5>6 DEF Outside
      <4>2. CASE list.alloc = Null \/ kind = "locations"
        BY <1>0, <2>3, <4>2 DEF Outside
      <4> QED
        BY <4>1, <4>2
    <3> QED
      BY <1>0, <2>1, <2>2, <2>3, <3>1 DEF Memory
  <2> QED
    BY <2>7, <2>8
<1>4. CASE NoMoreRows
  <2>1. /\ pc' = "close" /\ cursor' = [cursor EXCEPT !.pos = Len(cursor.rows) + 1]
        /\ cursor.pos >= Len(cursor.rows) /\ UNCHANGED <<list, failed>>
    BY <1>0, <1>1, <1>4 DEF NoMoreRows, Step, AtEnd
  <2>2. cursor'.rows = cursor.rows
    BY <1>0, <2>1, Fields
  <2>3. list.ids = cursor.rows
    <3>1. Len(list.ids) = Len(cursor.rows) /\ \A k \in 1 .. Len(list.ids) : list.ids[k] = cursor.rows[k]
      BY <1>0, <1>1, <2>1 DEF Reading
    <3> QED
      BY <1>1, <3>1, SeqEqual
  <2>4. Reading'
    BY <1>0, <1>2, <2>1, <2>2, <2>3 DEF Reading
  <2>5. Memory'
    BY <1>0, <2>1, <2>2 DEF Memory
  <2> QED
    BY <2>4, <2>5
<1>5. CASE FetchFails
  <2>1. /\ pc' = "close" /\ cursor' = [cursor EXCEPT !.pos = cursor.pos + 1]
        /\ failed' /\ UNCHANGED list
    BY <1>5 DEF FetchFails, Step
  <2>2. cursor'.rows = cursor.rows
    BY <1>0, <2>1, Fields
  <2>4. Reading'
    BY <1>0, <1>2, <2>1, <2>2 DEF Reading
  <2>5. Memory'
    BY <1>0, <2>1, <2>2 DEF Memory
  <2> QED
    BY <2>4, <2>5
<1> QED
  BY <1>3, <1>4, <1>5

LEMMA MemoryCount ==
    ASSUME IInv, CountRow \/ (\E fails \in BOOLEAN : CountEnd(fails)) \/ DbNext
    PROVE  Reading' /\ Memory'
<1>0. /\ Types /\ kind \in Counted \cup {"nateon", "image"} /\ Reading /\ Memory
      /\ pc \in {"count", "next"} /\ UNCHANGED <<kind, page, list>>
  BY DEF IInv, Reading, CountRow, CountEnd, DbNext, Step
<1>1. kind \notin Listed \cup Paged \cup IdLists \cup {"comments", "payments"}
  BY <1>0 DEF Listed, Counted, Paged, IdLists
<1>2. /\ Len(cursor.rows) \in Nat /\ cursor.pos \in Nat /\ list.ids = << >> /\ Len(list.ids) \in Nat
  BY <1>0, <1>1, Fields DEF Memory
<1>3. pc' # "fetch" /\ cursor'.rows = cursor.rows => Memory'
  BY <1>0, <1>1, <1>2 DEF Memory
<1>4. CASE CountRow
  <2>1. /\ pc = "count" /\ pc' = "count" /\ cursor' = [cursor EXCEPT !.pos = cursor.pos + 1]
        /\ cursor.pos < Len(cursor.rows) /\ value' = value + 1 /\ UNCHANGED failed
    BY <1>0, <1>4, EndOfRows DEF CountRow, Step
  <2>2. cursor'.rows = cursor.rows /\ cursor'.pos = cursor.pos + 1
    BY <1>0, <2>1, Fields
  <2>3. Reading'
    BY <1>0, <1>2, <2>1, <2>2 DEF Reading
  <2> QED
    BY <1>3, <2>1, <2>2, <2>3
<1>5. ASSUME NEW fails \in BOOLEAN, CountEnd(fails) PROVE Reading' /\ Memory'
  <2>1. /\ pc = "count" /\ pc' = "close" /\ cursor' = [cursor EXCEPT !.pos = cursor.pos + 1 - value]
        /\ value' = Counting(value - 1) /\ failed' = fails
        /\ ~fails => ~(cursor.pos < Len(cursor.rows))
    BY <1>0, <1>5, EndOfRows DEF CountEnd, Step
  <2>2. cursor'.rows = cursor.rows
    BY <1>0, <2>1, Fields
  <2>3. ~fails => value - 1 = Len(cursor.rows)
    BY <1>0, <1>2, <2>1 DEF Reading
  <2>4. ~fails => value' = Counting(Len(cursor.rows))
    BY <2>1, <2>3
  <2>5. Counting(Len(cursor.rows))' = Counting(Len(cursor.rows))
    BY <1>0, <2>2 DEF Counting
  <2>6. Reading'
    BY <1>0, <1>1, <1>2, <2>1, <2>2, <2>4, <2>5 DEF Reading
  <2> QED
    BY <1>3, <2>1, <2>2, <2>6
<1>6. CASE DbNext
  <2>1. pc = "next" /\ pc' = "close" /\ cursor' = [cursor EXCEPT !.pos = cursor.pos + 1]
    BY <1>6 DEF DbNext, Step
  <2>2. cursor'.rows = cursor.rows
    BY <1>0, <2>1, Fields
  <2>3. kind \notin Counted
    BY <1>0, <2>1 DEF Reading, Counted
  <2>4. Reading'
    BY <1>0, <1>1, <1>2, <2>1, <2>2, <2>3 DEF Reading
  <2> QED
    BY <1>3, <2>1, <2>2, <2>4
<1> QED
  BY <1>4, <1>5, <1>6

LEMMA MemoryStep == ASSUME IInv, [Next]_vars PROVE Reading' /\ Memory'
<1>0. Types /\ Reading /\ Memory
  BY DEF IInv
<1>1. CASE Requested
  BY <1>1, RequestedForms, MemoryRequest
<1>2. CASE ~corrupt /\ Executed
  BY <1>2, MemoryExecuted
<1>3. CASE DbExecuteRefused
  <2>1. /\ pc = "execute" /\ pc' \in {"answer", "close"} /\ failed'
        /\ UNCHANGED <<kind, page, cursor, list>>
    BY <1>3 DEF DbExecuteRefused
  <2> QED
    BY <1>0, <2>1 DEF Reading, Memory
<1>4. CASE FetchRow \/ NoMoreRows \/ FetchFails
  BY <1>4, MemoryFetch
<1>5. CASE CountRow \/ (\E fails \in BOOLEAN : CountEnd(fails)) \/ DbNext
  BY <1>5, MemoryCount
<1>6. CASE DbCloseQuery
  <2>1. /\ pc = "close" /\ pc' = "answer" /\ UNCHANGED <<kind, page, cursor, list, value, failed>>
    BY <1>6 DEF DbCloseQuery
  <2>2. \A n : Counting(n)' = Counting(n)
    BY <2>1 DEF Counting
  <2> QED
    BY <1>0, <2>1, <2>2 DEF Reading, Memory
<1>7. CASE Answers
  <2>1. /\ pc' = "idle" /\ cursor' = NoRows /\ list' = NoList /\ value' = 0 /\ ~failed'
    BY <1>7, AnswerForms DEF NetSendPacket
  <2> QED
    BY <2>1 DEF Reading, Memory
<1>8. CASE Others \/ UNCHANGED vars
  <2>1. UNCHANGED <<pc, kind, page, cursor, list, value, failed, corrupt>>
    BY <1>8 DEF Others, Insert, Delete, vars
  <2>2. \A n : Counting(n)' = Counting(n)
    BY <2>1 DEF Counting
  <2>3. Size(page)' = Size(page) /\ (Outside' <=> Outside)
    BY <2>1 DEF Size, Outside
  <2> QED
    BY <1>0, <2>1, <2>2, <2>3 DEF Reading, Memory
<1> QED
  BY <1>1, <1>2, <1>3, <1>4, <1>5, <1>6, <1>7, <1>8 DEF Next, Handler, Requested, Answers

-----------------------------------------------------------------------------
(* Covered.                                                                *)

LEMMA BeginsAll == ASSUME NEW S, NEW t \in Seq(S) PROVE Begins(t, ToSet(t))
<1>1. DOMAIN t = 1 .. Len(t)
  OBVIOUS
<1> QED
  BY <1>1 DEF Begins, ToSet

LEMMA CoversNothing == ASSUME NEW t, NEW start, Len(t) \in Nat PROVE Covers(t, start, << >>, 0)
<1>1. Len(<< >>) = 0 /\ IsInjective(<< >>)
  BY DEF IsInjective
<1> QED
  BY <1>1 DEF Covers

\* A row is added that is not in start.
LEMMA CoversAppend ==
    ASSUME NEW S, NEW t \in Seq(S), NEW x \in S, NEW start, x \notin start
    PROVE  /\ Begins(t, start) => Begins(Append(t, x), start)
           /\ \A q, u : Covers(t, start, q, u) => Covers(Append(t, x), start, q, u)
           /\ \A rows, m, n : Stands(t, start, rows, m, n) => Stands(Append(t, x), start, rows, m, n)
<1> DEFINE tx == Append(t, x)
<1>1. /\ Len(tx) = Len(t) + 1 /\ Len(t) \in Nat
      /\ \A i \in 1 .. Len(t) : tx[i] = t[i]
      /\ tx[Len(t) + 1] = x
  BY AppendProperties
<1> HIDE DEF tx
<1>2. 1 .. Len(t) \subseteq 1 .. Len(tx) /\ \A i \in 1 .. Len(tx) : tx[i] \in start => i \in 1 .. Len(t)
  BY <1>1
<1>3. ASSUME Begins(t, start) PROVE Begins(tx, start)
  BY <1>1, <1>2, <1>3 DEF Begins
<1>4. ASSUME NEW q, NEW u, Covers(t, start, q, u) PROVE Covers(tx, start, q, u)
  BY <1>1, <1>2, <1>4 DEF Covers
<1>5. ASSUME NEW rows, NEW m, NEW n, Stands(t, start, rows, m, n) PROVE Stands(tx, start, rows, m, n)
  BY <1>1, <1>2, <1>5 DEF Stands
<1> QED
  BY <1>3, <1>4, <1>5 DEF tx

\* The client that has been told of the rows before a page is told of the page.
LEMMA CoversPage ==
    ASSUME NEW S, NEW t \in Seq(S), IsInjective(t), NEW start, Begins(t, start),
           NEW q \in Seq(S), NEW rows \in Seq(S), NEW m \in Int, NEW n \in Int, 1 <= m, m <= n,
           Covers(t, start, q, m - 1), Stands(t, start, rows, m, n)
    PROVE  Covers(t, start, q \o rows, n)
<1> DEFINE r == q \o rows
<1>1. /\ r \in Seq(S) /\ Len(r) = Len(q) + Len(rows) /\ Len(q) \in Nat /\ Len(rows) \in Nat
      /\ \A i \in 1 .. Len(q) + Len(rows) : r[i] = IF i <= Len(q) THEN q[i] ELSE rows[i - Len(q)]
  BY ConcatProperties
<1>2. /\ DOMAIN r = 1 .. Len(r) /\ DOMAIN q = 1 .. Len(q) /\ DOMAIN t = 1 .. Len(t) /\ Len(t) \in Nat
  BY <1>1
<1> HIDE DEF r
<1>3. \A i, j \in 1 .. Len(t) : t[i] = t[j] => i = j
  BY <1>2 DEF IsInjective
<1>4. \A k \in 1 .. Len(q) : r[k] = q[k]
  BY <1>1
<1>5. ASSUME NEW k \in 1 .. Len(rows) PROVE Len(q) + k \in 1 .. Len(r) /\ r[Len(q) + k] = rows[k]
  <2>1. Len(q) + k \in 1 .. Len(r) /\ ~(Len(q) + k <= Len(q)) /\ (Len(q) + k) - Len(q) = k
    BY <1>1
  <2> QED
    BY <1>1, <2>1
\* Where the rows of r stand in the table.
<1>6. \A k \in 1 .. Len(q) : \E i \in 1 .. Len(t) : i <= m - 1 /\ r[k] = t[i]
  BY <1>4 DEF Covers
<1>7. \A k \in 1 .. Len(rows) : m - 1 + k \in 1 .. Len(t) /\ r[Len(q) + k] = t[m - 1 + k]
  BY <1>5 DEF Stands
<1>8. ASSUME NEW j \in 1 .. Len(r), j > Len(q)
      PROVE  j - Len(q) \in 1 .. Len(rows) /\ m - 1 + (j - Len(q)) \in 1 .. Len(t) /\ r[j] = t[m - 1 + (j - Len(q))]
  <2>1. j - Len(q) \in 1 .. Len(rows) /\ Len(q) + (j - Len(q)) = j
    BY <1>1, <1>8
  <2> QED
    BY <1>7, <2>1
<1>9. IsInjective(r)
  <2> SUFFICES ASSUME NEW j \in 1 .. Len(r), NEW k \in 1 .. Len(r), r[j] = r[k]
               PROVE  j = k
    BY <1>2 DEF IsInjective
  <2>1. CASE j <= Len(q) /\ k <= Len(q)
    <3>1. \A x, y \in 1 .. Len(q) : q[x] = q[y] => x = y
      BY <1>2 DEF Covers, IsInjective
    <3> QED
      BY <1>4, <2>1, <3>1
  <2>2. CASE j > Len(q) /\ k > Len(q)
    <3>1. m - 1 + (j - Len(q)) = m - 1 + (k - Len(q))
      BY <1>3, <1>8, <2>2
    <3> QED
      BY <1>1, <3>1
  <2>3. ASSUME NEW x \in 1 .. Len(r), NEW y \in 1 .. Len(r), x <= Len(q), y > Len(q), r[x] = r[y]
        PROVE  FALSE
    <3>1. x \in 1 .. Len(q)
      BY <1>1, <2>3
    <3>2. PICK i \in 1 .. Len(t) : i <= m - 1 /\ r[x] = t[i]
      BY <1>6, <3>1
    <3>3. m - 1 + (y - Len(q)) \in 1 .. Len(t) /\ r[y] = t[m - 1 + (y - Len(q))] /\ y - Len(q) >= 1
      BY <1>8, <2>3
    <3>4. i = m - 1 + (y - Len(q))
      BY <1>3, <2>3, <3>2, <3>3
    <3> QED
      BY <1>1, <3>2, <3>3, <3>4
  <2> QED
    BY <1>1, <2>1, <2>2, <2>3
<1>10. ASSUME NEW k \in 1 .. Len(r) PROVE \E i \in 1 .. Len(t) : i <= n /\ r[k] = t[i]
  <2>1. CASE k <= Len(q)
    <3>1. k \in 1 .. Len(q)
      BY <1>1, <2>1
    <3> QED
      BY <1>6, <3>1
  <2>2. CASE k > Len(q)
    <3>1. k - Len(q) \in 1 .. Len(rows)
      BY <1>8, <2>2
    <3>2. Len(rows) <= n - m + 1
      BY DEF Stands
    <3>3. m - 1 + (k - Len(q)) <= n
      BY <1>1, <3>1, <3>2
    <3> QED
      BY <1>8, <2>2, <3>3
  <2>3. k <= Len(q) \/ k > Len(q)
    BY <1>1
  <2> QED
    BY <2>1, <2>2, <2>3
<1>11. ASSUME NEW i \in 1 .. Len(t), i <= n, t[i] \in start
       PROVE  \E k \in 1 .. Len(r) : r[k] = t[i]
  <2>1. CASE i <= m - 1
    <3>1. PICK k \in 1 .. Len(q) : q[k] = t[i]
      BY <1>11, <2>1 DEF Covers
    <3> QED
      BY <1>1, <1>4, <3>1
  <2>2. CASE m <= i
    <3>1. i - m + 1 <= Len(rows)
      BY <1>11, <2>2 DEF Stands
    <3>2. i - m + 1 \in 1 .. Len(rows) /\ m - 1 + (i - m + 1) = i
      BY <1>1, <2>2, <3>1
    <3>3. Len(q) + (i - m + 1) \in 1 .. Len(r) /\ r[Len(q) + (i - m + 1)] = t[i]
      BY <1>5, <1>7, <3>2
    <3> QED
      BY <3>3
  <2> QED
    BY <2>1, <2>2
<1>12. ASSUME NEW i \in 1 .. Len(t), i = n, t[i] \in start PROVE Len(r) >= n
  <2>1. i - m + 1 <= Len(rows)
    BY <1>12 DEF Stands
  <2>2. CASE m = 1
    BY <1>1, <1>12, <2>1, <2>2
  <2>3. CASE m > 1
    <3>1. m - 1 \in 1 .. Len(t) /\ m - 1 <= i
      BY <1>2, <1>12, <2>3
    <3>2. t[m - 1] \in start
      BY <1>12, <3>1 DEF Begins
    <3>3. Len(q) >= m - 1
      BY <3>1, <3>2 DEF Covers
    <3> QED
      BY <1>1, <1>12, <2>1, <3>3
  <2> QED
    BY <2>2, <2>3
<1> QED
  BY <1>9, <1>10, <1>11, <1>12 DEF Covers, r

\* The rows of a page stand where it says.
LEMMA PageStands ==
    ASSUME Types, 1 <= page[1], page[1] <= page[2], NEW start
    PROVE  Stands(table, start, PageOf(table), page[1], page[2])
<1>1. table \in Seq(1 .. inserted) /\ page \in Int \X Int /\ page[1] \in Int /\ page[2] \in Int
  BY Fields DEF Types
<1>2. /\ Size(page) >= 0 => Len(PageOf(table)) <= Size(page)
      /\ \A k \in 1 .. Len(PageOf(table)) :
            page[1] - 1 + k \in 1 .. Len(table) /\ PageOf(table)[k] = table[page[1] - 1 + k]
      /\ \A i \in 1 .. Len(table) :
            page[1] <= i /\ i <= page[2] => i - page[1] + 1 <= Len(PageOf(table))
  BY <1>1, PageRows
<1>3. Size(page) = page[2] - page[1] + 1 /\ Size(page) >= 0
  BY <1>1 DEF Size
<1> QED
  BY <1>1, <1>2, <1>3 DEF Stands

\* An action that leaves the page and the table as they are.
LEMMA CoveredKept ==
    ASSUME Covered, UNCHANGED <<table, paging>>, corrupt => corrupt',
           \/ ~Turned /\ ~Turned'
           \/ /\ Turned /\ Turned' /\ UNCHANGED <<page, failed>>
              /\ list'.alloc = list.alloc /\ cursor'.rows = cursor.rows
    PROVE  Covered'
<1> SUFFICES ASSUME paging.calm, ~corrupt
             PROVE  Covered'
  BY DEF Covered
<1>1. /\ Begins(table, paging.start) /\ paging.upto >= 1
      /\ Turned =>
            /\ ~failed /\ list.alloc # Unset
            /\ 1 <= page[1] /\ page[1] <= page[2] /\ paging.upto = page[2]
            /\ Covers(table, paging.start, paging.seen, page[1] - 1)
            /\ Stands(table, paging.start, cursor.rows, page[1], page[2])
      /\ ~Turned => Covers(table, paging.start, paging.seen, paging.upto)
  BY DEF Covered
<1> QED
  BY <1>1 DEF Covered, Begins, Covers, Stands

\* A list is turned to its next page, or to its first.
LEMMA CoveredTurn ==
    ASSUME IInv, ~corrupt, Turn, kind \in Paged, pc = "execute", Turned',
           UNCHANGED <<table, page, failed>>,
           cursor'.rows = PageOf(table), list'.alloc # Unset
    PROVE  Covered'
<1>0. Types /\ Reading /\ Covered /\ ~Turned /\ ~failed
  BY DEF IInv, Turned, Reading
<1> DEFINE goesOn == paging.of = kind /\ page[1] = paging.upto + 1
<1>1. /\ paging'.upto = page[2]
      /\ paging'.start = IF goesOn THEN paging.start ELSE ToSet(table)
      /\ paging'.seen = IF goesOn THEN paging.seen ELSE << >>
      /\ paging'.calm = (page[1] <= page[2] /\ (IF goesOn THEN paging.calm ELSE page[1] = 1))
  BY Zenon DEF Turn
<1>2. /\ table \in Seq(1 .. inserted) /\ Len(table) \in Nat
      /\ page[1] \in Int /\ page[2] \in Int /\ paging.upto \in Int
  BY <1>0, Fields DEF Types
<1> SUFFICES ASSUME paging'.calm
             PROVE  /\ Begins(table, paging'.start)
                    /\ 1 <= page[1] /\ page[1] <= page[2]
                    /\ Covers(table, paging'.start, paging'.seen, page[1] - 1)
                    /\ Stands(table, paging'.start, PageOf(table), page[1], page[2])
  <2>1. CASE ~paging'.calm
    BY <2>1 DEF Covered
  <2>2. CASE paging'.calm
    <3>1. /\ Begins(table, paging'.start)
          /\ 1 <= page[1] /\ page[1] <= page[2]
          /\ Covers(table, paging'.start, paging'.seen, page[1] - 1)
          /\ Stands(table, paging'.start, PageOf(table), page[1], page[2])
      BY <2>2
    <3>2. paging'.upto >= 1
      BY <1>1, <1>2, <3>1
    <3> QED
      BY <1>0, <1>1, <3>1, <3>2 DEF Covered, Begins, Covers, Stands
  <2> QED
    BY <2>1, <2>2
<1>3. CASE goesOn
  <2>1. paging.calm /\ page[1] <= page[2] /\ paging'.start = paging.start /\ paging'.seen = paging.seen
    BY <1>1, <1>3
  <2>2. /\ Begins(table, paging.start) /\ paging.upto >= 1
        /\ Covers(table, paging.start, paging.seen, paging.upto)
    BY <1>0, <2>1 DEF Covered
  <2>3. 1 <= page[1] /\ page[1] - 1 = paging.upto
    BY <1>2, <1>3, <2>2
  <2> QED
    BY <1>0, <2>1, <2>2, <2>3, PageStands
<1>4. CASE ~goesOn
  <2>1. page[1] = 1 /\ page[1] <= page[2] /\ paging'.start = ToSet(table) /\ paging'.seen = << >>
    BY <1>1, <1>4
  <2>2. Begins(table, ToSet(table)) /\ Covers(table, ToSet(table), << >>, 0)
    BY <1>2, BeginsAll, CoversNothing
  <2> QED
    BY <1>0, <2>1, <2>2, PageStands
<1> QED
  BY <1>3, <1>4

LEMMA CoveredExecuted == ASSUME IInv, ~corrupt, Executed PROVE Covered'
<1>0. Types /\ Covered /\ Memory /\ pc = "execute" /\ UNCHANGED <<table, kind, page, failed, corrupt>>
  BY ExecutedForms DEF IInv, Execute
<1>1. CASE kind \in Paged
  <2>1. /\ Turn /\ pc' \in {"fetch", "close"} /\ cursor'.rows = PageOf(table)
        /\ Malloc(Size(page)) \/ (kind = "payments" /\ UNCHANGED list)
    BY <1>1, ExecutedForms DEF Execute, Paged, IdLists, Counted, Listed
  <2>2. list'.alloc # Unset
    <3>1. Size(page) \in Int
      BY <1>0, Fields DEF Size
    <3>2. CASE Malloc(Size(page))
      BY <3>1, <3>2, MallocTypes
    <3>3. CASE kind = "payments" /\ UNCHANGED list
      BY <1>0, <3>3 DEF Memory
    <3> QED
      BY <2>1, <3>2, <3>3
  <2>3. Turned'
    BY <1>0, <1>1, <2>1 DEF Turned
  <2> QED
    BY <1>0, <1>1, <2>1, <2>2, <2>3, CoveredTurn
<1>2. CASE kind \notin Paged
  <2>1. UNCHANGED paging
    BY <1>2, ExecutedForms DEF Paged, IdLists
  <2>2. ~Turned /\ ~Turned'
    BY <1>0, <1>2 DEF Turned
  <2> QED
    BY <1>0, <2>1, <2>2, CoveredKept
<1> QED
  BY <1>1, <1>2

\* The client is told of the page, or not at all.
LEMMA CoveredAnswer == ASSUME IInv, ~corrupt, Answers PROVE Covered'
<1>0. Types /\ Reading /\ Covered
  BY DEF IInv
<1>1. PICK says \in {"none", "ok", "failed", "garbage"}, undefined \in BOOLEAN :
          /\ NetSendPacket(says, undefined)
          /\ \/ Told /\ (kind \in IdLists \/ (kind \in Listed /\ list.alloc >= 0))
             \/ paging' = [paging EXCEPT !.calm = FALSE]
             \/ UNCHANGED paging /\ (undefined \/ kind \notin Paged \/ list.alloc = Unset)
  BY AnswerForms
<1>2. pc = "answer" /\ pc' = "idle" /\ corrupt' = undefined /\ UNCHANGED <<table, kind>>
  BY <1>1 DEF NetSendPacket
<1>3. ~Turned'
  BY <1>2 DEF Turned
<1>4. CASE kind \notin Paged /\ UNCHANGED paging
  <2>1. ~Turned
    BY <1>4 DEF Turned
  <2> QED
    BY <1>0, <1>2, <1>3, <1>4, <2>1, CoveredKept
<1>5. CASE paging' = [paging EXCEPT !.calm = FALSE]
  BY <1>0, <1>5, CalmTypes DEF Covered
<1>6. CASE undefined
  BY <1>2, <1>6 DEF Covered
<1> SUFFICES ASSUME kind \in Paged, paging.calm, ~undefined,
                    \/ Told /\ (kind \in IdLists \/ (kind \in Listed /\ list.alloc >= 0))
                    \/ UNCHANGED paging /\ list.alloc = Unset
             PROVE  Covered'
  <2>1. CASE ~paging.calm /\ UNCHANGED paging
    BY <2>1 DEF Covered
  <2>2. CASE ~paging.calm /\ kind \in Paged /\ Told
    <3>1. paging'.calm = paging.calm
      BY <1>0, <2>2, Fields DEF Told, Types
    <3> QED
      BY <2>2, <3>1 DEF Covered
  <2>3. CASE kind \notin Paged /\ Told
    <3>1. UNCHANGED paging
      BY <2>3 DEF Told
    <3> QED
      BY <1>4, <2>3, <3>1
  <2>4. paging.calm \in BOOLEAN
    BY <1>0, Fields
  <2> QED
    BY <1>1, <1>4, <1>5, <1>6, <2>1, <2>2, <2>3, <2>4
<1>7. /\ Begins(table, paging.start) /\ paging.upto >= 1
      /\ ~failed /\ list.alloc # Unset
      /\ 1 <= page[1] /\ page[1] <= page[2] /\ paging.upto = page[2]
      /\ Covers(table, paging.start, paging.seen, page[1] - 1)
      /\ Stands(table, paging.start, cursor.rows, page[1], page[2])
  BY <1>0, <1>2 DEF Covered, Turned
<1>8. list.ids = cursor.rows
  BY <1>0, <1>2, <1>7 DEF Reading
<1>9. paging' = [paging EXCEPT !.seen = @ \o list.ids]
  BY <1>7 DEF Told
<1>10. /\ paging'.seen = paging.seen \o cursor.rows
       /\ paging'.start = paging.start /\ paging'.upto = paging.upto
  BY <1>0, <1>8, <1>9 DEF Types
<1>11. Covers(table, paging.start, paging.seen \o cursor.rows, page[2])
  <2>1. table \in Seq(1 .. inserted) /\ IsInjective(table)
    BY <1>0 DEF Types
  <2> QED
    BY <1>0, <1>7, <2>1, Fields, CoversPage
<1>12. /\ Begins(table', paging'.start) /\ paging'.upto >= 1
       /\ Covers(table', paging'.start, paging'.seen, paging'.upto)
  BY <1>2, <1>7, <1>10, <1>11
<1> QED
  BY <1>3, <1>12 DEF Covered, Begins, Covers

LEMMA CoveredInsert == ASSUME IInv, Insert PROVE Covered'
<1>0. Types /\ Covered
  BY DEF IInv
<1>1. /\ table' = Append(table, inserted + 1)
      /\ UNCHANGED <<pc, kind, page, cursor, list, failed, corrupt, paging>>
  BY DEF Insert
<1> SUFFICES ASSUME paging.calm, ~corrupt
             PROVE  Covered'
  BY <1>1 DEF Covered
<1>2. inserted \in Nat /\ table \in Seq(1 .. inserted) /\ 1 .. inserted \subseteq 1 .. inserted + 1
  BY <1>0 DEF Types
<1>3. table \in Seq(1 .. inserted + 1) /\ inserted + 1 \in 1 .. inserted + 1
  BY <1>2, SeqMonotonic
<1>4. inserted + 1 \notin paging.start
  BY <1>0, <1>2, Fields
<1>5. /\ Begins(table, paging.start) => Begins(table', paging.start)
      /\ \A q, u : Covers(table, paging.start, q, u) => Covers(table', paging.start, q, u)
      /\ \A rows, m, n : Stands(table, paging.start, rows, m, n) => Stands(table', paging.start, rows, m, n)
  BY <1>1, <1>3, <1>4, CoversAppend
<1>6. Turned' <=> Turned
  BY <1>1 DEF Turned
<1>7. /\ Begins(table', paging.start) /\ paging.upto >= 1
      /\ Turned' =>
            /\ ~failed /\ list.alloc # Unset
            /\ 1 <= page[1] /\ page[1] <= page[2] /\ paging.upto = page[2]
            /\ Covers(table', paging.start, paging.seen, page[1] - 1)
            /\ Stands(table', paging.start, cursor.rows, page[1], page[2])
      /\ ~Turned' => Covers(table', paging.start, paging.seen, paging.upto)
  BY <1>0, <1>5, <1>6 DEF Covered
<1>8. /\ Begins(table', paging'.start) /\ paging'.upto >= 1
      /\ Turned' =>
            /\ ~failed' /\ list'.alloc # Unset
            /\ 1 <= page'[1] /\ page'[1] <= page'[2] /\ paging'.upto = page'[2]
            /\ Covers(table', paging'.start, paging'.seen, page'[1] - 1)
            /\ Stands(table', paging'.start, cursor'.rows, page'[1], page'[2])
      /\ ~Turned' => Covers(table', paging'.start, paging'.seen, paging'.upto)
  BY <1>1, <1>7
<1> QED
  BY <1>8 DEF Covered, Begins, Covers, Stands

LEMMA CoveredStep == ASSUME IInv, [Next]_vars PROVE Covered'
<1>0. Types /\ Reading /\ Covered
  BY DEF IInv
<1>1. CASE UNCHANGED vars
  <2>1. UNCHANGED <<table, paging, corrupt, pc, kind, page, failed, list, cursor>>
    BY <1>1 DEF vars
  <2>2. Turned' = Turned
    BY <2>1 DEF Turned
  <2> QED
    BY <1>0, <2>1, <2>2, CoveredKept
<1> SUFFICES ASSUME ~corrupt, Next PROVE Covered'
  BY <1>1 DEF Next
<1>2. CASE Requested
  <2>1. PICK k \in Kinds : Prepared(k) \/ Refused(k)
    BY <1>2, RequestedForms
  <2>2. pc = "idle" /\ pc' \in {"idle", "execute"} /\ UNCHANGED <<table, paging>>
    BY <2>1 DEF Prepared, Refused, DbPrepare, Request
  <2>3. ~Turned /\ ~Turned'
    BY <2>2 DEF Turned
  <2> QED
    BY <1>0, <2>2, <2>3, CoveredKept
<1>3. CASE Executed
  BY <1>3, CoveredExecuted
<1>4. CASE DbExecuteRefused \/ FetchFails \/ (\E i \in DOMAIN table : Delete(i))
  <2>1. paging' = [paging EXCEPT !.calm = FALSE]
    BY <1>4 DEF DbExecuteRefused, FetchFails, Delete
  <2> QED
    BY <1>0, <2>1, CalmTypes DEF Covered
<1>5. CASE FetchRow \/ NoMoreRows \/ DbCloseQuery
  <2>1. /\ pc \in {"fetch", "close"} /\ pc' \in {"fetch", "close", "answer"}
        /\ UNCHANGED <<table, kind, page, failed, paging>>
    BY <1>5 DEF FetchRow, NoMoreRows, DbCloseQuery, Step
  <2>2. cursor'.rows = cursor.rows
    <3>1. \/ cursor' = cursor
          \/ cursor' = [cursor EXCEPT !.pos = cursor.pos + 1]
          \/ cursor' = [cursor EXCEPT !.pos = Len(cursor.rows) + 1]
      BY <1>5 DEF FetchRow, NoMoreRows, DbCloseQuery, Step
    <3> QED
      BY <1>0, <3>1, Fields
  <2>3. list'.alloc = list.alloc
    <3>1. \/ list' = list
          \/ list' = [list EXCEPT !.ids = Append(@, cursor.rows[cursor.pos + 1])]
      BY <1>5 DEF FetchRow, NoMoreRows, DbCloseQuery
    <3> QED
      BY <1>0, <3>1, Fields
  <2>4. Turned <=> Turned'
    BY <2>1 DEF Turned
  <2> QED
    BY <1>0, <2>1, <2>2, <2>3, <2>4, CoveredKept
<1>6. CASE CountRow \/ (\E fails \in BOOLEAN : CountEnd(fails)) \/ DbNext
  <2>1. pc \in {"count", "next"} /\ UNCHANGED <<table, kind, paging, corrupt>>
    BY <1>6 DEF CountRow, CountEnd, DbNext, Step
  <2>2. kind \notin Paged
    BY <1>0, <2>1 DEF Reading, Counted, Paged, IdLists
  <2>3. ~Turned /\ ~Turned'
    BY <2>1, <2>2 DEF Turned
  <2> QED
    BY <1>0, <2>1, <2>3, CoveredKept
<1>7. CASE Answers
  BY <1>7, CoveredAnswer
<1>8. CASE Insert
  BY <1>8, CoveredInsert
<1> QED
  BY <1>2, <1>3, <1>4, <1>5, <1>6, <1>7, <1>8 DEF Next, Handler, Others, Requested, Answers

-----------------------------------------------------------------------------
(* The theorems.                                                           *)

LEMMA InitInvariant == Init => IInv
<1> SUFFICES ASSUME Init PROVE IInv
  OBVIOUS
<1>1. /\ table = << >> /\ inserted = 0 /\ pc = "idle" /\ kind = "location" /\ page = NoPage
      /\ cursor = NoRows /\ list = NoList /\ value = 0 /\ failed = FALSE /\ answer = "none"
      /\ open = 0 /\ leaked = 0 /\ corrupt = FALSE /\ requests = 0
      /\ paging = [of |-> "location", upto |-> 0, start |-> {}, seen |-> << >>, calm |-> FALSE]
  BY DEF Init
<1>2. << >> \in Seq(1 .. 0) /\ IsInjective(<< >>) /\ Len(<< >>) = 0
  BY DEF IsInjective
<1>3. "location" \in Kinds /\ "idle" \in Steps
  BY DEF Kinds, LocationKinds, Steps
<1>4. paging \in [of : Kinds, upto : Int, start : SUBSET (1 .. inserted),
                  seen : Seq(1 .. inserted), calm : BOOLEAN]
  BY <1>1, <1>2, <1>3
<1>5. cursor \in [rows : Seq(1 .. inserted), pos : Nat] /\ list \in [alloc : Int, ids : Seq(1 .. inserted)]
  BY <1>1, <1>2
<1>6. Types
  <2>1. failed \in BOOLEAN /\ corrupt \in BOOLEAN
    BY <1>1, Zenon
  <2>2. 0 \in 0 .. MaxRows /\ 0 \in 0 .. MaxRequests /\ 0 \in Nat /\ 0 \in Int
    OBVIOUS
  <2>3. cursor.pos <= Len(cursor.rows) + 1 /\ list.alloc >= Unset
    BY <1>1, <1>2
  <2> QED
    BY <1>1, <1>2, <1>3, <1>4, <1>5, <2>1, <2>2, <2>3 DEF Types
<1>7. Handles /\ Covered
  BY <1>1 DEF Handles, Covered
<1>8. Reading /\ Memory
  BY <1>1, <1>2 DEF Reading, Memory, Paged, IdLists
<1> QED
  BY <1>6, <1>7, <1>8 DEF IInv

\* The inductive invariant holds: the rows, the memory and the statement of a
\* handler that lists, counts or looks up go together at each of its steps.
THEOREM Invariant == Spec => []IInv
<1>1. IInv /\ [Next]_vars => IInv'
  BY TypesStep, HandlesStep, MemoryStep, CoveredStep DEF IInv
<1> QED
  BY InitInvariant, <1>1, PTL DEF Spec

\* The rows that a handler reads, and those the client has been told of, are rows
\* of the table, and no more statements are open than the requests account for.
THEOREM TypeCorrect == Spec => []TypeOK
<1>1. IInv => TypeOK
  <2> SUFFICES ASSUME IInv PROVE TypeOK
    OBVIOUS
  <2>0. Types /\ Handles /\ Reading
    BY DEF IInv
  <2>1. \A s \in Seq(1 .. inserted) : ToSet(s) \subseteq 1 .. inserted
    <3>1. ASSUME NEW s \in Seq(1 .. inserted) PROVE ToSet(s) \subseteq 1 .. inserted
      <4>1. DOMAIN s = 1 .. Len(s)
        BY <3>1
      <4>2. \A i \in 1 .. Len(s) : s[i] \in 1 .. inserted
        BY <3>1, ElementOfSeq
      <4> QED
        BY <4>1, <4>2 DEF ToSet
    <3> QED
      BY <3>1
  <2>2. /\ table \in Seq(1 .. inserted) /\ cursor.rows \in Seq(1 .. inserted)
        /\ list.ids \in Seq(1 .. inserted) /\ paging.seen \in Seq(1 .. inserted)
        /\ paging.start \subseteq 1 .. inserted /\ paging.of \in Kinds
        /\ Len(cursor.rows) \in Nat /\ cursor.pos \in Nat
    BY <2>0, Fields DEF Types
  <2>3. ToSet(list.ids) \subseteq ToSet(cursor.rows)
    <3>1. /\ DOMAIN list.ids = 1 .. Len(list.ids) /\ DOMAIN cursor.rows = 1 .. Len(cursor.rows)
          /\ Len(list.ids) \in Nat
      BY <2>2
    <3> QED
      BY <2>0, <2>2, <3>1 DEF Reading, ToSet
  <2>4. {failed, corrupt, paging.calm} \subseteq BOOLEAN
    BY <2>0, Fields DEF Types
  <2>5. cursor.pos \in 0 .. Len(cursor.rows) + 1
    BY <2>0, <2>2 DEF Types
  <2>6. leaked \in 0 .. requests /\ open \in leaked .. leaked + 1
    BY <2>0 DEF Types, Handles
  <2>7. ToSet(table) \subseteq 1 .. inserted /\ ToSet(cursor.rows) \subseteq 1 .. inserted
        /\ ToSet(paging.seen) \subseteq 1 .. inserted
    BY <2>1, <2>2
  <2> QED
    BY <2>0, <2>2, <2>3, <2>4, <2>5, <2>6, <2>7 DEF Types, Steps, TypeOK
<1> QED
  BY Invariant, <1>1, PTL

\* QueryFollowerList, QueryPhotoList, QueryPayment and the others write no entry
\* outside the memory that malloc gave for max - min + 1 of them, whatever numbers
\* the client sends.
THEOREM ListFitsHolds == Spec => []ListFits
<1>1. IInv => ListFits
  <2>a. IInv /\ corrupt /\ pc = "fetch" => Outside
    BY DEF IInv, Memory
  <2> SUFFICES ASSUME IInv, kind # "locations", list.alloc >= 0, list.ids # << >>
               PROVE  Len(list.ids) <= list.alloc
    <3>1. IInv => list.alloc \in Int /\ (list.ids = << >> => Len(list.ids) = 0)
      BY Fields DEF IInv, Types
    <3> QED
      BY <2>a, <3>1 DEF ListFits, Outside
  <2>0. Types /\ Reading /\ Memory
    BY DEF IInv
  <2>1. Len(list.ids) <= Len(cursor.rows) /\ Len(list.ids) \in Nat /\ Len(cursor.rows) \in Nat
    BY <2>0, Fields DEF Reading
  <2>2. list.alloc \in Int /\ list.alloc >= Unset /\ list.alloc # Unset
    BY <2>0, Fields DEF Types, Memory
  <2>3. kind # "comments"
    <3> SUFFICES ASSUME kind = "comments" PROVE FALSE
      OBVIOUS
    <3>1. Len(cursor.rows) = 0
      BY <2>0 DEF Memory
    <3>2. list.ids \in Seq(1 .. inserted) /\ Len(list.ids) = 0
      BY <2>0, <2>1, <3>1, Fields
    <3> QED
      BY <3>2, EmptySeq
  <2>4. kind \in Paged
    BY <2>0, <2>3 DEF Memory, Listed
  <2> QED
    BY <2>0, <2>1, <2>2, <2>4 DEF Memory
<1> QED
  BY Invariant, <1>1, PTL

\* The loop over DbCursor and DbFetch writes the rows in their order, and all of
\* them before the list is answered, unless a fetch fails.
THEOREM ListIsPageHolds == Spec => []ListIsPage
<1>1. IInv => ListIsPage
  <2> SUFFICES ASSUME IInv PROVE ListIsPage
    OBVIOUS
  <2>0. Types /\ Reading
    BY DEF IInv
  <2>1. /\ cursor.rows \in Seq(1 .. inserted) /\ list.ids \in Seq(1 .. inserted)
        /\ Len(list.ids) \in Nat /\ Len(cursor.rows) \in Nat
    BY <2>0, Fields
  <2>2. /\ Len(list.ids) <= Len(cursor.rows)
        /\ \A k \in 1 .. Len(list.ids) : list.ids[k] = cursor.rows[k]
    BY <2>0 DEF Reading
  <2>3. SubSeq(cursor.rows, 1, Len(list.ids)) = list.ids
    <3>1. \A i \in 1 .. Len(list.ids) : cursor.rows[i] \in 1 .. inserted
      BY <2>1, <2>2, ElementOfSeq
    <3>2. /\ SubSeq(cursor.rows, 1, Len(list.ids)) \in Seq(1 .. inserted)
          /\ Len(SubSeq(cursor.rows, 1, Len(list.ids))) = Len(list.ids)
          /\ \A i \in 1 .. Len(list.ids) : SubSeq(cursor.rows, 1, Len(list.ids))[i] = cursor.rows[i]
      BY <2>1, <2>2, <3>1, SubSeqProperties
    <3> QED
      BY <2>1, <2>2, <3>2, SeqEqual
  <2>4. IsPrefix(list.ids, cursor.rows)
    BY <2>2, <2>3 DEF IsPrefix
  <2> QED
    BY <2>0, <2>4 DEF ListIsPage, Reading, Listed
<1> QED
  BY Invariant, <1>1, PTL

\* DbResultCount, and what its callers make of it, is the number of rows.
THEOREM CountIsRowsHolds == Spec => []CountIsRows
<1>1. IInv => CountIsRows
  <2> SUFFICES ASSUME IInv, pc = "answer", ~failed
               PROVE  /\ kind = "followingCount" => value = Len(cursor.rows)
                      /\ kind \in {"isFollowing", "isFriend"} => (value = 1 <=> cursor.rows # << >>)
    BY DEF CountIsRows
  <2>0. Types /\ Reading
    BY DEF IInv
  <2>1. kind \in Counted => value = Counting(Len(cursor.rows))
    BY <2>0 DEF Reading
  <2>2. cursor.rows \in Seq(1 .. inserted) /\ (Len(cursor.rows) = 0 <=> cursor.rows = << >>)
    BY <2>0, Fields, EmptySeq
  <2> QED
    BY <2>1, <2>2 DEF Counting, Counted
<1> QED
  BY Invariant, <1>1, PTL

\* A client that reads a list page by page, for any sizes of its pages and any
\* rows inserted meanwhile, is told of no row twice, and of every row there was
\* when it began once a page comes back short.
THEOREM PagesWholeHolds == Spec => []PagesWhole
<1>1. IInv => PagesWhole
  <2> SUFFICES ASSUME IInv, paging.calm, pc = "idle", ~corrupt
               PROVE  /\ IsInjective(paging.seen)
                      /\ Len(paging.seen) < paging.upto => paging.start \subseteq ToSet(paging.seen)
    BY DEF PagesWhole
  <2>1. /\ Begins(table, paging.start)
        /\ Covers(table, paging.start, paging.seen, paging.upto)
    BY DEF IInv, Covered, Turned
  <2>2. /\ Len(paging.seen) \in Nat /\ DOMAIN paging.seen = 1 .. Len(paging.seen)
        /\ Len(table) \in Nat /\ paging.upto \in Int /\ paging.upto >= 1
    BY Fields DEF IInv, Covered
  <2>3. ASSUME Len(paging.seen) < paging.upto, NEW x \in paging.start
        PROVE  x \in ToSet(paging.seen)
    <3>1. PICK i \in 1 .. Len(table) : x = table[i]
      BY <2>1 DEF Begins
    <3>2. i <= paging.upto
      <4> SUFFICES ASSUME i > paging.upto PROVE FALSE
        BY <2>2
      <4>1. paging.upto \in 1 .. Len(table) /\ paging.upto <= i
        BY <2>2
      <4>2. table[paging.upto] \in paging.start
        BY <2>1, <3>1, <4>1 DEF Begins
      <4>3. Len(paging.seen) >= paging.upto
        BY <2>1, <4>1, <4>2 DEF Covers
      <4> QED
        BY <2>2, <2>3, <4>3
    <3>3. PICK k \in 1 .. Len(paging.seen) : paging.seen[k] = table[i]
      BY <2>1, <3>1, <3>2 DEF Covers
    <3> QED
      BY <2>2, <3>1, <3>3 DEF ToSet
  <2> QED
    BY <2>1, <2>3 DEF Covers
<1> QED
  BY Invariant, <1>1, PTL

\* Whichever way a handler ends, DbCloseQuery has closed its statement, except for
\* the updates of PushLocation and PushPayment that are refused.
THEOREM HandlesClosedHolds == Spec => []HandlesClosed
<1>1. IInv => HandlesClosed
  BY DEF IInv, Handles, HandlesClosed, Types
<1> QED
  BY Invariant, <1>1, PTL

=============================================================================
