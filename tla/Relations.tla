------------------------------ MODULE Relations ------------------------------
(***************************************************************************)
(* Who follows whom and who is whose friend: the tables follow and friend, *)
(* and the counters that account keeps of them.                            *)
(*                                                                         *)
(* A handler runs SQL statements one at a time on the database connection  *)
(* of its client, each committed by itself; no transaction and no lock     *)
(* joins them, and handlers of other connections run in between.  The      *)
(* tables are external: db_manual.txt lists their columns and no keys, and *)
(* nothing in src/ relies on one that refuses a second equal row.  A row is*)
(* known by its two users, and a table by how often it holds each row.     *)
(*                                                                         *)
(* Every connection here is logged in.  On one that is not the handlers of *)
(* Follow and Unfollow answer _FAILED, and those of Friend and Unfriend    *)
(* read the id of a user that is not there (FriendHandler.cpp:15, :42): a  *)
(* crash of the server, which is not modelled.                             *)
(***************************************************************************)
EXTENDS Integers, FiniteSets

CONSTANTS
    Conns,       \* connections
    Users,       \* ids in the table account
    UserOf,      \* UserOf[c]: the user logged in on c
    Nobody,      \* no request under way, so no other user
    MaxFailures, \* BOUND: the statements of one user that the database refuses
    MaxRequests  \* BOUND: the requests that clients make

ASSUME RelationsAssumption ==
    /\ UserOf \in [Conns -> Users]
    /\ IsFiniteSet(Conns) /\ IsFiniteSet(Users) /\ Nobody \notin Users
    /\ MaxFailures \in Nat
    /\ MaxRequests \in Nat

VARIABLES
    follow,    \* follow[<<u, v>>]: rows with follower u and followed v
    followed,  \* account.followed, which Follow and Unfollow keep for src
    friend,    \* friend[<<u, v>>]: rows with id u and friend v
    friends,   \* account.friends
    hpc,       \* the statement that the handler of c runs next
    dst,       \* the other user of the request
    answer,    \* the answer to the last request: _OK or _FAILED
    failures,  \* failures[u]: the statements of u that the database refused
    requests   \* requests so far

followVars == <<follow, followed>>
friendVars == <<friend, friends>>
vars == <<followVars, friendVars, hpc, dst, answer, failures, requests>>

Steps == {"idle", "followInsert", "followCount", "unfollowDelete", "unfollowCount",
          "friendInsert", "friendCount", "unfriendDelete", "unfriendCount"}

TypeOK ==
    /\ follow \in [Users \X Users -> Nat]
    /\ followed \in [Users -> Int]
    /\ friend \in [Users \X Users -> Nat]
    /\ friends \in [Users -> Int]
    /\ hpc \in [Conns -> Steps]
    /\ dst \in [Conns -> Users \cup {Nobody}]
    /\ \A c \in Conns : (dst[c] = Nobody) <=> (hpc[c] = "idle")
    /\ answer \in [Conns -> {"none", "ok", "failed"}]
    /\ failures \in [Users -> Nat]
    /\ requests \in 0 .. MaxRequests

Init ==
    /\ follow = [p \in Users \X Users |-> 0]
    /\ followed = [u \in Users |-> 0]
    /\ friend = [p \in Users \X Users |-> 0]
    /\ friends = [u \in Users |-> 0]
    /\ hpc = [c \in Conns |-> "idle"]
    /\ dst = [c \in Conns |-> Nobody]
    /\ answer = [c \in Conns |-> "none"]
    /\ failures = [u \in Users |-> 0]
    /\ requests = 0

-----------------------------------------------------------------------------
(* What a handler is made of.                                              *)

src(c) == UserOf[c]
Row(c) == <<src(c), dst[c]>>

Goto(c, step) == hpc' = [hpc EXCEPT ![c] = step] /\ UNCHANGED <<dst, answer>>

Answer(c, a) ==
    /\ hpc' = [hpc EXCEPT ![c] = "idle"]
    /\ dst' = [dst EXCEPT ![c] = Nobody]
    /\ answer' = [answer EXCEPT ![c] = a]

Fails(c) ==
    /\ failures[src(c)] < MaxFailures
    /\ failures' = [failures EXCEPT ![src(c)] = @ + 1]

\* ProcessPacket calls a handler that first looks a row up.  A look-up that
\* fails leaves the row count uninitialised: anything may come out of it.  The
\* handler goes on at `step` if the row is, or is not, there, as `wanted` says.
Request(c, v, found, wanted, step) ==
    /\ hpc[c] = "idle" /\ requests < MaxRequests
    /\ requests' = requests + 1
    /\ \E says \in BOOLEAN :
          /\ \/ says = found /\ UNCHANGED failures
             \/ Fails(c)
          /\ IF says = wanted
             THEN /\ hpc' = [hpc EXCEPT ![c] = step]
                  /\ dst' = [dst EXCEPT ![c] = v]
                  /\ answer' = [answer EXCEPT ![c] = "none"]
             ELSE Answer(c, "failed")
    /\ UNCHANGED <<followVars, friendVars>>

\* DbExecute is refused: the handler cleans up and answers _FAILED.
Refused(c) == Fails(c) /\ Answer(c, "failed")

-----------------------------------------------------------------------------
(* Follow and Unfollow.                                                    *)

IsFollowing(u, v) == follow[<<u, v>>] > 0

Following(u) == {v \in Users : IsFollowing(u, v)}

\* VARIANT of Follow: the row is not looked up.
FollowAgain(c, v) == Request(c, v, FALSE, FALSE, "followInsert")

Follow(c, v) == Request(c, v, IsFollowing(src(c), v), FALSE, "followInsert")

\* VARIANT of FollowInsert: the result of the insert is not looked at.
FollowInsertUnchecked(c) ==
    /\ hpc[c] = "followInsert"
    /\ Goto(c, "followCount")
    /\ \/ follow' = [follow EXCEPT ![Row(c)] = @ + 1] /\ UNCHANGED failures
       \/ Fails(c) /\ UNCHANGED follow
    /\ UNCHANGED <<followed, friendVars, requests>>

FollowInsert(c) ==
    /\ hpc[c] = "followInsert"
    /\ \/ /\ Goto(c, "followCount")
          /\ follow' = [follow EXCEPT ![Row(c)] = @ + 1]
          /\ UNCHANGED failures
       \/ Refused(c) /\ UNCHANGED follow
    /\ UNCHANGED <<followed, friendVars, requests>>

\* VARIANT of FollowCount: the counter of the other user is kept.
FollowCountOther(c) ==
    /\ hpc[c] = "followCount"
    /\ \/ /\ Answer(c, "ok")
          /\ followed' = [followed EXCEPT ![dst[c]] = @ + 1]
          /\ UNCHANGED failures
       \/ Refused(c) /\ UNCHANGED followed
    /\ UNCHANGED <<follow, friendVars, requests>>

\* update account set followed = followed + 1, where id is src.
FollowCount(c) ==
    /\ hpc[c] = "followCount"
    /\ \/ /\ Answer(c, "ok")
          /\ followed' = [followed EXCEPT ![src(c)] = @ + 1]
          /\ UNCHANGED failures
       \/ Refused(c) /\ UNCHANGED followed
    /\ UNCHANGED <<follow, friendVars, requests>>

\* VARIANT of Unfollow: the row is not looked up.
UnfollowAnyway(c, v) == Request(c, v, TRUE, TRUE, "unfollowDelete")

Unfollow(c, v) == Request(c, v, IsFollowing(src(c), v), TRUE, "unfollowDelete")

\* All rows of the pair are deleted.
UnfollowDelete(c) ==
    /\ hpc[c] = "unfollowDelete"
    /\ \/ /\ Goto(c, "unfollowCount")
          /\ follow' = [follow EXCEPT ![Row(c)] = 0]
          /\ UNCHANGED failures
       \/ Refused(c) /\ UNCHANGED follow
    /\ UNCHANGED <<followed, friendVars, requests>>

UnfollowCount(c) ==
    /\ hpc[c] = "unfollowCount"
    /\ \/ /\ Answer(c, "ok")
          /\ followed' = [followed EXCEPT ![src(c)] = @ - 1]
          /\ UNCHANGED failures
       \/ Refused(c) /\ UNCHANGED followed
    /\ UNCHANGED <<follow, friendVars, requests>>

-----------------------------------------------------------------------------
(* Friend and Unfriend.  Each user adds the other; they are friends when    *)
(* both have.                                                               *)

IsFriended(u, v) == friend[<<u, v>>] > 0 /\ friend[<<v, u>>] > 0

\* Those whom u has added, as QueryFriendList lists them.
Befriended(u) == {v \in Users : friend[<<u, v>>] > 0}

Friend(c, v) == Request(c, v, IsFriended(src(c), v), FALSE, "friendInsert")

FriendInsert(c) ==
    /\ hpc[c] = "friendInsert"
    /\ \/ /\ Goto(c, "friendCount")
          /\ friend' = [friend EXCEPT ![Row(c)] = @ + 1]
          /\ UNCHANGED failures
       \/ Refused(c) /\ UNCHANGED friend
    /\ UNCHANGED <<friends, followVars, requests>>

FriendCount(c) ==
    /\ hpc[c] = "friendCount"
    /\ \/ /\ Answer(c, "ok")
          /\ friends' = [friends EXCEPT ![src(c)] = @ + 1]
          /\ UNCHANGED failures
       \/ Refused(c) /\ UNCHANGED friends
    /\ UNCHANGED <<friend, followVars, requests>>

\* VARIANT of Unfriend: it is not looked whether they are friends.
UnfriendAnyway(c, v) == Request(c, v, TRUE, TRUE, "unfriendDelete")

Unfriend(c, v) == Request(c, v, IsFriended(src(c), v), TRUE, "unfriendDelete")

\* VARIANT of UnfriendDelete: the rows of the other user go instead.
UnfriendDeleteOther(c) ==
    /\ hpc[c] = "unfriendDelete"
    /\ \/ /\ Goto(c, "unfriendCount")
          /\ friend' = [friend EXCEPT ![<<dst[c], src(c)>>] = 0]
          /\ UNCHANGED failures
       \/ Refused(c) /\ UNCHANGED friend
    /\ UNCHANGED <<friends, followVars, requests>>

\* All rows that src has for the pair are deleted; those of dst stay.
UnfriendDelete(c) ==
    /\ hpc[c] = "unfriendDelete"
    /\ \/ /\ Goto(c, "unfriendCount")
          /\ friend' = [friend EXCEPT ![Row(c)] = 0]
          /\ UNCHANGED failures
       \/ Refused(c) /\ UNCHANGED friend
    /\ UNCHANGED <<friends, followVars, requests>>

UnfriendCount(c) ==
    /\ hpc[c] = "unfriendCount"
    /\ \/ /\ Answer(c, "ok")
          /\ friends' = [friends EXCEPT ![src(c)] = @ - 1]
          /\ UNCHANGED failures
       \/ Refused(c) /\ UNCHANGED friends
    /\ UNCHANGED <<friend, followVars, requests>>

-----------------------------------------------------------------------------
FollowStep(c) ==
    \/ \E v \in Users : Follow(c, v) \/ Unfollow(c, v)
    \/ FollowInsert(c) \/ FollowCount(c) \/ UnfollowDelete(c) \/ UnfollowCount(c)

FriendStep(c) ==
    \/ \E v \in Users : Friend(c, v) \/ Unfriend(c, v)
    \/ FriendInsert(c) \/ FriendCount(c) \/ UnfriendDelete(c) \/ UnfriendCount(c)

Next == \E c \in Conns : FollowStep(c) \/ FriendStep(c)

Spec == Init /\ [][Next]_vars

-----------------------------------------------------------------------------
(* Properties.                                                             *)

SessionsOf(u) == {c \in Conns : src(c) = u}

\* u is logged in on one connection at most ("one user, one db connection").
Sole(u) == \A c, d \in SessionsOf(u) : c = d

AtRest(u) == \A c \in SessionsOf(u) : hpc[c] = "idle"

\* The look-up and the insert of Follow are not one transaction: a user may come
\* to follow another as often as there are connections that look before one of
\* them inserts, and once more for each of its statements that was refused (a
\* look-up that fails may say anything).  More than that is never possible.
FollowsBounded ==
    \A u, v \in Users : follow[<<u, v>>] <= Cardinality(SessionsOf(u)) + failures[u]

\* account.followed counts whom u follows (the server answers it to those who ask
\* how many follow u).  For a user who is logged in once, and between requests,
\* it is off by at most the number of its statements that were refused.
FollowingCounted ==
    \A u \in Users : Sole(u) /\ AtRest(u) =>
        /\ followed[u] <= Cardinality(Following(u)) + failures[u]
        /\ followed[u] >= Cardinality(Following(u)) - failures[u]

\* account.friends falls below the number of users u has added by no more than
\* the number of statements of u that were refused, whatever the others add and
\* remove between the look-up and the statements of u (u being logged in once,
\* and between requests).
FriendsNotUndercounted ==
    \A u \in Users : Sole(u) /\ AtRest(u) =>
        friends[u] >= Cardinality(Befriended(u)) - failures[u]

\* A user logged in once and told that following, or unfollowing, went well can
\* rely on it, even when the database refuses statements.
FollowAnswerTrue ==
    [][\A c \in Conns : Sole(src(c)) /\ answer[c] = "none" /\ answer'[c] = "ok" =>
         /\ hpc[c] = "followCount" => follow'[Row(c)] > 0
         /\ hpc[c] = "unfollowCount" => follow'[Row(c)] = 0]_vars

\* After an Unfriend that was answered well its user, logged in once, no longer
\* has the other as a friend, however often the other was added, and so the two are no friends.
UnfriendAnswerTrue ==
    [][\A c \in Conns : Sole(src(c)) /\ hpc[c] = "unfriendCount" /\ answer'[c] = "ok"
         => friend'[Row(c)] = 0]_vars

=============================================================================
