-------------------------------- MODULE Photos --------------------------------
(***************************************************************************)
(* Photos, the likes they get and the comments on them: the tables photo,  *)
(* photo_like and photo_comment, and photo.like, the number of likes.      *)
(*                                                                         *)
(* As in Relations, every SQL statement is committed by itself and those   *)
(* of other handlers run in between.  The tables are external:             *)
(* db_manual.txt lists their columns and no keys.  The database numbers    *)
(* photos and comments from 1 on and uses no number twice; like starts     *)
(* at 0.  Clients name photos and comments that were posted, and may name  *)
(* them after they were deleted; for the number of a comment they may send *)
(* that of a photo, which is what PhotoCommentPush told them.              *)
(*                                                                         *)
(* Every client is logged in: the handlers use d.handle->user without a    *)
(* look at it, and the server does not survive a request before a login.   *)
(***************************************************************************)
EXTENDS Integers, FiniteSets

CONSTANTS
    Conns,       \* connections
    Users,       \* ids in the table account
    UserOf,      \* UserOf[c]: the user logged in on c
    Nobody,      \* no user
    MayFail,     \* can the database refuse a statement
    MaxPhotos,   \* BOUND: the photos that are posted
    MaxComments, \* BOUND: the comments that are posted
    MaxRequests  \* BOUND: the requests that clients make

ASSUME PhotosAssumption ==
    /\ UserOf \in [Conns -> Users]
    /\ IsFiniteSet(Users) /\ Nobody \notin Users
    /\ MayFail \in BOOLEAN
    /\ {MaxPhotos, MaxComments, MaxRequests} \subseteq Nat

VARIABLES
    owner,      \* owner[p]: photo.id of photo p, Nobody if there is no such row
    posted,     \* the photos posted so far
    like,       \* photo.like
    photoLike,  \* photoLike[<<u, p>>]: rows with id u and photo_id p
    comments,   \* the rows of photo_comment
    commented,  \* the comments posted so far
    hpc,        \* the statement that the handler of c runs next
    target,     \* the photo that the handler is about, 0 when it is idle
    answer,     \* the answer to the last request: _OK or _FAILED
    refused,    \* the likes of which a statement has failed
    requests    \* requests so far

photoVars == <<owner, posted, like, photoLike>>
commentVars == <<comments, commented>>
vars == <<photoVars, commentVars, hpc, target, answer, refused, requests>>

PhotoIds == 1 .. MaxPhotos
Comment == [comment_id : 1 .. MaxComments, photo_id : PhotoIds, id : Users]

Steps == {"idle", "lastInsertId", "likeCount", "likeInsert", "dislikeCount", "dislikeDelete"}

TypeOK ==
    /\ posted \in 0 .. MaxPhotos
    /\ owner \in [PhotoIds -> Users \cup {Nobody}]
    /\ \A p \in PhotoIds : owner[p] # Nobody => p <= posted
    /\ like \in [PhotoIds -> Int]
    /\ photoLike \in [Users \X PhotoIds -> Nat]
    /\ commented \in 0 .. MaxComments
    /\ comments \subseteq {m \in Comment : m.comment_id <= commented}
    /\ hpc \in [Conns -> Steps]
    /\ target \in [Conns -> 0 .. posted]
    /\ \A c \in Conns : target[c] = 0 <=> hpc[c] = "idle"
    /\ answer \in [Conns -> {"none", "ok", "failed"}]
    /\ refused \subseteq Users \X PhotoIds
    /\ requests \in 0 .. MaxRequests

Init ==
    /\ posted = 0
    /\ owner = [p \in PhotoIds |-> Nobody]
    /\ like = [p \in PhotoIds |-> 0]
    /\ photoLike = [r \in Users \X PhotoIds |-> 0]
    /\ comments = {} /\ commented = 0
    /\ hpc = [c \in Conns |-> "idle"]
    /\ target = [c \in Conns |-> 0]
    /\ answer = [c \in Conns |-> "none"]
    /\ refused = {}
    /\ requests = 0

-----------------------------------------------------------------------------
(* What a handler is made of.                                              *)

src(c) == UserOf[c]
Row(c) == <<src(c), target[c]>>
Exists(p) == owner[p] # Nobody

Request(c) ==
    /\ hpc[c] = "idle" /\ requests < MaxRequests
    /\ requests' = requests + 1

Goto(c, step, p) ==
    /\ hpc' = [hpc EXCEPT ![c] = step]
    /\ target' = [target EXCEPT ![c] = p]
    /\ answer' = [answer EXCEPT ![c] = "none"]

Answer(c, a) ==
    /\ hpc' = [hpc EXCEPT ![c] = "idle"]
    /\ target' = [target EXCEPT ![c] = 0]
    /\ answer' = [answer EXCEPT ![c] = a]

\* DbExecute is refused: the handler answers _FAILED.
Refused(c) == MayFail /\ Answer(c, "failed")

\* The second statement of PushPhoto and PushPhotoComment asks for the number
\* that the row got.
LastInsertId(c) ==
    /\ hpc[c] = "lastInsertId"
    /\ Answer(c, "ok") \/ Refused(c)
    /\ UNCHANGED <<photoVars, commentVars, refused, requests>>

-----------------------------------------------------------------------------
(* Photos.                                                                 *)

PushPhoto(c) ==
    /\ Request(c)
    /\ \/ /\ posted < MaxPhotos
          /\ posted' = posted + 1
          /\ owner' = [owner EXCEPT ![posted'] = src(c)]
          /\ Goto(c, "lastInsertId", posted')
       \/ Refused(c) /\ UNCHANGED <<posted, owner>>
    /\ UNCHANGED <<like, photoLike, commentVars, refused>>

\* Only the row of the photo goes, and only if it is the user's own; its likes
\* and comments stay.  A photo that is not there is deleted without complaint.
DeletePhoto(c, p) ==
    /\ Request(c)
    /\ \/ /\ owner' = [owner EXCEPT ![p] = IF @ = src(c) THEN Nobody ELSE @]
          /\ Answer(c, "ok")
       \/ Refused(c) /\ UNCHANGED owner
    /\ UNCHANGED <<posted, like, photoLike, commentVars, refused>>

-----------------------------------------------------------------------------
(* Likes.                                                                  *)

Likers(p) == {u \in Users : photoLike[<<u, p>>] > 0}

\* A look-up that is refused says that there is no row.
QueryLikePhoto(c, p, says) ==
    \/ says = (src(c) \in Likers(p)) /\ UNCHANGED refused
    \/ MayFail /\ says = FALSE /\ refused' = refused \cup {<<src(c), p>>}

\* VARIANT of LikePhoto: a like that is there already is not refused.
LikePhotoAgain(c, p) ==
    /\ Request(c)
    /\ \E says \in BOOLEAN : QueryLikePhoto(c, p, says)
    /\ Goto(c, "likeCount", p)
    /\ UNCHANGED <<photoVars, commentVars>>

LikePhoto(c, p) ==
    /\ Request(c)
    /\ \/ QueryLikePhoto(c, p, TRUE) /\ Answer(c, "failed")
       \/ QueryLikePhoto(c, p, FALSE) /\ Goto(c, "likeCount", p)
    /\ UNCHANGED <<photoVars, commentVars>>

DislikePhoto(c, p) ==
    /\ Request(c)
    /\ \/ QueryLikePhoto(c, p, FALSE) /\ Answer(c, "failed")
       \/ QueryLikePhoto(c, p, TRUE) /\ Goto(c, "dislikeCount", p)
    /\ UNCHANGED <<photoVars, commentVars>>

\* update photo set like = like + n, which finds no row of a deleted photo.
CountLike(c, from, n, to) ==
    /\ hpc[c] = from
    /\ \/ /\ like' = [like EXCEPT ![target[c]] = IF Exists(target[c]) THEN @ + n ELSE @]
          /\ hpc' = [hpc EXCEPT ![c] = to]
          /\ UNCHANGED <<target, answer, refused>>
       \/ Refused(c) /\ refused' = refused \cup {Row(c)} /\ UNCHANGED like
    /\ UNCHANGED <<owner, posted, photoLike, commentVars, requests>>

LikeCount(c) == CountLike(c, "likeCount", 1, "likeInsert")

DislikeCount(c) == CountLike(c, "dislikeCount", -1, "dislikeDelete")

LikeInsert(c) ==
    /\ hpc[c] = "likeInsert"
    /\ \/ /\ photoLike' = [photoLike EXCEPT ![Row(c)] = @ + 1]
          /\ Answer(c, "ok") /\ UNCHANGED refused
       \/ Refused(c) /\ refused' = refused \cup {Row(c)} /\ UNCHANGED photoLike
    /\ UNCHANGED <<owner, posted, like, commentVars, requests>>

DislikeDelete(c) ==
    /\ hpc[c] = "dislikeDelete"
    /\ \/ /\ photoLike' = [photoLike EXCEPT ![Row(c)] = 0]
          /\ Answer(c, "ok") /\ UNCHANGED refused
       \/ Refused(c) /\ refused' = refused \cup {Row(c)} /\ UNCHANGED photoLike
    /\ UNCHANGED <<owner, posted, like, commentVars, requests>>

-----------------------------------------------------------------------------
(* Comments.                                                               *)

PushPhotoComment(c, p) ==
    /\ Request(c)
    /\ \/ /\ commented < MaxComments
          /\ commented' = commented + 1
          /\ comments' = comments \cup
                {[comment_id |-> commented', photo_id |-> p, id |-> src(c)]}
          /\ Goto(c, "lastInsertId", p)
       \/ Refused(c) /\ UNCHANGED commentVars
    /\ UNCHANGED <<photoVars, refused>>

\* The number that the client sends is compared with photo_id.
DeletePhotoComment(c, comment_id) ==
    /\ Request(c)
    /\ \/ /\ comments' = {m \in comments : m.photo_id # comment_id \/ m.id # src(c)}
          /\ Answer(c, "ok")
       \/ Refused(c) /\ UNCHANGED comments
    /\ UNCHANGED <<photoVars, commented, refused>>

-----------------------------------------------------------------------------
PhotoStep(c) ==
    \/ PushPhoto(c) \/ LastInsertId(c)
    \/ \E p \in 1 .. posted : DeletePhoto(c, p)

LikeStep(c) ==
    \/ \E p \in 1 .. posted : LikePhoto(c, p) \/ DislikePhoto(c, p)
    \/ LikeCount(c) \/ LikeInsert(c) \/ DislikeCount(c) \/ DislikeDelete(c)

CommentStep(c) ==
    \/ \E p \in 1 .. posted : PushPhotoComment(c, p)
    \/ \E k \in 1 .. commented \cup 1 .. posted : DeletePhotoComment(c, k)

Next == \E c \in Conns : PhotoStep(c) \/ LikeStep(c) \/ CommentStep(c)

Spec == Init /\ [][Next]_vars

-----------------------------------------------------------------------------
(* Properties.                                                             *)

\* Nobody is logged in twice ("one user, one db connection").
SoleLogins == \A c, d \in Conns : src(c) = src(d) => c = d

\* No handler is about photo p, and no statement about a like of p has failed.
Settled(p) ==
    /\ \A c \in Conns : target[c] # p
    /\ \A u \in Users : <<u, p>> \notin refused

\* photo.like is the number of users who like the photo, whenever no handler is
\* about it: likes and dislikes of several users, each a look-up, a count and a
\* row that others run between, leave the count right.
LikesCount ==
    SoleLogins =>
        \A p \in PhotoIds : Exists(p) /\ Settled(p) => like[p] = Cardinality(Likers(p))

=============================================================================
