----------------------------- MODULE PhotosProofs -----------------------------
(***************************************************************************)
(* Proofs about Photos, for every finite set of users, every set of        *)
(* connections and any number of photos, comments and requests.            *)
(***************************************************************************)
EXTENDS Photos, FiniteSetTheorems, TLAPS

USE PhotosAssumption DEF photoVars, commentVars, PhotoIds

-----------------------------------------------------------------------------
(* Every state of the specification is well typed.                         *)

\* A request more is within its bound.
LEMMA RequestTyped ==
    ASSUME TypeOK, NEW c \in Conns, Request(c)
    PROVE  requests' \in 0 .. MaxRequests
<1>1. MaxRequests \in Nat
  OBVIOUS
<1> QED
  BY <1>1 DEF Request, TypeOK

\* What a handler does besides its statement keeps the types.
LEMMA AnswerTyped ==
    ASSUME TypeOK, NEW c \in Conns, NEW a \in {"ok", "failed"}, Answer(c, a), posted' >= posted,
           posted' \in Nat
    PROVE  /\ hpc' \in [Conns -> Steps]
           /\ target' \in [Conns -> 0 .. posted']
           /\ \A d \in Conns : target'[d] = 0 <=> hpc'[d] = "idle"
           /\ answer' \in [Conns -> {"none", "ok", "failed"}]
  BY DEF Answer, TypeOK, Steps

LEMMA GotoTyped ==
    ASSUME TypeOK, NEW c \in Conns, NEW step \in Steps \ {"idle"}, NEW p \in 1 .. posted',
           Goto(c, step, p), posted' >= posted, posted' \in Nat
    PROVE  /\ hpc' \in [Conns -> Steps]
           /\ target' \in [Conns -> 0 .. posted']
           /\ \A d \in Conns : target'[d] = 0 <=> hpc'[d] = "idle"
           /\ answer' \in [Conns -> {"none", "ok", "failed"}]
  BY DEF Goto, TypeOK, Steps

LEMMA TypeStep == TypeOK /\ [Next]_vars => TypeOK'
<1> SUFFICES ASSUME TypeOK, [Next]_vars PROVE TypeOK'
  OBVIOUS
<1>1. ASSUME NEW c \in Conns, PhotoStep(c) PROVE TypeOK'
  <2>0. src(c) \in Users
    BY DEF src
  <2>1. CASE PushPhoto(c)
    <3>1. CASE posted < MaxPhotos /\ posted' = posted + 1 /\ Goto(c, "lastInsertId", posted')
               /\ owner' = [owner EXCEPT ![posted'] = src(c)]
      <4>1. posted' \in 1 .. MaxPhotos /\ posted' >= posted
        BY <3>1 DEF TypeOK
      <4>2. /\ hpc' \in [Conns -> Steps] /\ target' \in [Conns -> 0 .. posted']
            /\ \A d \in Conns : target'[d] = 0 <=> hpc'[d] = "idle"
            /\ answer' \in [Conns -> {"none", "ok", "failed"}]
        BY <3>1, <4>1, GotoTyped DEF Steps
      <4>0. posted < posted' /\ posted \in Nat /\ posted' \in Nat
        BY <3>1 DEF TypeOK
      <4>3. /\ owner' \in [1 .. MaxPhotos -> Users \cup {Nobody}]
            /\ \A p \in 1 .. MaxPhotos : owner'[p] # Nobody => p <= posted'
        BY <2>0, <3>1, <4>0, <4>1, SMTT(30) DEF TypeOK
      <4>4. UNCHANGED <<like, photoLike, comments, commented, refused>>
        BY <2>1 DEF PushPhoto
      <4>5. requests' \in 0 .. MaxRequests
        BY <2>1, RequestTyped DEF PushPhoto
      <4>6. posted' \in 0 .. MaxPhotos
        BY <4>1
      <4> QED
        BY <4>2, <4>3, <4>4, <4>5, <4>6 DEF TypeOK
    <3>2. CASE Refused(c) /\ UNCHANGED <<posted, owner>>
      <4>1. Answer(c, "failed") /\ posted' >= posted /\ posted' \in Nat
        BY <3>2 DEF Refused, TypeOK
      <4> QED
        BY <2>1, <3>2, <4>1, AnswerTyped, RequestTyped DEF PushPhoto, TypeOK
    <3> QED
      BY <2>1, <3>1, <3>2 DEF PushPhoto
  <2>2. CASE LastInsertId(c)
    <3>1. posted' >= posted /\ posted' \in Nat
      BY <2>2 DEF LastInsertId, TypeOK
    <3> QED
      BY <2>2, <3>1, AnswerTyped DEF LastInsertId, Refused, TypeOK
  <2>3. ASSUME NEW p \in 1 .. posted, DeletePhoto(c, p) PROVE TypeOK'
    <3>1. posted' >= posted /\ posted' \in Nat
      BY <2>3 DEF DeletePhoto, TypeOK
    <3>2. /\ owner' \in [1 .. MaxPhotos -> Users \cup {Nobody}]
          /\ \A q \in 1 .. MaxPhotos : owner'[q] # Nobody => q <= posted'
      BY <2>3 DEF DeletePhoto, TypeOK
    <3>3. Answer(c, "ok") \/ Answer(c, "failed")
      BY <2>3 DEF DeletePhoto, Refused
    <3>4. UNCHANGED <<posted, like, photoLike, comments, commented, refused>>
      BY <2>3 DEF DeletePhoto
    <3>5. requests' \in 0 .. MaxRequests
      BY <2>3, RequestTyped DEF DeletePhoto
    <3>6. /\ hpc' \in [Conns -> Steps] /\ target' \in [Conns -> 0 .. posted']
          /\ \A d \in Conns : target'[d] = 0 <=> hpc'[d] = "idle"
          /\ answer' \in [Conns -> {"none", "ok", "failed"}]
      BY <3>1, <3>3, AnswerTyped
    <3> QED
      BY <3>2, <3>4, <3>5, <3>6 DEF TypeOK
  <2> QED
    BY <1>1, <2>1, <2>2, <2>3 DEF PhotoStep
<1>2. ASSUME NEW c \in Conns, LikeStep(c) PROVE TypeOK'
  <2>0. src(c) \in Users /\ posted \in Nat /\ MaxPhotos \in Nat /\ posted <= MaxPhotos
    BY DEF src, TypeOK
  <2>1. ASSUME NEW p \in 1 .. posted, LikePhoto(c, p) \/ DislikePhoto(c, p) PROVE TypeOK'
    <3>0. p \in 1 .. MaxPhotos
      BY <2>0
    <3>1. posted' = posted /\ p \in 1 .. MaxPhotos
      BY <2>1, <3>0, Zenon DEF LikePhoto, DislikePhoto
    <3>2. refused' \subseteq Users \X (1 .. MaxPhotos)
      BY <2>0, <2>1, <3>1 DEF LikePhoto, DislikePhoto, QueryLikePhoto, TypeOK
    <3>3. \/ Answer(c, "failed") \/ Goto(c, "likeCount", p) \/ Goto(c, "dislikeCount", p)
      BY <2>1 DEF LikePhoto, DislikePhoto
    <3>4. /\ hpc' \in [Conns -> Steps] /\ target' \in [Conns -> 0 .. posted']
          /\ \A d \in Conns : target'[d] = 0 <=> hpc'[d] = "idle"
          /\ answer' \in [Conns -> {"none", "ok", "failed"}]
      BY <2>0, <3>1, <3>3, AnswerTyped, GotoTyped DEF Steps
    <3> QED
      BY <2>1, <3>1, <3>2, <3>4, RequestTyped DEF LikePhoto, DislikePhoto, TypeOK
  <2>2. CASE LikeCount(c) \/ DislikeCount(c) \/ LikeInsert(c) \/ DislikeDelete(c)
    <3>1. target[c] \in 1 .. posted
      BY <2>2 DEF LikeCount, DislikeCount, CountLike, LikeInsert, DislikeDelete, TypeOK
    <3>2. /\ Row(c) \in Users \X (1 .. MaxPhotos) /\ target[c] \in 1 .. MaxPhotos
      BY <2>0, <3>1 DEF Row, TypeOK
    <3>3. UNCHANGED <<owner, posted, commentVars, requests>>
      BY <2>2 DEF LikeCount, DislikeCount, CountLike, LikeInsert, DislikeDelete
    <3>4. refused' \subseteq Users \X (1 .. MaxPhotos)
      BY <2>2, <3>2 DEF LikeCount, DislikeCount, CountLike, LikeInsert, DislikeDelete, TypeOK
    <3>5. like' \in [1 .. MaxPhotos -> Int]
      BY <2>2, <3>2 DEF LikeCount, DislikeCount, CountLike, LikeInsert, DislikeDelete, TypeOK
    <3>6. photoLike' \in [Users \X (1 .. MaxPhotos) -> Nat]
      BY <2>2, <3>2 DEF LikeCount, DislikeCount, CountLike, LikeInsert, DislikeDelete, TypeOK
    <3>7. \/ Answer(c, "failed") \/ Answer(c, "ok")
          \/ /\ \E to \in {"likeInsert", "dislikeDelete"} : hpc' = [hpc EXCEPT ![c] = to]
             /\ UNCHANGED <<target, answer>>
      BY <2>2 DEF LikeCount, DislikeCount, CountLike, LikeInsert, DislikeDelete, Refused
    <3>8. /\ hpc' \in [Conns -> Steps] /\ target' \in [Conns -> 0 .. posted']
          /\ \A d \in Conns : target'[d] = 0 <=> hpc'[d] = "idle"
          /\ answer' \in [Conns -> {"none", "ok", "failed"}]
      <4>1. CASE Answer(c, "failed") \/ Answer(c, "ok")
        BY <2>0, <3>3, <4>1, AnswerTyped
      <4>2. CASE /\ \E to \in {"likeInsert", "dislikeDelete"} : hpc' = [hpc EXCEPT ![c] = to]
                 /\ UNCHANGED <<target, answer>>
        BY <3>1, <3>3, <4>2 DEF TypeOK, Steps
      <4> QED
        BY <3>7, <4>1, <4>2
    <3> QED
      BY <3>3, <3>4, <3>5, <3>6, <3>8 DEF TypeOK
  <2> QED
    BY <1>2, <2>1, <2>2 DEF LikeStep
<1>3. ASSUME NEW c \in Conns, CommentStep(c) PROVE TypeOK'
  <2>0. src(c) \in Users /\ posted \in Nat /\ MaxPhotos \in Nat /\ posted <= MaxPhotos
    BY DEF src, TypeOK
  <2>1. ASSUME NEW p \in 1 .. posted, PushPhotoComment(c, p) PROVE TypeOK'
    <3>1. UNCHANGED <<photoVars, refused>> /\ p \in 1 .. MaxPhotos
      BY <2>0, <2>1 DEF PushPhotoComment
    <3>2. Goto(c, "lastInsertId", p) \/ Answer(c, "failed")
      BY <2>1 DEF PushPhotoComment, Refused
    <3>3. /\ hpc' \in [Conns -> Steps] /\ target' \in [Conns -> 0 .. posted']
          /\ \A d \in Conns : target'[d] = 0 <=> hpc'[d] = "idle"
          /\ answer' \in [Conns -> {"none", "ok", "failed"}]
      BY <2>0, <3>1, <3>2, AnswerTyped, GotoTyped DEF Steps
    <3>4. /\ commented' \in 0 .. MaxComments
          /\ comments' \subseteq {m \in Comment : m.comment_id <= commented'}
      <4>1. CASE UNCHANGED commentVars
        BY <4>1 DEF TypeOK
      <4>2. CASE /\ commented < MaxComments /\ commented' = commented + 1
                 /\ comments' = comments \cup
                       {[comment_id |-> commented', photo_id |-> p, id |-> src(c)]}
        <5>1. commented \in Nat /\ commented' \in 1 .. MaxComments
          BY <4>2 DEF TypeOK
        <5>2. [comment_id |-> commented', photo_id |-> p, id |-> src(c)] \in Comment
          BY <2>0, <3>1, <5>1 DEF Comment
        <5>3. \A m \in comments : m \in Comment /\ m.comment_id <= commented'
          BY <4>2, <5>1 DEF TypeOK, Comment
        <5> QED
          BY <4>2, <5>1, <5>2, <5>3
      <4> QED
        BY <2>1, <4>1, <4>2 DEF PushPhotoComment
    <3> QED
      BY <2>1, <3>1, <3>3, <3>4, RequestTyped DEF PushPhotoComment, TypeOK
  <2>2. ASSUME NEW k \in 1 .. commented \cup 1 .. posted, DeletePhotoComment(c, k) PROVE TypeOK'
    <3>1. UNCHANGED <<photoVars, commented, refused>> /\ comments' \subseteq comments
      BY <2>2 DEF DeletePhotoComment
    <3>2. Answer(c, "ok") \/ Answer(c, "failed")
      BY <2>2 DEF DeletePhotoComment, Refused
    <3>3. requests' \in 0 .. MaxRequests
      BY <2>2, RequestTyped DEF DeletePhotoComment
    <3>4. /\ hpc' \in [Conns -> Steps] /\ target' \in [Conns -> 0 .. posted']
          /\ \A d \in Conns : target'[d] = 0 <=> hpc'[d] = "idle"
          /\ answer' \in [Conns -> {"none", "ok", "failed"}]
      BY <2>0, <3>1, <3>2, AnswerTyped
    <3> QED
      BY <3>1, <3>3, <3>4 DEF TypeOK
  <2> QED
    BY <1>3, <2>1, <2>2 DEF CommentStep
<1>4. CASE UNCHANGED vars
  BY <1>4 DEF vars, TypeOK
<1> QED
  BY <1>1, <1>2, <1>3, <1>4 DEF Next

LEMMA InitTyped == Init => TypeOK
  BY DEF Init, TypeOK, Steps

\* TypeOK holds in every state.
THEOREM TypeCorrect == Spec => []TypeOK
<1> QED
  BY InitTyped, TypeStep, PTL DEF Spec

-----------------------------------------------------------------------------
(* Whom photo.like counts.                                                 *)

\* Between the two statements of a handler the count is ahead of the rows by the
\* like that is to be inserted, and behind by the one that is to be deleted.
Adding(u, p) == \E c \in Conns : src(c) = u /\ target[c] = p /\ hpc[c] = "likeInsert"
Dropping(u, p) == \E c \in Conns : src(c) = u /\ target[c] = p /\ hpc[c] = "dislikeDelete"

Counted(p) == {u \in Users : Adding(u, p) \/ (u \in Likers(p) /\ ~Dropping(u, p))}

\* The invariant of one photo.  What the look-up of a handler found is still so
\* when its statements run; a photo that is yet to be posted has no likes.
LikesInv(p) ==
    /\ p > posted => like[p] = 0 /\ Likers(p) = {}
    /\ SoleLogins /\ (\A u \in Users : <<u, p>> \notin refused) =>
          /\ \A c \in Conns : target[c] = p /\ hpc[c] \in {"likeCount", "likeInsert"}
                               => src(c) \notin Likers(p)
          /\ \A c \in Conns : target[c] = p /\ hpc[c] \in {"dislikeCount", "dislikeDelete"}
                               => src(c) \in Likers(p)
          /\ Exists(p) => like[p] = Cardinality(Counted(p))

\* The sets that are counted are finite.
LEMMA CountedFinite ==
    ASSUME NEW p \in PhotoIds
    PROVE  IsFiniteSet(Counted(p)) /\ Cardinality(Counted(p)) \in Nat
<1>1. Counted(p) \in SUBSET Users
  BY DEF Counted
<1> QED
  BY <1>1, FS_Subset, FS_CardinalityType

\* The steps of a handler that is about a like.
LikeSteps == {"likeCount", "likeInsert", "dislikeCount", "dislikeDelete"}

\* A step of c leaves the handlers of the other connections where they are, and
\* forgets no photo and no failure.
LEMMA OthersKept ==
    ASSUME TypeOK, NEW c \in Conns, PhotoStep(c) \/ LikeStep(c) \/ CommentStep(c)
    PROVE  /\ \A d \in Conns \ {c} : hpc'[d] = hpc[d] /\ target'[d] = target[d]
           /\ posted' >= posted
           /\ refused \subseteq refused'
<1>1. ASSUME PhotoStep(c) PROVE \A d \in Conns \ {c} : hpc'[d] = hpc[d] /\ target'[d] = target[d]
  BY <1>1 DEF PhotoStep, PushPhoto, LastInsertId, DeletePhoto, Refused, Answer, Goto, TypeOK
<1>2. ASSUME LikeStep(c) PROVE \A d \in Conns \ {c} : hpc'[d] = hpc[d] /\ target'[d] = target[d]
  BY <1>2 DEF LikeStep, LikePhoto, DislikePhoto, LikeCount, DislikeCount, CountLike, LikeInsert,
              DislikeDelete, Refused, Answer, Goto, TypeOK
<1>3. ASSUME CommentStep(c) PROVE \A d \in Conns \ {c} : hpc'[d] = hpc[d] /\ target'[d] = target[d]
  BY <1>3 DEF CommentStep, PushPhotoComment, DeletePhotoComment, Refused, Answer, Goto, TypeOK
<1>4. posted' >= posted
  <2>1. posted' = posted \/ posted' = posted + 1
    BY Zenon DEF PhotoStep, PushPhoto, LastInsertId, DeletePhoto, LikeStep, LikePhoto,
         DislikePhoto, LikeCount, DislikeCount, CountLike, LikeInsert, DislikeDelete, CommentStep,
         PushPhotoComment, DeletePhotoComment
  <2> QED
    BY <2>1 DEF TypeOK
<1>5. refused \subseteq refused'
  <2>1. ASSUME PhotoStep(c) PROVE refused' = refused
    BY <2>1, Zenon DEF PhotoStep, PushPhoto, LastInsertId, DeletePhoto
  <2>2. ASSUME LikeStep(c) PROVE refused' = refused \/ \E r : refused' = refused \cup {r}
    BY <2>2, Zenon DEF LikeStep, LikePhoto, DislikePhoto, QueryLikePhoto, LikeCount, DislikeCount,
                CountLike, LikeInsert, DislikeDelete
  <2>3. ASSUME CommentStep(c) PROVE refused' = refused
    BY <2>3, Zenon DEF CommentStep, PushPhotoComment, DeletePhotoComment
  <2> QED
    BY <2>1, <2>2, <2>3
<1> QED
  BY <1>1, <1>2, <1>3, <1>4, <1>5

\* Whom the count of p stands for changes only with the rows of p and with the
\* handlers that are between its count and its row.
LEMMA CountedKept ==
    ASSUME NEW c \in Conns, NEW p \in PhotoIds,
           \A d \in Conns \ {c} : hpc'[d] = hpc[d] /\ target'[d] = target[d],
           ~(target[c] = p /\ hpc[c] \in {"likeInsert", "dislikeDelete"}),
           ~(target'[c] = p /\ hpc'[c] \in {"likeInsert", "dislikeDelete"}),
           Likers(p)' = Likers(p)
    PROVE  Counted(p)' = Counted(p)
<1>1. \A u \in Users : Adding(u, p)' = Adding(u, p) /\ Dropping(u, p)' = Dropping(u, p)
  BY DEF Adding, Dropping, src
<1> QED
  BY <1>1, Zenon DEF Counted

\* A step of a handler that is not about a like of p, before or after it.
LEMMA Elsewhere ==
    ASSUME TypeOK, NEW c \in Conns, NEW p \in PhotoIds, LikesInv(p),
           \A d \in Conns \ {c} : hpc'[d] = hpc[d] /\ target'[d] = target[d],
           posted' >= posted, posted' \in Nat, refused \subseteq refused',
           ~(target[c] = p /\ hpc[c] \in LikeSteps),
           ~(target'[c] = p /\ hpc'[c] \in LikeSteps),
           \A u \in Users : photoLike'[<<u, p>>] = photoLike[<<u, p>>],
           like'[p] = like[p],
           Exists(p)' => Exists(p) \/ p > posted
    PROVE  LikesInv(p)'
<1>1. Likers(p)' = Likers(p)
  BY DEF Likers
<1>2. Counted(p)' = Counted(p)
  BY <1>1, CountedKept DEF LikeSteps
<1>3. p > posted => Counted(p) = {}
  <2>1. \A d \in Conns : target[d] \in 0 .. posted
    BY DEF TypeOK
  <2>2. p > posted => Likers(p) = {} /\ \A d \in Conns : target[d] # p
    BY <2>1 DEF LikesInv, TypeOK
  <2> QED
    BY <2>2 DEF Counted, Adding
<1>4. p > posted' => p > posted
  BY DEF TypeOK
<1>5. SoleLogins' = SoleLogins
  BY DEF SoleLogins, src
<1>6. Cardinality({}) = 0
  BY FS_EmptySet
<1>7. ASSUME SoleLogins, \A u \in Users : <<u, p>> \notin refused'
      PROVE  /\ \A d \in Conns : target'[d] = p /\ hpc'[d] \in {"likeCount", "likeInsert"}
                                  => src(d) \notin Likers(p)
             /\ \A d \in Conns : target'[d] = p /\ hpc'[d] \in {"dislikeCount", "dislikeDelete"}
                                  => src(d) \in Likers(p)
             /\ Exists(p)' => like'[p] = Cardinality(Counted(p))
  <2>1. \A u \in Users : <<u, p>> \notin refused
    BY <1>7
  <2>2. Exists(p)' => like'[p] = Cardinality(Counted(p))
    <3>1. CASE p > posted
      BY <1>3, <1>6, <3>1 DEF LikesInv
    <3>2. CASE ~(p > posted)
      BY <1>7, <2>1, <3>2 DEF LikesInv
    <3> QED
      BY <3>1, <3>2
  <2> QED
    BY <1>7, <2>1, <2>2 DEF LikesInv, LikeSteps
<1> QED
  BY <1>1, <1>2, <1>4, <1>5, <1>7 DEF LikesInv, src

\* A step of a handler at one of the statements of a like of p, or at its look-up.
LEMMA Here ==
    ASSUME TypeOK, TypeOK', NEW c \in Conns, NEW p \in PhotoIds, LikesInv(p),
           \A d \in Conns \ {c} : hpc'[d] = hpc[d] /\ target'[d] = target[d],
           refused \subseteq refused', p <= posted,
           \/ LikePhoto(c, p) \/ DislikePhoto(c, p)
           \/ target[c] = p /\ (\/ LikeCount(c) \/ LikeInsert(c)
                                \/ DislikeCount(c) \/ DislikeDelete(c))
    PROVE  LikesInv(p)'
<1> DEFINE u == src(c)
<1> SUFFICES ASSUME SoleLogins, \A v \in Users : <<v, p>> \notin refused'
             PROVE  /\ \A d \in Conns : target'[d] = p /\ hpc'[d] \in {"likeCount", "likeInsert"}
                                         => src(d) \notin Likers(p)'
                    /\ \A d \in Conns : target'[d] = p /\ hpc'[d] \in {"dislikeCount", "dislikeDelete"}
                                         => src(d) \in Likers(p)'
                    /\ Exists(p)' => like'[p] = Cardinality(Counted(p)')
  <2>1. posted' = posted
    BY DEF LikePhoto, DislikePhoto, LikeCount, CountLike, LikeInsert, DislikeCount, DislikeDelete
  <2>2. ~(p > posted')
    BY <2>1 DEF TypeOK
  <2>3. SoleLogins' = SoleLogins
    BY DEF SoleLogins, src
  <2> QED
    BY <2>2, <2>3 DEF LikesInv, src
<1>1. u \in Users /\ <<u, p>> \notin refused' /\ \A v \in Users : <<v, p>> \notin refused
  BY DEF src
<1>2. \A d \in Conns : src(d) = u => d = c
  BY DEF SoleLogins
<1>3. /\ \A d \in Conns : target[d] = p /\ hpc[d] \in {"likeCount", "likeInsert"}
                            => src(d) \notin Likers(p)
      /\ \A d \in Conns : target[d] = p /\ hpc[d] \in {"dislikeCount", "dislikeDelete"}
                            => src(d) \in Likers(p)
      /\ Exists(p) => like[p] = Cardinality(Counted(p))
  BY <1>1 DEF LikesInv
<1>4. Exists(p)' = Exists(p)
  BY DEF Exists, LikePhoto, DislikePhoto, LikeCount, CountLike, LikeInsert, DislikeCount,
         DislikeDelete
<1>5. /\ IsFiniteSet(Counted(p)) /\ Cardinality(Counted(p)) \in Nat
      /\ Exists(p) => like[p] \in Int
  BY CountedFinite DEF TypeOK
\* The look-up of a like.
<1>6. CASE LikePhoto(c, p) \/ DislikePhoto(c, p)
  <2>1. /\ UNCHANGED <<like, photoLike>> /\ hpc[c] = "idle"
        /\ \/ hpc'[c] = "idle"
           \/ hpc'[c] = "likeCount" /\ u \notin Likers(p)
           \/ hpc'[c] = "dislikeCount" /\ u \in Likers(p)
    BY <1>1, <1>6 DEF LikePhoto, DislikePhoto, QueryLikePhoto, Request, Answer, Goto, TypeOK
  <2>2. Likers(p)' = Likers(p)
    BY <2>1 DEF Likers
  <2>3. Counted(p)' = Counted(p)
    BY <2>1, <2>2, CountedKept
  <2> QED
    BY <1>3, <1>4, <2>1, <2>2, <2>3
\* The count goes up, and then the row is inserted.
<1>7. CASE target[c] = p /\ LikeCount(c)
  <2>1. /\ hpc[c] = "likeCount" /\ hpc'[c] = "likeInsert" /\ target'[c] = p
        /\ UNCHANGED photoLike
        /\ like' = [like EXCEPT ![p] = IF Exists(p) THEN @ + 1 ELSE @]
    BY <1>1, <1>7 DEF LikeCount, CountLike, Row, TypeOK
  <2>2. Likers(p)' = Likers(p) /\ u \notin Likers(p)
    BY <1>3, <1>7, <2>1 DEF Likers
  <2>3. Counted(p)' = Counted(p) \cup {u} /\ u \notin Counted(p)
    <3>1. Adding(u, p)' /\ ~Adding(u, p)
      BY <1>2, <2>1 DEF Adding, src
    <3>2. \A v \in Users \ {u} : /\ Adding(v, p)' = Adding(v, p)
                                 /\ Dropping(v, p)' = Dropping(v, p)
      BY DEF Adding, Dropping, src
    <3>3. \A v \in Users : Adding(v, p)' \/ (v \in Likers(p)' /\ ~Dropping(v, p)') <=>
                               (Adding(v, p) \/ (v \in Likers(p) /\ ~Dropping(v, p))) \/ v = u
      BY <1>1, <2>2, <3>1, <3>2
    <3> QED
      BY <1>1, <2>2, <3>1, <3>3 DEF Counted
  <2>4. Cardinality(Counted(p)') = Cardinality(Counted(p)) + 1
    BY <1>5, <2>3, FS_AddElement
  <2>5. Exists(p) => like'[p] = like[p] + 1
    BY <2>1 DEF TypeOK
  <2> QED
    BY <1>3, <1>4, <1>5, <2>1, <2>2, <2>4, <2>5
<1>8. CASE target[c] = p /\ LikeInsert(c)
  <2>1. /\ hpc[c] = "likeInsert" /\ hpc'[c] = "idle"
        /\ UNCHANGED like
        /\ photoLike' = [photoLike EXCEPT ![<<u, p>>] = @ + 1]
    BY <1>1, <1>8 DEF LikeInsert, Answer, Row, TypeOK
  <2>2. Likers(p)' = Likers(p) \cup {u} /\ u \notin Likers(p)
    BY <1>1, <1>3, <1>8, <2>1 DEF Likers, TypeOK
  <2>3. Counted(p)' = Counted(p)
    <3>1. Adding(u, p) /\ ~Adding(u, p)' /\ ~Dropping(u, p)'
      BY <1>2, <1>8, <2>1 DEF Adding, Dropping, src
    <3>2. \A v \in Users \ {u} : /\ Adding(v, p)' = Adding(v, p)
                                 /\ Dropping(v, p)' = Dropping(v, p)
      BY DEF Adding, Dropping, src
    <3>3. \A v \in Users : Adding(v, p)' \/ (v \in Likers(p)' /\ ~Dropping(v, p)') <=>
                               Adding(v, p) \/ (v \in Likers(p) /\ ~Dropping(v, p))
      BY <1>1, <2>2, <3>1, <3>2
    <3> QED
      BY <1>1, <2>2, <3>1, <3>3 DEF Counted
  <2> QED
    BY <1>2, <1>3, <1>4, <2>1, <2>2, <2>3
\* The count goes down, and then the rows are deleted.
<1>9. CASE target[c] = p /\ DislikeCount(c)
  <2>1. /\ hpc[c] = "dislikeCount" /\ hpc'[c] = "dislikeDelete" /\ target'[c] = p
        /\ UNCHANGED photoLike
        /\ like' = [like EXCEPT ![p] = IF Exists(p) THEN @ + -1 ELSE @]
    BY <1>1, <1>9 DEF DislikeCount, CountLike, Row, TypeOK
  <2>2. Likers(p)' = Likers(p) /\ u \in Likers(p)
    BY <1>3, <1>9, <2>1 DEF Likers
  <2>3. Counted(p)' = Counted(p) \ {u} /\ u \in Counted(p)
    <3>1. Dropping(u, p)' /\ ~Dropping(u, p) /\ ~Adding(u, p)'
      BY <1>2, <2>1 DEF Adding, Dropping, src
    <3>2. \A v \in Users \ {u} : /\ Adding(v, p)' = Adding(v, p)
                                 /\ Dropping(v, p)' = Dropping(v, p)
      BY DEF Adding, Dropping, src
    <3>3. \A v \in Users : Adding(v, p)' \/ (v \in Likers(p)' /\ ~Dropping(v, p)') <=>
                               (Adding(v, p) \/ (v \in Likers(p) /\ ~Dropping(v, p))) /\ v # u
      BY <1>1, <2>2, <3>1, <3>2
    <3> QED
      BY <1>1, <2>2, <3>1, <3>3 DEF Counted
  <2>4. Cardinality(Counted(p)') = Cardinality(Counted(p)) - 1
    <3>1. Cardinality(Counted(p) \ {u}) = Cardinality(Counted(p)) - 1
      BY <1>5, <2>3, FS_RemoveElement
    <3> QED
      BY <2>3, <3>1
  <2>5. Exists(p) => like'[p] = like[p] - 1
    BY <2>1 DEF TypeOK
  <2> QED
    BY <1>3, <1>4, <1>5, <2>1, <2>2, <2>4, <2>5
<1>10. CASE target[c] = p /\ DislikeDelete(c)
  <2>1. /\ hpc[c] = "dislikeDelete" /\ hpc'[c] = "idle"
        /\ UNCHANGED like
        /\ photoLike' = [photoLike EXCEPT ![<<u, p>>] = 0]
    BY <1>1, <1>10 DEF DislikeDelete, Answer, Row, TypeOK
  <2>2. Likers(p)' = Likers(p) \ {u}
    BY <1>1, <2>1 DEF Likers, TypeOK
  <2>3. Counted(p)' = Counted(p)
    <3>1. Dropping(u, p) /\ ~Adding(u, p) /\ ~Adding(u, p)'
      BY <1>2, <1>10, <2>1 DEF Adding, Dropping, src
    <3>2. \A v \in Users \ {u} : /\ Adding(v, p)' = Adding(v, p)
                                 /\ Dropping(v, p)' = Dropping(v, p)
      BY DEF Adding, Dropping, src
    <3>3. \A v \in Users : Adding(v, p)' \/ (v \in Likers(p)' /\ ~Dropping(v, p)') <=>
                               Adding(v, p) \/ (v \in Likers(p) /\ ~Dropping(v, p))
      BY <1>1, <2>2, <3>1, <3>2
    <3> QED
      BY <1>1, <2>2, <3>1, <3>3 DEF Counted
  <2> QED
    BY <1>2, <1>3, <1>4, <2>1, <2>2, <2>3
<1> QED
  BY <1>6, <1>7, <1>8, <1>9, <1>10

-----------------------------------------------------------------------------
(* The theorem.                                                            *)

IInv == TypeOK /\ \A p \in PhotoIds : LikesInv(p)

\* Every step of a handler keeps the invariant of every photo.
LEMMA LikesStep ==
    ASSUME TypeOK, TypeOK', NEW c \in Conns, PhotoStep(c) \/ LikeStep(c) \/ CommentStep(c),
           NEW p \in PhotoIds, LikesInv(p)
    PROVE  LikesInv(p)'
<1>1. /\ \A d \in Conns \ {c} : hpc'[d] = hpc[d] /\ target'[d] = target[d]
      /\ posted' >= posted /\ posted' \in Nat /\ refused \subseteq refused'
  <2>1. posted' \in Nat
    BY DEF TypeOK
  <2> QED
    BY <2>1, OthersKept
\* Neither photos nor comments are about likes.
<1>2. ASSUME PhotoStep(c) \/ CommentStep(c) PROVE LikesInv(p)'
  <2>1. UNCHANGED <<like, photoLike>>
    BY <1>2, Zenon DEF PhotoStep, PushPhoto, LastInsertId, DeletePhoto, CommentStep, PushPhotoComment,
                DeletePhotoComment
  <2>2. hpc[c] \in {"idle", "lastInsertId"}
    BY <1>2, Zenon DEF PhotoStep, PushPhoto, LastInsertId, DeletePhoto, CommentStep, PushPhotoComment,
                DeletePhotoComment, Request
  <2>3. hpc'[c] \in {"idle", "lastInsertId"}
    <3>1. Answer(c, "ok") \/ Answer(c, "failed") \/ \E q : Goto(c, "lastInsertId", q)
      BY <1>2, Zenon DEF PhotoStep, PushPhoto, LastInsertId, DeletePhoto, CommentStep,
                  PushPhotoComment, DeletePhotoComment, Refused
    <3> QED
      BY <3>1 DEF Answer, Goto, TypeOK
  <2>4. Exists(p)' => Exists(p) \/ p > posted
    <3>1. \/ owner' = owner
          \/ posted' = posted + 1 /\ owner' = [owner EXCEPT ![posted'] = src(c)]
          \/ \E q \in 1 .. posted :
                owner' = [owner EXCEPT ![q] = IF @ = src(c) THEN Nobody ELSE @]
      BY <1>2, Zenon DEF PhotoStep, PushPhoto, LastInsertId, DeletePhoto, CommentStep,
                  PushPhotoComment, DeletePhotoComment
    <3>2. owner \in [1 .. MaxPhotos -> Users \cup {Nobody}] /\ posted \in Nat
      BY DEF TypeOK
    <3>3. CASE posted' = posted + 1 /\ owner' = [owner EXCEPT ![posted'] = src(c)]
      BY <3>2, <3>3 DEF Exists
    <3>4. ASSUME NEW q \in 1 .. posted,
                 owner' = [owner EXCEPT ![q] = IF @ = src(c) THEN Nobody ELSE @]
          PROVE  Exists(p)' => Exists(p)
      BY <3>2, <3>4 DEF Exists
    <3> QED
      BY <3>1, <3>3, <3>4 DEF Exists
  <2> QED
    BY <1>1, <2>1, <2>2, <2>3, <2>4, Elsewhere DEF LikeSteps
<1>3. ASSUME NEW q \in 1 .. posted, LikePhoto(c, q) \/ DislikePhoto(c, q) PROVE LikesInv(p)'
  <2>1. CASE q = p
    <3>1. p <= posted
      BY <2>1 DEF TypeOK
    <3> QED
      BY <1>1, <1>3, <2>1, <3>1, Here
  <2>2. CASE q # p
    <3>1. UNCHANGED <<like, photoLike, owner>> /\ hpc[c] = "idle"
      BY <1>3 DEF LikePhoto, DislikePhoto, Request
    <3>2. target'[c] # p
      <4>1. target'[c] \in {0, q}
        BY <1>3 DEF LikePhoto, DislikePhoto, Answer, Goto, TypeOK
      <4> QED
        BY <2>2, <4>1
    <3> QED
      BY <1>1, <3>1, <3>2, Elsewhere DEF LikeSteps, Exists
  <2> QED
    BY <2>1, <2>2
<1>4. ASSUME LikeCount(c) \/ LikeInsert(c) \/ DislikeCount(c) \/ DislikeDelete(c)
      PROVE  LikesInv(p)'
  <2>1. target[c] \in 1 .. posted
    BY <1>4 DEF LikeCount, DislikeCount, CountLike, LikeInsert, DislikeDelete, TypeOK
  <2>2. CASE target[c] = p
    <3>1. p <= posted
      BY <2>1, <2>2 DEF TypeOK
    <3> QED
      BY <1>1, <1>4, <2>2, <3>1, Here
  <2>3. CASE target[c] # p
    <3>1. UNCHANGED owner /\ like'[p] = like[p]
      BY <1>4, <2>3 DEF LikeCount, DislikeCount, CountLike, LikeInsert, DislikeDelete, TypeOK
    <3>2. \A u \in Users : photoLike'[<<u, p>>] = photoLike[<<u, p>>]
      BY <1>4, <2>3 DEF LikeCount, DislikeCount, CountLike, LikeInsert, DislikeDelete, Row, TypeOK
    <3>3. target'[c] # p
      BY <1>4, <2>3 DEF LikeCount, DislikeCount, CountLike, LikeInsert, DislikeDelete, Refused,
                        Answer, TypeOK
    <3> QED
      BY <1>1, <2>3, <3>1, <3>2, <3>3, Elsewhere DEF Exists
  <2> QED
    BY <2>2, <2>3
<1> QED
  BY <1>2, <1>3, <1>4 DEF LikeStep

\* IInv holds at the start and no step breaks it.
LEMMA Inductive == (Init => IInv) /\ (IInv /\ [Next]_vars => IInv')
<1>1. ASSUME Init PROVE IInv
  <2>1. TypeOK
    BY <1>1, InitTyped
  <2>2. ASSUME NEW p \in PhotoIds PROVE LikesInv(p)
    <3>1. Likers(p) = {} /\ ~Exists(p) /\ like[p] = 0
      BY <1>1, <2>2 DEF Init, Likers, Exists
    <3>2. \A c \in Conns : hpc[c] = "idle"
      BY <1>1 DEF Init
    <3> QED
      BY <3>1, <3>2 DEF LikesInv
  <2> QED
    BY <2>1, <2>2 DEF IInv
<1>2. ASSUME IInv, [Next]_vars PROVE IInv'
  <2>1. TypeOK /\ TypeOK'
    BY <1>2, TypeStep DEF IInv
  <2>2. ASSUME NEW p \in PhotoIds PROVE LikesInv(p)'
    <3>1. LikesInv(p)
      BY <1>2, <2>2 DEF IInv
    <3>2. CASE UNCHANGED vars
      BY <3>1, <3>2 DEF vars, LikesInv, Likers, Counted, Adding, Dropping, Exists, SoleLogins, src
    <3> QED
      BY <1>2, <2>1, <3>1, <3>2, LikesStep DEF Next
  <2> QED
    BY <2>1, <2>2 DEF IInv
<1> QED
  BY <1>1, <1>2

\* Between requests photo.like is the number of users who like the photo.
THEOREM LikesCountHolds == Spec => []LikesCount
<1>1. IInv => LikesCount
  <2> SUFFICES ASSUME IInv, SoleLogins, NEW p \in PhotoIds, Exists(p), Settled(p)
               PROVE  like[p] = Cardinality(Likers(p))
    BY DEF LikesCount
  <2>1. like[p] = Cardinality(Counted(p))
    BY DEF IInv, LikesInv, Settled
  <2>2. Counted(p) = Likers(p)
    BY DEF Counted, Likers, Adding, Dropping, Settled
  <2> QED
    BY <2>1, <2>2
<1> QED
  BY <1>1, Inductive, PTL DEF Spec

=============================================================================
