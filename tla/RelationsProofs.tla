--------------------------- MODULE RelationsProofs ---------------------------
(***************************************************************************)
(* Proofs about Relations, for all finite sets of connections and users and *)
(* every number of requests, whoever is logged in where.      *)
(***************************************************************************)
EXTENDS Relations, FiniteSetTheorems, TLAPS

USE RelationsAssumption DEF followVars, friendVars

-----------------------------------------------------------------------------
(* Every state of the specification is well typed.                         *)

\* The parts that handlers share keep the types.
LEMMA RequestTyped ==
    ASSUME TypeOK, NEW c \in Conns, NEW v \in Users, NEW found \in BOOLEAN,
           NEW wanted \in BOOLEAN, NEW step \in Steps \ {"idle"},
           Request(c, v, found, wanted, step)
    PROVE  TypeOK'
<1>1. requests' \in 0 .. MaxRequests
  BY DEF Request, TypeOK
<1>2. failures' \in [Users -> Nat]
  BY DEF Request, Fails, TypeOK, src
<1>3. \/ /\ hpc' = [hpc EXCEPT ![c] = step]
         /\ dst' = [dst EXCEPT ![c] = v]
         /\ answer' = [answer EXCEPT ![c] = "none"]
      \/ Answer(c, "failed")
  BY Zenon DEF Request
<1>4. UNCHANGED <<follow, followed, friend, friends>>
  BY DEF Request
<1> QED
  BY <1>1, <1>2, <1>3, <1>4 DEF Answer, TypeOK, Steps

\* A handler that is past its look-up has a row to work on.
LEMMA RowTyped ==
    ASSUME TypeOK, NEW c \in Conns, hpc[c] # "idle"
    PROVE  Row(c) \in Users \X Users
  BY DEF TypeOK, Row, src

LEMMA RefusedTyped ==
    ASSUME TypeOK, NEW c \in Conns, Refused(c)
    PROVE  /\ failures' \in [Users -> Nat]
           /\ hpc' = [hpc EXCEPT ![c] = "idle"]
           /\ dst' = [dst EXCEPT ![c] = Nobody]
           /\ answer' = [answer EXCEPT ![c] = "failed"]
  BY DEF Refused, Fails, Answer, TypeOK, src

LEMMA TypeStep == TypeOK /\ [Next]_vars => TypeOK'
<1> SUFFICES ASSUME TypeOK, [Next]_vars PROVE TypeOK'
  OBVIOUS
<1>1. ASSUME NEW c \in Conns, FollowStep(c) PROVE TypeOK'
  <2>0. src(c) \in Users
    BY DEF src
  <2>1. ASSUME NEW v \in Users, Follow(c, v) \/ Unfollow(c, v) PROVE TypeOK'
    <3>1. IsFollowing(src(c), v) \in BOOLEAN
      BY DEF IsFollowing
    <3> QED
      BY <2>1, <3>1, RequestTyped DEF Follow, Unfollow, Steps
  <2>2. ASSUME FollowInsert(c) PROVE TypeOK'
    <3>1. CASE Refused(c) /\ UNCHANGED follow
      BY <2>2, <3>1, RefusedTyped DEF FollowInsert, TypeOK, Steps
    <3>2. CASE ~(Refused(c) /\ UNCHANGED follow)
      BY <2>2, <3>2, RowTyped DEF FollowInsert, Goto, TypeOK, Steps
    <3> QED BY <3>1, <3>2
  <2>3. ASSUME FollowCount(c) PROVE TypeOK'
    <3>1. CASE Refused(c) /\ UNCHANGED followed
      BY <2>3, <3>1, RefusedTyped DEF FollowCount, TypeOK, Steps
    <3>2. CASE ~(Refused(c) /\ UNCHANGED followed)
      BY <2>3, <2>0, <3>2 DEF FollowCount, Answer, TypeOK, Steps
    <3> QED BY <3>1, <3>2
  <2>4. ASSUME UnfollowDelete(c) PROVE TypeOK'
    <3>1. CASE Refused(c) /\ UNCHANGED follow
      BY <2>4, <3>1, RefusedTyped DEF UnfollowDelete, TypeOK, Steps
    <3>2. CASE ~(Refused(c) /\ UNCHANGED follow)
      BY <2>4, <3>2, RowTyped DEF UnfollowDelete, Goto, TypeOK, Steps
    <3> QED BY <3>1, <3>2
  <2>5. ASSUME UnfollowCount(c) PROVE TypeOK'
    <3>1. CASE Refused(c) /\ UNCHANGED followed
      BY <2>5, <3>1, RefusedTyped DEF UnfollowCount, TypeOK, Steps
    <3>2. CASE ~(Refused(c) /\ UNCHANGED followed)
      BY <2>5, <2>0, <3>2 DEF UnfollowCount, Answer, TypeOK, Steps
    <3> QED BY <3>1, <3>2
  <2> QED
    BY <1>1, <2>1, <2>2, <2>3, <2>4, <2>5 DEF FollowStep
<1>2. ASSUME NEW c \in Conns, FriendStep(c) PROVE TypeOK'
  <2>0. src(c) \in Users
    BY DEF src
  <2>1. ASSUME NEW v \in Users, Friend(c, v) \/ Unfriend(c, v) PROVE TypeOK'
    <3>1. IsFriended(src(c), v) \in BOOLEAN
      BY DEF IsFriended
    <3> QED
      BY <2>1, <3>1, RequestTyped DEF Friend, Unfriend, Steps
  <2>2. ASSUME FriendInsert(c) PROVE TypeOK'
    <3>1. CASE Refused(c) /\ UNCHANGED friend
      BY <2>2, <3>1, RefusedTyped DEF FriendInsert, TypeOK, Steps
    <3>2. CASE ~(Refused(c) /\ UNCHANGED friend)
      <4>1. friend' \in [Users \X Users -> Nat]
        BY <2>2, <3>2, RowTyped DEF FriendInsert, TypeOK
      <4> QED
        BY <2>2, <3>2, <4>1 DEF FriendInsert, Goto, TypeOK, Steps
    <3> QED BY <3>1, <3>2
  <2>3. ASSUME FriendCount(c) PROVE TypeOK'
    <3>1. CASE Refused(c) /\ UNCHANGED friends
      BY <2>3, <3>1, RefusedTyped DEF FriendCount, TypeOK, Steps
    <3>2. CASE ~(Refused(c) /\ UNCHANGED friends)
      BY <2>3, <2>0, <3>2 DEF FriendCount, Answer, TypeOK, Steps
    <3> QED BY <3>1, <3>2
  <2>4. ASSUME UnfriendDelete(c) PROVE TypeOK'
    <3>1. CASE Refused(c) /\ UNCHANGED friend
      BY <2>4, <3>1, RefusedTyped DEF UnfriendDelete, TypeOK, Steps
    <3>2. CASE ~(Refused(c) /\ UNCHANGED friend)
      <4>1. friend' \in [Users \X Users -> Nat]
        BY <2>4, <3>2, RowTyped DEF UnfriendDelete, TypeOK
      <4> QED
        BY <2>4, <3>2, <4>1 DEF UnfriendDelete, Goto, TypeOK, Steps
    <3> QED BY <3>1, <3>2
  <2>5. ASSUME UnfriendCount(c) PROVE TypeOK'
    <3>1. CASE Refused(c) /\ UNCHANGED friends
      BY <2>5, <3>1, RefusedTyped DEF UnfriendCount, TypeOK, Steps
    <3>2. CASE ~(Refused(c) /\ UNCHANGED friends)
      BY <2>5, <2>0, <3>2 DEF UnfriendCount, Answer, TypeOK, Steps
    <3> QED BY <3>1, <3>2
  <2> QED
    BY <1>2, <2>1, <2>2, <2>3, <2>4, <2>5 DEF FriendStep
<1>3. CASE UNCHANGED vars
  BY <1>3 DEF vars, TypeOK
<1> QED
  BY <1>1, <1>2, <1>3 DEF Next

LEMMA InitTyped == Init => TypeOK
  BY DEF Init, TypeOK, Steps

\* TypeOK holds in every state.
THEOREM TypeCorrect == Spec => []TypeOK
<1> QED
  BY InitTyped, TypeStep, PTL DEF Spec

-----------------------------------------------------------------------------
(* What a step of one connection leaves alone.                             *)

\* A handler touches the rows, the counters and the requests of its own user.
LEMMA OthersKept ==
    ASSUME TypeOK, NEW c \in Conns, FollowStep(c) \/ FriendStep(c),
           NEW u \in Users, src(c) # u
    PROVE  /\ \A v \in Users : follow'[<<u, v>>] = follow[<<u, v>>]
           /\ \A v \in Users : friend'[<<u, v>>] = friend[<<u, v>>]
           /\ followed'[u] = followed[u] /\ friends'[u] = friends[u]
           /\ \A d \in Conns : src(d) = u => hpc'[d] = hpc[d] /\ dst'[d] = dst[d]
           /\ failures'[u] = failures[u]
<1>1. \A d \in Conns : src(d) = u => hpc'[d] = hpc[d] /\ dst'[d] = dst[d]
  BY DEF FollowStep, FriendStep, Follow, Unfollow, FollowInsert, FollowCount, UnfollowDelete,
         UnfollowCount, Friend, Unfriend, FriendInsert, FriendCount, UnfriendDelete,
         UnfriendCount, Request, Refused, Answer, Goto, TypeOK
<1>2. failures'[u] = failures[u]
  <2>1. failures' = failures \/ Fails(c)
    BY DEF FollowStep, FriendStep, Follow, Unfollow, FollowInsert, FollowCount, UnfollowDelete,
           UnfollowCount, Friend, Unfriend, FriendInsert, FriendCount, UnfriendDelete,
           UnfriendCount, Request, Refused
  <2> QED
    BY <2>1 DEF Fails, TypeOK, src
<1>3. followed'[u] = followed[u] /\ friends'[u] = friends[u]
  BY DEF FollowStep, FriendStep, Follow, Unfollow, FollowInsert, FollowCount, UnfollowDelete,
         UnfollowCount, Friend, Unfriend, FriendInsert, FriendCount, UnfriendDelete,
         UnfriendCount, Request, TypeOK
<1>4. \A v \in Users : follow'[<<u, v>>] = follow[<<u, v>>]
  <2>1. follow' = follow \/ \E k \in Nat : follow' = [follow EXCEPT ![Row(c)] = k]
                         \/ follow' = [follow EXCEPT ![Row(c)] = @ + 1]
    BY DEF FollowStep, FriendStep, Follow, Unfollow, FollowInsert, FollowCount, UnfollowDelete,
           UnfollowCount, Friend, Unfriend, FriendInsert, FriendCount, UnfriendDelete,
           UnfriendCount, Request
  <2> QED
    BY <2>1 DEF Row, TypeOK
<1>5. \A v \in Users : friend'[<<u, v>>] = friend[<<u, v>>]
  <2>1. friend' = friend \/ \E k \in Nat : friend' = [friend EXCEPT ![Row(c)] = k]
                         \/ friend' = [friend EXCEPT ![Row(c)] = @ + 1]
    BY DEF FollowStep, FriendStep, Follow, Unfollow, FollowInsert, FollowCount, UnfollowDelete,
           UnfollowCount, Friend, Unfriend, FriendInsert, FriendCount, UnfriendDelete,
           UnfriendCount, Request
  <2> QED
    BY <2>1 DEF Row, TypeOK
<1> QED
  BY <1>1, <1>2, <1>3, <1>4, <1>5

\* The sets whose sizes the counters keep are finite.
LEMMA SetsFinite ==
    ASSUME NEW u \in Users
    PROVE  /\ IsFiniteSet(Following(u)) /\ Cardinality(Following(u)) \in Nat
           /\ IsFiniteSet(Befriended(u)) /\ Cardinality(Befriended(u)) \in Nat
<1>1. Following(u) \in SUBSET Users /\ Befriended(u) \in SUBSET Users
  BY DEF Following, Befriended
<1> QED
  BY <1>1, FS_Subset, FS_CardinalityType

-----------------------------------------------------------------------------
(* What a step of the user's own connection does.                          *)

\* Either the database refuses a statement, or none.
LEMMA OwnFailures ==
    ASSUME TypeOK, NEW c \in Conns, FollowStep(c) \/ FriendStep(c)
    PROVE  /\ failures[src(c)] \in Nat
           /\ failures'[src(c)] \in {failures[src(c)], failures[src(c)] + 1}
           /\ Refused(c) => failures'[src(c)] = failures[src(c)] + 1
<1>0. src(c) \in Users
  BY DEF src
<1>1. failures' = failures \/ Fails(c)
  BY DEF FollowStep, FriendStep, Follow, Unfollow, FollowInsert, FollowCount, UnfollowDelete,
         UnfollowCount, Friend, Unfriend, FriendInsert, FriendCount, UnfriendDelete,
         UnfriendCount, Request, Refused
<1> QED
  BY <1>0, <1>1 DEF Fails, Refused, TypeOK

\* A look-up leaves the tables and the counters alone.  If it lets the handler go
\* on at a statement, it has found what it wanted or was refused.
LEMMA LookUp ==
    ASSUME TypeOK, NEW c \in Conns, NEW v \in Users, NEW found \in BOOLEAN,
           NEW wanted \in BOOLEAN, NEW step \in Steps \ {"idle"},
           Request(c, v, found, wanted, step)
    PROVE  /\ hpc[c] = "idle"
           /\ UNCHANGED <<follow, followed, friend, friends>>
           /\ \/ hpc'[c] = "idle"
              \/ /\ hpc'[c] = step /\ dst'[c] = v
                 /\ found = wanted \/ failures'[src(c)] = failures[src(c)] + 1
<1>1. PICK says \in BOOLEAN :
          /\ says = found \/ Fails(c)
          /\ \/ says = wanted /\ hpc' = [hpc EXCEPT ![c] = step] /\ dst' = [dst EXCEPT ![c] = v]
             \/ says # wanted /\ Answer(c, "failed")
  BY DEF Request
<1>2. Fails(c) => failures'[src(c)] = failures[src(c)] + 1
  BY DEF Fails, TypeOK, src
<1>3. hpc[c] = "idle" /\ UNCHANGED <<follow, followed, friend, friends>>
  BY DEF Request
<1>4. CASE says = wanted /\ hpc' = [hpc EXCEPT ![c] = step] /\ dst' = [dst EXCEPT ![c] = v]
  <2>1. hpc'[c] = step /\ dst'[c] = v
    BY <1>4 DEF TypeOK
  <2> QED
    BY <1>1, <1>2, <1>3, <1>4, <2>1
<1>5. CASE Answer(c, "failed")
  BY <1>3, <1>5 DEF Answer, TypeOK
<1> QED
  BY <1>1, <1>4, <1>5

\* The look-ups of the four handlers.
LEMMA LookUps ==
    ASSUME TypeOK, NEW c \in Conns, NEW v \in Users,
           Follow(c, v) \/ Unfollow(c, v) \/ Friend(c, v) \/ Unfriend(c, v)
    PROVE  LET u == src(c)
               more == failures'[u] = failures[u] + 1
           IN  /\ hpc[c] = "idle"
               /\ UNCHANGED <<follow, followed, friend, friends>>
               /\ hpc'[c] \in {"idle", "followInsert", "unfollowDelete", "friendInsert", "unfriendDelete"}
               /\ hpc'[c] # "idle" => dst'[c] = v
               /\ hpc'[c] = "followInsert" => follow[<<u, v>>] = 0 \/ more
               /\ hpc'[c] = "unfollowDelete" => follow[<<u, v>>] > 0 \/ more
               /\ hpc'[c] = "unfriendDelete" => friend[<<u, v>>] > 0 \/ more
<1>0. src(c) \in Users /\ follow[<<src(c), v>>] \in Nat
  BY DEF TypeOK, src
<1>1. ASSUME Follow(c, v) PROVE
          /\ hpc[c] = "idle" /\ UNCHANGED <<follow, followed, friend, friends>>
          /\ \/ hpc'[c] = "idle"
             \/ /\ hpc'[c] = "followInsert" /\ dst'[c] = v
                /\ follow[<<src(c), v>>] = 0 \/ failures'[src(c)] = failures[src(c)] + 1
  <2>1. IsFollowing(src(c), v) \in BOOLEAN /\ (IsFollowing(src(c), v) = FALSE => follow[<<src(c), v>>] = 0)
    BY <1>0 DEF IsFollowing
  <2>2. PICK found \in BOOLEAN, wanted \in BOOLEAN :
             found = IsFollowing(src(c), v) /\ wanted = FALSE /\ Request(c, v, found, wanted, "followInsert")
    BY <1>1, <2>1 DEF Follow
  <2>3. "followInsert" \in Steps \ {"idle"} /\ Request(c, v, found, wanted, "followInsert")
    BY <2>2 DEF Steps
  <2>4. /\ hpc[c] = "idle" /\ UNCHANGED <<follow, followed, friend, friends>>
        /\ \/ hpc'[c] = "idle"
           \/ /\ hpc'[c] = "followInsert" /\ dst'[c] = v
              /\ found = wanted \/ failures'[src(c)] = failures[src(c)] + 1
    BY <2>3, LookUp
  <2> QED
    BY <2>1, <2>2, <2>4
<1>2. ASSUME Unfollow(c, v) PROVE
          /\ hpc[c] = "idle" /\ UNCHANGED <<follow, followed, friend, friends>>
          /\ \/ hpc'[c] = "idle"
             \/ /\ hpc'[c] = "unfollowDelete" /\ dst'[c] = v
                /\ follow[<<src(c), v>>] > 0 \/ failures'[src(c)] = failures[src(c)] + 1
  <2>1. IsFollowing(src(c), v) \in BOOLEAN /\ (IsFollowing(src(c), v) = TRUE => follow[<<src(c), v>>] > 0)
    BY DEF IsFollowing
  <2>2. PICK found \in BOOLEAN, wanted \in BOOLEAN :
             found = IsFollowing(src(c), v) /\ wanted = TRUE /\ Request(c, v, found, wanted, "unfollowDelete")
    BY <1>2, <2>1 DEF Unfollow
  <2>3. "unfollowDelete" \in Steps \ {"idle"} /\ Request(c, v, found, wanted, "unfollowDelete")
    BY <2>2 DEF Steps
  <2>4. /\ hpc[c] = "idle" /\ UNCHANGED <<follow, followed, friend, friends>>
        /\ \/ hpc'[c] = "idle"
           \/ /\ hpc'[c] = "unfollowDelete" /\ dst'[c] = v
              /\ found = wanted \/ failures'[src(c)] = failures[src(c)] + 1
    BY <2>3, LookUp
  <2> QED
    BY <2>1, <2>2, <2>4
<1>3. ASSUME Friend(c, v) PROVE
          /\ hpc[c] = "idle" /\ UNCHANGED <<follow, followed, friend, friends>>
          /\ hpc'[c] = "idle" \/ (hpc'[c] = "friendInsert" /\ dst'[c] = v)
  <2>1. IsFriended(src(c), v) \in BOOLEAN
    BY DEF IsFriended
  <2>2. PICK found \in BOOLEAN, wanted \in BOOLEAN :
             found = IsFriended(src(c), v) /\ wanted = FALSE /\ Request(c, v, found, wanted, "friendInsert")
    BY <1>3, <2>1 DEF Friend
  <2>3. "friendInsert" \in Steps \ {"idle"} /\ Request(c, v, found, wanted, "friendInsert")
    BY <2>2 DEF Steps
  <2>4. /\ hpc[c] = "idle" /\ UNCHANGED <<follow, followed, friend, friends>>
        /\ \/ hpc'[c] = "idle"
           \/ /\ hpc'[c] = "friendInsert" /\ dst'[c] = v
              /\ found = wanted \/ failures'[src(c)] = failures[src(c)] + 1
    BY <2>3, LookUp
  <2> QED
    BY <2>1, <2>2, <2>4
<1>4. ASSUME Unfriend(c, v) PROVE
          /\ hpc[c] = "idle" /\ UNCHANGED <<follow, followed, friend, friends>>
          /\ \/ hpc'[c] = "idle"
             \/ /\ hpc'[c] = "unfriendDelete" /\ dst'[c] = v
                /\ friend[<<src(c), v>>] > 0 \/ failures'[src(c)] = failures[src(c)] + 1
  <2>1. IsFriended(src(c), v) \in BOOLEAN /\ (IsFriended(src(c), v) = TRUE => friend[<<src(c), v>>] > 0)
    BY DEF IsFriended
  <2>2. PICK found \in BOOLEAN, wanted \in BOOLEAN :
             found = IsFriended(src(c), v) /\ wanted = TRUE /\ Request(c, v, found, wanted, "unfriendDelete")
    BY <1>4, <2>1 DEF Unfriend
  <2>3. "unfriendDelete" \in Steps \ {"idle"} /\ Request(c, v, found, wanted, "unfriendDelete")
    BY <2>2 DEF Steps
  <2>4. /\ hpc[c] = "idle" /\ UNCHANGED <<follow, followed, friend, friends>>
        /\ \/ hpc'[c] = "idle"
           \/ /\ hpc'[c] = "unfriendDelete" /\ dst'[c] = v
              /\ found = wanted \/ failures'[src(c)] = failures[src(c)] + 1
    BY <2>3, LookUp
  <2> QED
    BY <2>1, <2>2, <2>4
<1> QED
  BY <1>1, <1>2, <1>3, <1>4

-----------------------------------------------------------------------------
(* Follow: how far the counter is from the rows.                           *)

\* a and b differ by m at most.
Within(a, b, m) == a <= b + m /\ a >= b - m

\* The invariant of one user: between the two statements of a handler the counter
\* is one off, and where the first statement will change nothing, because the
\* look-up was refused, that refusal pays for it.
FollowInv(u) ==
    Sole(u) =>
        /\ \A c \in SessionsOf(u) :
              /\ hpc[c] = "followInsert" /\ follow[<<u, dst[c]>>] # 0 =>
                    Within(followed[u], Cardinality(Following(u)), failures[u] - 1)
              /\ hpc[c] = "unfollowDelete" /\ follow[<<u, dst[c]>>] = 0 =>
                    Within(followed[u], Cardinality(Following(u)), failures[u] - 1)
              /\ hpc[c] = "followCount" =>
                    Within(followed[u] + 1, Cardinality(Following(u)), failures[u])
              /\ hpc[c] = "unfollowCount" =>
                    Within(followed[u] - 1, Cardinality(Following(u)), failures[u])
              /\ hpc[c] \notin {"followCount", "unfollowCount"} =>
                    Within(followed[u], Cardinality(Following(u)), failures[u])
        /\ SessionsOf(u) = {} => Within(followed[u], Cardinality(Following(u)), failures[u])

\* A step of another connection keeps it.
LEMMA FollowOther ==
    ASSUME TypeOK, NEW c \in Conns, FollowStep(c) \/ FriendStep(c),
           NEW u \in Users, src(c) # u, FollowInv(u)
    PROVE  FollowInv(u)'
<1>1. /\ \A v \in Users : follow'[<<u, v>>] = follow[<<u, v>>]
      /\ followed'[u] = followed[u]
      /\ \A d \in Conns : src(d) = u => hpc'[d] = hpc[d] /\ dst'[d] = dst[d]
      /\ failures'[u] = failures[u]
  BY OthersKept
<1>2. Following(u)' = Following(u)
  BY <1>1 DEF Following, IsFollowing
<1>3. \A d \in Conns : dst[d] \in Users \/ hpc[d] = "idle"
  BY DEF TypeOK
<1> QED
  BY <1>1, <1>2, <1>3 DEF FollowInv, Sole, SessionsOf, src

\* So does a step of the user's only connection.
LEMMA FollowOwn ==
    ASSUME TypeOK, NEW c \in Conns, FollowStep(c) \/ FriendStep(c), FollowInv(src(c))
    PROVE  FollowInv(src(c))'
<1> DEFINE u == src(c)
           n == Cardinality(Following(u))
           f == failures[u]
           k == followed[u]
<1>0. u \in Users /\ UserOf[c] = u
  BY DEF src
<1> SUFFICES ASSUME Sole(u) PROVE FollowInv(u)'
  BY DEF FollowInv, Sole, SessionsOf, src
<1>1. /\ f \in Nat /\ failures'[u] \in {f, f + 1}
      /\ Refused(c) => failures'[u] = f + 1
  BY OwnFailures
<1>2. c \in SessionsOf(u) /\ \A d \in SessionsOf(u) : d = c
  BY DEF Sole, SessionsOf
<1>3. /\ hpc[c] = "followInsert" /\ follow[<<u, dst[c]>>] # 0 => Within(k, n, f - 1)
      /\ hpc[c] = "unfollowDelete" /\ follow[<<u, dst[c]>>] = 0 => Within(k, n, f - 1)
      /\ hpc[c] = "followCount" => Within(k + 1, n, f)
      /\ hpc[c] = "unfollowCount" => Within(k - 1, n, f)
      /\ hpc[c] \notin {"followCount", "unfollowCount"} => Within(k, n, f)
  BY <1>2 DEF FollowInv
<1>4. SUFFICES
        LET m == Cardinality(Following(u)') IN
        /\ hpc'[c] = "followInsert" /\ follow'[<<u, dst'[c]>>] # 0 =>
              Within(followed'[u], m, failures'[u] - 1)
        /\ hpc'[c] = "unfollowDelete" /\ follow'[<<u, dst'[c]>>] = 0 =>
              Within(followed'[u], m, failures'[u] - 1)
        /\ hpc'[c] = "followCount" => Within(followed'[u] + 1, m, failures'[u])
        /\ hpc'[c] = "unfollowCount" => Within(followed'[u] - 1, m, failures'[u])
        /\ hpc'[c] \notin {"followCount", "unfollowCount"} =>
              Within(followed'[u], m, failures'[u])
  BY <1>2 DEF FollowInv, Sole, SessionsOf, src, Within
<1>5. n \in Nat /\ IsFiniteSet(Following(u)) /\ k \in Int
  BY <1>0, SetsFinite DEF TypeOK
<1>6. ASSUME UNCHANGED follow PROVE Cardinality(Following(u)') = n
  BY <1>6 DEF Following, IsFollowing
<1>7. CASE \E v \in Users : Follow(c, v) \/ Unfollow(c, v) \/ Friend(c, v) \/ Unfriend(c, v)
  <2>1. PICK v \in Users : Follow(c, v) \/ Unfollow(c, v) \/ Friend(c, v) \/ Unfriend(c, v)
    BY <1>7
  <2>2. /\ hpc[c] = "idle" /\ UNCHANGED <<follow, followed>>
        /\ hpc'[c] \in {"idle", "followInsert", "unfollowDelete", "friendInsert", "unfriendDelete"}
        /\ hpc'[c] # "idle" => dst'[c] = v
        /\ hpc'[c] = "followInsert" => follow[<<u, v>>] = 0 \/ failures'[u] = f + 1
        /\ hpc'[c] = "unfollowDelete" => follow[<<u, v>>] > 0 \/ failures'[u] = f + 1
    BY <2>1, LookUps
  <2>3. follow[<<u, v>>] \in Nat
    BY <1>0 DEF TypeOK
  <2>4. Within(k, n, f)
    BY <1>3, <2>2
  <2> HIDE DEF n, f
  <2> QED
    BY <1>1, <1>4, <1>5, <1>6, <2>2, <2>3, <2>4 DEF Within
<1>8. CASE FollowInsert(c) /\ ~Refused(c)
  <2>1. /\ hpc[c] = "followInsert" /\ hpc'[c] = "followCount" /\ UNCHANGED <<followed, dst, failures>>
        /\ follow' = [follow EXCEPT ![<<u, dst[c]>>] = @ + 1]
    BY <1>8 DEF FollowInsert, Goto, Row, TypeOK
  <2>2. dst[c] \in Users /\ follow[<<u, dst[c]>>] \in Nat
    BY <1>0, <2>1 DEF TypeOK
  <2>3. /\ follow'[<<u, dst[c]>>] = follow[<<u, dst[c]>>] + 1
        /\ \A v \in Users \ {dst[c]} : follow'[<<u, v>>] = follow[<<u, v>>]
    BY <1>0, <2>1, <2>2 DEF TypeOK
  <2>4. Following(u)' = Following(u) \cup {dst[c]}
    BY <2>2, <2>3 DEF Following, IsFollowing
  <2>5. dst[c] \in Following(u) <=> follow[<<u, dst[c]>>] # 0
    BY <2>2 DEF Following, IsFollowing
  <2>6. Cardinality(Following(u)') = IF follow[<<u, dst[c]>>] # 0 THEN n ELSE n + 1
    BY <1>5, <2>4, <2>5, FS_AddElement
  <2> HIDE DEF n, f
  <2> QED
    BY <1>1, <1>3, <1>4, <1>5, <2>1, <2>6 DEF Within, f
<1>9. CASE FollowCount(c) /\ ~Refused(c)
  <2>1. /\ hpc[c] = "followCount" /\ hpc'[c] = "idle" /\ UNCHANGED <<follow, failures>>
        /\ followed'[u] = k + 1
    BY <1>0, <1>9 DEF FollowCount, Answer, TypeOK
  <2> QED
    BY <1>3, <1>4, <1>5, <1>6, <2>1
<1>10. CASE UnfollowDelete(c) /\ ~Refused(c)
  <2>1. /\ hpc[c] = "unfollowDelete" /\ hpc'[c] = "unfollowCount" /\ UNCHANGED <<followed, dst, failures>>
        /\ follow' = [follow EXCEPT ![<<u, dst[c]>>] = 0]
    BY <1>10 DEF UnfollowDelete, Goto, Row, TypeOK
  <2>2. dst[c] \in Users /\ follow[<<u, dst[c]>>] \in Nat
    BY <1>0, <2>1 DEF TypeOK
  <2>3. /\ follow'[<<u, dst[c]>>] = 0
        /\ \A v \in Users \ {dst[c]} : follow'[<<u, v>>] = follow[<<u, v>>]
    BY <1>0, <2>1, <2>2 DEF TypeOK
  <2>4. Following(u)' = Following(u) \ {dst[c]}
    BY <2>2, <2>3 DEF Following, IsFollowing
  <2>5. dst[c] \in Following(u) <=> follow[<<u, dst[c]>>] # 0
    BY <2>2 DEF Following, IsFollowing
  <2>6. Cardinality(Following(u)') = IF follow[<<u, dst[c]>>] # 0 THEN n - 1 ELSE n
    <3>1. CASE dst[c] \in Following(u)
      BY <1>5, <2>4, <2>5, <3>1, FS_RemoveElement
    <3>2. CASE dst[c] \notin Following(u)
      BY <2>4, <2>5, <3>2
    <3> QED
      BY <3>1, <3>2
  <2> HIDE DEF n, f
  <2> QED
    BY <1>1, <1>3, <1>4, <1>5, <2>1, <2>6 DEF Within, f
<1>11. CASE UnfollowCount(c) /\ ~Refused(c)
  <2>1. /\ hpc[c] = "unfollowCount" /\ hpc'[c] = "idle" /\ UNCHANGED <<follow, failures>>
        /\ followed'[u] = k - 1
    BY <1>0, <1>11 DEF UnfollowCount, Answer, TypeOK
  <2> QED
    BY <1>3, <1>4, <1>5, <1>6, <2>1
<1>12. CASE FriendInsert(c) \/ FriendCount(c) \/ UnfriendDelete(c) \/ UnfriendCount(c)
  <2>1. /\ UNCHANGED <<follow, followed>>
        /\ hpc[c] \in {"friendInsert", "friendCount", "unfriendDelete", "unfriendCount"}
        /\ hpc'[c] \in {"friendCount", "unfriendCount", "idle"}
    BY <1>12 DEF FriendInsert, FriendCount, UnfriendDelete, UnfriendCount, Goto, Answer, Refused,
                 TypeOK
  <2>2. Within(k, n, f)
    BY <1>3, <2>1
  <2> HIDE DEF n, f
  <2> QED
    BY <1>1, <1>4, <1>5, <1>6, <2>1, <2>2 DEF Within
\* A refused statement leaves the table and the counter where they were.
<1>13. CASE /\ FollowInsert(c) \/ FollowCount(c) \/ UnfollowDelete(c) \/ UnfollowCount(c)
            /\ Refused(c)
  <2>1. /\ hpc'[c] = "idle" /\ UNCHANGED <<follow, followed>> /\ failures'[u] = f + 1
    BY <1>1, <1>13 DEF FollowInsert, FollowCount, UnfollowDelete, UnfollowCount, Goto, Answer,
                       Refused, TypeOK
  <2>2. Within(k, n, f + 1)
    <3> HIDE DEF n, f, k
    <3> QED
      BY <1>1, <1>3, <1>5 DEF Within
  <2> QED
    BY <1>4, <1>6, <2>1, <2>2
<1> QED
  BY <1>7, <1>8, <1>9, <1>10, <1>11, <1>12, <1>13 DEF FollowStep, FriendStep

-----------------------------------------------------------------------------
(* Friend: how far the counter falls below the number of persons.          *)

\* The invariant of one user.  Duplicate rows make the counter too large, and
\* Unfriend deletes them all at once: it takes 1 off for at least one row, or a
\* refused look-up pays for it.
FriendInv(u) ==
    Sole(u) =>
        /\ \A c \in SessionsOf(u) :
              /\ hpc[c] = "unfriendDelete" /\ friend[<<u, dst[c]>>] = 0 =>
                    friends[u] + failures[u] > Cardinality(Befriended(u))
              /\ hpc[c] = "friendCount" =>
                    friends[u] + 1 + failures[u] >= Cardinality(Befriended(u))
              /\ hpc[c] = "unfriendCount" =>
                    friends[u] - 1 + failures[u] >= Cardinality(Befriended(u))
              /\ hpc[c] \notin {"friendCount", "unfriendCount"} =>
                    friends[u] + failures[u] >= Cardinality(Befriended(u))
        /\ SessionsOf(u) = {} => friends[u] + failures[u] >= Cardinality(Befriended(u))

\* A step of another connection keeps it: the look-up of Unfriend also reads the
\* row of the other user, which may go at any time, but the invariant does not
\* rest on that one.
LEMMA FriendOther ==
    ASSUME TypeOK, NEW c \in Conns, FollowStep(c) \/ FriendStep(c),
           NEW u \in Users, src(c) # u, FriendInv(u)
    PROVE  FriendInv(u)'
<1>1. /\ \A v \in Users : friend'[<<u, v>>] = friend[<<u, v>>]
      /\ friends'[u] = friends[u]
      /\ \A d \in Conns : src(d) = u => hpc'[d] = hpc[d] /\ dst'[d] = dst[d]
      /\ failures'[u] = failures[u]
  BY OthersKept
<1>2. Befriended(u)' = Befriended(u)
  BY <1>1 DEF Befriended
<1>3. \A d \in Conns : dst[d] \in Users \/ hpc[d] = "idle"
  BY DEF TypeOK
<1> QED
  BY <1>1, <1>2, <1>3 DEF FriendInv, Sole, SessionsOf, src

\* So does a step of the user's only connection.
LEMMA FriendOwn ==
    ASSUME TypeOK, NEW c \in Conns, FollowStep(c) \/ FriendStep(c), FriendInv(src(c))
    PROVE  FriendInv(src(c))'
<1> DEFINE u == src(c)
           n == Cardinality(Befriended(u))
           f == failures[u]
           k == friends[u]
<1>0. u \in Users /\ UserOf[c] = u
  BY DEF src
<1> SUFFICES ASSUME Sole(u) PROVE FriendInv(u)'
  BY DEF FriendInv, Sole, SessionsOf, src
<1>1. /\ f \in Nat /\ failures'[u] \in {f, f + 1}
      /\ Refused(c) => failures'[u] = f + 1
  BY OwnFailures
<1>2. c \in SessionsOf(u) /\ \A d \in SessionsOf(u) : d = c
  BY DEF Sole, SessionsOf
<1>3. /\ hpc[c] = "unfriendDelete" /\ friend[<<u, dst[c]>>] = 0 => k + f > n
      /\ hpc[c] = "friendCount" => k + 1 + f >= n
      /\ hpc[c] = "unfriendCount" => k - 1 + f >= n
      /\ hpc[c] \notin {"friendCount", "unfriendCount"} => k + f >= n
  BY <1>2 DEF FriendInv
<1>4. SUFFICES
        LET m == Cardinality(Befriended(u)') IN
        /\ hpc'[c] = "unfriendDelete" /\ friend'[<<u, dst'[c]>>] = 0 => friends'[u] + failures'[u] > m
        /\ hpc'[c] = "friendCount" => friends'[u] + 1 + failures'[u] >= m
        /\ hpc'[c] = "unfriendCount" => friends'[u] - 1 + failures'[u] >= m
        /\ hpc'[c] \notin {"friendCount", "unfriendCount"} => friends'[u] + failures'[u] >= m
  BY <1>2 DEF FriendInv, Sole, SessionsOf, src
<1>5. n \in Nat /\ IsFiniteSet(Befriended(u)) /\ k \in Int
  BY <1>0, SetsFinite DEF TypeOK
<1>6. ASSUME UNCHANGED friend PROVE Cardinality(Befriended(u)') = n
  BY <1>6 DEF Befriended
<1>7. CASE \E v \in Users : Follow(c, v) \/ Unfollow(c, v) \/ Friend(c, v) \/ Unfriend(c, v)
  <2>1. PICK v \in Users : Follow(c, v) \/ Unfollow(c, v) \/ Friend(c, v) \/ Unfriend(c, v)
    BY <1>7
  <2>2. /\ hpc[c] = "idle" /\ UNCHANGED <<friend, friends>>
        /\ hpc'[c] \in {"idle", "followInsert", "unfollowDelete", "friendInsert", "unfriendDelete"}
        /\ hpc'[c] # "idle" => dst'[c] = v
        /\ hpc'[c] = "unfriendDelete" => friend[<<u, v>>] > 0 \/ failures'[u] = f + 1
    BY <2>1, LookUps
  <2>3. friend[<<u, v>>] \in Nat
    BY <1>0 DEF TypeOK
  <2>4. k + f >= n
    BY <1>3, <2>2
  <2> HIDE DEF n, f
  <2> QED
    BY <1>1, <1>4, <1>5, <1>6, <2>2, <2>3, <2>4
<1>8. CASE FriendInsert(c) /\ ~Refused(c)
  <2>1. /\ hpc[c] = "friendInsert" /\ hpc'[c] = "friendCount" /\ UNCHANGED <<friends, dst, failures>>
        /\ friend' = [friend EXCEPT ![<<u, dst[c]>>] = @ + 1]
    BY <1>8 DEF FriendInsert, Goto, Row, TypeOK
  <2>2. dst[c] \in Users /\ friend[<<u, dst[c]>>] \in Nat
    BY <1>0, <2>1 DEF TypeOK
  <2>3. /\ friend'[<<u, dst[c]>>] > 0
        /\ \A v \in Users \ {dst[c]} : friend'[<<u, v>>] = friend[<<u, v>>]
    BY <1>0, <2>1, <2>2 DEF TypeOK
  <2>4. Befriended(u)' = Befriended(u) \cup {dst[c]}
    BY <2>2, <2>3 DEF Befriended
  <2>5. Cardinality(Befriended(u)') \in {n, n + 1}
    BY <1>5, <2>4, FS_AddElement
  <2> HIDE DEF n, f
  <2> QED
    BY <1>1, <1>3, <1>4, <1>5, <2>1, <2>5 DEF f
<1>9. CASE FriendCount(c) /\ ~Refused(c)
  <2>1. /\ hpc[c] = "friendCount" /\ hpc'[c] = "idle" /\ UNCHANGED <<friend, failures>>
        /\ friends'[u] = k + 1
    BY <1>0, <1>9 DEF FriendCount, Answer, TypeOK
  <2> QED
    BY <1>3, <1>4, <1>5, <1>6, <2>1
<1>10. CASE UnfriendDelete(c) /\ ~Refused(c)
  <2>1. /\ hpc[c] = "unfriendDelete" /\ hpc'[c] = "unfriendCount" /\ UNCHANGED <<friends, dst, failures>>
        /\ friend' = [friend EXCEPT ![<<u, dst[c]>>] = 0]
    BY <1>10 DEF UnfriendDelete, Goto, Row, TypeOK
  <2>2. dst[c] \in Users /\ friend[<<u, dst[c]>>] \in Nat
    BY <1>0, <2>1 DEF TypeOK
  <2>3. /\ friend'[<<u, dst[c]>>] = 0
        /\ \A v \in Users \ {dst[c]} : friend'[<<u, v>>] = friend[<<u, v>>]
    BY <1>0, <2>1, <2>2 DEF TypeOK
  <2>4. Befriended(u)' = Befriended(u) \ {dst[c]}
    BY <2>2, <2>3 DEF Befriended
  <2>5. dst[c] \in Befriended(u) <=> friend[<<u, dst[c]>>] # 0
    BY <2>2 DEF Befriended
  <2>6. Cardinality(Befriended(u)') = IF friend[<<u, dst[c]>>] # 0 THEN n - 1 ELSE n
    <3>1. CASE dst[c] \in Befriended(u)
      BY <1>5, <2>4, <2>5, <3>1, FS_RemoveElement
    <3>2. CASE dst[c] \notin Befriended(u)
      BY <2>4, <2>5, <3>2
    <3> QED
      BY <3>1, <3>2
  <2> HIDE DEF n, f
  <2> QED
    BY <1>1, <1>3, <1>4, <1>5, <2>1, <2>6 DEF f
<1>11. CASE UnfriendCount(c) /\ ~Refused(c)
  <2>1. /\ hpc[c] = "unfriendCount" /\ hpc'[c] = "idle" /\ UNCHANGED <<friend, failures>>
        /\ friends'[u] = k - 1
    BY <1>0, <1>11 DEF UnfriendCount, Answer, TypeOK
  <2> QED
    BY <1>3, <1>4, <1>5, <1>6, <2>1
<1>12. CASE FollowInsert(c) \/ FollowCount(c) \/ UnfollowDelete(c) \/ UnfollowCount(c)
  <2>1. /\ UNCHANGED <<friend, friends>>
        /\ hpc[c] \in {"followInsert", "followCount", "unfollowDelete", "unfollowCount"}
        /\ hpc'[c] \in {"followCount", "unfollowCount", "idle"}
    BY <1>12 DEF FollowInsert, FollowCount, UnfollowDelete, UnfollowCount, Goto, Answer, Refused,
                 TypeOK
  <2>2. k + f >= n
    BY <1>3, <2>1
  <2> HIDE DEF n, f
  <2> QED
    BY <1>1, <1>4, <1>5, <1>6, <2>1, <2>2
<1>13. CASE /\ FriendInsert(c) \/ FriendCount(c) \/ UnfriendDelete(c) \/ UnfriendCount(c)
            /\ Refused(c)
  <2>1. /\ hpc'[c] = "idle" /\ UNCHANGED <<friend, friends>> /\ failures'[u] = f + 1
    BY <1>1, <1>13 DEF FriendInsert, FriendCount, UnfriendDelete, UnfriendCount, Goto, Answer,
                       Refused, TypeOK
  <2>2. k + (f + 1) >= n
    <3> HIDE DEF n, f, k
    <3> QED
      BY <1>1, <1>3, <1>5
  <2> QED
    BY <1>4, <1>6, <2>1, <2>2
<1> QED
  BY <1>7, <1>8, <1>9, <1>10, <1>11, <1>12, <1>13 DEF FollowStep, FriendStep

-----------------------------------------------------------------------------
(* Follow: how many rows a pair can have.                                  *)

\* The connections of u that are about to insert the row <<u, v>>.
Inserting(u, v) == {c \in SessionsOf(u) : hpc[c] = "followInsert" /\ dst[c] = v}

RowsInv(u, v) ==
    follow[<<u, v>>] + Cardinality(Inserting(u, v)) <= Cardinality(SessionsOf(u)) + failures[u]

LEMMA Sizes ==
    ASSUME NEW u \in Users, NEW v \in Users
    PROVE  /\ IsFiniteSet(SessionsOf(u)) /\ Cardinality(SessionsOf(u)) \in Nat
           /\ IsFiniteSet(Inserting(u, v)) /\ Cardinality(Inserting(u, v)) \in Nat
           /\ Cardinality(Inserting(u, v)) <= Cardinality(SessionsOf(u))
<1>1. IsFiniteSet(SessionsOf(u)) /\ Cardinality(SessionsOf(u)) \in Nat
  BY FS_Subset, FS_CardinalityType DEF SessionsOf
<1>2. Inserting(u, v) \in SUBSET SessionsOf(u)
  BY DEF Inserting
<1>3. IsFiniteSet(Inserting(u, v)) /\ Cardinality(Inserting(u, v)) <= Cardinality(SessionsOf(u))
  BY <1>1, <1>2, FS_Subset
<1> QED
  BY <1>1, <1>3, FS_CardinalityType

\* What a step may do to the rows of a pair and to the connections about to
\* insert one.
LEMMA RowsMove ==
    ASSUME TypeOK, TypeOK', NEW c \in Conns, FollowStep(c) \/ FriendStep(c),
           NEW u \in Users, NEW v \in Users
    PROVE  /\ failures'[u] \in {failures[u], failures[u] + 1}
           /\ \A d \in Conns \ {c} : hpc'[d] = hpc[d] /\ dst'[d] = dst[d]
           /\ \/ follow'[<<u, v>>] = follow[<<u, v>>]
              \/ follow'[<<u, v>>] = 0
              \/ /\ follow'[<<u, v>>] = follow[<<u, v>>] + 1
                 /\ c \in Inserting(u, v) /\ hpc'[c] = "followCount"
           /\ /\ c \in SessionsOf(u) /\ hpc'[c] = "followInsert" /\ dst'[c] = v
              => /\ UNCHANGED follow
                 /\ follow[<<u, v>>] = 0 \/ failures'[u] = failures[u] + 1
<1>0. follow[<<u, v>>] \in Nat /\ failures[u] \in Nat
  BY DEF TypeOK
<1>1. failures'[u] \in {failures[u], failures[u] + 1}
  BY OthersKept, OwnFailures
<1>2. \A d \in Conns \ {c} : hpc'[d] = hpc[d] /\ dst'[d] = dst[d]
  BY DEF FollowStep, FriendStep, Follow, Unfollow, FollowInsert, FollowCount, UnfollowDelete,
         UnfollowCount, Friend, Unfriend, FriendInsert, FriendCount, UnfriendDelete,
         UnfriendCount, Request, Refused, Answer, Goto, TypeOK
<1>3. CASE \E w \in Users : Follow(c, w) \/ Unfollow(c, w) \/ Friend(c, w) \/ Unfriend(c, w)
  <2>1. PICK w \in Users : Follow(c, w) \/ Unfollow(c, w) \/ Friend(c, w) \/ Unfriend(c, w)
    BY <1>3
  <2>2. /\ UNCHANGED follow
        /\ hpc'[c] # "idle" => dst'[c] = w
        /\ hpc'[c] = "followInsert" =>
              follow[<<src(c), w>>] = 0 \/ failures'[src(c)] = failures[src(c)] + 1
    BY <2>1, LookUps
  <2> QED
    BY <1>1, <1>2, <2>2 DEF SessionsOf
<1>4. CASE FollowInsert(c) /\ ~Refused(c)
  <2>1. /\ hpc[c] = "followInsert" /\ hpc'[c] = "followCount"
        /\ follow' = [follow EXCEPT ![Row(c)] = @ + 1]
        /\ Row(c) \in Users \X Users
    BY <1>4, RowTyped DEF FollowInsert, Goto, TypeOK
  <2>2. CASE Row(c) = <<u, v>>
    <3>1. c \in Inserting(u, v)
      BY <2>1, <2>2 DEF Row, Inserting, SessionsOf
    <3>2. follow'[<<u, v>>] = follow[<<u, v>>] + 1
      BY <1>0, <2>1, <2>2 DEF TypeOK
    <3> QED
      BY <1>1, <1>2, <2>1, <3>1, <3>2
  <2>3. CASE Row(c) # <<u, v>>
    <3>1. follow'[<<u, v>>] = follow[<<u, v>>]
      BY <2>1, <2>3 DEF TypeOK
    <3> QED
      BY <1>1, <1>2, <2>1, <3>1
  <2> QED
    BY <2>2, <2>3
<1>5. CASE UnfollowDelete(c) /\ ~Refused(c)
  <2>1. /\ hpc'[c] = "unfollowCount" /\ follow' = [follow EXCEPT ![Row(c)] = 0]
    BY <1>5 DEF UnfollowDelete, Goto, TypeOK
  <2>2. follow'[<<u, v>>] = follow[<<u, v>>] \/ follow'[<<u, v>>] = 0
    BY <2>1 DEF TypeOK
  <2> QED
    BY <1>1, <1>2, <2>1, <2>2
<1>6. CASE \/ FollowCount(c) \/ UnfollowCount(c)
           \/ FriendInsert(c) \/ FriendCount(c) \/ UnfriendDelete(c) \/ UnfriendCount(c)
           \/ (FollowInsert(c) /\ Refused(c)) \/ (UnfollowDelete(c) /\ Refused(c))
  <2>1. UNCHANGED follow /\ hpc'[c] # "followInsert"
    BY <1>6 DEF FollowCount, UnfollowCount, FriendInsert, FriendCount, UnfriendDelete,
                UnfriendCount, FollowInsert, UnfollowDelete, Goto, Answer, Refused, TypeOK
  <2> QED
    BY <1>1, <1>2, <2>1
<1> QED
  BY <1>3, <1>4, <1>5, <1>6 DEF FollowStep, FriendStep

\* A row is inserted by a connection that was about to; a look-up that finds no
\* row finds at most all connections of the user before their inserts.
LEMMA RowsStep ==
    ASSUME TypeOK, TypeOK', NEW c \in Conns, FollowStep(c) \/ FriendStep(c),
           NEW u \in Users, NEW v \in Users, RowsInv(u, v)
    PROVE  RowsInv(u, v)'
<1> DEFINE before == Inserting(u, v)
           after == Inserting(u, v)'
           sessions == Cardinality(SessionsOf(u))
<1>1. /\ failures'[u] \in {failures[u], failures[u] + 1}
      /\ \A d \in Conns \ {c} : hpc'[d] = hpc[d] /\ dst'[d] = dst[d]
      /\ \/ follow'[<<u, v>>] = follow[<<u, v>>]
         \/ follow'[<<u, v>>] = 0
         \/ /\ follow'[<<u, v>>] = follow[<<u, v>>] + 1
            /\ c \in Inserting(u, v) /\ hpc'[c] = "followCount"
      /\ /\ c \in SessionsOf(u) /\ hpc'[c] = "followInsert" /\ dst'[c] = v
         => /\ UNCHANGED follow
            /\ follow[<<u, v>>] = 0 \/ failures'[u] = failures[u] + 1
  BY RowsMove
<1>2. /\ follow[<<u, v>>] \in Nat /\ follow'[<<u, v>>] \in Nat /\ failures[u] \in Nat
      /\ failures'[u] \in Nat
  BY DEF TypeOK
<1>3. after = {d \in SessionsOf(u) : hpc'[d] = "followInsert" /\ dst'[d] = v}
  BY DEF Inserting, SessionsOf, src
<1>4. /\ sessions \in Nat /\ IsFiniteSet(before) /\ Cardinality(before) \in Nat
      /\ Cardinality(before) <= sessions
  BY Sizes
<1>5. Cardinality(after) \in Nat /\ Cardinality(after) <= sessions
  <2>1. IsFiniteSet(SessionsOf(u)) /\ after \in SUBSET SessionsOf(u)
    BY <1>3, Sizes
  <2> QED
    BY <2>1, FS_Subset, FS_CardinalityType
<1>6. follow[<<u, v>>] + Cardinality(before) <= sessions + failures[u]
  BY DEF RowsInv
<1>7. SUFFICES follow'[<<u, v>>] + Cardinality(after) <= sessions + failures'[u]
  BY DEF RowsInv, SessionsOf, src
<1>8. CASE c \in after
  <2>1. UNCHANGED follow /\ (follow[<<u, v>>] = 0 \/ failures'[u] = failures[u] + 1)
    BY <1>1, <1>3, <1>8
  <2>2. after = before \cup {c}
    BY <1>1, <1>3, <1>8 DEF Inserting, SessionsOf
  <2>3. Cardinality(after) \in {Cardinality(before), Cardinality(before) + 1}
    BY <1>4, <2>2, FS_AddElement
  <2> HIDE DEF before, after, sessions
  <2> QED
    BY <1>1, <1>2, <1>4, <1>5, <1>6, <2>1, <2>3
<1>9. CASE c \notin after
  <2>1. after = before \ {c}
    BY <1>1, <1>3, <1>9 DEF Inserting, SessionsOf
  <2>2. Cardinality(after) = IF c \in before THEN Cardinality(before) - 1 ELSE Cardinality(before)
    BY <1>4, <2>1, FS_RemoveElement
  <2> HIDE DEF after, sessions
  <2> QED
    BY <1>1, <1>2, <1>4, <1>6, <2>2
<1> QED
  BY <1>8, <1>9

-----------------------------------------------------------------------------
(* The theorems.                                                           *)

IInv ==
    /\ TypeOK
    /\ \A u \in Users : FollowInv(u) /\ FriendInv(u)
    /\ \A u, v \in Users : RowsInv(u, v)

\* IInv holds at the start and no step breaks it.
LEMMA Inductive == (Init => IInv) /\ (IInv /\ [Next]_vars => IInv')
<1>1. ASSUME Init PROVE IInv
  <2>1. TypeOK
    BY <1>1, InitTyped
  <2>2. ASSUME NEW u \in Users PROVE FollowInv(u) /\ FriendInv(u)
    <3>1. Following(u) = {} /\ Befriended(u) = {}
      BY <1>1, <2>2 DEF Init, Following, IsFollowing, Befriended
    <3>2. Cardinality({}) = 0
      BY FS_EmptySet
    <3>3. followed[u] = 0 /\ friends[u] = 0 /\ failures[u] = 0 /\ \A c \in SessionsOf(u) : hpc[c] = "idle"
      BY <1>1, <2>2 DEF Init, SessionsOf
    <3> QED
      BY <1>1, <3>1, <3>2, <3>3 DEF Init, FollowInv, FriendInv, Within
  <2>3. ASSUME NEW u \in Users, NEW v \in Users PROVE RowsInv(u, v)
    <3>1. follow[<<u, v>>] = 0 /\ failures[u] = 0
      BY <1>1 DEF Init
    <3> QED
      BY <3>1, Sizes DEF RowsInv
  <2> QED
    BY <2>1, <2>2, <2>3 DEF IInv
<1>2. ASSUME IInv, [Next]_vars PROVE IInv'
  <2>1. TypeOK /\ TypeOK'
    BY <1>2, TypeStep DEF IInv
  <2>2. ASSUME NEW u \in Users PROVE FollowInv(u)' /\ FriendInv(u)'
    <3>1. FollowInv(u) /\ FriendInv(u)
      BY <1>2 DEF IInv
    <3>2. ASSUME NEW c \in Conns, FollowStep(c) \/ FriendStep(c)
          PROVE  FollowInv(u)' /\ FriendInv(u)'
      <4>1. CASE src(c) = u
        <5>1. FollowInv(src(c)) /\ FriendInv(src(c))
          BY <3>1, <4>1
        <5>2. FollowInv(src(c))' /\ FriendInv(src(c))'
          BY <2>1, <3>2, <5>1, FollowOwn, FriendOwn
        <5> QED
          BY <4>1, <5>2 DEF FollowInv, FriendInv, Sole, SessionsOf, src, Following, IsFollowing,
                            Befriended
      <4>2. CASE src(c) # u
        BY <2>1, <3>1, <3>2, <4>2, FollowOther, FriendOther
      <4> QED
        BY <4>1, <4>2
    <3>3. CASE UNCHANGED vars
      BY <3>1, <3>3 DEF vars, FollowInv, FriendInv, SessionsOf, Sole, src, Following, IsFollowing,
                        Befriended
    <3> QED
      BY <1>2, <3>2, <3>3 DEF Next
  <2>3. ASSUME NEW u \in Users, NEW v \in Users PROVE RowsInv(u, v)'
    <3>1. RowsInv(u, v)
      BY <1>2 DEF IInv
    <3>2. CASE UNCHANGED vars
      BY <3>1, <3>2 DEF vars, RowsInv, Inserting, SessionsOf, src
    <3> QED
      BY <1>2, <2>1, <3>1, <3>2, RowsStep DEF Next
  <2> QED
    BY <2>1, <2>2, <2>3 DEF IInv
<1> QED
  BY <1>1, <1>2

\* The races of Follow give a pair no more rows than its user has connections,
\* and one more for each of its statements that was refused.
THEOREM FollowsBoundedHolds == Spec => []FollowsBounded
<1>1. IInv => FollowsBounded
  <2> SUFFICES ASSUME IInv, NEW u \in Users, NEW v \in Users
               PROVE  follow[<<u, v>>] <= Cardinality(SessionsOf(u)) + failures[u]
    BY DEF FollowsBounded
  <2>1. /\ follow[<<u, v>>] \in Nat /\ failures[u] \in Nat
        /\ follow[<<u, v>>] + Cardinality(Inserting(u, v)) <= Cardinality(SessionsOf(u)) + failures[u]
    BY DEF IInv, TypeOK, RowsInv
  <2> QED
    BY <2>1, Sizes
<1> QED
  BY <1>1, Inductive, PTL DEF Spec

\* account.followed stays as close to the number of users followed as refused
\* statements allow, for a user who is logged in once.
THEOREM FollowingCountedHolds == Spec => []FollowingCounted
<1>1. IInv => FollowingCounted
  <2> SUFFICES ASSUME IInv, NEW u \in Users, Sole(u), AtRest(u)
               PROVE  Within(followed[u], Cardinality(Following(u)), failures[u])
    BY DEF FollowingCounted, Within
  <2>1. \A c \in SessionsOf(u) : hpc[c] = "idle"
    BY DEF AtRest
  <2> QED
    BY <2>1 DEF IInv, FollowInv
<1> QED
  BY <1>1, Inductive, PTL DEF Spec

\* The counter of friends is not too small by more than the refused statements.
THEOREM FriendsNotUndercountedHolds == Spec => []FriendsNotUndercounted
<1>1. IInv => FriendsNotUndercounted
  <2> SUFFICES ASSUME IInv, NEW u \in Users, Sole(u), AtRest(u)
               PROVE  friends[u] >= Cardinality(Befriended(u)) - failures[u]
    BY DEF FriendsNotUndercounted
  <2>1. \A c \in SessionsOf(u) : hpc[c] = "idle"
    BY DEF AtRest
  <2>2. friends[u] + failures[u] >= Cardinality(Befriended(u))
    BY <2>1 DEF IInv, FriendInv
  <2> QED
    BY <2>2, SetsFinite DEF IInv, TypeOK
<1> QED
  BY <1>1, Inductive, PTL DEF Spec

-----------------------------------------------------------------------------
(* The answers are true, even of users for whom a statement was refused.   *)

\* The first statement of a handler has done its work when the second one runs.
AnswerInv(c) ==
    Sole(src(c)) =>
        /\ hpc[c] = "followCount" => follow[Row(c)] > 0
        /\ hpc[c] = "unfollowCount" => follow[Row(c)] = 0
        /\ hpc[c] = "unfriendCount" => friend[Row(c)] = 0

LEMMA AnswerOwn ==
    ASSUME TypeOK, NEW c \in Conns, FollowStep(c) \/ FriendStep(c), AnswerInv(c)
    PROVE  AnswerInv(c)'
<1>1. CASE FollowInsert(c) /\ ~Refused(c)
  <2>1. /\ hpc'[c] = "followCount" /\ dst' = dst
        /\ follow' = [follow EXCEPT ![Row(c)] = @ + 1]
        /\ Row(c) \in Users \X Users
    BY <1>1, RowTyped DEF FollowInsert, Goto, TypeOK
  <2> QED
    BY <2>1 DEF AnswerInv, Row, src, TypeOK
<1>2. CASE UnfollowDelete(c) /\ ~Refused(c)
  <2>1. /\ hpc'[c] = "unfollowCount" /\ dst' = dst
        /\ follow' = [follow EXCEPT ![Row(c)] = 0]
        /\ Row(c) \in Users \X Users
    BY <1>2, RowTyped DEF UnfollowDelete, Goto, TypeOK
  <2> QED
    BY <2>1 DEF AnswerInv, Row, src, TypeOK
<1>3. CASE UnfriendDelete(c) /\ ~Refused(c)
  <2>1. /\ hpc'[c] = "unfriendCount" /\ dst' = dst
        /\ friend' = [friend EXCEPT ![Row(c)] = 0]
        /\ Row(c) \in Users \X Users
    BY <1>3, RowTyped DEF UnfriendDelete, Goto, TypeOK
  <2> QED
    BY <2>1 DEF AnswerInv, Row, src, TypeOK
<1>4. CASE hpc'[c] \notin {"followCount", "unfollowCount", "unfriendCount"}
  BY <1>4 DEF AnswerInv
<1>5. \/ FollowInsert(c) /\ ~Refused(c)
      \/ UnfollowDelete(c) /\ ~Refused(c)
      \/ UnfriendDelete(c) /\ ~Refused(c)
      \/ hpc'[c] \notin {"followCount", "unfollowCount", "unfriendCount"}
  BY DEF FollowStep, FriendStep, Follow, Unfollow, FollowInsert, FollowCount, UnfollowDelete,
         UnfollowCount, Friend, Unfriend, FriendInsert, FriendCount, UnfriendDelete,
         UnfriendCount, Request, Refused, Answer, Goto, TypeOK
<1> QED
  BY <1>1, <1>2, <1>3, <1>4, <1>5

LEMMA AnswerOther ==
    ASSUME TypeOK, NEW c \in Conns, FollowStep(c) \/ FriendStep(c),
           NEW d \in Conns, d # c, AnswerInv(d)
    PROVE  AnswerInv(d)'
<1> SUFFICES ASSUME Sole(src(d)) PROVE AnswerInv(d)'
  BY DEF AnswerInv, Sole, SessionsOf, src
<1>0. src(d) \in Users /\ src(c) # src(d)
  BY DEF Sole, SessionsOf, src
<1>1. /\ \A v \in Users : follow'[<<src(d), v>>] = follow[<<src(d), v>>]
      /\ \A v \in Users : friend'[<<src(d), v>>] = friend[<<src(d), v>>]
      /\ hpc'[d] = hpc[d] /\ dst'[d] = dst[d]
  BY <1>0, OthersKept
<1>2. dst[d] \in Users \/ hpc[d] = "idle"
  BY DEF TypeOK
<1> QED
  BY <1>1, <1>2 DEF AnswerInv, Row, src

LEMMA AnswerInductive ==
    /\ Init => \A c \in Conns : AnswerInv(c)
    /\ TypeOK /\ (\A c \in Conns : AnswerInv(c)) /\ [Next]_vars
          => \A c \in Conns : AnswerInv(c)'
<1>1. Init => \A c \in Conns : AnswerInv(c)
  BY DEF Init, AnswerInv
<1>2. ASSUME TypeOK, \A c \in Conns : AnswerInv(c), [Next]_vars, NEW d \in Conns
      PROVE  AnswerInv(d)'
  <2>1. ASSUME NEW c \in Conns, FollowStep(c) \/ FriendStep(c) PROVE AnswerInv(d)'
    BY <1>2, <2>1, AnswerOwn, AnswerOther
  <2>2. CASE UNCHANGED vars
    BY <1>2, <2>2 DEF vars, AnswerInv, Sole, SessionsOf, Row, src
  <2> QED
    BY <1>2, <2>1, <2>2 DEF Next
<1> QED
  BY <1>1, <1>2

\* A good answer to Follow or Unfollow is true when it is given, whatever
\* statements the database refuses.
THEOREM FollowAnswerTrueHolds == Spec => FollowAnswerTrue
<1> DEFINE Inv == TypeOK /\ \A c \in Conns : AnswerInv(c)
<1>1. Init => Inv
  BY InitTyped, AnswerInductive
<1>2. Inv /\ [Next]_vars => Inv'
  BY TypeStep, AnswerInductive
<1>3. Inv /\ [Next]_vars =>
        [\A c \in Conns : Sole(src(c)) /\ answer[c] = "none" /\ answer'[c] = "ok" =>
             /\ hpc[c] = "followCount" => follow'[Row(c)] > 0
             /\ hpc[c] = "unfollowCount" => follow'[Row(c)] = 0]_vars
  <2> SUFFICES ASSUME Inv, Next, NEW c \in Conns, Sole(src(c)), answer[c] = "none",
                      answer'[c] = "ok"
               PROVE  /\ hpc[c] = "followCount" => follow'[Row(c)] > 0
                      /\ hpc[c] = "unfollowCount" => follow'[Row(c)] = 0
    OBVIOUS
  <2>1. PICK d \in Conns : FollowStep(d) \/ FriendStep(d)
    BY DEF Next
  <2>2. d = c
    <3>1. ASSUME d # c PROVE answer'[c] = answer[c]
      BY <2>1, <3>1 DEF FollowStep, FriendStep, Follow, Unfollow, FollowInsert, FollowCount,
             UnfollowDelete, UnfollowCount, Friend, Unfriend, FriendInsert, FriendCount,
             UnfriendDelete, UnfriendCount, Request, Refused, Answer, Goto, TypeOK
    <3> QED
      BY <3>1
  <2>3. FollowCount(c) \/ UnfollowCount(c) \/ hpc[c] \notin {"followCount", "unfollowCount"}
    BY <2>1, <2>2 DEF FollowStep, FriendStep, Follow, Unfollow, FollowInsert, UnfollowDelete,
           Friend, Unfriend, FriendInsert, FriendCount, UnfriendDelete, UnfriendCount, Request
  <2>4. UNCHANGED follow \/ hpc[c] \notin {"followCount", "unfollowCount"}
    BY <2>3 DEF FollowCount, UnfollowCount
  <2> QED
    BY <2>4 DEF AnswerInv
<1> QED
  BY <1>1, <1>2, <1>3, PTL DEF Spec, FollowAnswerTrue

\* After a good answer to Unfriend the user has no row for the other left.
THEOREM UnfriendAnswerTrueHolds == Spec => UnfriendAnswerTrue
<1> DEFINE Inv == TypeOK /\ \A c \in Conns : AnswerInv(c)
<1>1. Init => Inv
  BY InitTyped, AnswerInductive
<1>2. Inv /\ [Next]_vars => Inv'
  BY TypeStep, AnswerInductive
<1>3. Inv /\ [Next]_vars =>
        [\A c \in Conns : Sole(src(c)) /\ hpc[c] = "unfriendCount" /\ answer'[c] = "ok"
             => friend'[Row(c)] = 0]_vars
  <2> SUFFICES ASSUME Inv, Next, NEW c \in Conns, Sole(src(c)), hpc[c] = "unfriendCount",
                      answer'[c] = "ok"
               PROVE  friend'[Row(c)] = 0
    OBVIOUS
  <2>1. PICK d \in Conns : FollowStep(d) \/ FriendStep(d)
    BY DEF Next
  <2>2. CASE d = c
    <3>1. UnfriendCount(c)
      BY <2>1, <2>2 DEF FollowStep, FriendStep, Follow, Unfollow, FollowInsert, FollowCount,
             UnfollowDelete, UnfollowCount, Friend, Unfriend, FriendInsert, FriendCount,
             UnfriendDelete, Request
    <3> QED
      BY <3>1 DEF UnfriendCount, AnswerInv
  <2>3. CASE d # c
    <3>1. src(d) # src(c) /\ src(c) \in Users /\ dst[c] \in Users
      BY <2>3 DEF Sole, SessionsOf, src, TypeOK
    <3>2. friend'[<<src(c), dst[c]>>] = friend[<<src(c), dst[c]>>]
      BY <2>1, <3>1, OthersKept
    <3> QED
      BY <3>2 DEF AnswerInv, Row
  <2> QED
    BY <2>2, <2>3
<1> QED
  BY <1>1, <1>2, <1>3, PTL DEF Spec, UnfriendAnswerTrue

=============================================================================
