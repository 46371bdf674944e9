---------------------------- MODULE AccountsProofs ----------------------------
(***************************************************************************)
(* Proofs about Accounts, for every set of clients, ids and numbers and    *)
(* any number of requests.                                                 *)
(***************************************************************************)
EXTENDS Accounts, FiniteSetTheorems, TLAPS

USE AccountsAssumption DEF tables, handlerVars, history

-----------------------------------------------------------------------------
(* Every state of the specification is well typed.                         *)

\* A request more is within its bound.
LEMMA RequestTyped ==
    ASSUME TypeOK, NEW c \in Conns, Request(c)
    PROVE  requests' \in 0 .. MaxRequests
<1>1. MaxRequests \in Nat
  OBVIOUS
<1> QED
  BY <1>1 DEF Request, TypeOK

\* What the handlers do besides their statements keeps the types.
LEMMA GotoTyped ==
    ASSUME TypeOK, NEW c \in Conns, NEW step \in Steps, NEW u \in Users \cup {NoUser},
           step = "idle" <=> u = NoUser, Goto(c, step, u)
    PROVE  /\ hpc' \in [Conns -> Steps]
           /\ arg' \in [Conns -> Users \cup {NoUser}]
           /\ \A d \in Conns : arg'[d] = NoUser <=> hpc'[d] = "idle"
  BY DEF Goto, TypeOK

LEMMA ReplyTyped ==
    ASSUME TypeOK, NEW c \in Conns,
           NEW a \in {"none", "ok", "exists", "incorrect", "failed", "info"}, Reply(c, a)
    PROVE  answer' \in [Conns -> {"none", "ok", "exists", "incorrect", "failed", "info"}]
  BY DEF Reply, TypeOK

\* A finite set has at least as many elements as what a function makes of it.
LEMMA ImageSize ==
    ASSUME NEW S, NEW T, IsFiniteSet(S), NEW f \in [S -> T], \A t \in T : \E x \in S : f[x] = t
    PROVE  IsFiniteSet(T) /\ Cardinality(T) <= Cardinality(S)
<1>1. f \in Surjection(S, T)
  BY DEF Surjection
<1> QED
  BY <1>1, FS_Surjection

LEMMA RowsFinite ==
    ASSUME TypeOK, NEW u \in Users
    PROVE  IsFiniteSet(RowsOf(u)) /\ Cardinality(RowsOf(u)) \in Nat
<1>1. RowsOf(u) \in SUBSET account /\ IsFiniteSet(account)
  BY DEF RowsOf, TypeOK
<1> QED
  BY <1>1, FS_Subset, FS_CardinalityType

\* Setting the nick of an id keeps the rows, their ids and passwords.
LEMMA NickSet ==
    ASSUME TypeOK, NEW u \in Users, NEW n \in {"given", "blank"}, SetNick(u, n)
    PROVE  /\ account' \subseteq Row /\ IsFiniteSet(account')
           /\ \A r \in account : \E s \in account' : s.id = r.id /\ s.pw = r.pw
           /\ \A s \in account' : \E r \in account : s.row = r.row
           /\ \A v \in Users : Cardinality(RowsOf(v)') <= Cardinality(RowsOf(v))
<1> DEFINE g(r) == IF r.id = u THEN [r EXCEPT !.nick = n] ELSE r
<1>1. \A r \in account : g(r) \in Row /\ g(r).row = r.row /\ g(r).id = r.id /\ g(r).pw = r.pw
  BY DEF TypeOK, Row
<1>2. account' = {g(r) : r \in account}
  BY DEF SetNick
<1> HIDE DEF g
<1>3. IsFiniteSet(account')
  <2> DEFINE f == [r \in account |-> g(r)]
  <2>1. f \in [account -> account'] /\ \A t \in account' : \E x \in account : f[x] = t
    BY <1>2
  <2>2. IsFiniteSet(account)
    BY DEF TypeOK
  <2> HIDE DEF f
  <2> QED
    BY <2>1, <2>2, ImageSize
<1>4. ASSUME NEW v \in Users PROVE Cardinality(RowsOf(v)') <= Cardinality(RowsOf(v))
  <2> DEFINE f == [r \in RowsOf(v) |-> g(r)]
  <2>1. RowsOf(v)' = {s \in account' : s.id = v}
    BY DEF RowsOf
  <2>2. f \in [RowsOf(v) -> RowsOf(v)'] /\ \A t \in RowsOf(v)' : \E x \in RowsOf(v) : f[x] = t
    BY <1>1, <1>2, <2>1 DEF RowsOf
  <2>3. IsFiniteSet(RowsOf(v))
    BY RowsFinite
  <2> HIDE DEF f
  <2> QED
    BY <2>2, <2>3, ImageSize
<1> QED
  BY <1>1, <1>2, <1>3, <1>4

\* UpdateUserAndroid gives the rows of an id the device, and changes no other.
LEMMA AndroidSet ==
    ASSUME TypeOK, NEW u \in Users, NEW c \in Conns,
           account2' = {IF r.id = u THEN [r EXCEPT !.android = c] ELSE r : r \in account2}
    PROVE  /\ account2' \subseteq Row2
           /\ \A r \in account2 : \E s \in account2' :
                 s.id = r.id /\ s.android = IF r.id = u THEN c ELSE r.android
           /\ \A s \in account2' : \E r \in account2 : s.row = r.row
<1> DEFINE g(r) == IF r.id = u THEN [r EXCEPT !.android = c] ELSE r
<1>1. \A r \in account2 : /\ g(r) \in Row2 /\ g(r).row = r.row /\ g(r).id = r.id
                           /\ g(r).android = IF r.id = u THEN c ELSE r.android
  BY DEF TypeOK, Row2
<1>2. account2' = {g(r) : r \in account2}
  OBVIOUS
<1> HIDE DEF g
<1> QED
  BY <1>1, <1>2

\* UpdateUserFacebook sets the id at the other site, and changes no device.
LEMMA FacebookSet ==
    ASSUME TypeOK, NEW u \in Users, NEW c \in Conns,
           account2' = {IF r.id = u THEN [r EXCEPT !.facebook = c] ELSE r : r \in account2}
    PROVE  /\ account2' \subseteq Row2
           /\ \A r \in account2 : \E s \in account2' :
                 s.id = r.id /\ s.android = r.android /\ (r.id = u => s.facebook = c)
           /\ \A s \in account2' : \E r \in account2 : s.row = r.row
<1> DEFINE g(r) == IF r.id = u THEN [r EXCEPT !.facebook = c] ELSE r
<1>1. \A r \in account2 : /\ g(r) \in Row2 /\ g(r).row = r.row /\ g(r).id = r.id
                           /\ g(r).android = r.android /\ (r.id = u => g(r).facebook = c)
  BY DEF TypeOK, Row2
<1>2. account2' = {g(r) : r \in account2}
  OBVIOUS
<1> HIDE DEF g
<1> QED
  BY <1>1, <1>2

\* Of the handlers of users, one changes account2, in the rows of its own user.
LEMMA UserTable2 ==
    ASSUME TypeOK, NEW c \in Conns, UserStep(c)
    PROVE  \/ account2' = account2
           \/ \E u \in Users :
                 account2' = {IF r.id = u THEN [r EXCEPT !.facebook = c] ELSE r : r \in account2}
<1>1. CASE UserUpdateFacebook(c)
  <2>1. user[c] \in Users
    BY <1>1 DEF UserUpdateFacebook, TypeOK
  <2> QED
    BY <1>1, <2>1 DEF UserUpdateFacebook, UpdateUserFacebook, Refused
<1>2. CASE ~UserUpdateFacebook(c)
  BY <1>2 DEF UserStep, UserUpdate, UserUpdateComment, UserQuery, UserQueryFacebook, PostIncrease,
              Refused
<1> QED
  BY <1>1, <1>2

LEMMA TypeStep == TypeOK /\ [Next]_vars => TypeOK'
<1> SUFFICES ASSUME TypeOK, [Next]_vars PROVE TypeOK'
  OBVIOUS
<1>1. ASSUME NEW c \in Conns, RegistStep(c) PROVE TypeOK'
  <2>1. ASSUME NEW u \in Users, RegistTry(c, u) PROVE TypeOK'
    <3>1. /\ hpc' \in [Conns -> Steps]
          /\ arg' \in [Conns -> Users \cup {NoUser}]
          /\ \A d \in Conns : arg'[d] = NoUser <=> hpc'[d] = "idle"
      BY <2>1, GotoTyped DEF RegistTry, GoOn, Steps, TypeOK
    <3>2. requests' \in 0 .. MaxRequests
      BY <2>1, RequestTyped DEF RegistTry
    <3>3. answer' \in [Conns -> {"none", "ok", "exists", "incorrect", "failed", "info"}]
      BY <2>1, ReplyTyped DEF RegistTry, GoOn
    <3>4. ret' \in [Conns -> BOOLEAN] /\ races' \in [Users -> Nat]
      <4>1. ret' = ret \/ ret' = [ret EXCEPT ![c] = TRUE]
        BY <2>1 DEF RegistTry, GoOn
      <4>2. races' = races \/ \E k \in {0, 1} : races' = [races EXCEPT ![u] = @ + k]
        BY <2>1 DEF RegistTry, GoOn
      <4>3. races' \in [Users -> Nat]
        BY <4>2 DEF TypeOK
      <4>4. ret' \in [Conns -> BOOLEAN]
        BY <4>1 DEF TypeOK
      <4> QED
        BY <4>3, <4>4
    <3>5. UNCHANGED <<tables, user, registered, disturbed>>
      BY <2>1 DEF RegistTry
    <3> QED
      BY <3>1, <3>2, <3>3, <3>4, <3>5 DEF TypeOK
  <2>2. CASE RegistAccount(c)
    <3>0. arg[c] \in Users
      BY <2>2 DEF RegistAccount, TypeOK
    <3>1. /\ hpc' \in [Conns -> Steps]
          /\ arg' \in [Conns -> Users \cup {NoUser}]
          /\ \A d \in Conns : arg'[d] = NoUser <=> hpc'[d] = "idle"
      BY <2>2, <3>0, GotoTyped DEF RegistAccount, Steps
    <3>2. CASE /\ inserted' = inserted + 1
               /\ account' = account \cup
                   {[row |-> inserted', id |-> arg[c], pw |-> c, nick |-> "given"]}
               /\ UNCHANGED <<ret, disturbed>>
      <4>1. [row |-> inserted', id |-> arg[c], pw |-> c, nick |-> "given"] \in Row
        BY <3>0, <3>2 DEF Row, TypeOK
      <4>2. account' \subseteq Row /\ inserted' \in Nat /\ inserted' >= inserted
        BY <3>2, <4>1 DEF TypeOK
      <4>4. IsFiniteSet(account')
        BY <3>2, FS_AddElement DEF TypeOK
      <4>3. \A r \in account' \cup account2 : r.row <= inserted'
        <5>1. \A r \in account \cup account2 : r.row \in Nat /\ r.row <= inserted
          BY DEF TypeOK, Row, Row2
        <5> QED
          BY <3>2, <5>1 DEF TypeOK
      <4> QED
        BY <2>2, <3>1, <3>2, <4>2, <4>3, <4>4 DEF RegistAccount, TypeOK
    <3>3. CASE RegistRefused(c) /\ UNCHANGED <<account, inserted>>
      BY <2>2, <3>0, <3>1, <3>3 DEF RegistAccount, RegistRefused, TypeOK
    <3> QED
      BY <2>2, <3>2, <3>3 DEF RegistAccount
  <2>3. CASE RegistAccount2(c)
    <3>0. arg[c] \in Users
      BY <2>3 DEF RegistAccount2, TypeOK
    <3>1. /\ hpc' \in [Conns -> Steps]
          /\ arg' \in [Conns -> Users \cup {NoUser}]
          /\ \A d \in Conns : arg'[d] = NoUser <=> hpc'[d] = "idle"
      BY <2>3, <3>0, GotoTyped DEF RegistAccount2, Steps
    <3>2. CASE /\ inserted' = inserted + 1
               /\ account2' = account2 \cup
                   {[row |-> inserted', id |-> arg[c], android |-> NoValue, facebook |-> NoValue]}
               /\ UNCHANGED <<ret, disturbed>>
      <4>1. [row |-> inserted', id |-> arg[c], android |-> NoValue, facebook |-> NoValue] \in Row2
        BY <3>0, <3>2 DEF Row2, TypeOK
      <4>2. account2' \subseteq Row2 /\ inserted' \in Nat /\ inserted' >= inserted
        BY <3>2, <4>1 DEF TypeOK
      <4>3. \A r \in account \cup account2' : r.row <= inserted'
        <5>1. \A r \in account \cup account2 : r.row \in Nat /\ r.row <= inserted
          BY DEF TypeOK, Row, Row2
        <5> QED
          BY <3>2, <5>1 DEF TypeOK
      <4> QED
        BY <2>3, <3>1, <3>2, <4>2, <4>3 DEF RegistAccount2, TypeOK
    <3>3. CASE RegistRefused(c) /\ UNCHANGED <<account2, inserted>>
      BY <2>3, <3>0, <3>1, <3>3 DEF RegistAccount2, RegistRefused, TypeOK
    <3> QED
      BY <2>3, <3>2, <3>3 DEF RegistAccount2
  <2>4. CASE RegistAndroid(c)
    <3>0. arg[c] \in Users
      BY <2>4 DEF RegistAndroid, TypeOK
    <3>1. PICK executed \in BOOLEAN : RegistAnswer(c, executed)
      BY <2>4 DEF RegistAndroid
    <3>2. /\ hpc' \in [Conns -> Steps]
          /\ arg' \in [Conns -> Users \cup {NoUser}]
          /\ \A d \in Conns : arg'[d] = NoUser <=> hpc'[d] = "idle"
      BY <3>1, GotoTyped DEF RegistAnswer, Steps
    <3>3. answer' \in [Conns -> {"none", "ok", "exists", "incorrect", "failed", "info"}]
      BY <3>1, ReplyTyped DEF RegistAnswer
    <3>4. registered' \subseteq Conns \X Users
      BY <3>0, <3>1 DEF RegistAnswer, TypeOK
    <3>5. account2' \subseteq Row2 /\ \A r \in account2' : r.row <= inserted
      <4>1. \/ account2' = {IF r.id = arg[c] THEN [r EXCEPT !.android = c] ELSE r : r \in account2}
            \/ account2' = account2
        BY <2>4 DEF RegistAndroid
      <4> QED
        BY <3>0, <4>1, AndroidSet DEF TypeOK
    <3>6. ret' \in [Conns -> BOOLEAN] /\ disturbed' \subseteq Users
      BY <2>4, <3>0 DEF RegistAndroid, RegistRefused, TypeOK
    <3> QED
      BY <2>4, <3>2, <3>3, <3>4, <3>5, <3>6 DEF RegistAndroid, TypeOK
  <2> QED
    BY <1>1, <2>1, <2>2, <2>3, <2>4 DEF RegistStep
<1>2. ASSUME NEW c \in Conns, LoginStep(c) PROVE TypeOK'
  <2>1. requests' \in 0 .. MaxRequests
    BY <1>2, RequestTyped DEF LoginStep, LoginTry, LogoutTry
  <2>2. answer' \in [Conns -> {"none", "ok", "exists", "incorrect", "failed", "info"}]
    BY <1>2, ReplyTyped DEF LoginStep, LoginTry, LogoutTry, Compared, Refused
  <2>3. user' \in [Conns -> Users \cup {NoUser}]
    BY <1>2 DEF LoginStep, LoginTry, LogoutTry, Compared, TypeOK
  <2>4. UNCHANGED <<tables, hpc, arg, ret, history>>
    BY <1>2 DEF LoginStep, LoginTry, LogoutTry, Compared, Refused
  <2> QED
    BY <2>1, <2>2, <2>3, <2>4 DEF TypeOK
<1>3. ASSUME NEW c \in Conns, UserStep(c) PROVE TypeOK'
  <2>1. requests' \in 0 .. MaxRequests
    BY <1>3, RequestTyped
    DEF UserStep, UserUpdate, UserUpdateComment, UserUpdateFacebook, UpdateUserFacebook,
        UserQuery, UserQueryFacebook, PostIncrease
  <2>2. answer' \in [Conns -> {"none", "ok", "exists", "incorrect", "failed", "info"}]
    BY <1>3, ReplyTyped
    DEF UserStep, UserUpdate, UserUpdateComment, UserUpdateFacebook, UpdateUserFacebook,
        UserQuery, UserQueryFacebook, PostIncrease, Refused
  <2>3. UNCHANGED <<inserted, user, hpc, arg, ret, history>>
    BY <1>3
    DEF UserStep, UserUpdate, UserUpdateComment, UserUpdateFacebook, UpdateUserFacebook,
        UserQuery, UserQueryFacebook, PostIncrease, Refused
  <2>4. UNCHANGED account \/ \E u \in Users, n \in {"given", "blank"} : SetNick(u, n)
    BY <1>3
    DEF UserStep, UserUpdate, UserUpdateComment, UserUpdateFacebook, UpdateUserFacebook,
        UserQuery, UserQueryFacebook, PostIncrease, Refused, TypeOK
  <2>5. account' \subseteq Row /\ IsFiniteSet(account') /\ \A r \in account' : r.row <= inserted
    <3>1. ASSUME NEW u \in Users, NEW n \in {"given", "blank"}, SetNick(u, n)
          PROVE  /\ account' \subseteq Row /\ IsFiniteSet(account')
                 /\ \A r \in account' : r.row <= inserted
      <4>1. account' \subseteq Row /\ IsFiniteSet(account') /\ \A s \in account' : \E q \in account : s.row = q.row
        BY <3>1, NickSet
      <4> QED
        BY <4>1 DEF TypeOK
    <3> QED
      BY <2>4, <3>1 DEF TypeOK
  <2>6. \/ account2' = account2
        \/ \E u \in Users :
              account2' = {IF r.id = u THEN [r EXCEPT !.facebook = c] ELSE r : r \in account2}
    BY <1>3, UserTable2
  <2>7. account2' \subseteq Row2 /\ \A r \in account2' : r.row <= inserted
    BY <2>6, FacebookSet DEF TypeOK
  <2> QED
    BY <2>1, <2>2, <2>3, <2>5, <2>7 DEF TypeOK
<1>4. CASE UNCHANGED vars
  BY <1>4 DEF vars, TypeOK
<1> QED
  BY <1>1, <1>2, <1>3, <1>4 DEF Next

LEMMA InitTyped == Init => TypeOK
<1>1. MaxRequests \in Nat /\ IsFiniteSet({})
  BY FS_EmptySet
<1> QED
  BY <1>1 DEF Init, TypeOK, Steps

\* Every reachable state is well typed.
THEOREM TypeCorrect == Spec => []TypeOK
  BY InitTyped, TypeStep, PTL DEF Spec

-----------------------------------------------------------------------------
(* The tables against the registrations in progress and the ones answered. *)

Owned(c, u) == \E r \in account : r.id = u /\ r.pw = c
Linked(u) == \E r \in account2 : r.id = u

\* Those about to insert u.
Pending(u) == {c \in Conns : hpc[c] = "account" /\ arg[c] = u}

\* The rows of an id, and those to come, against the registrations that raced.
Bounded ==
    \A u \in Users : Cardinality(RowsOf(u)) + Cardinality(Pending(u)) <= 1 + races[u]

LEMMA PendingFinite ==
    ASSUME NEW u \in Users
    PROVE  IsFiniteSet(Pending(u)) /\ Cardinality(Pending(u)) \in Nat
<1>1. Pending(u) \in SUBSET Conns
  BY DEF Pending
<1> QED
  BY <1>1, FS_Subset, FS_CardinalityType

\* What RegistTry has inserted by the time it gets to a statement.
Halfway ==
    \A c \in Conns :
        /\ hpc[c] \in {"account", "account2"} => ret[c]
        /\ hpc[c] = "account2" => Owned(c, arg[c])
        /\ hpc[c] = "android" /\ ret[c] => Owned(c, arg[c]) /\ Linked(arg[c])
        /\ hpc[c] = "android" /\ ~ret[c] => arg[c] \in disturbed

\* Nobody else registers, or has registered, an id that no registrations raced
\* for and no statement was refused for, while a client registers it.
Sole ==
    \A c \in Conns : hpc[c] # "idle" /\ races[arg[c]] = 0 /\ arg[c] \notin disturbed =>
        \A d \in Conns : (d # c => arg[d] # arg[c]) /\ <<d, arg[c]>> \notin registered

IInv == TypeOK /\ Bounded /\ Halfway /\ Sole /\ Complete

\* Within the bound an id that no registrations raced for has one row.
LEMMA OneRow ==
    ASSUME IInv, NEW u \in Users, races[u] = 0, NEW q \in RowsOf(u), NEW r \in RowsOf(u)
    PROVE  q = r
<1>1. Cardinality(RowsOf(u)) <= 1
  <2>1. Cardinality(RowsOf(u)) + Cardinality(Pending(u)) <= 1 + races[u]
    BY DEF IInv, Bounded
  <2> QED
    BY <2>1, RowsFinite, PendingFinite DEF IInv
<1>2. IsFiniteSet(RowsOf(u)) /\ Cardinality(RowsOf(u)) \in {0, 1}
  BY <1>1, RowsFinite DEF IInv
<1>3. Cardinality(RowsOf(u)) # 0
  BY <1>2, FS_EmptySet
<1>4. \E x : RowsOf(u) = {x}
  <2>1. Cardinality(RowsOf(u)) = 1
    BY <1>2, <1>3
  <2> QED
    BY <1>2, <2>1, FS_Singleton
<1> QED
  BY <1>4

\* A step that is not of a registration: rows keep their ids, their passwords and
\* their devices, and become no more.
Kept ==
    /\ \A r \in account : \E s \in account' : s.id = r.id /\ s.pw = r.pw
    /\ \A u \in Users : Cardinality(RowsOf(u)') <= Cardinality(RowsOf(u))
    /\ \A r \in account2 : \E s \in account2' : s.id = r.id /\ s.android = r.android
    /\ UNCHANGED <<hpc, arg, ret, registered, races, disturbed>>

LEMMA KeptStep == IInv /\ TypeOK' /\ Kept => IInv'
<1> SUFFICES ASSUME IInv, TypeOK', Kept PROVE IInv'
  OBVIOUS
<1>1. Bounded'
  <2>1. ASSUME NEW u \in Users
        PROVE  Cardinality(RowsOf(u)') + Cardinality(Pending(u)') <= 1 + races'[u]
    <3>1. Pending(u)' = Pending(u) /\ races' = races
      BY DEF Kept, Pending
    <3>2. /\ Cardinality(RowsOf(u)) \in Nat /\ Cardinality(RowsOf(u)') \in Nat
          /\ Cardinality(Pending(u)) \in Nat /\ races[u] \in Nat
      <4>1. IsFiniteSet(RowsOf(u)') /\ Cardinality(RowsOf(u)') \in Nat
        <5>1. RowsOf(u)' \in SUBSET account' /\ IsFiniteSet(account')
          BY DEF RowsOf, TypeOK
        <5> QED
          BY <5>1, FS_Subset, FS_CardinalityType
      <4> QED
        BY <4>1, RowsFinite, PendingFinite DEF IInv, TypeOK
    <3>3. /\ Cardinality(RowsOf(u)) + Cardinality(Pending(u)) <= 1 + races[u]
          /\ Cardinality(RowsOf(u)') <= Cardinality(RowsOf(u))
      BY DEF IInv, Bounded, Kept
    <3> QED
      BY <3>1, <3>2, <3>3
  <2> QED
    BY <2>1 DEF Bounded
<1>2. /\ \A c \in Conns : \A u : Owned(c, u) => Owned(c, u)'
      /\ \A u : Linked(u) => Linked(u)'
  <2>1. \A r \in account2 : \E s \in account2' : s.id = r.id
    BY DEF Kept
  <2>2. \A u : Linked(u) => Linked(u)'
    BY <2>1 DEF Linked
  <2>3. \A r \in account : \E s \in account' : s.id = r.id /\ s.pw = r.pw
    BY DEF Kept
  <2>4. \A c \in Conns : \A u : Owned(c, u) => Owned(c, u)'
    BY <2>3 DEF Owned
  <2> QED
    BY <2>2, <2>4
<1>3. Halfway'
  BY <1>2 DEF IInv, Kept, Halfway
<1>4. Sole'
  <2>1. UNCHANGED <<hpc, arg, races, disturbed, registered>>
    BY DEF Kept
  <2> QED
    BY <2>1 DEF IInv, Sole
<1>6. Complete'
  <2>1. ASSUME NEW c \in Conns, NEW u \in Users, <<c, u>> \in registered
        PROVE  /\ \E r \in account' : r.id = u /\ r.pw = c
               /\ \E r \in account2' : r.id = u /\ (races[u] = 0 /\ u \notin disturbed
                                                     => r.android = c)
    <3>1. PICK q \in account : q.id = u /\ q.pw = c
      BY <2>1 DEF IInv, Complete
    <3>2. PICK r \in account2 : r.id = u /\ (races[u] = 0 /\ u \notin disturbed => r.android = c)
      BY <2>1 DEF IInv, Complete
    <3>3. \E s \in account' : s.id = q.id /\ s.pw = q.pw
      BY DEF Kept
    <3>4. \E s \in account2' : s.id = r.id /\ s.android = r.android
      BY DEF Kept
    <3> QED
      BY <3>1, <3>2, <3>3, <3>4
  <2>2. UNCHANGED <<registered, races, disturbed>>
    BY DEF Kept
  <2> QED
    BY <2>1, <2>2 DEF Complete
<1> QED
  BY <1>1, <1>3, <1>4, <1>6 DEF IInv

\* Where account is left alone there are as many rows as before.
LEMMA SameRows ==
    ASSUME TypeOK, UNCHANGED account
    PROVE  \A u \in Users : Cardinality(RowsOf(u)') <= Cardinality(RowsOf(u))
<1>1. ASSUME NEW u \in Users PROVE Cardinality(RowsOf(u)') <= Cardinality(RowsOf(u))
  <2>1. RowsOf(u)' = RowsOf(u)
    BY DEF RowsOf
  <2> QED
    BY <2>1, RowsFinite
<1> QED
  BY <1>1

\* The steps of logins and of users are of that kind.
LEMMA UserKept ==
    ASSUME TypeOK, NEW c \in Conns, LoginStep(c) \/ UserStep(c)
    PROVE  Kept
<1>1. CASE LoginStep(c)
  BY <1>1, SameRows DEF LoginStep, LoginTry, LogoutTry, Compared, Refused, Kept
<1>2. CASE UserStep(c)
  <2>1. UNCHANGED <<hpc, arg, ret, registered, races, disturbed>>
    BY <1>2
    DEF UserStep, UserUpdate, UserUpdateComment, UserUpdateFacebook, UpdateUserFacebook,
        UserQuery, UserQueryFacebook, PostIncrease
  <2>2. account' = account \/ \E u \in Users, n \in {"given", "blank"} : SetNick(u, n)
    BY <1>2
    DEF UserStep, UserUpdate, UserUpdateComment, UserUpdateFacebook, UpdateUserFacebook,
        UserQuery, UserQueryFacebook, PostIncrease, Refused, TypeOK
  <2>3. /\ \A r \in account : \E s \in account' : s.id = r.id /\ s.pw = r.pw
        /\ \A u \in Users : Cardinality(RowsOf(u)') <= Cardinality(RowsOf(u))
    <3>1. CASE account' = account
      BY <3>1, SameRows
    <3>2. ASSUME NEW u \in Users, NEW n \in {"given", "blank"}, SetNick(u, n)
          PROVE  /\ \A r \in account : \E s \in account' : s.id = r.id /\ s.pw = r.pw
                 /\ \A v \in Users : Cardinality(RowsOf(v)') <= Cardinality(RowsOf(v))
      BY <3>2, NickSet
    <3> QED
      BY <2>2, <3>1, <3>2
  <2>4. \/ account2' = account2
        \/ \E u \in Users :
              account2' = {IF r.id = u THEN [r EXCEPT !.facebook = c] ELSE r : r \in account2}
    BY <1>2, UserTable2
  <2>5. \A r \in account2 : \E s \in account2' : s.id = r.id /\ s.android = r.android
    BY <2>4, FacebookSet
  <2> QED
    BY <2>1, <2>3, <2>5 DEF Kept
<1> QED
  BY <1>1, <1>2

\* A client looks an id up.
LEMMA RegistTryStep ==
    ASSUME IInv, TypeOK', NEW c \in Conns, NEW u \in Users, RegistTry(c, u)
    PROVE  IInv'
<1>0. UNCHANGED <<account, account2, registered, disturbed>>
  BY DEF RegistTry
<1>1. CASE UNCHANGED <<hpc, arg, ret, races>>
  BY <1>0, <1>1, KeptStep, SameRows DEF Kept, IInv
<1>2. ASSUME NEW refused \in BOOLEAN, GoOn(c, u, refused), refused \/ RowsOf(u) = {}
      PROVE  IInv'
  <2>0. hpc[c] = "idle" /\ (refused = FALSE => RowsOf(u) = {})
    BY <1>2 DEF RegistTry, Request
  <2>1. /\ hpc'[c] = "account" /\ arg'[c] = u /\ ret'[c]
        /\ \A d \in Conns \ {c} : hpc'[d] = hpc[d] /\ arg'[d] = arg[d] /\ ret'[d] = ret[d]
    BY <1>2 DEF GoOn, Goto, IInv, TypeOK
  <2>2. /\ \A v \in Users \ {u} : races'[v] = races[v]
        /\ races'[u] \in {races[u], races[u] + 1}
        /\ races'[u] = races[u] => RowsOf(u) = {} /\ ~Underway(c, u)
    <3>1. races[u] \in Nat
      BY DEF IInv, TypeOK
    <3>2. /\ \A v \in Users \ {u} : races'[v] = races[v]
          /\ races'[u] = races[u] + IF refused \/ Underway(c, u) THEN 1 ELSE 0
      BY <1>2 DEF GoOn, IInv, TypeOK
    <3> QED
      BY <2>0, <3>1, <3>2
  <2>3. Bounded'
    <3>1. ASSUME NEW v \in Users
          PROVE  Cardinality(RowsOf(v)') + Cardinality(Pending(v)') <= 1 + races'[v]
      <4>1. RowsOf(v)' = RowsOf(v) /\ (v # u => Pending(v)' = Pending(v))
            /\ (v = u => Pending(v)' = Pending(v) \cup {c})
        BY <1>0, <2>0, <2>1 DEF RowsOf, Pending
      <4>2. Cardinality(RowsOf(v)) + Cardinality(Pending(v)) <= 1 + races[v]
        BY DEF IInv, Bounded
      <4>3. /\ Cardinality(RowsOf(v)) \in Nat /\ Cardinality(Pending(v)) \in Nat
            /\ IsFiniteSet(Pending(v)) /\ races[v] \in Nat
        BY RowsFinite, PendingFinite DEF IInv, TypeOK
      <4>4. Cardinality(Pending(v) \cup {c}) \in {Cardinality(Pending(v)), Cardinality(Pending(v)) + 1}
        BY <4>3, FS_AddElement
      <4>5. CASE v # u
        BY <2>2, <4>1, <4>2, <4>5
      <4>6. CASE v = u /\ races'[u] = races[u] + 1
        <5>1. Cardinality(Pending(v) \cup {c}) \in Nat
          BY <4>3, FS_AddElement, FS_CardinalityType
        <5>2. Cardinality(RowsOf(v)) + Cardinality(Pending(v) \cup {c}) <= 1 + races[v] + 1
          BY <4>2, <4>3, <4>4
        <5> QED
          BY <1>0, <4>1, <4>3, <4>6, <5>1, <5>2
      <4>7. CASE v = u /\ races'[u] = races[u]
        <5>1. Cardinality(RowsOf(v)) = 0
          BY <2>2, <4>7, FS_EmptySet
        <5>2. Pending(v) \cup {c} = {c}
          BY <2>2, <4>7 DEF Pending, Underway
        <5>3. Cardinality(Pending(v) \cup {c}) = 1
          BY <5>2, FS_Singleton
        <5> QED
          BY <4>1, <4>3, <4>7, <5>1, <5>3
      <4> QED
        BY <2>2, <4>5, <4>6, <4>7
    <3> QED
      BY <3>1 DEF Bounded
  <2>4. Halfway'
    BY <1>0, <2>1 DEF IInv, Halfway, Owned, Linked
  <2>5. ASSUME races'[u] = 0, u \notin disturbed
        PROVE  \A d \in Conns : (d # c => arg[d] # u) /\ <<d, u>> \notin registered
    <3>1. RowsOf(u) = {} /\ ~Underway(c, u)
      BY <2>2, <2>5 DEF IInv, TypeOK
    <3>2. \A d \in Conns : <<d, u>> \notin registered
      BY <3>1 DEF IInv, Complete, RowsOf
    <3>3. \A d \in Conns : arg[d] = u => hpc[d] # "idle"
      BY DEF IInv, TypeOK
    <3> QED
      BY <3>1, <3>2, <3>3 DEF Underway
  <2>6. Sole'
    <3>1. ASSUME NEW d \in Conns, hpc'[d] # "idle", races'[arg'[d]] = 0,
                 arg'[d] \notin disturbed, NEW e \in Conns
          PROVE  (e # d => arg'[e] # arg'[d]) /\ <<e, arg'[d]>> \notin registered
      <4>1. CASE arg'[d] = u
        <5>1. d = c
          BY <2>1, <2>5, <3>1, <4>1
        <5> QED
          BY <2>1, <2>5, <3>1, <4>1, <5>1
      <4>2. CASE arg'[d] # u
        <5>1. d # c /\ arg'[d] = arg[d] /\ hpc[d] # "idle" /\ arg[d] \in Users
          BY <2>1, <3>1, <4>2 DEF IInv, TypeOK
        <5>2. races[arg[d]] = 0
          BY <2>2, <3>1, <4>2, <5>1
        <5> QED
          BY <2>1, <3>1, <4>2, <5>1, <5>2 DEF IInv, Sole
      <4> QED
        BY <4>1, <4>2
    <3> QED
      BY <1>0, <3>1 DEF Sole
  <2>7. Complete'
    <3>1. \A v \in Users : races'[v] = 0 => races[v] = 0
      BY <2>2 DEF IInv, TypeOK
    <3> QED
      BY <1>0, <3>1 DEF IInv, Complete
  <2> QED
    BY <2>3, <2>4, <2>6, <2>7 DEF IInv
<1> QED
  BY <1>1, <1>2 DEF RegistTry

\* A step of a registration that inserts nothing into account.
LEMMA FewerPending ==
    ASSUME IInv, UNCHANGED <<account, races>>, NEW c \in Conns, hpc'[c] # "account",
           \A d \in Conns \ {c} : hpc'[d] = hpc[d] /\ arg'[d] = arg[d]
    PROVE  Bounded'
<1>1. ASSUME NEW v \in Users
      PROVE  Cardinality(RowsOf(v)') + Cardinality(Pending(v)') <= 1 + races'[v]
  <2>1. Cardinality(RowsOf(v)) + Cardinality(Pending(v)) <= 1 + races[v]
    BY DEF IInv, Bounded
  <2>2. /\ Cardinality(RowsOf(v)) \in Nat /\ Cardinality(Pending(v)) \in Nat
        /\ IsFiniteSet(Pending(v)) /\ races[v] \in Nat
    BY RowsFinite, PendingFinite DEF IInv, TypeOK
  <2>3. RowsOf(v)' = RowsOf(v) /\ Pending(v)' = Pending(v) \ {c}
    BY DEF RowsOf, Pending
  <2>4. Cardinality(Pending(v) \ {c}) \in {Cardinality(Pending(v)), Cardinality(Pending(v)) - 1}
    BY <2>2, FS_RemoveElement
  <2> QED
    BY <2>1, <2>2, <2>3, <2>4
<1> QED
  BY <1>1 DEF Bounded

\* The first insert.
LEMMA RegistAccountStep ==
    ASSUME IInv, TypeOK', NEW c \in Conns, RegistAccount(c)
    PROVE  IInv'
<1>0. /\ UNCHANGED <<account2, registered, races>> /\ hpc[c] = "account"
      /\ arg[c] \in Users /\ ret[c]
  BY DEF RegistAccount, IInv, TypeOK, Halfway
<1>1. CASE /\ account' = account \cup
                {[row |-> inserted', id |-> arg[c], pw |-> c, nick |-> "given"]}
           /\ Goto(c, "account2", arg[c])
           /\ UNCHANGED <<ret, disturbed>>
  <2> DEFINE new == [row |-> inserted', id |-> arg[c], pw |-> c, nick |-> "given"]
  <2>1. account' = account \cup {new} /\ new.id = arg[c] /\ new.pw = c
    BY <1>1
  <2>2. /\ hpc'[c] = "account2" /\ arg' = arg
        /\ \A d \in Conns \ {c} : hpc'[d] = hpc[d]
    BY <1>1 DEF Goto, IInv, TypeOK
  <2> HIDE DEF new
  <2>3. Bounded'
    <3>1. ASSUME NEW v \in Users
          PROVE  Cardinality(RowsOf(v)') + Cardinality(Pending(v)') <= 1 + races'[v]
      <4>1. Cardinality(RowsOf(v)) + Cardinality(Pending(v)) <= 1 + races[v]
        BY DEF IInv, Bounded
      <4>2. /\ Cardinality(RowsOf(v)) \in Nat /\ Cardinality(Pending(v)) \in Nat
            /\ IsFiniteSet(RowsOf(v)) /\ IsFiniteSet(Pending(v)) /\ races[v] \in Nat
        BY RowsFinite, PendingFinite DEF IInv, TypeOK
      <4>3. CASE v # arg[c]
        <5>1. RowsOf(v)' = RowsOf(v) /\ Pending(v)' = Pending(v)
          BY <1>0, <2>1, <2>2, <4>3 DEF RowsOf, Pending
        <5> QED
          BY <1>0, <4>1, <5>1
      <4>4. CASE v = arg[c]
        <5>1. RowsOf(v)' = RowsOf(v) \cup {new} /\ Pending(v)' = Pending(v) \ {c}
              /\ c \in Pending(v)
          BY <1>0, <2>1, <2>2, <4>4 DEF RowsOf, Pending
        <5>2. /\ Cardinality(RowsOf(v) \cup {new}) \in {Cardinality(RowsOf(v)), Cardinality(RowsOf(v)) + 1}
              /\ Cardinality(Pending(v) \ {c}) = Cardinality(Pending(v)) - 1
          BY <4>2, <5>1, FS_AddElement, FS_RemoveElement
        <5> QED
          BY <1>0, <4>1, <4>2, <5>1, <5>2
      <4> QED
        BY <4>3, <4>4
    <3> QED
      BY <3>1 DEF Bounded
  <2>4. \A d \in Conns : \A u : Owned(d, u) => Owned(d, u)'
    BY <2>1 DEF Owned
  <2>5. Owned(c, arg[c])'
    BY <2>1, <2>2 DEF Owned
  <2>6. Halfway'
    <3>1. \A u : Linked(u) => Linked(u)'
      BY <1>0 DEF Linked
    <3> QED
      BY <1>0, <1>1, <2>2, <2>4, <2>5, <3>1 DEF IInv, Halfway
  <2>7. Sole'
    BY <1>0, <1>1, <2>2 DEF IInv, Sole
  <2>9. Complete'
    BY <1>0, <1>1, <2>1 DEF IInv, Complete
  <2> QED
    BY <2>3, <2>6, <2>7, <2>9 DEF IInv
<1>2. CASE RegistRefused(c) /\ Goto(c, "android", arg[c]) /\ UNCHANGED <<account, inserted>>
  <2>1. /\ hpc'[c] = "android" /\ arg' = arg /\ ~ret'[c]
        /\ disturbed' = disturbed \cup {arg[c]}
        /\ \A d \in Conns \ {c} : hpc'[d] = hpc[d] /\ ret'[d] = ret[d]
    BY <1>2 DEF RegistRefused, Goto, IInv, TypeOK
  <2>2. Bounded'
    BY <1>0, <1>2, <2>1, FewerPending
  <2>3. Halfway'
    BY <1>0, <1>2, <2>1 DEF IInv, Halfway, Owned, Linked
  <2>4. Sole'
    BY <1>0, <2>1 DEF IInv, Sole
  <2>5. Complete'
    BY <1>0, <1>2, <2>1 DEF IInv, Complete
  <2> QED
    BY <2>2, <2>3, <2>4, <2>5 DEF IInv
<1> QED
  BY <1>1, <1>2 DEF RegistAccount

\* The second insert.
LEMMA RegistAccount2Step ==
    ASSUME IInv, TypeOK', NEW c \in Conns, RegistAccount2(c)
    PROVE  IInv'
<1>0. /\ UNCHANGED <<account, registered, races>> /\ hpc[c] = "account2"
      /\ arg[c] \in Users /\ ret[c] /\ Owned(c, arg[c])
  BY DEF RegistAccount2, IInv, TypeOK, Halfway
<1>1. /\ hpc'[c] = "android" /\ arg' = arg
      /\ \A d \in Conns \ {c} : hpc'[d] = hpc[d]
  BY DEF RegistAccount2, Goto, IInv, TypeOK
<1>2. \A r \in account2 : r \in account2'
  BY DEF RegistAccount2
<1>3. disturbed \subseteq disturbed'
  BY DEF RegistAccount2, RegistRefused
<1>4. /\ ret'[c] => Linked(arg[c])'
      /\ ~ret'[c] => arg[c] \in disturbed'
      /\ \A d \in Conns \ {c} : ret'[d] = ret[d]
  <2>1. CASE /\ account2' = account2 \cup
                  {[row |-> inserted', id |-> arg[c], android |-> NoValue, facebook |-> NoValue]}
             /\ UNCHANGED <<ret, disturbed>>
    <3> DEFINE new == [row |-> inserted', id |-> arg[c], android |-> NoValue,
                       facebook |-> NoValue]
    <3>1. account2' = account2 \cup {new} /\ new.id = arg[c]
      BY <2>1
    <3> HIDE DEF new
    <3>2. Linked(arg[c])'
      BY <1>1, <3>1 DEF Linked
    <3> QED
      BY <1>0, <2>1, <3>2
  <2>2. CASE RegistRefused(c)
    BY <1>0, <2>2 DEF RegistRefused, IInv, TypeOK
  <2> QED
    BY <2>1, <2>2 DEF RegistAccount2
<1>5. Bounded'
  BY <1>0, <1>1, FewerPending
<1>6. Halfway'
  <2>1. \A d \in Conns : \A u : (Owned(d, u) => Owned(d, u)') /\ (Linked(u) => Linked(u)')
    BY <1>0, <1>2 DEF Owned, Linked
  <2> QED
    BY <1>0, <1>1, <1>3, <1>4, <2>1 DEF IInv, Halfway
<1>7. Sole'
  BY <1>0, <1>1, <1>3 DEF IInv, Sole
<1>8. Complete'
  BY <1>0, <1>2, <1>3 DEF IInv, Complete
<1> QED
  BY <1>5, <1>6, <1>7, <1>8 DEF IInv

\* The update, and the answer.
LEMMA RegistAndroidStep ==
    ASSUME IInv, TypeOK', NEW c \in Conns, RegistAndroid(c)
    PROVE  IInv'
<1>0. UNCHANGED <<account, races>> /\ hpc[c] = "android" /\ arg[c] \in Users
  BY DEF RegistAndroid, IInv, TypeOK
<1>1. PICK executed \in BOOLEAN :
          /\ RegistAnswer(c, executed)
          /\ IF executed
                 THEN /\ account2' = {IF r.id = arg[c] THEN [r EXCEPT !.android = c] ELSE r :
                                                                              r \in account2}
                      /\ UNCHANGED <<ret, disturbed>>
                 ELSE RegistRefused(c) /\ UNCHANGED account2
  BY DEF RegistAndroid
<1>a. executed => /\ \A r \in account2 : \E s \in account2' :
                         s.id = r.id /\ s.android = IF r.id = arg[c] THEN c ELSE r.android
                  /\ UNCHANGED disturbed
  <2>1. TypeOK
    BY DEF IInv
  <2>2. executed =>
          account2' = {IF r.id = arg[c] THEN [r EXCEPT !.android = c] ELSE r : r \in account2}
    BY <1>1
  <2> QED
    BY <1>0, <1>1, <2>1, <2>2, AndroidSet
<1>b. ~executed => UNCHANGED account2
  BY <1>1
<1>2. /\ hpc'[c] = "idle" /\ arg'[c] = NoUser /\ ret' \in [Conns -> BOOLEAN]
      /\ \A d \in Conns \ {c} : hpc'[d] = hpc[d] /\ arg'[d] = arg[d] /\ ret'[d] = ret[d]
      /\ disturbed \subseteq disturbed'
  BY <1>1 DEF RegistAnswer, Goto, RegistRefused, IInv, TypeOK
<1>3. \A r \in account2 : \E s \in account2' :
          s.id = r.id /\ s.android \in {r.android, IF r.id = arg[c] THEN c ELSE r.android}
  BY <1>a, <1>b
<1>4. Bounded'
  BY <1>0, <1>2, FewerPending
<1>5. \A d \in Conns : \A u : (Owned(d, u) => Owned(d, u)') /\ (Linked(u) => Linked(u)')
  BY <1>0, <1>3 DEF Owned, Linked
<1>6. Halfway'
  BY <1>0, <1>2, <1>5 DEF IInv, Halfway
<1>7. /\ registered' \subseteq registered \cup {<<c, arg[c]>>}
      /\ <<c, arg[c]>> \in registered' => (ret[c] /\ executed) \/ <<c, arg[c]>> \in registered
  BY <1>1 DEF RegistAnswer
<1>8. Sole'
  <2>1. ASSUME NEW d \in Conns, hpc'[d] # "idle", races[arg'[d]] = 0,
               arg'[d] \notin disturbed', NEW e \in Conns
        PROVE  (e # d => arg'[e] # arg'[d]) /\ <<e, arg'[d]>> \notin registered'
    <3>1. d # c /\ arg'[d] = arg[d] /\ hpc[d] # "idle" /\ races[arg[d]] = 0 /\ arg[d] \notin disturbed
      BY <1>2, <2>1
    <3>2. arg[d] \in Users /\ arg[d] # NoUser
      BY <3>1 DEF IInv, TypeOK
    <3>3. arg[c] # arg[d]
      BY <3>1 DEF IInv, Sole
    <3> QED
      BY <1>2, <1>7, <2>1, <3>1, <3>2, <3>3 DEF IInv, Sole
  <2> QED
    BY <1>0, <2>1 DEF Sole
<1>10. Complete'
  <2>1. ASSUME NEW d \in Conns, NEW u \in Users, <<d, u>> \in registered'
        PROVE  /\ \E r \in account : r.id = u /\ r.pw = d
               /\ \E r \in account2' :
                     r.id = u /\ (races[u] = 0 /\ u \notin disturbed' => r.android = d)
    <3>1. CASE <<d, u>> \in registered
      <4>1. PICK r \in account2 :
                r.id = u /\ (races[u] = 0 /\ u \notin disturbed => r.android = d)
        BY <3>1 DEF IInv, Complete
      <4>2. races[u] = 0 /\ u \notin disturbed => arg[c] # u
        BY <1>0, <3>1 DEF IInv, Sole
      <4>3. \E s \in account2' :
                s.id = u /\ (races[u] = 0 /\ u \notin disturbed' => s.android = d)
        BY <1>2, <1>3, <4>1, <4>2
      <4> QED
        BY <3>1, <4>3 DEF IInv, Complete
    <3>2. CASE d = c /\ u = arg[c] /\ ret[c] /\ executed
      <4>1. Owned(c, u) /\ Linked(u)
        BY <1>0, <3>2 DEF IInv, Halfway
      <4>2. \A r \in account2 : r.id = u => \E s \in account2' : s.id = u /\ s.android = c
        BY <1>a, <3>2
      <4> QED
        BY <3>2, <4>1, <4>2 DEF Owned, Linked
    <3> QED
      BY <1>7, <2>1, <3>1, <3>2
  <2> QED
    BY <1>0, <2>1 DEF Complete
<1> QED
  BY <1>4, <1>6, <1>8, <1>10 DEF IInv

LEMMA InvStep == IInv /\ [Next]_vars => IInv'
<1> SUFFICES ASSUME IInv, [Next]_vars PROVE IInv'
  OBVIOUS
<1>0. TypeOK'
  BY TypeStep DEF IInv
<1>1. ASSUME NEW c \in Conns, RegistStep(c) PROVE IInv'
  BY <1>0, <1>1, RegistTryStep, RegistAccountStep, RegistAccount2Step, RegistAndroidStep
  DEF RegistStep
<1>2. ASSUME NEW c \in Conns, LoginStep(c) \/ UserStep(c) PROVE IInv'
  BY <1>0, <1>2, UserKept, KeptStep DEF IInv
<1>3. CASE UNCHANGED vars
  BY <1>0, <1>3, KeptStep, SameRows DEF vars, Kept, IInv
<1> QED
  BY <1>1, <1>2, <1>3 DEF Next

LEMMA InvInit == Init => IInv
<1> SUFFICES ASSUME Init PROVE IInv
  OBVIOUS
<1>1. TypeOK
  BY InitTyped
<1>2. Bounded
  <2>1. ASSUME NEW u \in Users PROVE Cardinality(RowsOf(u)) + Cardinality(Pending(u)) <= 1 + races[u]
    <3>1. RowsOf(u) = {} /\ Pending(u) = {} /\ races[u] = 0
      BY DEF Init, RowsOf, Pending
    <3> QED
      BY <3>1, FS_EmptySet
  <2> QED
    BY <2>1 DEF Bounded
<1>3. Halfway /\ Sole /\ Complete
  BY DEF Init, Halfway, Sole, Complete
<1> QED
  BY <1>1, <1>2, <1>3 DEF IInv

LEMMA Invariant == Spec => []IInv
  BY InvInit, InvStep, PTL DEF Spec

\* An id has one row, and one more at most for each registration that raced.
THEOREM UniqueIdHolds == Spec => []UniqueId
<1>1. IInv => UniqueId
  <2> SUFFICES ASSUME IInv, NEW u \in Users PROVE Cardinality(RowsOf(u)) <= 1 + races[u]
    BY DEF UniqueId
  <2>1. Cardinality(RowsOf(u)) + Cardinality(Pending(u)) <= 1 + races[u]
    BY DEF IInv, Bounded
  <2>2. Cardinality(RowsOf(u)) \in Nat /\ Cardinality(Pending(u)) \in Nat /\ races[u] \in Nat
    BY RowsFinite, PendingFinite DEF IInv, TypeOK
  <2> QED
    BY <2>1, <2>2
<1> QED
  BY <1>1, Invariant, PTL

\* Whoever was told REGIST_OK has a complete account.
THEOREM CompleteHolds == Spec => []Complete
  BY Invariant, PTL DEF IInv

\* A login with the password of a registration that was answered with REGIST_OK
\* is accepted, if no registrations of the id raced: its one row is the client's.
THEOREM LoginAcceptedHolds == Spec => LoginAccepted
<1>1. IInv => \A c \in Conns, u \in Users :
          LoginTry(c, u) /\ Compared(c, u) /\ <<c, u>> \in registered /\ races[u] = 0
            => answer'[c] = "ok"
  <2> SUFFICES ASSUME IInv, NEW c \in Conns, NEW u \in Users, Compared(c, u),
                      <<c, u>> \in registered, races[u] = 0
               PROVE  answer'[c] = "ok"
    OBVIOUS
  <2>1. PICK q \in account : q.id = u /\ q.pw = c
    BY DEF IInv, Complete
  <2>2. \A r \in RowsOf(u) : r = q
    BY <2>1, OneRow DEF RowsOf
  <2>3. RowsOf(u) # {}
    BY <2>1 DEF RowsOf
  <2>4. Reply(c, "ok")
    BY <2>1, <2>2, <2>3 DEF Compared
  <2> QED
    BY <2>4 DEF Reply, IInv, TypeOK
<1> QED
  BY <1>1, Invariant, PTL DEF LoginAccepted

\* USER_UPDATE_OK for the id at another site is true for an account that anybody
\* was told REGIST_OK for: there is a row to update.
THEOREM LinkStoredHolds == Spec => LinkStored
<1>1. IInv => \A c, d \in Conns :
          UserUpdateFacebook(c) /\ answer'[c] = "ok" /\ <<d, user[c]>> \in registered
            => \E r \in account2' : r.id = user[c] /\ r.facebook = c
  <2> SUFFICES ASSUME IInv, NEW c \in Conns, NEW d \in Conns, UserUpdateFacebook(c),
                      answer'[c] = "ok", <<d, user[c]>> \in registered
               PROVE  \E r \in account2' : r.id = user[c] /\ r.facebook = c
    OBVIOUS
  <2>1. user[c] \in Users
    BY DEF UserUpdateFacebook, UpdateUserFacebook, IInv, TypeOK
  <2>2. PICK q \in account2 : q.id = user[c]
    BY <2>1 DEF IInv, Complete
  <2>3. account2' = {IF r.id = user[c] THEN [r EXCEPT !.facebook = c] ELSE r : r \in account2}
    BY DEF UserUpdateFacebook, UpdateUserFacebook, Refused, Reply, IInv, TypeOK
  <2>4. \A r \in account2 : \E s \in account2' :
            s.id = r.id /\ s.android = r.android /\ (r.id = user[c] => s.facebook = c)
    BY <2>1, <2>3, FacebookSet DEF IInv
  <2> QED
    BY <2>2, <2>4
<1> QED
  BY <1>1, Invariant, PTL DEF LinkStored

=============================================================================
