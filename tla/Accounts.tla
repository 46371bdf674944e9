------------------------------- MODULE Accounts -------------------------------
(***************************************************************************)
(* Registration, login and what a user keeps about itself: the tables      *)
(* account (id, password, profile) and account2 (the device and the ids at *)
(* other sites).                                                           *)
(*                                                                         *)
(* As in Relations, every SQL statement is committed by itself and those   *)
(* of other handlers run in between; the tables are external and have no   *)
(* keys that db_manual.txt tells of.  Every client has a password of its   *)
(* own, and a device.  A request that is answered failed or incorrect      *)
(* because the client is not logged in changes nothing and is left out.    *)
(***************************************************************************)
EXTENDS Naturals, FiniteSets

CONSTANTS
    Conns,      \* connections, each of one client
    Users,      \* user ids
    NoUser,     \* handle->user == NULL
    NoValue,    \* the empty string, in android_id and facebook_id
    MayFail,    \* can the database refuse a statement
    Values,     \* the numbers that POST_INC and POST_DEC come with
    MaxRequests \* BOUND: the requests that clients make

ASSUME AccountsAssumption ==
    /\ IsFiniteSet(Conns) /\ IsFiniteSet(Users) /\ NoUser \notin Users
    /\ NoValue \notin Conns
    /\ MayFail \in BOOLEAN
    /\ Values \subseteq Nat
    /\ MaxRequests \in Nat

VARIABLES
    account,    \* the rows of account
    account2,   \* the rows of account2
    inserted,   \* rows inserted so far, which numbers them
    user,       \* user[c]: handle->user->id
    hpc,        \* the statement that RegistTry runs next
    arg,        \* the id that RegistTry is about
    ret,        \* has every statement of RegistTry been executed so far
    answer,     \* the answer to the last request
    registered, \* the <<c, u>> of which c was told REGIST_OK
    races,      \* races[u]: how often RegistTry went on with u although its
                \* look-up was refused or another registration of u was under way
    disturbed,  \* the ids that a statement of RegistTry was refused for
    requests    \* requests so far

tables == <<account, account2, inserted>>
handlerVars == <<hpc, arg, ret, answer>>
history == <<registered, races, disturbed>>
vars == <<tables, user, handlerVars, history, requests>>

Row == [row : Nat, id : Users, pw : Conns, nick : {"given", "blank"}]
Row2 == [row : Nat, id : Users, android : Conns \cup {NoValue},
         facebook : Conns \cup {NoValue}]

Steps == {"idle", "account", "account2", "android"}

TypeOK ==
    /\ account \subseteq Row /\ IsFiniteSet(account)
    /\ account2 \subseteq Row2
    /\ inserted \in Nat
    /\ \A r \in account \cup account2 : r.row <= inserted
    /\ user \in [Conns -> Users \cup {NoUser}]
    /\ hpc \in [Conns -> Steps]
    /\ arg \in [Conns -> Users \cup {NoUser}]
    /\ \A c \in Conns : arg[c] = NoUser <=> hpc[c] = "idle"
    /\ ret \in [Conns -> BOOLEAN]
    /\ answer \in [Conns -> {"none", "ok", "exists", "incorrect", "failed", "info"}]
    /\ registered \subseteq Conns \X Users
    /\ races \in [Users -> Nat]
    /\ disturbed \subseteq Users
    /\ requests \in 0 .. MaxRequests

Init ==
    /\ account = {} /\ account2 = {} /\ inserted = 0
    /\ user = [c \in Conns |-> NoUser]
    /\ hpc = [c \in Conns |-> "idle"]
    /\ arg = [c \in Conns |-> NoUser]
    /\ ret = [c \in Conns |-> TRUE]
    /\ answer = [c \in Conns |-> "none"]
    /\ registered = {} /\ disturbed = {} /\ races = [u \in Users |-> 0]
    /\ requests = 0

-----------------------------------------------------------------------------
(* What a handler is made of.                                              *)

RowsOf(u) == {r \in account : r.id = u}
Rows2Of(u) == {r \in account2 : r.id = u}

Request(c) ==
    /\ hpc[c] = "idle" /\ requests < MaxRequests
    /\ requests' = requests + 1

Reply(c, a) == answer' = [answer EXCEPT ![c] = a]

\* The one statement of a handler is refused.
Refused(c, failure) == MayFail /\ Reply(c, failure) /\ UNCHANGED tables

-----------------------------------------------------------------------------
(* RegistTry.                                                              *)

Goto(c, step, u) ==
    /\ hpc' = [hpc EXCEPT ![c] = step]
    /\ arg' = [arg EXCEPT ![c] = u]

\* Another client's registration of u has begun and has not been answered.
Underway(c, u) == \E d \in Conns \ {c} : hpc[d] # "idle" /\ arg[d] = u

\* RegistTry goes on to its statements.
GoOn(c, u, refused) ==
    /\ Goto(c, "account", u)
    /\ ret' = [ret EXCEPT ![c] = TRUE]
    /\ races' = [races EXCEPT ![u] = @ + IF refused \/ Underway(c, u) THEN 1 ELSE 0]
    /\ Reply(c, "none")

\* VARIANT of RegistTry: the id is not looked up.
RegistTryUnchecked(c, u) ==
    /\ Request(c)
    /\ GoOn(c, u, FALSE)
    /\ UNCHANGED <<tables, user, registered, disturbed>>

\* QueryUser looks the id up; a look-up that is refused says that it is free.
RegistTry(c, u) ==
    /\ Request(c)
    /\ \/ /\ RowsOf(u) # {}
          /\ Reply(c, "exists")
          /\ UNCHANGED <<hpc, arg, ret, races>>
       \/ RowsOf(u) = {} /\ GoOn(c, u, FALSE)
       \/ MayFail /\ GoOn(c, u, TRUE)
    /\ UNCHANGED <<tables, user, registered, disturbed>>

\* A statement of RegistTry is refused: RegistUser returns false.
RegistRefused(c) ==
    /\ MayFail
    /\ ret' = [ret EXCEPT ![c] = FALSE]
    /\ disturbed' = disturbed \cup {arg[c]}

\* The first insert of RegistUser.  Refused, the second one is left out.
RegistAccount(c) ==
    /\ hpc[c] = "account"
    /\ \/ /\ inserted' = inserted + 1
          /\ account' = account \cup
                {[row |-> inserted', id |-> arg[c], pw |-> c, nick |-> "given"]}
          /\ Goto(c, "account2", arg[c])
          /\ UNCHANGED <<ret, disturbed>>
       \/ /\ RegistRefused(c)
          /\ Goto(c, "android", arg[c])
          /\ UNCHANGED <<account, inserted>>
    /\ UNCHANGED <<account2, user, answer, registered, races, requests>>

\* VARIANT of RegistAccount2: nothing is inserted.
RegistAccountOnly(c) ==
    /\ hpc[c] = "account2"
    /\ Goto(c, "android", arg[c])
    /\ UNCHANGED <<tables, user, ret, answer, history, requests>>

\* The second insert of RegistUser.
RegistAccount2(c) ==
    /\ hpc[c] = "account2"
    /\ \/ /\ inserted' = inserted + 1
          /\ account2' = account2 \cup
                {[row |-> inserted', id |-> arg[c], android |-> NoValue, facebook |-> NoValue]}
          /\ UNCHANGED <<ret, disturbed>>
       \/ RegistRefused(c) /\ UNCHANGED <<account2, inserted>>
    /\ Goto(c, "android", arg[c])
    /\ UNCHANGED <<account, user, answer, registered, races, requests>>

\* VARIANT of RegistAnswer: RegistTry forgets what RegistUser returned.
RegistAnswerLast(c, executed) ==
    /\ Goto(c, "idle", NoUser)
    /\ Reply(c, IF executed THEN "ok" ELSE "failed")
    /\ registered' = IF executed THEN registered \cup {<<c, arg[c]>>} ELSE registered

\* ret &= UpdateUserAndroid().
RegistAnswer(c, executed) ==
    /\ Goto(c, "idle", NoUser)
    /\ Reply(c, IF ret[c] /\ executed THEN "ok" ELSE "failed")
    /\ registered' = IF ret[c] /\ executed THEN registered \cup {<<c, arg[c]>>} ELSE registered

\* UpdateUserAndroid, which RegistTry calls whatever RegistUser returned.
RegistAndroid(c) ==
    /\ hpc[c] = "android"
    /\ \/ /\ account2' = {IF r.id = arg[c] THEN [r EXCEPT !.android = c] ELSE r : r \in account2}
          /\ RegistAnswer(c, TRUE)
          /\ UNCHANGED <<ret, disturbed>>
       \/ RegistRefused(c) /\ RegistAnswer(c, FALSE) /\ UNCHANGED account2
    /\ UNCHANGED <<account, inserted, user, races, requests>>

-----------------------------------------------------------------------------
(* Login.                                                                  *)

\* QueryUser reads one of the rows of u, and its password is compared with the
\* client's.
Compared(c, u) ==
    /\ \/ \E r \in RowsOf(u) :
            /\ user' = IF r.pw = c THEN [user EXCEPT ![c] = u] ELSE user
            /\ Reply(c, IF r.pw = c THEN "ok" ELSE "incorrect")
       \/ RowsOf(u) = {} /\ Reply(c, "incorrect") /\ UNCHANGED user
    /\ UNCHANGED tables

\* The rest of a login is in Session.
LoginTry(c, u) ==
    /\ Request(c)
    /\ \/ Compared(c, u)
       \/ Refused(c, "incorrect") /\ UNCHANGED user
    /\ UNCHANGED <<hpc, arg, ret, history>>

LogoutTry(c) ==
    /\ Request(c)
    /\ user[c] # NoUser
    /\ user' = [user EXCEPT ![c] = NoUser]
    /\ Reply(c, "none")
    /\ UNCHANGED <<tables, hpc, arg, ret, history>>

-----------------------------------------------------------------------------
(* What users keep about themselves and ask of others.                     *)

\* Every row of u gets the nick (and the job, which goes the same way).
SetNick(u, n) == account' = {IF r.id = u THEN [r EXCEPT !.nick = n] ELSE r : r \in account}

\* UpdateUser for the user of c.
UserUpdate(c) ==
    /\ Request(c)
    /\ user[c] # NoUser
    /\ \/ /\ SetNick(user[c], "given")
          /\ Reply(c, "ok")
          /\ UNCHANGED <<account2, inserted>>
       \/ Refused(c, "failed")
    /\ UNCHANGED <<user, hpc, arg, ret, history>>

\* UpdateUserComment: the column comment, which nothing else writes, is not
\* modelled.
UserUpdateComment(c) ==
    /\ Request(c)
    /\ user[c] # NoUser
    /\ \/ Reply(c, "ok") /\ UNCHANGED tables
       \/ Refused(c, "failed")
    /\ UNCHANGED <<user, hpc, arg, ret, history>>

\* UserQuery: without a row there is no answer.
UserQuery(c, u) ==
    /\ Request(c)
    /\ \/ Reply(c, IF RowsOf(u) # {} THEN "info" ELSE "none") /\ UNCHANGED tables
       \/ Refused(c, "none")
    /\ UNCHANGED <<user, hpc, arg, ret, history>>

UpdateUserFacebook(u, value) ==
    account2' = {IF r.id = u THEN [r EXCEPT !.facebook = value] ELSE r : r \in account2}

\* UserUpdateNateon does the same to its column.
UserUpdateFacebook(c) ==
    /\ Request(c)
    /\ user[c] # NoUser
    /\ \/ /\ UpdateUserFacebook(user[c], c)
          /\ Reply(c, "ok")
          /\ UNCHANGED <<account, inserted>>
       \/ Refused(c, "failed")
    /\ UNCHANGED <<user, hpc, arg, ret, history>>

\* UserQueryNateon does the same with its column.
UserQueryFacebook(c, u) ==
    /\ Request(c)
    /\ user[c] # NoUser
    /\ \/ Reply(c, IF Rows2Of(u) # {} THEN "info" ELSE "failed") /\ UNCHANGED tables
       \/ Refused(c, "failed")
    /\ UNCHANGED <<user, hpc, arg, ret, history>>

-----------------------------------------------------------------------------
(* Posts.                                                                  *)

\* The last character of the list of columns is cut off, which is a comma
\* unless the list ends with the number that post moves by: a number of one
\* digit is lost and the statement is refused.  post 0 adds no column.
PostIsRefused(value) == value \in 1 .. 9

\* PostIncrease and PostDecrease, for any id and without a login: UpdateUser
\* with a User that holds nothing else.  nick and job are arrays, so "!= NULL"
\* holds and their empty strings are written.  The number of posts is not
\* modelled.  The answer has no type.
PostIncrease(c, u, value) ==
    /\ Request(c)
    /\ Reply(c, "none")
    /\ \/ (PostIsRefused(value) \/ MayFail) /\ UNCHANGED account
       \/ ~PostIsRefused(value) /\ SetNick(u, "blank")
    /\ UNCHANGED <<account2, inserted, user, hpc, arg, ret, history>>

-----------------------------------------------------------------------------
RegistStep(c) ==
    \/ \E u \in Users : RegistTry(c, u)
    \/ RegistAccount(c) \/ RegistAccount2(c) \/ RegistAndroid(c)

LoginStep(c) == LogoutTry(c) \/ \E u \in Users : LoginTry(c, u)

UserStep(c) ==
    \/ UserUpdate(c) \/ UserUpdateComment(c) \/ UserUpdateFacebook(c)
    \/ \E u \in Users : UserQuery(c, u) \/ UserQueryFacebook(c, u)
    \/ \E u \in Users, value \in Values : PostIncrease(c, u, value)

Next == \E c \in Conns : RegistStep(c) \/ LoginStep(c) \/ UserStep(c)

Spec == Init /\ [][Next]_vars

-----------------------------------------------------------------------------
(* Properties.                                                             *)

\* Nothing but the look-up of RegistTry keeps a second row of an id out of account,
\* and it is not one transaction with the insert.  An id has one row, and one more
\* at most for each registration that went on while another of the same id was
\* under way, or whose look-up was refused: a registration that begins when all
\* others have been answered, and is not refused, never adds one.
UniqueId == \A u \in Users : Cardinality(RowsOf(u)) <= 1 + races[u]

\* REGIST_OK is true: the account is there, with the password of the client that
\* was told so, and so is its row in account2.  The three statements that fill the
\* tables run between those of others, and each may be refused.  The device is
\* that client's, too, if no two registrations of the id overlapped and no
\* statement of one was refused; else it may be another's, who failed to register.
Complete ==
    \A c \in Conns, u \in Users : <<c, u>> \in registered =>
        /\ \E r \in account : r.id = u /\ r.pw = c
        /\ \E r \in account2 : r.id = u /\ (races[u] = 0 /\ u \notin disturbed => r.android = c)

\* A client that was told REGIST_OK logs in with the password it gave, whatever
\* statements of other registrations, updates and posts were refused, as long as no
\* registration of the id, before its own or since, overlapped another or had its
\* look-up refused: after that the id may have rows with other passwords, and the
\* look-up of a login reads any of them.
LoginAccepted ==
    [][\A c \in Conns, u \in Users :
          LoginTry(c, u) /\ Compared(c, u) /\ <<c, u>> \in registered /\ races[u] = 0
            => answer'[c] = "ok"]_vars

\* USER_UPDATE_OK for the id at another site says that it is stored, if anybody
\* was told REGIST_OK for the account: an update that finds no row in account2 is
\* executed, too.  (REGIST_OK must not be told for an account without one.)
LinkStored ==
    [][\A c, d \in Conns :
          UserUpdateFacebook(c) /\ answer'[c] = "ok" /\ <<d, user[c]>> \in registered
            => \E r \in account2' : r.id = user[c] /\ r.facebook = c]_vars

=============================================================================
