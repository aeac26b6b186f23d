--------------------------- MODULE AccountsProofs ---------------------------
(***************************************************************************)
(* Proofs about Accounts, for any number of threads, users and requests:   *)
(* types, where rights come from, whom a session speaks for, and how long  *)
(* it lasts.                                                               *)
(***************************************************************************)
EXTENDS Accounts, TLAPS

NewUser    == {"register", "login"}
WithCookie == {"find", "check", "write", "erase"}

(***************************************************************************)
(* The inductive invariant.  Ids above the last have no row yet.           *)
(***************************************************************************)
FreshIds == ~spliced => \A i \in Ids : i > lastId => accounts[i] = NoUser

\* What a thread works on fits where it is.
JobsFit ==
  /\ lastId >= Len(FirstUsers) /\ FreshIds
  /\ \A t \in Threads :
       /\ pc[t] # "idle" => job[t] \in Jobs
       /\ pc[t] = "database" => job[t].op \in NewUser
       /\ pc[t] \in WithCookie =>
            job[t].op \notin NewUser /\ job[t].cookie <= issued
       /\ pc[t] = "store" => who[t] \in Names

\* As long as no administrator of the start has logged in and no statement was
\* spliced, no session and no thread has the name of one, and none is past its
\* check.
Guarded ==
  earned \cap FirstAdmins = {} /\ ~spliced =>
    /\ \A i \in Ids :
         IF i \in DOMAIN FirstUsers
           THEN accounts[i] = FirstUsers[i]
           ELSE accounts[i] # NoUser => ~accounts[i].isAdmin
    /\ \A c \in Cookies : sessions[c] \notin FirstAdmins
    /\ \A t \in Threads : who[t] \notin FirstAdmins /\ pc[t] # "write"

UniqueNames ==
  ~spliced =>
    \A i, k \in Ids :
      /\ accounts[i] # NoUser
      /\ accounts[k] # NoUser
      /\ accounts[i].name = accounts[k].name
      => i = k

\* Id i has the row of that name, or had it and was moved.
Bears(i, name) ==
  i \notin moved =>
    /\ i \in Ids
    /\ accounts[i] # NoUser
    /\ accounts[i].name = name

OwnersBear ==
  ~spliced =>
    /\ \A c \in Cookies : sessions[c] # NoName => Bears(owner[c], sessions[c])
    /\ \A t \in Threads : pc[t] = "store" => Bears(row[t], who[t])

Lasting == ended \subseteq 1 .. issued /\ SessionsLast

IInv ==
  TypeOK /\ JobsFit /\ Guarded /\ UniqueNames /\ OwnersBear /\ Lasting

-----------------------------------------------------------------------------
(***************************************************************************)
(* Lemmas about requests and about the map.                                *)
(***************************************************************************)
\* What a request has.
LEMMA JobFields ==
  ASSUME NEW j \in Jobs
  PROVE  /\ j.op \in NewUser => j.form \in Forms /\ ~j.form.isAdmin
         /\ j.op \notin NewUser =>
              j.cookie \in Cookies /\ "cookie" \in DOMAIN j
         /\ j.op \in {"editUser", "deleteUser"} => j.id \in Ids
         /\ j.op \in {"editUser", "addUser"} => j.form \in Forms
  BY DEF Jobs, NewUser

\* A search gives the name of the node, or when it goes wrong one that somebody
\* logged in with, or the name of nobody.
LEMMA SeenNames ==
  ASSUME NEW t \in Threads, NEW name \in Seen(t), name # NoName
  PROVE  name \in {sessions[job[t].cookie], Nobody} \cup earned
  BY DEF Seen

\* The rows the table begins with.
LEMMA FirstRows ==
  /\ Len(FirstUsers) \in Nat
  /\ DOMAIN FirstUsers = 1 .. Len(FirstUsers)
  /\ \A i \in DOMAIN FirstUsers : FirstUsers[i] \in Forms
  BY FirstAssumption

LEMMA FirstAdminNames == FirstAdmins \subseteq Names
  <1> SUFFICES ASSUME NEW i \in DOMAIN FirstUsers
               PROVE  FirstUsers[i].name \in Names
    BY DEF FirstAdmins
  <1> QED
    BY FirstRows, FormAssumption

\* An inserted row is the next one, or none.
LEMMA Inserted ==
  ASSUME TypeOK, NEW r \in Forms, InsertUser(r) \/ UNCHANGED table
  PROVE  /\ lastId' \in 0 .. MaxUsers
         /\ lastId' \in {lastId, lastId + 1}
         /\ accounts' \in [Ids -> Forms \cup {NoUser}]
         /\ \/ accounts' = accounts
            \/ /\ lastId' = lastId + 1
               /\ lastId' \in Ids
               /\ accounts' = [accounts EXCEPT ![lastId'] = r]
               /\ Fits(lastId', r)
  <1>1. MaxUsers \in Nat
    BY BoundAssumption
  <1>2. CASE InsertUser(r)
    <2>1. lastId' = lastId + 1 /\ lastId' \in 1 .. MaxUsers
      BY <1>1, <1>2 DEF InsertUser, TypeOK
    <2>2. lastId' \in Ids
      BY <2>1 DEF Ids
    <2>3. CASE Fits(lastId', r)
      <3>1. accounts' = [accounts EXCEPT ![lastId'] = r]
        BY <1>2, <2>3 DEF InsertUser
      <3> QED
        BY <1>1, <2>1, <2>2, <2>3, <3>1 DEF TypeOK
    <2>4. CASE ~Fits(lastId', r)
      <3>1. accounts' = accounts
        BY <1>2, <2>4 DEF InsertUser
      <3> QED
        BY <1>1, <2>1, <3>1 DEF TypeOK
    <2> QED
      BY <2>3, <2>4
  <1>3. CASE UNCHANGED table
    BY <1>3 DEF TypeOK, table
  <1> QED
    BY <1>2, <1>3

\* A thread that is done leaves the others where they are.
LEMMA Finished ==
  ASSUME TypeOK, NEW t \in Threads, Finish(t)
  PROVE  /\ pc'[t] = "idle" /\ job'[t] = NoJob /\ who'[t] = NoName
         /\ \A u \in Threads \ {t} :
              UNCHANGED <<pc[u], job[u], who[u], row[u]>>
  BY DEF Finish, Goto, TypeOK

\* A statement with a name in it that is not literal.
LEMMA Spliced ==
  ASSUME TypeOK, JobsFit, NEW t \in Threads, Splice(t)
  PROVE  /\ spliced'
         /\ lastId' \in 0 .. MaxUsers /\ lastId' >= lastId
         /\ accounts' \in [Ids -> Forms \cup {NoUser}]
         /\ UNCHANGED <<map, counts, earned, owner, moved, ended>>
         /\ \/ Finish(t)
            \/ /\ UNCHANGED <<job, who, row>> /\ pc[t] = "check"
               /\ pc' = [pc EXCEPT ![t] = "write"]
            \/ /\ UNCHANGED <<job, row>> /\ pc[t] = "database"
               /\ pc' = [pc EXCEPT ![t] = "store"]
               /\ who' = [who EXCEPT ![t] = job[t].form.name]
               /\ job[t].form.name \in Names
  <1>1. MaxUsers \in Nat /\ lastId \in 0 .. MaxUsers
    BY BoundAssumption DEF TypeOK
  <1>2. /\ lastId' \in 0 .. MaxUsers /\ lastId' >= lastId
        /\ accounts' \in [Ids -> Forms \cup {NoUser}]
    <2>1. CASE UNCHANGED table
      BY <1>1, <2>1 DEF TypeOK, table
    <2>2. CASE accounts' \in SplicedTables /\ lastId' \in lastId .. MaxUsers
      BY <1>1, <2>2, LiteralAssumption
    <2> QED
      BY <2>1, <2>2 DEF Splice
  <1>3. ASSUME pc[t] = "database", job[t].op = "login"
        PROVE  job[t].form.name \in Names
    BY <1>3, JobFields, FormAssumption DEF JobsFit, NewUser
  <1> QED
    BY <1>2, <1>3 DEF Splice, Goto

-----------------------------------------------------------------------------
LEMMA InitInv == Init => IInv
  <1> SUFFICES ASSUME Init PROVE IInv
    OBVIOUS
  <1> USE DEF Init
  <1>0. /\ Len(FirstUsers) \in Nat
        /\ Len(FirstUsers) <= MaxUsers
        /\ DOMAIN FirstUsers = 1 .. Len(FirstUsers)
        /\ \A i \in DOMAIN FirstUsers : FirstUsers[i] \in Forms
    BY FirstRows, FirstAssumption
  <1>1. TypeOK
    <2>1. /\ accounts \in [Ids -> Forms \cup {NoUser}]
          /\ lastId \in 0 .. MaxUsers
      BY <1>0, BoundAssumption
    <2>2. 0 \in 0 .. MaxLogins /\ 0 \in 0 .. MaxRequests
            /\ 0 \in 0 .. MaxRestarts
      BY BoundAssumption
    <2> QED
      BY <2>1, <2>2 DEF TypeOK, Places
  <1>2. JobsFit
    BY <1>0, FirstAssumption, BoundAssumption DEF JobsFit, FreshIds, WithCookie,
       Ids
  <1>3. Guarded
    BY <1>0, FirstAdminNames, NoneAssumption DEF Guarded
  <1>4. UniqueNames
    BY <1>0, FirstAssumption DEF UniqueNames
  <1>5. OwnersBear
    BY DEF OwnersBear
  <1>6. Lasting
    BY DEF Lasting, SessionsLast
  <1> QED
    BY <1>1, <1>2, <1>3, <1>4, <1>5, <1>6 DEF IInv
-----------------------------------------------------------------------------
\* Types.
LEMMA TypeStep == TypeOK /\ JobsFit /\ [Next]_vars => TypeOK'
  <1> SUFFICES ASSUME TypeOK, JobsFit, [Next]_vars PROVE TypeOK'
    OBVIOUS
  <1> USE DEF TypeOK
  <1>1. ASSUME NEW t \in Threads, NEW j \in Jobs, Receive(t, j) PROVE TypeOK'
    <2>1. job' \in [Threads -> Jobs \cup {NoJob}]
      BY <1>1 DEF Receive
    <2>2. pc' \in [Threads -> Places]
      BY <1>1 DEF Receive, Goto, Places
    <2>3. requests' \in 0 .. MaxRequests
      BY <1>1, BoundAssumption DEF Receive
    <2>4. UNCHANGED <<table, map, who, row, restarts, history>>
      BY <1>1 DEF Receive
    <2> QED
      BY <2>1, <2>2, <2>3, <2>4 DEF table, map, history
  <1>2. ASSUME NEW t \in Threads, FindSession(t) PROVE TypeOK'
    <2>1. job[t] \in Jobs /\ job[t].op \notin NewUser
      BY <1>2 DEF FindSession, JobsFit, WithCookie
    <2>2. /\ sessions[job[t].cookie] \in Names \cup {NoName}
          /\ earned \subseteq Names
      BY <2>1, JobFields
    <2>3. PICK name \in Seen(t) :
            IF name = NoName
              THEN Finish(t)
              ELSE /\ who' = [who EXCEPT ![t] = name]
                   /\ Goto(t, IF job[t].op = "logout"
                                THEN "erase" ELSE "check")
                   /\ UNCHANGED <<job, row>>
      BY <1>2 DEF FindSession
    <2>4. name \in Names \cup {NoName, Nobody}
      BY <2>2, SeenNames
    <2> QED
      BY <1>2, <2>3, <2>4 DEF FindSession, Goto, Finish, table, map, counts,
         history, Places
  <1>3. ASSUME NEW t \in Threads, Register(t) PROVE TypeOK'
    <2>1. job[t].form \in Forms
      BY <1>3, JobFields DEF Register, JobsFit, NewUser
    <2>2. /\ lastId' \in 0 .. MaxUsers
          /\ accounts' \in [Ids -> Forms \cup {NoUser}]
      BY <1>3, <2>1, Inserted DEF Register
    <2>3. Finish(t) /\ UNCHANGED <<map, counts, history>>
      BY <1>3 DEF Register
    <2> QED
      BY <2>2, <2>3 DEF Finish, Goto, map, counts, history, Places
  <1>4. ASSUME NEW t \in Threads, LoginUser(t) PROVE TypeOK'
    <2>1. job[t].form.name \in Names
      BY <1>4, JobFields, FormAssumption DEF LoginUser, JobsFit, NewUser
    <2> QED
      BY <1>4, <2>1 DEF LoginUser, Finish, Goto, Rows, table, map, counts,
         Places
  <1>5. ASSUME NEW t \in Threads, StoreSession(t) PROVE TypeOK'
    <2>1. sessions' \in [Cookies -> Names \cup {NoName}] /\ broken' \in BOOLEAN
      BY <1>5 DEF StoreSession, WriteMap, Missed, JobsFit
    <2>2. row[t] \in Ids \cup {NoUser}
      OBVIOUS
    <2>3. issued' \in 0 .. MaxLogins
      BY <1>5, BoundAssumption DEF StoreSession
    <2> QED
      BY <1>5, <2>1, <2>2, <2>3 DEF StoreSession, Finish, Goto, table, counts,
         Places
  <1>6. ASSUME NEW t \in Threads, EraseSession(t) PROVE TypeOK'
    <2>1. job[t].cookie \in Cookies
      BY <1>6, JobFields DEF EraseSession, JobsFit, WithCookie
    <2>2. sessions' \in [Cookies -> Names \cup {NoName}] /\ broken' \in BOOLEAN
      BY <1>6 DEF EraseSession, WriteMap, Missed
    <2> QED
      BY <1>6, <2>1, <2>2 DEF EraseSession, Finish, Goto, table, counts, Places
  <1>7. ASSUME NEW t \in Threads, IsAdmin(t) PROVE TypeOK'
    BY <1>7 DEF IsAdmin, Finish, Goto, table, map, counts, history, Places
  <1>8. ASSUME NEW t \in Threads, EditUser(t) PROVE TypeOK'
    <2>1. job[t].form \in Forms /\ job[t].id \in Ids
      BY <1>8, JobFields DEF EditUser, JobsFit
    <2>2. /\ accounts' \in [Ids -> Forms \cup {NoUser}]
          /\ moved' \in SUBSET Ids
      BY <1>8, <2>1 DEF EditUser, UpdateUserById
    <2> QED
      BY <1>8, <2>2 DEF EditUser, Finish, Goto, map, counts, Places
  <1>9. ASSUME NEW t \in Threads, DeleteUser(t) PROVE TypeOK'
    <2>1. job[t].id \in Ids
      BY <1>9, JobFields DEF DeleteUser, JobsFit
    <2> QED
      BY <1>9, <2>1 DEF DeleteUser, Finish, Goto, map, counts, Places
  <1>10. ASSUME NEW t \in Threads, AddUser(t) PROVE TypeOK'
    <2>1. job[t].form \in Forms
      BY <1>10, JobFields DEF AddUser, JobsFit
    <2>2. /\ lastId' \in 0 .. MaxUsers
          /\ accounts' \in [Ids -> Forms \cup {NoUser}]
      BY <1>10, <2>1, Inserted DEF AddUser
    <2>3. Finish(t) /\ UNCHANGED <<map, counts, history>>
      BY <1>10 DEF AddUser
    <2> QED
      BY <2>2, <2>3 DEF Finish, Goto, map, counts, history, Places
  <1>11. CASE Restart
    <2>1. 1 .. issued \subseteq Cookies
      BY BoundAssumption DEF Cookies
    <2>2. broken' \in BOOLEAN
      BY <1>11, Zenon DEF Restart
    <2>3. restarts' \in 0 .. MaxRestarts
      BY <1>11, BoundAssumption DEF Restart
    <2>4. UNCHANGED <<table, issued, requests, earned, owner, moved, spliced>>
      BY <1>11 DEF Restart
    <2>5. ended' = ended \cup 1 .. issued
      BY <1>11 DEF Restart
    <2>6. /\ sessions' = [c \in Cookies |-> NoName]
          /\ pc' = [t \in Threads |-> "idle"]
          /\ job' = [t \in Threads |-> NoJob]
          /\ who' = [t \in Threads |-> NoName]
          /\ row' = [t \in Threads |-> NoUser]
      BY <1>11 DEF Restart
    <2> QED
      BY <2>1, <2>2, <2>3, <2>4, <2>5, <2>6 DEF table, Places
  <1>12. CASE UNCHANGED vars
    BY <1>12 DEF vars, table, map, local, counts, history
  <1>13. ASSUME NEW t \in Threads, Splice(t) PROVE TypeOK'
    BY <1>13, Spliced DEF Finish, Goto, map, counts, Places, Splice
  <1> QED
    BY <1>1, <1>2, <1>3, <1>4, <1>5, <1>6, <1>7, <1>8, <1>9, <1>10, <1>11,
       <1>12, <1>13 DEF Next, Handle

-----------------------------------------------------------------------------
\* What the threads work on.
LEMMA JobsStep == TypeOK /\ TypeOK' /\ JobsFit /\ [Next]_vars => JobsFit'
  <1> SUFFICES ASSUME TypeOK, TypeOK', JobsFit, [Next]_vars PROVE JobsFit'
    OBVIOUS
  <1> DEFINE Rest == lastId >= Len(FirstUsers) /\ FreshIds
  <1>0. Rest /\ lastId \in Nat /\ issued \in Nat /\ Len(FirstUsers) \in Nat
    BY BoundAssumption, FirstRows DEF JobsFit, TypeOK
  <1>a. ASSUME NEW t \in Threads, Finish(t), UNCHANGED issued, Rest'
        PROVE  JobsFit'
    BY <1>a, Finished DEF JobsFit, WithCookie
  <1>b. ASSUME NEW r \in Forms, InsertUser(r) \/ UNCHANGED table,
               UNCHANGED history
        PROVE  Rest'
    <2>1. lastId' >= Len(FirstUsers)
      BY <1>0, <1>b, Inserted DEF TypeOK
    <2>2. ASSUME ~spliced', NEW i \in Ids, i > lastId'
          PROVE  accounts'[i] = NoUser
      <3>1. ~spliced
        BY <1>b, <2>2 DEF history
      <3>2. /\ lastId' \in {lastId, lastId + 1}
            /\ \/ accounts' = accounts
               \/ accounts' = [accounts EXCEPT ![lastId'] = r]
        BY <1>b, Inserted
      <3>3. lastId \in Nat /\ i \in Nat /\ lastId' \in Nat
        BY <1>0, <3>2, BoundAssumption DEF Ids
      <3>4. i > lastId /\ i # lastId'
        BY <2>2, <3>2, <3>3
      <3>5. accounts[i] = NoUser
        BY <1>0, <3>1, <3>4, Zenon DEF FreshIds
      <3>6. DOMAIN accounts = Ids
        BY DEF TypeOK
      <3> QED
        BY <2>2, <3>2, <3>4, <3>5, <3>6, Zenon
    <2> QED
      BY <2>1, <2>2 DEF FreshIds
  <1>c. ASSUME UNCHANGED <<accounts, lastId, spliced>> PROVE Rest'
    BY <1>0, <1>c DEF FreshIds
  <1>1. ASSUME NEW t \in Threads, NEW j \in Jobs, Receive(t, j)
        PROVE  JobsFit'
    <2>1. /\ j.op \notin NewUser => j.cookie <= issued
          /\ UNCHANGED <<accounts, lastId, issued, who, spliced>>
          /\ job'[t] = j
          /\ pc'[t] = IF j.op \in NewUser THEN "database" ELSE "find"
          /\ \A u \in Threads \ {t} : UNCHANGED <<pc[u], job[u]>>
      BY <1>1, JobFields DEF Receive, Goto, NewUser, TypeOK, table, map,
         history
    <2> QED
      BY <2>1, <1>c DEF JobsFit, WithCookie
  <1>2. ASSUME NEW t \in Threads, FindSession(t) PROVE JobsFit'
    <2>1. CASE Finish(t)
      BY <1>2, <2>1, <1>c, <1>a DEF FindSession, table, map, history
    <2>2. CASE ~Finish(t)
      <3>1. /\ UNCHANGED <<accounts, lastId, issued, job, spliced>>
            /\ pc[t] = "find"
            /\ pc'[t] \in {"erase", "check"}
            /\ \A u \in Threads \ {t} : UNCHANGED <<pc[u], who[u]>>
        BY <1>2, <2>2 DEF FindSession, Goto, table, map, TypeOK,
           history
      <3> QED
        BY <3>1, <1>c DEF JobsFit, WithCookie
    <2> QED
      BY <2>1, <2>2
  <1>3. ASSUME NEW t \in Threads, Register(t) PROVE JobsFit'
    <2>1. job[t].form \in Forms
      BY <1>3, JobFields DEF Register, JobsFit, NewUser
    <2> QED
      BY <1>3, <2>1, <1>a, <1>b DEF Register, map
  <1>4. ASSUME NEW t \in Threads, LoginUser(t) PROVE JobsFit'
    <2>1. CASE Finish(t)
      BY <1>4, <2>1, <1>c, <1>a DEF LoginUser, table, map
    <2>2. CASE ~Finish(t)
      <3>1. job[t] \in Jobs /\ job[t].form.name \in Names
        BY <1>4, JobFields, FormAssumption DEF LoginUser, JobsFit, NewUser
      <3>2. /\ UNCHANGED <<accounts, lastId, issued, job, spliced>>
            /\ pc'[t] = "store" /\ who'[t] \in Names
            /\ \A u \in Threads \ {t} : UNCHANGED <<pc[u], who[u]>>
        BY <1>4, <2>2, <3>1 DEF LoginUser, Goto, table, map, TypeOK
      <3> QED
        BY <3>1, <3>2, <1>c DEF JobsFit, WithCookie
    <2> QED
      BY <2>1, <2>2
  <1>5. ASSUME NEW t \in Threads, StoreSession(t) PROVE JobsFit'
    <2>1. Finish(t) /\ issued' = issued + 1
            /\ UNCHANGED <<accounts, lastId, spliced>>
      BY <1>5 DEF StoreSession, table
    <2>2. \A u \in Threads : pc[u] \in WithCookie => job[u].cookie \in Nat
      BY JobFields DEF JobsFit, WithCookie, Cookies
    <2> QED
      BY <1>0, <2>1, <2>2, <1>c, Finished DEF JobsFit, WithCookie
  <1>6. ASSUME NEW t \in Threads, EraseSession(t) PROVE JobsFit'
    BY <1>6, <1>c, <1>a DEF EraseSession, table
  <1>7. ASSUME NEW t \in Threads, IsAdmin(t) PROVE JobsFit'
    <2>1. CASE Finish(t)
      BY <1>7, <2>1, <1>c, <1>a DEF IsAdmin, table, map, history
    <2>2. CASE ~Finish(t)
      <3>1. /\ UNCHANGED <<accounts, lastId, issued, job, who, spliced>>
            /\ pc[t] = "check" /\ pc'[t] = "write"
            /\ \A u \in Threads \ {t} : UNCHANGED pc[u]
        BY <1>7, <2>2 DEF IsAdmin, Goto, table, map, TypeOK, history
      <3> QED
        BY <3>1, <1>c DEF JobsFit, WithCookie
    <2> QED
      BY <2>1, <2>2
  <1>8. ASSUME NEW t \in Threads, EditUser(t) PROVE JobsFit'
    <2>1. Rest'
      BY <1>0, <1>8 DEF EditUser, UpdateUserById, Rows, TypeOK, FreshIds
    <2> QED
      BY <1>8, <2>1, <1>a DEF EditUser, map
  <1>9. ASSUME NEW t \in Threads, DeleteUser(t) PROVE JobsFit'
    <2>1. Rest'
      BY <1>0, <1>9 DEF DeleteUser, TypeOK, FreshIds
    <2> QED
      BY <1>9, <2>1, <1>a DEF DeleteUser, map
  <1>10. ASSUME NEW t \in Threads, AddUser(t) PROVE JobsFit'
    <2>1. job[t].form \in Forms
      BY <1>10, JobFields DEF AddUser, JobsFit
    <2> QED
      BY <1>10, <2>1, <1>a, <1>b DEF AddUser, map
  <1>11. CASE Restart
    BY <1>11, <1>c DEF Restart, table, JobsFit, WithCookie
  <1>12. CASE UNCHANGED vars
    BY <1>12, <1>c DEF vars, table, map, local, counts, history, JobsFit
  <1>13. ASSUME NEW t \in Threads, Splice(t) PROVE JobsFit'
    <2>1. Rest' /\ UNCHANGED issued
      BY <1>0, <1>13, Spliced DEF map, TypeOK, FreshIds
    <2>2. CASE Finish(t)
      BY <2>1, <2>2, <1>a
    <2>3. CASE /\ UNCHANGED <<job, who, row>> /\ pc[t] = "check"
               /\ pc' = [pc EXCEPT ![t] = "write"]
      BY <2>1, <2>3 DEF JobsFit, WithCookie, TypeOK
    <2>4. CASE /\ UNCHANGED <<job, row>>
               /\ pc[t] = "database"
               /\ pc' = [pc EXCEPT ![t] = "store"]
               /\ who' = [who EXCEPT ![t] = job[t].form.name]
               /\ job[t].form.name \in Names
      BY <2>1, <2>4 DEF JobsFit, WithCookie, TypeOK
    <2> QED
      BY <1>13, <2>2, <2>3, <2>4, Spliced
  <1> QED
    BY <1>1, <1>2, <1>3, <1>4, <1>5, <1>6, <1>7, <1>8, <1>9, <1>10, <1>11,
       <1>12, <1>13 DEF Next, Handle

-----------------------------------------------------------------------------
\* Until an administrator logs in, nobody gets past the check.
LEMMA NoRights ==
  ASSUME TypeOK, Guarded, NEW t \in Threads,
         earned \cap FirstAdmins = {}, ~spliced
  PROVE  ~HasRights(who[t])
  <1> SUFFICES ASSUME NEW i \in Rows, accounts[i].name = who[t],
                      accounts[i].isAdmin
               PROVE  FALSE
    BY DEF HasRights, Named
  <1>1. i \in DOMAIN FirstUsers /\ accounts[i] = FirstUsers[i]
    BY DEF Guarded, Rows
  <1>2. who[t] \in FirstAdmins
    BY <1>1 DEF FirstAdmins
  <1> QED
    BY <1>2 DEF Guarded

LEMMA GuardedStep ==
  TypeOK /\ JobsFit /\ Guarded /\ [Next]_vars => Guarded'
  <1> SUFFICES ASSUME TypeOK, JobsFit, Guarded, [Next]_vars,
                      (earned \cap FirstAdmins = {} /\ ~spliced)'
               PROVE  (/\ \A i \in Ids :
                            IF i \in DOMAIN FirstUsers
                              THEN accounts[i] = FirstUsers[i]
                              ELSE accounts[i] # NoUser => ~accounts[i].isAdmin
                       /\ \A c \in Cookies : sessions[c] \notin FirstAdmins
                       /\ \A t \in Threads : /\ who[t] \notin FirstAdmins
                                             /\ pc[t] # "write")'
    BY DEF Guarded
  <1> DEFINE Table ==
               \A i \in Ids :
                 IF i \in DOMAIN FirstUsers
                   THEN accounts[i] = FirstUsers[i]
                   ELSE accounts[i] # NoUser => ~accounts[i].isAdmin
             Map == \A c \in Cookies : sessions[c] \notin FirstAdmins
             Others(t) == \A u \in Threads \ {t} : UNCHANGED <<who[u], pc[u]>>
             Local == \A t \in Threads : /\ who[t] \notin FirstAdmins
                                         /\ pc[t] # "write"
  <1>0. NoName \notin FirstAdmins /\ Nobody \notin FirstAdmins
    BY FirstAdminNames, NoneAssumption
  <1>a. ASSUME UNCHANGED earned, UNCHANGED spliced
        PROVE  Table /\ Map /\ Local /\ ~spliced
    BY <1>a DEF Guarded
  <1>b. ASSUME NEW t \in Threads, Finish(t), Local PROVE Local'
    BY <1>0, <1>b, Finished
  <1>c. ASSUME NEW r \in Forms, ~r.isAdmin, Table, ~spliced,
               InsertUser(r) \/ UNCHANGED table
        PROVE  Table'
    <2>1. CASE accounts' = accounts
      BY <1>c, <2>1
    <2>2. CASE /\ lastId' = lastId + 1
               /\ lastId' \in Ids
               /\ accounts' = [accounts EXCEPT ![lastId'] = r]
      <3>1. lastId' \notin DOMAIN FirstUsers
        BY <2>2, FirstRows DEF JobsFit, TypeOK
      <3> QED
        BY <1>c, <2>2, <3>1 DEF TypeOK
    <2> QED
      BY <1>c, <2>1, <2>2, Inserted
  <1>1. ASSUME NEW t \in Threads, NEW j \in Jobs, Receive(t, j)
        PROVE  Table' /\ Map' /\ Local'
    BY <1>1, <1>a DEF Receive, Goto, table, map, history, TypeOK
  <1>2. ASSUME NEW t \in Threads, FindSession(t)
        PROVE  Table' /\ Map' /\ Local'
    <2>1. Table' /\ Map' /\ Local
      BY <1>2, <1>a DEF FindSession, table, map, history
    <2>2. CASE Finish(t)
      BY <2>1, <2>2, <1>b
    <2>3. CASE ~Finish(t)
      <3>1. job[t].cookie \in Cookies
        BY <1>2, JobFields DEF FindSession, JobsFit, WithCookie
      <3>2. PICK name \in Seen(t) :
              /\ name # NoName
              /\ who' = [who EXCEPT ![t] = name]
              /\ pc' = [pc EXCEPT ![t] = IF job[t].op = "logout"
                                           THEN "erase" ELSE "check"]
        BY <1>2, <2>3 DEF FindSession, Goto
      <3>3. name \notin FirstAdmins
        <4>1. Map /\ earned \cap FirstAdmins = {}
          BY <1>2, <1>a DEF FindSession, history
        <4> QED
          BY <1>0, <3>1, <3>2, <4>1, SeenNames
      <3> QED
        BY <2>1, <3>2, <3>3 DEF TypeOK
    <2> QED
      BY <2>2, <2>3
  <1>3. ASSUME NEW t \in Threads, Register(t)
        PROVE  Table' /\ Map' /\ Local'
    <2>1. job[t].form \in Forms /\ ~job[t].form.isAdmin
      BY <1>3, JobFields DEF Register, JobsFit, NewUser
    <2> QED
      BY <1>3, <2>1, <1>a, <1>b, <1>c DEF Register, map, history
  <1>4. ASSUME NEW t \in Threads, LoginUser(t)
        PROVE  Table' /\ Map' /\ Local'
    <2>1. Table /\ Map /\ Local
      <3>1. earned \subseteq earned' /\ UNCHANGED spliced
        BY <1>4 DEF LoginUser
      <3> QED
        BY <3>1 DEF Guarded
    <2>2. Table' /\ Map'
      BY <1>4, <2>1 DEF LoginUser, table, map
    <2>3. CASE Finish(t)
      BY <2>1, <2>2, <2>3, <1>b
    <2>4. CASE ~Finish(t)
      <3>1. /\ who' = [who EXCEPT ![t] = job[t].form.name]
            /\ pc' = [pc EXCEPT ![t] = "store"]
            /\ job[t].form.name \in earned'
        BY <1>4, <2>4 DEF LoginUser, Goto, PasswordMatches
      <3> QED
        BY <2>1, <2>2, <3>1 DEF TypeOK
    <2> QED
      BY <2>3, <2>4
  <1>5. ASSUME NEW t \in Threads, StoreSession(t)
        PROVE  Table' /\ Map' /\ Local'
    <2>1. /\ Table /\ Map /\ Local
          /\ Finish(t) /\ UNCHANGED accounts
          /\ sessions' = [sessions EXCEPT ![issued'] = who[t]]
      BY <1>5, <1>a DEF StoreSession, WriteMap, table
    <2> QED
      BY <2>1, <1>b DEF TypeOK
  <1>6. ASSUME NEW t \in Threads, EraseSession(t)
        PROVE  Table' /\ Map' /\ Local'
    <2>1. /\ Table /\ Map /\ Local
          /\ Finish(t) /\ UNCHANGED accounts
          /\ sessions' = [sessions EXCEPT ![job[t].cookie] = NoName]
      BY <1>6, <1>a DEF EraseSession, WriteMap, table
    <2> QED
      BY <1>0, <2>1, <1>b DEF TypeOK
  <1>7. ASSUME NEW t \in Threads, IsAdmin(t) PROVE Table' /\ Map' /\ Local'
    <2>1. /\ Table /\ Map /\ Local
          /\ UNCHANGED <<accounts, sessions, earned, spliced>>
          /\ ~spliced
      BY <1>7, <1>a DEF IsAdmin, table, map, history
    <2>2. Finish(t)
      BY <1>7, <2>1, NoRights DEF IsAdmin
    <2> QED
      BY <2>1, <2>2, <1>b
  <1>8. ASSUME NEW t \in Threads, EditUser(t) PROVE FALSE
    BY <1>8, <1>a DEF EditUser
  <1>9. ASSUME NEW t \in Threads, DeleteUser(t) PROVE FALSE
    BY <1>9, <1>a DEF DeleteUser
  <1>10. ASSUME NEW t \in Threads, AddUser(t) PROVE FALSE
    BY <1>10, <1>a DEF AddUser, history
  <1>11. CASE Restart
    BY <1>11, <1>0, <1>a DEF Restart, table
  <1>12. CASE UNCHANGED vars
    BY <1>12, <1>a DEF vars, table, map, local, history
  <1>13. ASSUME NEW t \in Threads, Splice(t) PROVE FALSE
    BY <1>13, Spliced
  <1> QED
    BY <1>1, <1>2, <1>3, <1>4, <1>5, <1>6, <1>7, <1>8, <1>9, <1>10, <1>11,
       <1>12, <1>13 DEF Next, Handle

-----------------------------------------------------------------------------
\* The table keeps its names unique.
LEMMA UniqueStep ==
  TypeOK /\ JobsFit /\ UniqueNames /\ [Next]_vars => UniqueNames'
  <1> SUFFICES ASSUME TypeOK, JobsFit, UniqueNames, [Next]_vars
               PROVE  UniqueNames'
    OBVIOUS
  <1>a. ASSUME UNCHANGED <<accounts, spliced>> PROVE UniqueNames'
    BY <1>a DEF UniqueNames
  <1>b. ASSUME NEW i \in Ids, NEW r \in Forms, Fits(i, r),
               accounts' = [accounts EXCEPT ![i] = r], UNCHANGED spliced
        PROVE  UniqueNames'
    BY <1>b DEF UniqueNames, Fits, Named, Rows, TypeOK
  <1>c. ASSUME NEW r \in Forms, InsertUser(r) \/ UNCHANGED table,
               UNCHANGED history
        PROVE  UniqueNames'
    BY <1>a, <1>b, <1>c, Inserted DEF history
  <1>1. ASSUME NEW t \in Threads, Handle(t) PROVE UniqueNames'
    <2>1. CASE Register(t)
      <3>1. job[t].form \in Forms
        BY <2>1, JobFields DEF Register, JobsFit, NewUser
      <3> QED
        BY <2>1, <3>1, <1>c DEF Register
    <2>2. CASE EditUser(t)
      <3>1. job[t].form \in Forms /\ job[t].id \in Ids
        BY <2>2, JobFields DEF EditUser, JobsFit
      <3> QED
        BY <2>2, <3>1, <1>a, <1>b DEF EditUser, UpdateUserById
    <2>3. CASE DeleteUser(t)
      BY <2>3, <1>a DEF DeleteUser, UniqueNames, TypeOK
    <2>4. CASE AddUser(t)
      <3>1. job[t].form \in Forms
        BY <2>4, JobFields DEF AddUser, JobsFit
      <3> QED
        BY <2>4, <3>1, <1>c DEF AddUser
    <2>5. CASE FindSession(t) \/ LoginUser(t) \/ StoreSession(t)
                 \/ EraseSession(t) \/ IsAdmin(t)
      BY <2>5, <1>a DEF FindSession, LoginUser, StoreSession, EraseSession,
         IsAdmin, table, history
    <2>6. CASE Splice(t)
      BY <2>6, Spliced DEF UniqueNames
    <2> QED
      BY <1>1, <2>1, <2>2, <2>3, <2>4, <2>5, <2>6 DEF Handle
  <1>2. CASE \E t \in Threads, j \in Jobs : Receive(t, j)
    BY <1>2, <1>a DEF Receive, table, history
  <1>3. CASE Restart \/ UNCHANGED vars
    BY <1>3, <1>a DEF Restart, vars, table, history
  <1> QED
    BY <1>1, <1>2, <1>3 DEF Next

-----------------------------------------------------------------------------
\* A row keeps its name, or its id is moved.
LEMMA BearsStep ==
  ASSUME TypeOK, JobsFit, [Next]_vars, ~spliced'
  PROVE  \A i, name :
           Bears(i, name) =>
             (i \notin moved' => /\ i \in Ids
                                 /\ accounts'[i] # NoUser
                                 /\ accounts'[i].name = name)
  <1> SUFFICES ASSUME NEW i, NEW name, Bears(i, name), i \notin moved'
               PROVE  /\ i \in Ids
                      /\ accounts'[i] # NoUser
                      /\ accounts'[i].name = name
    OBVIOUS
  <1> DEFINE Kept == /\ i \in Ids
                     /\ accounts'[i] # NoUser
                     /\ accounts'[i].name = name
  <1>a. ASSUME UNCHANGED <<accounts, moved>> PROVE Kept
    BY <1>a DEF Bears
  <1>b. ASSUME NEW r \in Forms, InsertUser(r) \/ UNCHANGED table,
               UNCHANGED <<moved, spliced>>
        PROVE  Kept
    <2>1. CASE accounts' = accounts
      BY <1>a, <1>b, <2>1
    <2>2. CASE /\ lastId' = lastId + 1
               /\ lastId' \in Ids
               /\ accounts' = [accounts EXCEPT ![lastId'] = r]
      <3>1. accounts[lastId'] = NoUser
        BY <1>b, <2>2 DEF JobsFit, FreshIds, TypeOK, Ids
      <3> QED
        BY <1>b, <2>2, <3>1 DEF Bears, TypeOK
    <2> QED
      BY <1>b, <2>1, <2>2, Inserted
  <1>1. ASSUME NEW t \in Threads, Handle(t) PROVE Kept
    <2>1. CASE Register(t)
      <3>1. job[t].form \in Forms
        BY <2>1, JobFields DEF Register, JobsFit, NewUser
      <3> QED
        BY <2>1, <3>1, <1>b DEF Register, history
    <2>2. CASE EditUser(t)
      <3>1. job[t].form \in Forms /\ job[t].form # NoUser /\ job[t].id \in Ids
        BY <2>2, JobFields, NoneAssumption DEF EditUser, JobsFit
      <3> QED
        BY <2>2, <3>1, <1>a DEF EditUser, UpdateUserById, Rows, Bears, TypeOK
    <2>3. CASE DeleteUser(t)
      BY <2>3, <1>a DEF DeleteUser, Bears, TypeOK
    <2>4. CASE AddUser(t)
      <3>1. job[t].form \in Forms
        BY <2>4, JobFields DEF AddUser, JobsFit
      <3> QED
        BY <2>4, <3>1, <1>b DEF AddUser, history
    <2>5. CASE FindSession(t) \/ LoginUser(t) \/ StoreSession(t)
                 \/ EraseSession(t) \/ IsAdmin(t)
      BY <2>5, <1>a DEF FindSession, LoginUser, StoreSession, EraseSession,
         IsAdmin, table, history
    <2>6. CASE Splice(t)
      BY <2>6, Spliced
    <2> QED
      BY <1>1, <2>1, <2>2, <2>3, <2>4, <2>5, <2>6 DEF Handle
  <1>2. CASE \E t \in Threads, j \in Jobs : Receive(t, j)
    BY <1>2, <1>a DEF Receive, table, history
  <1>3. CASE Restart \/ UNCHANGED vars
    BY <1>3, <1>a DEF Restart, vars, table, history
  <1> QED
    BY <1>1, <1>2, <1>3 DEF Next

LEMMA OwnersStep ==
  TypeOK /\ JobsFit /\ OwnersBear /\ [Next]_vars => OwnersBear'
  <1> SUFFICES ASSUME TypeOK, JobsFit, OwnersBear, [Next]_vars, ~spliced'
               PROVE  OwnersBear'
    BY DEF OwnersBear
  <1>0. ~spliced
    <2>1. UNCHANGED spliced \/ \E t \in Threads : Splice(t)
      BY DEF Next, Handle, Receive, FindSession, Register, LoginUser,
         StoreSession, EraseSession, IsAdmin, EditUser, DeleteUser, AddUser,
         Restart, vars, history
    <2> QED
      BY <2>1, Spliced
  <1>a. ASSUME UNCHANGED <<sessions, owner>>,
               \A t \in Threads :
                 pc'[t] = "store" =>
                   UNCHANGED <<who[t], row[t]>> /\ pc[t] = "store"
        PROVE  OwnersBear'
    <2>1. ASSUME NEW c \in Cookies, sessions'[c] # NoName
          PROVE  Bears(owner[c], sessions[c])'
      <3>1. Bears(owner[c], sessions[c]) /\ UNCHANGED <<owner, sessions>>
        BY <1>0, <1>a, <2>1 DEF OwnersBear
      <3> QED
        BY <3>1, BearsStep DEF Bears
    <2>2. ASSUME NEW t \in Threads, pc'[t] = "store"
          PROVE  Bears(row[t], who[t])'
      <3>1. Bears(row[t], who[t]) /\ row'[t] = row[t] /\ who'[t] = who[t]
        BY <1>0, <1>a, <2>2 DEF OwnersBear
      <3>2. row[t] \notin moved' => /\ row[t] \in Ids
                                   /\ accounts'[row[t]] # NoUser
                                   /\ accounts'[row[t]].name = who[t]
        BY <3>1, BearsStep
      <3> QED
        BY <3>1, <3>2 DEF Bears
    <2> QED
      BY <2>1, <2>2 DEF OwnersBear
  <1>b. ASSUME NEW t \in Threads, Finish(t), UNCHANGED <<sessions, owner>>
        PROVE  OwnersBear'
    BY <1>a, <1>b, Finished
  <1>c. ASSUME NEW t \in Threads, Finish(t),
               \A c \in Cookies :
                 sessions'[c] # NoName =>
                   Bears(owner'[c], sessions'[c])
        PROVE  OwnersBear'
    <2>1. \A c \in Cookies :
            sessions'[c] # NoName => Bears(owner[c], sessions[c])'
      BY <1>c, BearsStep DEF Bears
    <2>2. ASSUME NEW u \in Threads, pc'[u] = "store"
          PROVE  Bears(row[u], who[u])'
      <3>1. Bears(row[u], who[u]) /\ row'[u] = row[u] /\ who'[u] = who[u]
        BY <1>0, <1>c, <2>2, Finished DEF OwnersBear
      <3>2. row[u] \notin moved' => /\ row[u] \in Ids
                                   /\ accounts'[row[u]] # NoUser
                                   /\ accounts'[row[u]].name = who[u]
        BY <3>1, BearsStep
      <3> QED
        BY <3>1, <3>2 DEF Bears
    <2> QED
      BY <2>1, <2>2 DEF OwnersBear
  <1>1. ASSUME NEW t \in Threads, NEW j \in Jobs, Receive(t, j)
        PROVE  OwnersBear'
    BY <1>1, <1>a DEF Receive, Goto, map, history, TypeOK
  <1>2. ASSUME NEW t \in Threads, FindSession(t) PROVE OwnersBear'
    <2>1. CASE Finish(t)
      BY <1>2, <2>1, <1>b DEF FindSession, map, history
    <2>2. CASE ~Finish(t)
      BY <1>2, <2>2, <1>a DEF FindSession, Goto, map, history, TypeOK
    <2> QED
      BY <2>1, <2>2
  <1>3. ASSUME NEW t \in Threads, Register(t) PROVE OwnersBear'
    BY <1>3, <1>b DEF Register, map, history
  <1>4. ASSUME NEW t \in Threads, LoginUser(t) PROVE OwnersBear'
    <2>1. CASE Finish(t)
      BY <1>4, <2>1, <1>b DEF LoginUser, map
    <2>2. CASE ~Finish(t)
      <3>1. PICK i \in Rows :
              /\ i \in Named(job[t].form.name)
              /\ who' = [who EXCEPT ![t] = job[t].form.name]
              /\ row' = [row EXCEPT ![t] = i]
              /\ pc' = [pc EXCEPT ![t] = "store"]
        BY <1>4, <2>2 DEF LoginUser, Goto, PasswordMatches
      <3>2. Bears(i, job[t].form.name)
        BY <3>1 DEF Bears, Named, Rows
      <3>3. UNCHANGED <<accounts, sessions, owner, moved>>
        BY <1>4 DEF LoginUser, table, map
      <3> QED
        BY <1>0, <3>1, <3>2, <3>3 DEF OwnersBear, Bears, TypeOK
    <2> QED
      BY <2>1, <2>2
  <1>5. ASSUME NEW t \in Threads, StoreSession(t) PROVE OwnersBear'
    <2>1. /\ Finish(t)
          /\ sessions' = [sessions EXCEPT ![issued'] = who[t]]
          /\ owner' = [owner EXCEPT ![issued'] = row[t]]
          /\ Bears(row[t], who[t])
      BY <1>0, <1>5 DEF StoreSession, WriteMap, OwnersBear
    <2> QED
      BY <1>0, <2>1, <1>c DEF OwnersBear, TypeOK
  <1>6. ASSUME NEW t \in Threads, EraseSession(t) PROVE OwnersBear'
    <2>1. /\ Finish(t) /\ UNCHANGED owner
          /\ sessions' = [sessions EXCEPT ![job[t].cookie] = NoName]
      BY <1>6 DEF EraseSession, WriteMap
    <2> QED
      BY <1>0, <2>1, <1>c DEF OwnersBear, TypeOK
  <1>7. ASSUME NEW t \in Threads, IsAdmin(t) PROVE OwnersBear'
    <2>1. CASE Finish(t)
      BY <1>7, <2>1, <1>b DEF IsAdmin, map, history
    <2>2. CASE ~Finish(t)
      BY <1>7, <2>2, <1>a DEF IsAdmin, Goto, map, history, TypeOK
    <2> QED
      BY <2>1, <2>2
  <1>8. ASSUME NEW t \in Threads, EditUser(t) \/ DeleteUser(t)
        PROVE  OwnersBear'
    BY <1>8, <1>b DEF EditUser, DeleteUser, map
  <1>9. ASSUME NEW t \in Threads, AddUser(t) PROVE OwnersBear'
    BY <1>9, <1>b DEF AddUser, map, history
  <1>10. CASE Restart
    BY <1>10 DEF Restart, OwnersBear
  <1>11. CASE UNCHANGED vars
    BY <1>11, <1>a DEF vars, map, local, history
  <1>12. ASSUME NEW t \in Threads, Splice(t) PROVE FALSE
    BY <1>12, Spliced
  <1> QED
    BY <1>1, <1>2, <1>3, <1>4, <1>5, <1>6, <1>7, <1>8, <1>9, <1>10, <1>11,
       <1>12 DEF Next, Handle

-----------------------------------------------------------------------------
\* Sessions end where they should.
LEMMA LastingStep ==
  TypeOK /\ JobsFit /\ Lasting /\ [Next]_vars => Lasting'
  <1> SUFFICES ASSUME TypeOK, JobsFit, Lasting, [Next]_vars PROVE Lasting'
    OBVIOUS
  <1>0. /\ issued \in Nat /\ issued <= MaxLogins /\ MaxLogins \in Nat
        /\ 1 .. issued \subseteq Cookies
    BY BoundAssumption DEF TypeOK, Cookies
  <1>a. ASSUME UNCHANGED map, UNCHANGED ended
        PROVE  Lasting'
    BY <1>a DEF Lasting, SessionsLast, map
  <1>1. ASSUME NEW t \in Threads, NEW j \in Jobs, Receive(t, j)
        PROVE  Lasting'
    BY <1>1, <1>a DEF Receive, map, history
  <1>2. ASSUME NEW t \in Threads, FindSession(t) PROVE Lasting'
    BY <1>2, <1>a DEF FindSession, map, history
  <1>3. ASSUME NEW t \in Threads, StoreSession(t) PROVE Lasting'
    <2>1. /\ sessions' = [sessions EXCEPT ![issued'] = who[t]]
          /\ UNCHANGED ended /\ issued' = issued + 1
          /\ issued' \in Cookies /\ who[t] \in Names
      BY <1>0, <1>3 DEF StoreSession, WriteMap, JobsFit, Cookies
    <2>2. /\ \A c \in 1 .. issued : sessions'[c] = sessions[c]
          /\ sessions'[issued'] \in Names /\ issued' \notin ended
          /\ 1 .. issued' = 1 .. issued \cup {issued'}
      BY <1>0, <2>1 DEF TypeOK, Lasting
    <2>3. broken => broken'
      BY <1>3, Zenon DEF StoreSession, WriteMap
    <2> QED
      BY <1>0, <2>1, <2>2, <2>3, NoneAssumption DEF Lasting, SessionsLast
  <1>4. ASSUME NEW t \in Threads, EraseSession(t) PROVE Lasting'
    <2>1. /\ sessions' = [sessions EXCEPT ![job[t].cookie] = NoName]
          /\ broken => broken'
          /\ ended' = ended \cup {job[t].cookie}
          /\ UNCHANGED issued
          /\ job[t].cookie \in Cookies /\ job[t].cookie <= issued
      BY <1>4, JobFields DEF EraseSession, WriteMap, JobsFit, WithCookie
    <2>2. job[t].cookie \in 1 .. issued
      BY <1>0, <2>1 DEF Cookies
    <2> QED
      BY <1>0, <2>1, <2>2 DEF Lasting, SessionsLast, TypeOK
  <1>5. ASSUME NEW t \in Threads,
               Register(t) \/ LoginUser(t) \/ IsAdmin(t) \/ AddUser(t)
        PROVE  Lasting'
    BY <1>5, <1>a DEF Register, LoginUser, IsAdmin, AddUser, map, history
  <1>6. ASSUME NEW t \in Threads, EditUser(t) \/ DeleteUser(t)
        PROVE  Lasting'
    BY <1>6, <1>a DEF EditUser, DeleteUser, map
  <1>7. CASE Restart
    BY <1>0, <1>7 DEF Restart, Lasting, SessionsLast
  <1>8. CASE UNCHANGED vars
    BY <1>8, <1>a DEF vars, map, history
  <1>9. ASSUME NEW t \in Threads, Splice(t) PROVE Lasting'
    BY <1>9, <1>a, Spliced
  <1> QED
    BY <1>1, <1>2, <1>3, <1>4, <1>5, <1>6, <1>7, <1>8, <1>9 DEF Next, Handle

-----------------------------------------------------------------------------
(***************************************************************************)
(* The theorems.                                                           *)
(***************************************************************************)
\* IInv holds in every state of every behaviour.
THEOREM AccountsInvariant == Spec => []IInv
  <1>1. IInv /\ [Next]_vars => IInv'
    BY TypeStep, JobsStep, GuardedStep, UniqueStep, OwnersStep, LastingStep
       DEF IInv
  <1> QED
    BY InitInv, <1>1, PTL DEF Spec

\* Every variable keeps its type: no handler acts on a request of another kind
\* and no session holds what is not a name.
THEOREM TypeCorrect == Spec => []TypeOK
  <1>1. IInv => TypeOK
    BY DEF IInv
  <1> QED
    BY <1>1, AccountsInvariant, PTL

\* Rights come from administrators alone: until one of the start logs in, its
\* rows stay and no other row has rights, for any number of requests, threads,
\* overlapping uses of the map and restarts (Control::IsAdmin before a write),
\* as long as SQL reads every name as it stands.
THEOREM RightsCorrect == Spec => []RightsComeFromAdmins
  <1>1. IInv => RightsComeFromAdmins
    BY DEF IInv, Guarded, RightsComeFromAdmins, Rows
  <1> QED
    BY <1>1, AccountsInvariant, PTL

\* A session speaks for the one user who logged in, until that user's row is
\* renamed or deleted, while SQL reads every name as it stands and no two
\* writes of the map overlapped.
THEOREM OwnersCorrect == Spec => []SessionsSpeakForOwner
  <1>1. IInv => SessionsSpeakForOwner
    <2> SUFFICES ASSUME IInv, ~spliced,
                        NEW c \in Cookies, sessions[c] # NoName,
                        owner[c] \notin moved
                 PROVE  Named(sessions[c]) = {owner[c]}
      BY DEF SessionsSpeakForOwner
    <2>1. /\ owner[c] \in Ids
          /\ accounts[owner[c]] # NoUser
          /\ accounts[owner[c]].name = sessions[c]
      BY DEF IInv, OwnersBear, Bears
    <2>2. \A i \in Named(sessions[c]) : i = owner[c]
      BY <2>1 DEF IInv, UniqueNames, Named, Rows
    <2> QED
      BY <2>1, <2>2 DEF Named, Rows
  <1> QED
    BY <1>1, AccountsInvariant, PTL

\* Until two writes of the map overlap, a session is over after its own logout
\* or a restart and not before, and does not come back.
THEOREM LastsCorrect == Spec => []SessionsLast
  <1>1. IInv => SessionsLast
    BY DEF IInv, Lasting
  <1> QED
    BY <1>1, AccountsInvariant, PTL

=============================================================================
