------------------------------ MODULE Accounts ------------------------------
(***************************************************************************)
(* Users and their sessions: the table User and the map `sessions' of the  *)
(* oj_server, and the handlers that change them, one worker thread each.   *)
(* A session is a cookie and the NAME its login was given; every request   *)
(* looks the name up in the table again.  An administrator's request looks *)
(* the session up, asks the database for the rights, and then changes the  *)
(* table, three steps with no transaction or lock around them.             *)
(*                                                                         *)
(* The statements paste a name between apostrophes as it was sent.  One    *)
(* with an apostrophe or a backslash in it makes another statement, whose  *)
(* result or effect is left open here.                                     *)
(*                                                                         *)
(* The map has no lock either, and overlapping uses of it are undefined.   *)
(* With the red-black tree of the build a search beside a write may miss   *)
(* its cookie or read a freed or a new node, so any name that was stored,  *)
(* or garbage; two writes at once break the tree until the process ends:   *)
(* nodes are lost, stay or come back, and every search may go wrong; or    *)
(* the process crashes.  The map dies with the process, the cookies in the *)
(* browsers do not.  Only bodies that parse are requests; /getUserInfo and *)
(* /check_login, which change nothing, are left out.                       *)
(***************************************************************************)
EXTENDS Integers, Sequences

CONSTANTS
  Threads,      \* worker threads of the HTTP server
  Names,        \* user names
  Literal,      \* those among them that SQL reads as they stand
  SplicedTables,\* tables that a statement with another name may leave
  Passwords,
  Forms,        \* the rows of the table and the bodies of the requests
  FirstUsers,   \* the rows at the start: an administrator is put in by hand
  NoUser,       \* the table has no row for an id
  NoName,       \* the map has no node for a cookie
  Nobody,       \* what a search that went wrong reads: the name of no user
  NoJob,        \* a thread has no request
  Faults,       \* statements that may fail: "select", "write"
  MaxUsers,     \* bound on the ids handed out
  MaxLogins,    \* bound on the sessions made
  MaxRequests,  \* bound on the requests received
  MaxRestarts   \* bound on the restarts of the server

Ids     == 1 .. MaxUsers
Cookies == 1 .. MaxLogins

Jobs ==
  [op : {"register", "login"}, form : {f \in Forms : ~f.isAdmin}]
    \cup [op : {"logout"}, cookie : Cookies]
    \cup [op : {"editUser"}, cookie : Cookies, id : Ids, form : Forms]
    \cup [op : {"deleteUser"}, cookie : Cookies, id : Ids]
    \cup [op : {"addUser"}, cookie : Cookies, form : Forms]

ASSUME BoundAssumption ==
  {MaxUsers, MaxLogins, MaxRequests, MaxRestarts} \subseteq Nat
ASSUME FormAssumption ==
  Forms \subseteq [name : Names, password : Passwords, isAdmin : BOOLEAN]
ASSUME NoneAssumption ==
  /\ NoUser \notin Forms /\ NoJob \notin Jobs
  /\ NoName \notin Names /\ Nobody \notin Names /\ Nobody # NoName
  /\ NoUser \notin Ids
ASSUME LiteralAssumption ==
  /\ Literal \subseteq Names
  /\ SplicedTables \subseteq [Ids -> Forms \cup {NoUser}]
ASSUME FirstAssumption ==
  /\ FirstUsers \in Seq(Forms)
  /\ Len(FirstUsers) <= MaxUsers
  /\ \A i, k \in DOMAIN FirstUsers :
       FirstUsers[i].name = FirstUsers[k].name => i = k

VARIABLES
  accounts,   \* the table User, by userid
  lastId,     \* its AUTO_INCREMENT
  sessions,   \* the map, by cookie; when broken, what it should be
  issued,     \* cookies handed out; later ones never made up twice
  pc,         \* per thread: where its handler is
  job,        \* per thread: its request
  who,        \* per thread: the name its session or its login gave
  row,        \* per thread: the id whose row its login matched
  requests,   \* requests received
  restarts,
  broken,     \* have two writes of the map overlapped in this process
  earned,     \* history: names logged in with the password of their row
  owner,      \* history, per cookie: the id whose row its login matched
  moved,      \* history: ids renamed or deleted
  ended,      \* history: cookies logged out, or from before a restart
  spliced     \* history: has a statement had a name that is not literal

table   == <<accounts, lastId>>
map     == <<sessions, issued, broken>>
local   == <<pc, job, who, row>>
counts  == <<requests, restarts>>
history == <<earned, owner, moved, ended, spliced>>
vars    == <<table, map, local, counts, history>>

Places == {"idle", "database", "find", "check", "write", "store", "erase"}

TypeOK ==
  /\ accounts \in [Ids -> Forms \cup {NoUser}]
  /\ lastId \in 0 .. MaxUsers
  /\ sessions \in [Cookies -> Names \cup {NoName}]
  /\ issued \in 0 .. MaxLogins
  /\ pc \in [Threads -> Places]
  /\ job \in [Threads -> Jobs \cup {NoJob}]
  /\ who \in [Threads -> Names \cup {NoName, Nobody}]
  /\ row \in [Threads -> Ids \cup {NoUser}]
  /\ requests \in 0 .. MaxRequests
  /\ restarts \in 0 .. MaxRestarts
  /\ broken \in BOOLEAN
  /\ earned \in SUBSET Names
  /\ owner \in [Cookies -> Ids \cup {NoUser}]
  /\ moved \in SUBSET Ids
  /\ ended \in SUBSET Cookies
  /\ spliced \in BOOLEAN

Init ==
  /\ accounts = [i \in Ids |->
                   IF i \in DOMAIN FirstUsers THEN FirstUsers[i] ELSE NoUser]
  /\ lastId = Len(FirstUsers)
  /\ sessions = [c \in Cookies |-> NoName]
  /\ issued = 0
  /\ pc = [t \in Threads |-> "idle"]
  /\ job = [t \in Threads |-> NoJob]
  /\ who = [t \in Threads |-> NoName]
  /\ row = [t \in Threads |-> NoUser]
  /\ requests = 0
  /\ restarts = 0
  /\ broken = FALSE
  /\ earned = {}
  /\ owner = [c \in Cookies |-> NoUser]
  /\ moved = {}
  /\ ended = {}
  /\ spliced = FALSE

-----------------------------------------------------------------------------
Goto(t, place) == pc' = [pc EXCEPT ![t] = place]

\* The handler is over: it replied.
Finish(t) ==
  /\ Goto(t, "idle")
  /\ job' = [job EXCEPT ![t] = NoJob]
  /\ who' = [who EXCEPT ![t] = NoName]
  /\ row' = [row EXCEPT ![t] = NoUser]

\* A statement fails: no connection, or an error from the server.
Fails(statement) == statement \in Faults

Rows == {i \in Ids : accounts[i] # NoUser}

\* The rows a SELECT by name finds; UNIQUE keeps them to one.
Named(name) == {i \in Rows : accounts[i].name = name}

\* The name that the next statement of thread t has pasted in it, if any.
Pasted(t) ==
  CASE pc[t] = "check" -> {who[t]}
    [] pc[t] \in {"database", "write"} /\ job[t].op # "deleteUser" ->
         {job[t].form.name}
    [] OTHER -> {}

Plain(t) == Pasted(t) \cap Names \subseteq Literal

\* Another thread is at a write of the map.
Missed(t) == \E u \in Threads \ {t} : pc[u] \in {"store", "erase"}

WriteMap(t, m) ==
  /\ sessions' = m
  /\ broken' = (broken \/ Missed(t))

-----------------------------------------------------------------------------
(***************************************************************************)
(* Requests, and the lookup most of them begin with.                       *)
(***************************************************************************)
Receive(t, j) ==
  /\ pc[t] = "idle"
  /\ requests < MaxRequests
  /\ "cookie" \in DOMAIN j => j.cookie <= issued
  /\ "id" \in DOMAIN j => j.id <= lastId
  /\ requests' = requests + 1
  /\ job' = [job EXCEPT ![t] = j]
  /\ Goto(t, IF j.op \in {"register", "login"} THEN "database" ELSE "find")
  /\ UNCHANGED <<table, map, who, row, restarts, history>>

\* What a search finds: the name, or NoName for end(); with the tree being
\* written or broken, the name of any node.
Seen(t) ==
  IF broken \/ Missed(t) THEN {NoName, Nobody} \cup earned
                         ELSE {sessions[job[t].cookie]}

\* /logout goes on to erase, an administrator's request to ask for the rights.
FindSession(t) ==
  /\ pc[t] = "find"
  /\ \E name \in Seen(t) :
       IF name = NoName
         THEN Finish(t)
         ELSE /\ who' = [who EXCEPT ![t] = name]
              /\ Goto(t, IF job[t].op = "logout" THEN "erase" ELSE "check")
              /\ UNCHANGED <<job, row>>
  /\ UNCHANGED <<table, map, counts, history>>

-----------------------------------------------------------------------------
(***************************************************************************)
(* Registering, logging in and out.                                        *)
(***************************************************************************)
\* Row r fits in the table as row i: the UNIQUE username.
Fits(i, r) == Named(r.name) \subseteq {i}

InsertUser(r) ==
  /\ lastId < MaxUsers
  /\ lastId' = lastId + 1
  /\ accounts' = IF Fits(lastId', r)
                   THEN [accounts EXCEPT ![lastId'] = r] ELSE accounts

Register(t) ==
  /\ pc[t] = "database"
  /\ job[t].op = "register"
  /\ Plain(t)
  /\ \/ InsertUser(job[t].form)
     \/ Fails("write") /\ UNCHANGED table
  /\ Finish(t)
  /\ UNCHANGED <<map, counts, history>>

\* Mutant: any row with that password will do.
PasswordMatchesAny(i, f) == accounts[i].password = f.password

PasswordMatches(i, f) ==
  i \in Named(f.name) /\ accounts[i].password = f.password

\* The name is the one of the form, not of the row.
LoginUser(t) ==
  /\ pc[t] = "database"
  /\ job[t].op = "login"
  /\ Plain(t)
  /\ LET f == job[t].form
     IN  \/ \E i \in Rows :
              /\ PasswordMatches(i, f)
              /\ who' = [who EXCEPT ![t] = f.name]
              /\ row' = [row EXCEPT ![t] = i]
              /\ earned' = IF accounts[i].password = f.password
                             THEN earned \cup {f.name} ELSE earned
              /\ Goto(t, "store")
              /\ UNCHANGED job
         \/ /\ Fails("select") \/ \A i \in Rows : ~PasswordMatches(i, f)
            /\ Finish(t)
            /\ UNCHANGED earned
  /\ UNCHANGED <<table, map, counts, owner, moved, ended, spliced>>

StoreSession(t) ==
  /\ pc[t] = "store"
  /\ issued < MaxLogins
  /\ issued' = issued + 1
  /\ WriteMap(t, [sessions EXCEPT ![issued'] = who[t]])
  /\ owner' = [owner EXCEPT ![issued'] = row[t]]
  /\ Finish(t)
  /\ UNCHANGED <<table, counts, earned, moved, ended, spliced>>

\* Mutant: logging out ends every session of the name.
EraseSessionsOfName(t) ==
  /\ pc[t] = "erase"
  /\ WriteMap(t, [c \in Cookies |->
                    IF sessions[c] = who[t] THEN NoName ELSE sessions[c]])
  /\ ended' = ended \cup {job[t].cookie}
  /\ Finish(t)
  /\ UNCHANGED <<table, issued, counts, earned, owner, moved, spliced>>

\* Erasing the node found; another /logout may have erased it in between.
EraseSession(t) ==
  /\ pc[t] = "erase"
  /\ WriteMap(t, [sessions EXCEPT ![job[t].cookie] = NoName])
  /\ ended' = ended \cup {job[t].cookie}
  /\ Finish(t)
  /\ UNCHANGED <<table, issued, counts, earned, owner, moved, spliced>>

-----------------------------------------------------------------------------
(***************************************************************************)
(* What an administrator may do.                                           *)
(***************************************************************************)
HasRights(name) == \E i \in Named(name) : accounts[i].isAdmin

\* Mutant: a query that succeeds is taken for the rights it asks for; it also
\* succeeds without a row.
IsAdminIfQueried(t) ==
  /\ pc[t] = "check"
  /\ Plain(t)
  /\ \/ Goto(t, "write") /\ UNCHANGED <<job, who, row>>
     \/ Fails("select") /\ Finish(t)
  /\ UNCHANGED <<table, map, counts, history>>

IsAdmin(t) ==
  /\ pc[t] = "check"
  /\ Plain(t)
  /\ \/ /\ HasRights(who[t])
        /\ Goto(t, "write")
        /\ UNCHANGED <<job, who, row>>
     \/ /\ Fails("select") \/ ~HasRights(who[t])
        /\ Finish(t)
  /\ UNCHANGED <<table, map, counts, history>>

\* The whole row is written, with a new salt; nothing is without the row.
UpdateUserById(i, r) ==
  IF i \in Rows /\ Fits(i, r)
    THEN /\ accounts' = [accounts EXCEPT ![i] = r]
         /\ moved' = IF r.name = accounts[i].name
                       THEN moved ELSE moved \cup {i}
    ELSE UNCHANGED <<accounts, moved>>

EditUser(t) ==
  /\ pc[t] = "write"
  /\ job[t].op = "editUser"
  /\ Plain(t)
  /\ \/ UpdateUserById(job[t].id, job[t].form)
     \/ Fails("write") /\ UNCHANGED <<accounts, moved>>
  /\ Finish(t)
  /\ UNCHANGED <<lastId, map, counts, earned, owner, ended, spliced>>

DeleteUser(t) ==
  /\ pc[t] = "write"
  /\ job[t].op = "deleteUser"
  /\ \/ /\ accounts' = [accounts EXCEPT ![job[t].id] = NoUser]
        /\ moved' = moved \cup {job[t].id}
     \/ Fails("write") /\ UNCHANGED <<accounts, moved>>
  /\ Finish(t)
  /\ UNCHANGED <<lastId, map, counts, earned, owner, ended, spliced>>

AddUser(t) ==
  /\ pc[t] = "write"
  /\ job[t].op = "addUser"
  /\ Plain(t)
  /\ \/ InsertUser(job[t].form)
     \/ Fails("write") /\ UNCHANGED table
  /\ Finish(t)
  /\ UNCHANGED <<map, counts, history>>

-----------------------------------------------------------------------------
(***************************************************************************)
(* Names that SQL does not read as they stand.                             *)
(***************************************************************************)
\* The statement is another one: it may fail, a SELECT may give any row or
\* none, and a write may change any row.
Splice(t) ==
  /\ ~Plain(t)
  /\ spliced' = TRUE
  /\ IF pc[t] # "check" /\ job[t].op # "login"
       THEN \/ UNCHANGED table
            \/ /\ accounts' \in SplicedTables
               /\ lastId' \in lastId .. MaxUsers
       ELSE UNCHANGED table
  /\ \/ Finish(t)
     \/ /\ pc[t] = "check"
        /\ Goto(t, "write")
        /\ UNCHANGED <<job, who, row>>
     \/ /\ pc[t] = "database" /\ job[t].op = "login"
        /\ who' = [who EXCEPT ![t] = job[t].form.name]
        /\ Goto(t, "store")
        /\ UNCHANGED <<job, row>>
  /\ UNCHANGED <<map, counts, earned, owner, moved, ended>>

-----------------------------------------------------------------------------
\* The process ends, or is ended, and is started again.
Restart ==
  /\ restarts < MaxRestarts
  /\ restarts' = restarts + 1
  /\ sessions' = [c \in Cookies |-> NoName]
  /\ pc' = [t \in Threads |-> "idle"]
  /\ job' = [t \in Threads |-> NoJob]
  /\ who' = [t \in Threads |-> NoName]
  /\ row' = [t \in Threads |-> NoUser]
  /\ broken' = FALSE
  /\ ended' = ended \cup 1 .. issued
  /\ UNCHANGED <<table, issued, requests, earned, owner, moved,
                 spliced>>

Handle(t) ==
  \/ FindSession(t) \/ Register(t) \/ LoginUser(t) \/ StoreSession(t)
  \/ EraseSession(t) \/ IsAdmin(t) \/ EditUser(t) \/ DeleteUser(t)
  \/ AddUser(t) \/ Splice(t)

Next ==
  \/ \E t \in Threads, j \in Jobs : Receive(t, j)
  \/ \E t \in Threads : Handle(t)
  \/ Restart

Spec == Init /\ [][Next]_vars

-----------------------------------------------------------------------------
(***************************************************************************)
(* Properties.                                                             *)
(***************************************************************************)
FirstAdmins ==
  {FirstUsers[i].name :
     i \in {k \in DOMAIN FirstUsers : FirstUsers[k].isAdmin}}

\* Until somebody logs in with the password of an administrator the table
\* began with, or a statement has a name in it that SQL does not read as it
\* stands, the first rows stay as they are and nobody else gets rights:
\* registrations, searches that read another's name, rights read in one
\* statement and used in the next, and restarts give none (IsAdmin, sessions).
RightsComeFromAdmins ==
  earned \cap FirstAdmins = {} /\ ~spliced =>
    \A i \in Ids :
      IF i \in DOMAIN FirstUsers
        THEN accounts[i] = FirstUsers[i]
        ELSE i \in Rows => ~accounts[i].isAdmin

\* A session speaks for the user who logged in, though it only has a name:
\* another row can bear that name only after the user's row was renamed or
\* deleted (LoginUser, UpdateUserById, the UNIQUE username).  It needs names
\* that SQL reads as they stand, and a map whose writes never overlapped.
SessionsSpeakForOwner ==
  ~spliced /\ ~broken =>
    \A c \in Cookies :
      sessions[c] # NoName /\ owner[c] \notin moved =>
        Named(sessions[c]) = {owner[c]}

\* While no two writes of the map have overlapped in this process, a session is
\* over exactly after its own /logout or a restart, whatever names share it and
\* whatever searches go on beside the writes (sessions has no lock).
SessionsLast ==
  ~broken => \A c \in 1 .. issued : c \in ended <=> sessions[c] = NoName

=============================================================================
