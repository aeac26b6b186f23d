--------------------------- MODULE ConnectionService ---------------------------
(***************************************************************************)
(* What the clients of the HTTP server may expect of it, with no thread,   *)
(* mutex or socket: connections are accepted into one line and served in   *)
(* its order, never more at once than there are places; a connection gets  *)
(* one response for each request it sends, MaxKeep at most, the last of    *)
(* which says so; and the server returns when all of them are closed.      *)
(***************************************************************************)
EXTENDS Naturals, Sequences, FiniteSets

CONSTANTS
  Connections,  \* connections clients make
  Places,       \* connections served at a time
  MaxKeep       \* responses a connection may get

VARIABLES
  server,  \* "listening", "stopping" or "returned"
  phase,   \* per connection: how far it has come
  line,    \* accepted connections nobody serves yet
  sent,    \* per connection: requests sent
  served,  \* per connection: responses got
  asks,    \* per connection: its last request asks to close
  told,    \* per connection: its last response said that the server closes
  hungUp   \* per connection: its client closed it

vars == <<server, phase, line, sent, served, asks, told, hungUp>>

Init ==
  /\ server = "listening"
  /\ phase = [c \in Connections |-> "new"]
  /\ line = << >>
  /\ sent = [c \in Connections |-> 0]
  /\ served = [c \in Connections |-> 0]
  /\ asks = [c \in Connections |-> FALSE]
  /\ told = [c \in Connections |-> FALSE]
  /\ hungUp = [c \in Connections |-> FALSE]

Moves(c, from, to) == phase[c] = from /\ phase' = [phase EXCEPT ![c] = to]

Open(c) == phase[c] \in {"backlog", "line", "serving", "closing"}
Taken   == {c \in Connections : phase[c] \in {"serving", "closing"}}

-----------------------------------------------------------------------------
Connect(c) ==
  /\ server = "listening"
  /\ Moves(c, "new", "backlog")
  /\ UNCHANGED <<server, line, sent, served, asks, told, hungUp>>

Send(c) ==
  /\ sent[c] = served[c]
  /\ ~hungUp[c] /\ ~told[c] /\ ~asks[c] /\ Open(c)
  /\ sent' = [sent EXCEPT ![c] = @ + 1]
  /\ \E close \in BOOLEAN : asks' = [asks EXCEPT ![c] = close]
  /\ UNCHANGED <<server, phase, line, served, told, hungUp>>

HangUp(c) ==
  /\ ~hungUp[c] /\ Open(c)
  /\ hungUp' = [hungUp EXCEPT ![c] = TRUE]
  /\ UNCHANGED <<server, phase, line, sent, served, asks, told>>

\* The connection joins the end of the line.
Accept(c) ==
  /\ server = "listening"
  /\ Moves(c, "backlog", "line")
  /\ line' = Append(line, c)
  /\ UNCHANGED <<server, sent, served, asks, told, hungUp>>

\* The server stops listening: whoever was not accepted is turned away.
Stop ==
  /\ server = "listening"
  /\ server' = "stopping"
  /\ phase' = [c \in Connections |->
                 IF phase[c] = "backlog" THEN "closed" ELSE phase[c]]
  /\ UNCHANGED <<line, sent, served, asks, told, hungUp>>

\* A place is free for the first of the line, whether the server stops or not.
Begin ==
  /\ line # << >>
  /\ Cardinality(Taken) < Places
  /\ Moves(Head(line), "line", "serving")
  /\ line' = Tail(line)
  /\ UNCHANGED <<server, sent, served, asks, told, hungUp>>

\* A response answers a request.  It says that the server closes when it is the
\* last one the connection may get, or the client asked; the server then does.
Respond(c) ==
  /\ served[c] < sent[c] /\ served[c] < MaxKeep
  /\ phase[c] = "serving"
  /\ served' = [served EXCEPT ![c] = @ + 1]
  /\ told' = [told EXCEPT ![c] = asks[c] \/ served[c] + 1 = MaxKeep]
  /\ \/ /\ ~told'[c]
        /\ UNCHANGED phase
     \/ /\ told'[c] \/ hungUp[c]
        /\ Moves(c, "serving", "closing")
  /\ UNCHANGED <<server, line, sent, asks, hungUp>>

\* The client is gone or has been silent for too long; nothing it sent is
\* waiting for an answer.
Leave(c) ==
  /\ sent[c] = served[c]
  /\ Moves(c, "serving", "closing")
  /\ UNCHANGED <<server, line, sent, served, asks, told, hungUp>>

Close(c) ==
  /\ Moves(c, "closing", "closed")
  /\ UNCHANGED <<server, line, sent, served, asks, told, hungUp>>

Return ==
  /\ server = "stopping"
  /\ line = << >> /\ Taken = {}
  /\ server' = "returned"
  /\ UNCHANGED <<phase, line, sent, served, asks, told, hungUp>>

Next ==
  \/ \E c \in Connections :
       \/ Connect(c) \/ Send(c) \/ HangUp(c) \/ Accept(c)
       \/ Respond(c) \/ Leave(c) \/ Close(c)
  \/ Stop \/ Begin \/ Return

Spec == Init /\ [][Next]_vars

=============================================================================
