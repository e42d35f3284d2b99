------------------------------- MODULE Server -------------------------------
(***************************************************************************)
(* CefServerImpl: an HTTP and WebSocket server with a thread of its own (the *)
(* handler thread), started and ended on the UI thread, and the net          *)
(* HttpServer it owns, which closes a connection by calling OnClose at once. *)
(*                                                                         *)
(* A server is a record; an operator gives the record after a function ran   *)
(* on it.  now holds what the running task of the handler thread has still   *)
(* to do: the UI thread and other servers may run in between.  toUI holds    *)
(* what the function posts to the UI thread.                                 *)
(***************************************************************************)
EXTENDS Integers, Sequences, FiniteSets, SequencesExt

CONSTANTS
  Connections,   \* clients a server may have, in the order of its map
  NoConnection,  \* for what concerns no connection
  Replies        \* what a handler may do with a WebSocket's callback

ASSUME ServerAssumption ==
  /\ NoConnection \notin Connections
  /\ Replies \subseteq {"continue", "cancel", "both", "release"} /\ Replies # {}

Call(op, c)        == [op |-> op, c |-> c]
Task(op, c, allow) == [op |-> op, c |-> c, allow |-> allow]
ServerTask(op)     == Task(op, NoConnection, FALSE)

NewServer ==
  [thread |-> "none",    \* thread_: "running", "stopping" in the background, "ended"
   refs |-> 0,           \* references the server has to itself
   handler |-> TRUE,     \* handler_ is set
   http |-> FALSE,       \* server_ is set: the port is taken
   open |-> {},          \* connections of the HttpServer
   conn |-> [c \in Connections |-> "none"],  \* connection_info_map_
   reply |-> {},         \* connections whose callback has an impl_
   ht |-> <<>>,          \* tasks of the handler thread
   now |-> <<>>,
   toUI |-> <<>>,
   told |-> <<>>,        \* calls of the handler
   bad |-> {}]           \* lines that failed

Check(s, holds, line) == [s EXCEPT !.bad = IF holds THEN @ ELSE @ \cup {line}]
ToHandler(s, t) == IF s.thread \in {"running", "stopping"} THEN [s EXCEPT !.ht = Append(@, t)] ELSE s
ToUI(s, t)      == [s EXCEPT !.toUI = Append(@, t)]
Then(s, op, c)  == [s EXCEPT !.now = Append(@, Call(op, c))]

\* The last of the calls that concerns a connection, or the server.
LastCall(calls, c) ==
  LET own == {k \in DOMAIN calls : calls[k].c = c}
  IN IF own = {} THEN "none" ELSE calls[CHOOSE k \in own : \A j \in own : j <= k].op

\* A call of handler_.
Tell(s, op, c) == [Check(s, s.handler, "handler_") EXCEPT !.told = Append(@, Call(op, c))]

-----------------------------------------------------------------------------
(* The UI thread.                                                            *)

\* The thread may fail to start: then nobody is told.
StartOnUIThread(s, starts) ==
  LET y == Check(s, s.thread = "none", "server_impl.cc:548") IN
  IF starts THEN ToHandler([y EXCEPT !.thread = "running", !.refs = @ + 1], ServerTask("start"))
  ELSE y

Shutdown(s) == ToHandler(s, ServerTask("shutdown"))

\* Mutant: the reference is released whenever a shutdown gets here.
ShutdownOnUIThread_ReleasesAgain(s) ==
  [s EXCEPT !.handler = FALSE, !.refs = @ - 1,
            !.thread = IF @ = "running" THEN "stopping" ELSE @]

\* The thread, if there still is one, is stopped in the background.
ShutdownOnUIThread(s) ==
  IF s.thread = "running" THEN [s EXCEPT !.handler = FALSE, !.thread = "stopping", !.refs = @ - 1]
  ELSE [s EXCEPT !.handler = FALSE]

\* Mutant: the callback may be used again.
UseCallback_Again(s, c, allow) ==
  IF c \notin s.reply THEN s ELSE ToHandler(s, Task("answer", c, allow))

\* AcceptWebSocketCallback on the UI thread: only the first use counts.
UseCallback(s, c, allow) ==
  IF c \notin s.reply THEN s
  ELSE ToHandler([s EXCEPT !.reply = @ \ {c}], Task("answer", c, allow))

-----------------------------------------------------------------------------
(* The handler thread.                                                       *)

\* The port may be taken.
StartOnHandlerThread(s, listens) ==
  LET y == Tell([s EXCEPT !.http = listens], IF listens THEN "created" ELSE "failed", NoConnection)
  IN IF listens THEN y ELSE Then(y, "destroyed", NoConnection)

\* Mutant: clients that are connected are forgotten.
ShutdownOnHandlerThread_Forgets(s) ==
  IF s.http THEN Then([s EXCEPT !.http = FALSE, !.open = {}, !.conn = NewServer.conn], "destroyed", NoConnection)
  ELSE ToUI(s, ServerTask("shutdown"))

\* Mutant: the UI thread is told before the handler.
ShutdownOnHandlerThread_PostsFirst(s) ==
  LET left == SetToSeq({c \in Connections : s.conn[c] # "none"})
      y == [s EXCEPT !.http = FALSE, !.open = {}, !.conn = NewServer.conn]
  IN ToUI(IF s.http
          THEN [y EXCEPT !.now = [k \in DOMAIN left |-> Call("disconnected", left[k])]
                                   \o <<Call("destroyed", NoConnection)>>]
          ELSE s, ServerTask("shutdown"))

\* The map is emptied before the clients in it are reported.
ShutdownOnHandlerThread(s) ==
  LET left == SetToSeq({c \in Connections : s.conn[c] # "none"})
      y == [s EXCEPT !.http = FALSE, !.open = {}, !.conn = NewServer.conn]
  IN IF s.http
     THEN [y EXCEPT !.now = [k \in DOMAIN left |-> Call("disconnected", left[k])]
                              \o <<Call("destroyed", NoConnection)>>]
     ELSE ToUI(s, ServerTask("shutdown"))

OnConnect(s, c) ==
  Tell([Check(s, s.conn[c] = "none", "server_impl.cc:668") EXCEPT !.conn[c] = "http"], "connected", c)

OnClose(s, c) ==
  Tell([Check(s, s.conn[c] # "none", "server_impl.cc:693") EXCEPT !.conn[c] = "none"], "disconnected", c)

\* HttpServer::Close
Close(s, c) == IF c \in s.open THEN OnClose([s EXCEPT !.open = @ \ {c}], c) ELSE s

\* CloseConnection, alone or at the end of a response.
CloseConnection(s, c) == IF s.http /\ s.conn[c] # "none" THEN Close(s, c) ELSE s

\* The handler answers, and that closes the connection.
OnHttpRequest(s, c) ==
  LET y == Check(Check(s, s.conn[c] # "none", "server_impl.cc:489"),
                 s.conn[c] = "http", "server_impl.cc:494")
  IN IF s.conn[c] = "none" THEN y ELSE Then(Tell(y, "request", c), "close", c)

\* Its reply is posted to the UI thread, and so is the end of the callback.
OnWebSocketRequest(s, c, reply) ==
  LET y == Check(Check(s, s.conn[c] # "none", "server_impl.cc:506"),
                 s.conn[c] = "http", "server_impl.cc:511")
      used == CASE reply = "continue" -> <<TRUE>>
                [] reply = "cancel"   -> <<FALSE>>
                [] reply = "both"     -> <<TRUE, FALSE>>
                [] reply = "release"  -> <<>>
  IN IF s.conn[c] = "none" THEN y
     ELSE Tell([y EXCEPT !.conn[c] = "pending", !.reply = @ \cup {c},
                         !.toUI = [k \in DOMAIN used |-> Task("use", c, used[k])]
                                    \o <<Task("use", c, FALSE)>>], "webSocketRequest", c)

\* The connection may have closed since it was asked for, and the server, too.
ContinueWebSocketRequest(s, c, allow) ==
  LET y == Check(Check(s, s.conn[c] # "none", "server_impl.cc:376"),
                 s.conn[c] \in {"none", "pending"}, "server_impl.cc:382")
  IN IF ~s.http THEN s
     ELSE IF s.conn[c] # "pending" THEN y
     ELSE IF allow THEN Tell([y EXCEPT !.conn[c] = "ws"], "webSocketConnected", c)
     ELSE Close([y EXCEPT !.conn[c] = "ws"], c)

OnWebSocketMessage(s, c) ==
  LET y == Check(s, s.conn[c] \in {"none", "ws"}, "server_impl.cc:531")
  IN IF s.conn[c] = "none" THEN s ELSE Tell(y, "webSocketMessage", c)

\* Mutant: only a shutdown without a server goes on.
Proceed_Stays(s) ==
  LET call == Head(s.now)
      y == [s EXCEPT !.now = Tail(@)]
  IN CASE call.op = "destroyed"    -> Tell(y, "destroyed", NoConnection)
       [] call.op = "disconnected" -> Tell(y, "disconnected", call.c)
       [] call.op = "close"        -> CloseConnection(y, call.c)

\* The rest of the running task.
Proceed(s) ==
  LET call == Head(s.now)
      y == [s EXCEPT !.now = Tail(@)]
  IN CASE call.op = "destroyed"    -> ToUI(Tell(y, "destroyed", NoConnection), ServerTask("shutdown"))
       [] call.op = "disconnected" -> Tell(y, "disconnected", call.c)
       [] call.op = "close"        -> CloseConnection(y, call.c)
=============================================================================
