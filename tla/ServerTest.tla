----------------------------- MODULE ServerTest -----------------------------
(***************************************************************************)
(* The client's server page (tests/cefclient/browser/server_test.cc and      *)
(* resources/server.html) with the servers it starts and stops: the page's   *)
(* queries and the Handler that takes them on the UI thread, a ServerHandler *)
(* for each server, called on that server's thread, and CefServerImpl.       *)
(*                                                                         *)
(* ServerHandler keeps server_, which its server's thread sets and clears    *)
(* and the UI thread reads, and complete_callback_, which the UI thread      *)
(* replaces.  The page may be reloaded while it waits and its browser closed *)
(* at any moment.                                                            *)
(***************************************************************************)
EXTENDS Server

CONSTANT MaxServers  \* bound: servers started, one after the other

ASSUME TestAssumption == MaxServers \in Nat \ {0}

VARIABLES
  servers,  \* the CefServerImpl of each
  tests,    \* the ServerHandler of each
  handler,  \* Handler: handler_, the server's number; Nobody; Closed without it
  page,     \* what the page lets its user do, and which server it waits for
  ui        \* tasks of the UI thread

vars == <<servers, tests, handler, page, ui>>

Ids    == 1 .. MaxServers
Nobody == 0
Closed == -1

NewTest ==
  [server |-> FALSE,         \* server_ is set
   callback |-> "unused",    \* complete_callback_: of "start", "stop", or "none"
   stopped |-> "no",         \* StopServer ran: "early" while it was starting
   bad |-> {}]

Init ==
  /\ servers = [i \in Ids |-> NewServer]
  /\ tests = [i \in Ids |-> NewTest]
  /\ handler = Nobody
  /\ page = [state |-> "stopped", id |-> Nobody]
  /\ ui = <<>>

UITask(i, t)        == [id |-> i, task |-> t]
Failing(t, ok, line) == [t EXCEPT !.bad = IF ok THEN @ ELSE @ \cup {line}]

-----------------------------------------------------------------------------
(* ServerHandler.                                                            *)

OnServerCreated(t)   == [Failing(t, ~t.server, "server_test.cc:67") EXCEPT !.server = TRUE]
OnServerDestroyed(t) == [Failing(t, t.server, "server_test.cc:73") EXCEPT !.server = FALSE]

StartServer(t) == [Failing(t, ~t.server, "server_test.cc:49") EXCEPT !.callback = "start"]

\* Mutant: the callback of the start is kept.
StopServer_KeepsCallback(t, callback) ==
  [Failing(t, t.server, "server_test.cc:59")
     EXCEPT !.stopped = IF t.callback = "start" THEN "early" ELSE "yes"]

StopServer(t, callback) ==
  [Failing(t, t.server, "server_test.cc:59")
     EXCEPT !.callback = callback, !.stopped = IF t.callback = "start" THEN "early" ELSE "yes"]

\* What it does when its server calls, and whether it completes something.
Hears(t, op) ==
  CASE op \in {"created", "failed"} -> OnServerCreated(t)
    [] op = "destroyed"             -> OnServerDestroyed(t)
    [] OTHER                        -> t

\* Mutant: the end of a server completes nothing.
Completes_Created(op) ==
  IF op \in {"created", "failed"} THEN <<Task("complete", NoConnection, op = "created")>> ELSE <<>>

Completes(op) ==
  CASE op \in {"created", "failed"} -> <<Task("complete", NoConnection, op = "created")>>
    [] op = "destroyed"             -> <<Task("complete", NoConnection, TRUE)>>
    [] OTHER                        -> <<>>

-----------------------------------------------------------------------------
(* Threads.  A server_ that is missing in StopServer ends the program.       *)

Running == \A i \in Ids : "server_test.cc:59" \notin tests[i].bad

\* A function of server i ran: its handler heard the last call there was, and
\* tasks go to the UI thread, on which queue holds what is left.
Runs(i, s, queue) ==
  LET called == Len(s.told) > Len(servers[i].told)
      op == IF called THEN s.told[Len(s.told)].op ELSE "none"
      posts == Completes(op) \o s.toUI
  IN /\ servers' = [servers EXCEPT ![i] = [s EXCEPT !.toUI = <<>>]]
     /\ tests' = [tests EXCEPT ![i] = Hears(@, op)]
     /\ ui' = queue \o [k \in DOMAIN posts |-> UITask(i, posts[k])]

OnHandlerThread(i, s) == Runs(i, s, ui) /\ UNCHANGED <<handler, page>>

PortIsFree == \A i \in Ids : ~servers[i].http

\* The next task of a handler thread, or the rest of the last.
HandlerThread(i) ==
  LET s == servers[i]
      t == Head(s.ht)
      y == [s EXCEPT !.ht = Tail(@)]
  IN /\ Running
     /\ \/ s.now # <<>> /\ OnHandlerThread(i, Proceed(s))
        \/ /\ s.now = <<>> /\ s.ht # <<>>
           /\ \/ /\ t.op = "start"
                 /\ \E listens \in BOOLEAN : /\ listens => PortIsFree
                                             /\ OnHandlerThread(i, StartOnHandlerThread(y, listens))
              \/ t.op = "shutdown" /\ OnHandlerThread(i, ShutdownOnHandlerThread(y))
              \/ t.op = "answer" /\ OnHandlerThread(i, ContinueWebSocketRequest(y, t.c, t.allow))

\* What a client of the server does.  Bound: one request or WebSocket, and one
\* message, of each.
Client(i, c) ==
  LET s == servers[i]
      last == LastCall(s.told, c)
  IN /\ Running /\ s.http /\ s.now = <<>>
     /\ \/ last = "none" /\ OnHandlerThread(i, OnConnect([s EXCEPT !.open = @ \cup {c}], c))
        \/ /\ c \in s.open
           /\ \/ last = "connected" /\ OnHandlerThread(i, OnHttpRequest(s, c))
              \/ /\ last = "connected"
                 /\ \E reply \in Replies : OnHandlerThread(i, OnWebSocketRequest(s, c, reply))
              \/ last = "webSocketConnected" /\ OnHandlerThread(i, OnWebSocketMessage(s, c))
              \/ OnHandlerThread(i, OnClose([s EXCEPT !.open = @ \ {c}], c))

\* The thread is joined in the background, when it has nothing left to run.
ThreadEnds(i) ==
  LET s == servers[i] IN
  /\ Running /\ s.thread = "stopping" /\ s.ht = <<>> /\ s.now = <<>>
  /\ servers' = [servers EXCEPT ![i].thread = "ended"]
  /\ UNCHANGED <<tests, handler, page, ui>>

-----------------------------------------------------------------------------
(* The Handler of the page's queries, on the UI thread.                      *)

\* An answer reaches the page unless it was loaded again since it asked.
Answered(i, from, state) ==
  IF page = [state |-> from, id |-> i] THEN [state |-> state, id |-> i] ELSE page

\* Mutant: a server that failed to start stays the page's.
OnStartComplete_KeepsHandler(i, ok) ==
  /\ UNCHANGED handler
  /\ page' = Answered(i, "starting", IF ok THEN "running" ELSE "stopped")

OnStartComplete(i, ok) ==
  /\ handler' = IF ok THEN handler ELSE Nobody
  /\ page' = Answered(i, "starting", IF ok THEN "running" ELSE "stopped")

OnStopComplete(i, ok) ==
  /\ UNCHANGED handler
  /\ page' = Answered(i, "stopping", IF ok THEN "stopped" ELSE "running")

\* RunCompleteCallback on the UI thread; the Handler may be gone.
RunCompleteCallback(i, ok, queue) ==
  /\ tests' = [tests EXCEPT ![i].callback = "none"]
  /\ ui' = queue
  /\ UNCHANGED servers
  /\ CASE handler = Closed \/ tests[i].callback = "none" -> UNCHANGED <<handler, page>>
       [] handler # Closed /\ tests[i].callback = "start" -> OnStartComplete(i, ok)
       [] handler # Closed /\ tests[i].callback = "stop"  -> OnStopComplete(i, ok)

UIThread ==
  LET i == Head(ui).id
      t == Head(ui).task
      OfServer(s) == Runs(i, s, Tail(ui)) /\ UNCHANGED <<handler, page>>
  IN /\ Running /\ ui # <<>>
     /\ \/ t.op = "start" /\ \E starts \in BOOLEAN : OfServer(StartOnUIThread(servers[i], starts))
        \/ t.op = "shutdown" /\ OfServer(ShutdownOnUIThread(servers[i]))
        \/ t.op = "use" /\ OfServer(UseCallback(servers[i], t.c, t.allow))
        \/ t.op = "complete" /\ RunCompleteCallback(i, t.allow, Tail(ui))

\* HandleStartAction: refused for its port or while a server is the page's own.
Refuse == page' = [page EXCEPT !.state = "refused"] /\ UNCHANGED <<servers, tests, handler, ui>>

PageStarts ==
  LET i == CHOOSE i \in Ids : tests[i].callback = "unused" IN
  /\ Running /\ page.state = "stopped"
  /\ \/ Refuse
     \/ /\ handler = Nobody /\ \E j \in Ids : tests[j].callback = "unused"
        /\ handler' = i
        /\ tests' = [tests EXCEPT ![i] = StartServer(@)]
        /\ ui' = Append(ui, UITask(i, ServerTask("start")))
        /\ page' = [state |-> "starting", id |-> i]
        /\ UNCHANGED servers

\* server_->Shutdown, unless server_ is missing.
Stop(i, callback) ==
  /\ tests' = [tests EXCEPT ![i] = StopServer(@, callback)]
  /\ servers' = [servers EXCEPT ![i] = IF tests[i].server THEN Shutdown(@) ELSE @]

\* HandleStopAction
PageStops ==
  /\ Running /\ page.state = "running"
  /\ IF handler = Nobody THEN Refuse
     ELSE /\ Stop(handler, "stop")
          /\ handler' = Nobody
          /\ page' = [state |-> "stopping", id |-> handler]
          /\ UNCHANGED ui

\* HandleQueryAction, when the page is loaded again.
PageLoads ==
  /\ Running /\ handler # Closed
  /\ page' = [state |-> IF handler # Nobody THEN "running" ELSE "stopped", id |-> Nobody]
  /\ UNCHANGED <<servers, tests, handler, ui>>

\* ~Handler, when the browser closes.
PageCloses ==
  /\ Running /\ handler # Closed
  /\ IF handler = Nobody THEN UNCHANGED <<servers, tests>> ELSE Stop(handler, "none")
  /\ handler' = Closed
  /\ page' = [state |-> "closed", id |-> Nobody]
  /\ UNCHANGED ui

\* What threads do without anybody asking.
System == UIThread \/ \E i \in Ids : HandlerThread(i) \/ ThreadEnds(i)

Next ==
  \/ System
  \/ \E i \in Ids, c \in Connections : Client(i, c)
  \/ PageStarts \/ PageStops \/ PageLoads \/ PageCloses

Spec == Init /\ [][Next]_vars /\ WF_vars(System)

-----------------------------------------------------------------------------
(* Properties.                                                               *)

\* Servers, their handlers and the page have the states the code knows.
TypeOK ==
  /\ \A i \in Ids :
       /\ servers[i].thread \in {"none", "running", "stopping", "ended"}
       /\ servers[i].refs = IF servers[i].thread = "running" THEN 1 ELSE 0
       /\ servers[i].open \subseteq {c \in Connections : servers[i].conn[c] # "none"}
       /\ tests[i].callback \in {"unused", "start", "stop", "none"}
  /\ handler \in Ids \cup {Nobody, Closed}
  /\ page.state \in {"stopped", "starting", "running", "stopping", "refused", "closed"}

\* The DCHECKs of the server and its handler hold, and handler_ is never called
\* after the UI thread cleared it.  Two lines do fail: a WebSocket that closed
\* before its answer came, and a stop before there is a server_ to stop.
AssertionsHold == \A i \in Ids :
  servers[i].bad \cup tests[i].bad \subseteq {"server_impl.cc:376", "server_test.cc:59"}

Promised == INSTANCE ServerPromise
              WITH Servers <- Ids, told <- [i \in Ids |-> servers[i].told]

\* A handler hears what cef_server.h promises: created first, one disconnect for
\* each client that connected, destroyed last.
KeepsPromise == Promised!Spec

\* The UI thread lets go of handler_ and of the server when the handler thread
\* has told all there is and has the port no more, whoever shut down first and
\* how often.
ReleasedAfterLastCall == \A i \in Ids : ~servers[i].handler =>
  /\ servers[i].told # <<>> /\ servers[i].told[Len(servers[i].told)].op = "destroyed"
  /\ ~servers[i].http /\ servers[i].open = {} /\ servers[i].now = <<>>

\* A start that is not completed is the page's server, so that a failure clears
\* no other.
StartIsCurrent == \A i \in Ids : tests[i].callback = "start" => handler = i

\* Server, handler and the threads they are used on fit each other.
ServersCorrect == TypeOK /\ AssertionsHold /\ ReleasedAfterLastCall /\ StartIsCurrent

\* A page that was answered was told the truth: "Non-nullptr while the server is
\* running" (server_test.cc:377), and no port is taken by a server that was
\* stopped.  A stop that comes before the start was completed has neither.
AnswersAreTrue == page.id # Nobody /\ tests[page.id].stopped # "early" =>
  /\ page.state = "running" => handler = page.id /\ servers[page.id].http
  /\ page.state = "stopped" => handler = Nobody /\ ~servers[page.id].http

\* CreateServer was called and no thread could be started (server_impl.cc:554):
\* OnServerCreated, promised by cef_server.h:70, is never called.
Threadless(i) ==
  /\ tests[i].callback # "unused" /\ servers[i].thread = "none"
  /\ \A k \in DOMAIN ui : ui[k] # UITask(i, ServerTask("start"))

\* A page that waits for a start or a stop is answered, unless its server is
\* Threadless: then it waits for ever, or until it is loaded again.
PageIsAnswered ==
  page.state \in {"starting", "stopping"} ~>
    page.state \notin {"starting", "stopping"} \/ Threadless(page.id) \/ ~Running

\* A server that was shut down, or failed to start, ends: its thread is joined
\* and its references are released.
ServersEnd == \A i \in Ids :
  tests[i].stopped # "no" \/ (\E k \in DOMAIN servers[i].told : servers[i].told[k].op = "failed") ~> servers[i].thread = "ended" \/ ~Running
=============================================================================
