-------------------------- MODULE ServerTestProofs --------------------------
(***************************************************************************)
(* Servers, their handlers and the page that starts and stops them, proved   *)
(* for any number of servers and connections and every order in which the    *)
(* handler threads, the UI thread, clients and the page take their steps.    *)
(***************************************************************************)
EXTENDS ServerTest, FiniteSetTheorems, SequenceTheorems, WellFoundedInduction, TLAPS

Ends      == Connections \cup {NoConnection}
ServerOps == {"created", "failed", "destroyed"}
Live      == {"connected", "request", "webSocketRequest", "webSocketConnected",
              "webSocketMessage"}
CallOps   == ServerOps \cup Live \cup {"disconnected", "close"}

Calls == [op : CallOps, c : Ends]
Tasks == [op : {"start", "shutdown", "use", "answer", "complete"}, c : Ends, allow : BOOLEAN]

ServerTypes ==
  [thread : {"none", "running", "stopping", "ended"}, refs : Int, handler : BOOLEAN,
   http : BOOLEAN, open : SUBSET Connections,
   conn : [Connections -> {"none", "http", "pending", "ws"}], reply : SUBSET Connections,
   ht : Seq(Tasks), now : Seq(Calls), toUI : Seq(Tasks), told : Seq(Calls), bad : SUBSET {"server_impl.cc:376"}]

TestTypes ==
  [server : BOOLEAN, callback : {"unused", "start", "stop", "none"},
   stopped : {"no", "early", "yes"}, bad : SUBSET {"server_test.cc:59"}]

UITasks == [id : Ids, task : Tasks]

Types ==
  /\ servers \in [Ids -> ServerTypes]
  /\ tests \in [Ids -> TestTypes]
  /\ handler \in Ids \cup {Nobody, Closed}
  /\ page \in [state : {"stopped", "starting", "running", "stopping", "refused", "closed"},
               id : Ids \cup {Nobody}]
  /\ ui \in Seq(UITasks)

-----------------------------------------------------------------------------
(* A server alone.                                                           *)

Heard(s, c) == LastCall(s.told, c)
End(s)      == Heard(s, NoConnection)

\* The call that reports the end of a connection is still to be made.
Leaving(s, c) == \E k \in 1 .. Len(s.now) : s.now[k] = Call("disconnected", c)

\* What connection_info_map_ says after a call.
StateAfter(op) ==
  CASE op \in {"connected", "request"}                     -> "http"
    [] op = "webSocketRequest"                             -> "pending"
    [] op \in {"webSocketConnected", "webSocketMessage"}   -> "ws"
    [] OTHER                                               -> "none"

Started ==
  [thread |-> "running", refs |-> 1, handler |-> TRUE, http |-> FALSE, open |-> {},
   conn |-> [c \in Connections |-> "none"], reply |-> {}, ht |-> <<ServerTask("start")>>,
   now |-> <<>>, toUI |-> <<>>, told |-> <<>>, bad |-> {}]

\* Before the handler heard anything, and after it heard all.
EndsFit(s) ==
  /\ s.told = <<>> => s \in {NewServer, Started}
  /\ s.told # <<>> =>
       /\ s.thread # "none"
       /\ End(s) \in ServerOps
       /\ s.told[1].op \in {"created", "failed"}
       /\ \A k \in 1 .. Len(s.ht) : s.ht[k].op \in {"shutdown", "answer"}
       /\ s.http => End(s) = "created" /\ s.told[1].op = "created"
       /\ ~s.http /\ s.now = <<>> => End(s) = "destroyed"
  /\ End(s) = "destroyed" =>
       /\ ~s.http /\ s.now = <<>>
       /\ s.told[Len(s.told)].op = "destroyed"
  /\ ~s.handler => End(s) = "destroyed"
  /\ s.refs = IF s.thread = "running" THEN 1 ELSE 0
  /\ s.bad \subseteq {"server_impl.cc:376"}

\* Sockets, the map of connections and what the handler heard of them.
ConnectionsFit(s) ==
  /\ IsFiniteSet(s.open)
  /\ s.open # {} => s.http
  /\ \A c \in Connections :
       /\ c \in s.open => Heard(s, c) \in Live /\ s.conn[c] = StateAfter(Heard(s, c))
       /\ c \notin s.open => s.conn[c] = "none"
       /\ Heard(s, c) \in Live => c \in s.open \/ Leaving(s, c)
       /\ Heard(s, c) \in Live \cup {"none", "disconnected"}

\* What the running task has still to do.
TaskFits(s) ==
  s.now # <<>> =>
    \/ \E c \in Connections :
         s.now = <<Call("close", c)>> /\ s.http /\ c \in s.open /\ s.conn[c] = "http"
    \/ /\ ~s.http
       /\ s.now[Len(s.now)] = Call("destroyed", NoConnection)
       /\ \A k \in 1 .. Len(s.now) - 1 :
            /\ End(s) = "created"
            /\ \E c \in Connections : s.now[k] = Call("disconnected", c) /\ Heard(s, c) \in Live
       /\ \A j, k \in 1 .. Len(s.now) - 1 : s.now[j] = s.now[k] => j = k

\* A WebSocket that was not accepted yet.
Asked(s, c) == s.conn[c] \in {"none", "pending"} /\ Heard(s, c) \notin {"none", "connected"}

IsAnswer(s, k) == s.ht[k].op = "answer"

\* A WebSocket is answered once, whatever the handler does with its callback.
AnswersFit(s) ==
  /\ \A c \in s.reply : Asked(s, c)
  /\ \A k \in 1 .. Len(s.ht) :
       IsAnswer(s, k) => s.ht[k].c \in Connections \ s.reply /\ Asked(s, s.ht[k].c)
  /\ \A j, k \in 1 .. Len(s.ht) :
       IsAnswer(s, j) /\ IsAnswer(s, k) /\ s.ht[j].c = s.ht[k].c => j = k

ServerFits(s) == EndsFit(s) /\ ConnectionsFit(s) /\ TaskFits(s) /\ AnswersFit(s)

-----------------------------------------------------------------------------
(* A server s, its ServerHandler t, the page's handler_ h and page g, and the *)
(* tasks q of the UI thread.                                                 *)

\* Task k of the queue is for server i.
Of(q, i, op, k) == q[k].id = i /\ q[k].task.op = op

\* What completes the start or the stop of server i.
IsComplete(q, i, k) == Of(q, i, "complete", k)

TestFits(i, s, t, h, g, q) ==
  /\ t.server <=> End(s) \in {"created", "failed"}
  /\ t.bad \subseteq {"server_test.cc:59"}
  /\ t.callback = "unused" =>
       /\ s = NewServer /\ t = NewTest
       /\ h # i /\ g.id # i
       /\ \A k \in 1 .. Len(q) : q[k].id # i
  /\ t.stopped = "no" =>
       /\ \A k \in 1 .. Len(s.ht) : s.ht[k].op # "shutdown"
       /\ s.told # <<>> /\ s.told[1].op = "created" => s.http

TasksFit(i, s, q) ==
  /\ s.toUI = <<>>
  /\ \A k \in 1 .. Len(q) : q[k].id = i =>
       /\ q[k].task.op = "start" => s = NewServer
       /\ q[k].task.op # "start" => s.told # <<>>
       /\ q[k].task.op = "shutdown" => End(s) = "destroyed"
       /\ q[k].task.op # "answer"
       /\ q[k].task.op = "use" => q[k].task.c \in Connections
  /\ \A j, k \in 1 .. Len(q) : Of(q, i, "start", j) /\ Of(q, i, "start", k) => j = k

\* A start is completed with its result, by the first task that completes something.
CompletesFit(i, s, t, h, q) ==
  /\ t.callback = "start" /\ s.told # <<>> =>
       \E k \in 1 .. Len(q) :
         /\ IsComplete(q, i, k) /\ q[k].task.allow = (s.told[1].op = "created")
         /\ \A j \in 1 .. k - 1 : ~IsComplete(q, i, j)
  /\ End(s) # "destroyed" =>
       \A j, k \in 1 .. Len(q) : IsComplete(q, i, j) /\ IsComplete(q, i, k) => j = k
  /\ t.callback = "none" /\ h = i => \A k \in 1 .. Len(q) : ~IsComplete(q, i, k)
  /\ t.callback = "stop" /\ t.stopped = "yes" =>
       /\ s.told # <<>>
       /\ \A k \in 1 .. Len(q) : IsComplete(q, i, k) =>
            q[k].task.allow /\ End(s) = "destroyed"

HandlerFits(i, s, t, h) ==
  /\ t.callback = "start" => h = i
  /\ t.callback = "stop" => t.stopped # "no"
  /\ h = i =>
       /\ t.stopped = "no" /\ t.callback \in {"start", "none"}
       /\ t.callback = "none" => s.told # <<>> /\ s.told[1].op = "created"

PageFits(i, s, t, h, g) == g.id = i =>
  /\ g.state = "starting" => h = i /\ t.callback = "start"
  /\ t.stopped # "early" =>
       /\ g.state = "running" => h = i /\ t.callback = "none"
       /\ g.state = "stopping" => h = Nobody /\ t.callback = "stop"
       /\ g.state = "stopped" => h = Nobody /\ s.told # <<>> /\ ~s.http

OneFits(i, s, t, h, g, q) ==
  /\ ServerFits(s)
  /\ TestFits(i, s, t, h, g, q)
  /\ TasksFit(i, s, q)
  /\ CompletesFit(i, s, t, h, q)
  /\ HandlerFits(i, s, t, h)
  /\ PageFits(i, s, t, h, g)

ClosedFits == handler = Closed => page.state = "closed" /\ page.id = Nobody

Fits ==
  /\ Types
  /\ \A i \in Ids : OneFits(i, servers[i], tests[i], handler, page, ui)
  /\ ClosedFits

-----------------------------------------------------------------------------
(* The last call.                                                            *)

LEMMA SmallestNumber ==
  ASSUME NEW I \in SUBSET Nat, I # {}
  PROVE  \E m \in I : \A k \in I : m <= k
<1>1. \E m \in I : \A k \in I : <<k, m>> \notin OpToRel(<, Nat)
  BY NatLessThanWellFounded, WFMin
<1>2. PICK m \in I : \A k \in I : <<k, m>> \notin OpToRel(<, Nat)
  BY <1>1
<1>3. \A k \in I : ~(k < m)
  BY <1>2 DEF OpToRel
<1> QED
  BY <1>3

LEMMA LargestNumber ==
  ASSUME NEW n \in Nat, NEW I \in SUBSET (1 .. n), I # {}
  PROVE  \E m \in I : \A k \in I : k <= m
<1> DEFINE J == {j \in Nat : n - j \in I}
<1>1. PICK i \in I : TRUE
  OBVIOUS
<1>2. n - i \in J
  BY <1>1
<1>3. PICK j \in J : \A k \in J : j <= k
  BY <1>2, SmallestNumber
<1>4. n - j \in I /\ \A k \in I : n - k \in J
  BY <1>3
<1> QED
  BY <1>3, <1>4

LEMMA LastNone ==
  \A c : LastCall(<<>>, c) = "none"
BY DEF LastCall

LEMMA LastIs ==
  ASSUME NEW calls \in Seq(Calls), NEW c
  PROVE  \/ /\ LastCall(calls, c) = "none"
            /\ \A k \in 1 .. Len(calls) : calls[k].c # c
         \/ \E k \in 1 .. Len(calls) :
              /\ calls[k].c = c /\ LastCall(calls, c) = calls[k].op
              /\ \A j \in 1 .. Len(calls) : calls[j].c = c => j <= k
<1> DEFINE own == {k \in DOMAIN calls : calls[k].c = c}
           last == CHOOSE k \in own : \A j \in own : j <= k
<1>1. Len(calls) \in Nat /\ DOMAIN calls = 1 .. Len(calls)
  OBVIOUS
<1>2. LastCall(calls, c) = IF own = {} THEN "none" ELSE calls[last].op
  BY DEF LastCall
<1>3. CASE own = {}
  BY <1>1, <1>2, <1>3
<1>4. CASE own # {}
  <2>1. own \in SUBSET (1 .. Len(calls))
    BY <1>1
  <2>2. \E k \in own : \A j \in own : j <= k
    <3> HIDE DEF own
    <3> QED
      BY <1>1, <1>4, <2>1, LargestNumber
  <2>3. last \in own /\ \A j \in own : j <= last
    <3> HIDE DEF own
    <3> QED
      BY <2>2
  <2>4. last \in 1 .. Len(calls) /\ calls[last].c = c
    BY <2>1, <2>3
  <2>5. LastCall(calls, c) = calls[last].op
    BY <1>2, <1>4
  <2>6. \A j \in 1 .. Len(calls) : calls[j].c = c => j <= last
    BY <1>1, <2>3
  <2> HIDE DEF last
  <2> QED
    BY <2>4, <2>5, <2>6
<1> QED
  BY <1>3, <1>4

\* A call is the last of its connection and of no other.
LEMMA LastAppended ==
  ASSUME NEW calls \in Seq(Calls), NEW call \in Calls
  PROVE  \A c : LastCall(Append(calls, call), c) =
                  IF call.c = c THEN call.op ELSE LastCall(calls, c)
<1> DEFINE more == Append(calls, call)
           n == Len(calls)
<1>1. /\ more \in Seq(Calls) /\ Len(more) = n + 1 /\ more[n + 1] = call /\ n \in Nat
      /\ \A k \in 1 .. n : more[k] = calls[k]
  OBVIOUS
<1> HIDE DEF more
<1> TAKE c
<1>2. CASE call.c = c
  <2>1. PICK k \in 1 .. Len(more) :
          /\ more[k].c = c /\ LastCall(more, c) = more[k].op
          /\ \A j \in 1 .. Len(more) : more[j].c = c => j <= k
    <3>1. n + 1 \in 1 .. Len(more) /\ more[n + 1].c = c
      BY <1>1, <1>2
    <3> QED
      BY <1>1, <3>1, LastIs
  <2>2. k = n + 1
    BY <1>1, <1>2, <2>1
  <2> QED
    BY <1>1, <1>2, <2>1, <2>2 DEF more
<1>3. CASE call.c # c
  <2>1. \A k \in 1 .. Len(more) : more[k].c = c => k \in 1 .. n /\ more[k] = calls[k]
    BY <1>1, <1>3
  <2>2. ASSUME LastCall(calls, c) = "none", \A k \in 1 .. n : calls[k].c # c
        PROVE  LastCall(more, c) = LastCall(calls, c)
    <3>1. \A k \in 1 .. Len(more) : more[k].c # c
      BY <2>1, <2>2
    <3>2. LastCall(more, c) = "none"
      BY <1>1, <3>1, LastIs
    <3> QED
      BY <2>2, <3>2
  <2>3. ASSUME NEW k \in 1 .. n,
               calls[k].c = c /\ LastCall(calls, c) = calls[k].op,
               \A j \in 1 .. n : calls[j].c = c => j <= k
        PROVE  LastCall(more, c) = LastCall(calls, c)
    <3>1. k \in 1 .. Len(more) /\ more[k].c = c
      BY <1>1, <2>3
    <3>2. PICK m \in 1 .. Len(more) :
            /\ more[m].c = c /\ LastCall(more, c) = more[m].op
            /\ \A j \in 1 .. Len(more) : more[j].c = c => j <= m
      BY <1>1, <3>1, LastIs
    <3>3. m = k
      BY <1>1, <2>1, <2>3, <3>1, <3>2
    <3> QED
      BY <1>1, <2>3, <3>2, <3>3
  <2>4. LastCall(more, c) = LastCall(calls, c)
    BY <2>2, <2>3, LastIs
  <2> QED
    BY <1>3, <2>4 DEF more
<1> QED
  BY <1>2, <1>3

-----------------------------------------------------------------------------
(* What the handler of a server hears.                                       *)

LEMMA CallsAre ==
  \A op \in CallOps, c \in Ends :
    Call(op, c) \in Calls /\ Call(op, c).op = op /\ Call(op, c).c = c
BY DEF Call, Calls

LEMMA CallsDiffer ==
  \A op, other, c, d : Call(op, c) = Call(other, d) => op = other /\ c = d
<1> SUFFICES ASSUME NEW op, NEW other, NEW c, NEW d, Call(op, c) = Call(other, d)
             PROVE  op = other /\ c = d
  OBVIOUS
<1>1. Call(op, c).op = op /\ Call(other, d).op = other /\ Call(op, c).c = c /\ Call(other, d).c = d
  BY DEF Call
<1> QED
  BY <1>1

\* r is s after its handler heard a call.
Hears1(s, r, op, c) == r.told = Append(s.told, Call(op, c))

LEMMA HeardOne ==
  ASSUME NEW s \in ServerTypes, NEW r, NEW op \in CallOps, NEW c \in Ends, Hears1(s, r, op, c)
  PROVE  /\ r.told \in Seq(Calls) /\ r.told # <<>> /\ Len(r.told) = Len(s.told) + 1
         /\ r.told[Len(r.told)] = Call(op, c)
         /\ s.told # <<>> => r.told[1] = s.told[1]
         /\ s.told = <<>> => r.told[1] = Call(op, c)
         /\ \A d : Heard(r, d) = IF c = d THEN op ELSE Heard(s, d)
<1>1. s.told \in Seq(Calls)
  BY DEF ServerTypes
<1>2. Call(op, c) \in Calls /\ Call(op, c).op = op /\ Call(op, c).c = c
  BY CallsAre
<1>3. r.told = Append(s.told, Call(op, c))
  BY DEF Hears1
<1>4. /\ r.told \in Seq(Calls) /\ r.told # <<>> /\ Len(r.told) = Len(s.told) + 1
      /\ r.told[Len(r.told)] = Call(op, c)
      /\ s.told # <<>> => r.told[1] = s.told[1]
      /\ s.told = <<>> => r.told[1] = Call(op, c)
  BY <1>1, <1>2, <1>3
<1>5. \A d : Heard(r, d) = IF c = d THEN op ELSE Heard(s, d)
  BY <1>1, <1>2, <1>3, LastAppended DEF Heard
<1> QED
  BY <1>4, <1>5

LEMMA FirstFields ==
  /\ NewServer.http = FALSE /\ Started.http = FALSE
  /\ NewServer.handler = TRUE /\ Started.handler = TRUE
  /\ NewServer.open = {} /\ Started.open = {}
  /\ NewServer.reply = {} /\ Started.reply = {}
  /\ NewServer.conn = [c \in Connections |-> "none"] /\ Started.conn = NewServer.conn
  /\ NewServer.ht = <<>> /\ Started.ht = <<ServerTask("start")>>
  /\ NewServer.now = <<>> /\ Started.now = <<>>
  /\ NewServer.toUI = <<>> /\ Started.toUI = <<>>
  /\ NewServer.told = <<>> /\ Started.told = <<>>
  /\ NewServer.thread = "none" /\ Started.thread = "running"
<1>1. NewServer.http = FALSE /\ NewServer.handler = TRUE
  BY DEF NewServer
<1>2. Started.http = FALSE /\ Started.handler = TRUE
  BY DEF Started
<1>3. /\ NewServer.open = {} /\ NewServer.reply = {} /\ NewServer.ht = <<>> /\ NewServer.now = <<>>
      /\ NewServer.toUI = <<>> /\ NewServer.told = <<>> /\ NewServer.thread = "none"
      /\ NewServer.conn = [c \in Connections |-> "none"]
  BY DEF NewServer
<1>4. /\ Started.open = {} /\ Started.reply = {} /\ Started.ht = <<ServerTask("start")>>
      /\ Started.now = <<>>
      /\ Started.toUI = <<>> /\ Started.told = <<>> /\ Started.thread = "running"
      /\ Started.conn = [c \in Connections |-> "none"]
  BY DEF Started
<1> QED
  BY <1>1, <1>2, <1>3, <1>4

LEMMA FirstServers ==
  /\ NewServer \in ServerTypes /\ Started \in ServerTypes
  /\ ServerFits(NewServer) /\ ServerFits(Started)
  /\ \A c : Heard(NewServer, c) = "none" /\ Heard(Started, c) = "none"
  /\ NewServer # Started
<1>1. ServerTask("start") \in Tasks
  BY DEF ServerTask, Task, Tasks, Ends
<1>2. NewServer \in ServerTypes
  BY DEF NewServer, ServerTypes
<1>3. Started \in ServerTypes
  BY <1>1 DEF Started, ServerTypes
<1>4. \A c : Heard(NewServer, c) = "none" /\ Heard(Started, c) = "none"
  BY LastNone, FirstFields DEF Heard
<1>5. NewServer # Started
  BY DEF NewServer, Started
<1>6. EndsFit(NewServer) /\ EndsFit(Started)
  BY <1>4 DEF EndsFit, End, NewServer, Started
<1>7. ConnectionsFit(NewServer) /\ ConnectionsFit(Started)
  BY <1>4, FS_EmptySet DEF ConnectionsFit, NewServer, Started, Live
<1>8. TaskFits(NewServer) /\ TaskFits(Started)
  BY DEF TaskFits, NewServer, Started
<1>9. AnswersFit(NewServer) /\ AnswersFit(Started)
  BY DEF AnswersFit, IsAnswer, NewServer, Started, ServerTask, Task
<1> QED
  BY <1>2, <1>3, <1>4, <1>5, <1>6, <1>7, <1>8, <1>9 DEF ServerFits

\* A server with its port has a handler that heard it was created.
LEMMA HttpIs ==
  ASSUME NEW s \in ServerTypes, ServerFits(s), s.http
  PROVE  /\ s.told # <<>> /\ End(s) = "created" /\ s.handler
         /\ s.told[1].op = "created" /\ s.thread # "none"
         /\ \A c : ~Leaving(s, c)
<1>1. s # NewServer /\ s # Started
  BY FirstFields
<1>2. /\ s.told # <<>> /\ End(s) = "created" /\ s.handler
      /\ s.told[1].op = "created" /\ s.thread # "none"
  BY <1>1 DEF ServerFits, EndsFit, ServerTypes
<1>3. \A c : ~Leaving(s, c)
  <2>1. SUFFICES ASSUME NEW c, NEW k \in 1 .. Len(s.now), s.now[k] = Call("disconnected", c)
                 PROVE  FALSE
    BY DEF Leaving
  <2>2. s.now # <<>>
    BY <2>1
  <2>3. PICK d \in Connections : s.now = <<Call("close", d)>>
    BY <2>2 DEF ServerFits, TaskFits
  <2>4. k = 1 /\ Call("close", d) = Call("disconnected", c)
    BY <2>1, <2>3
  <2> QED
    BY <2>4, CallsDiffer
<1> QED
  BY <1>2, <1>3

-----------------------------------------------------------------------------
(* A client of a server, or one of its connections, does something.          *)

ConnectionOps == Live \cup {"disconnected"}

\* r is s after the handler heard of connection c.
ClientHeard(s, r, op, c) ==
  /\ Hears1(s, r, op, c)
  /\ r.thread = s.thread /\ r.refs = s.refs /\ r.handler = s.handler /\ r.http = s.http
  /\ r.bad = s.bad
  /\ r.open = IF op = "disconnected" THEN s.open \ {c} ELSE s.open \cup {c}
  /\ r.conn = [s.conn EXCEPT ![c] = StateAfter(op)]
  /\ r.now = <<>> \/ (op = "request" /\ r.now = <<Call("close", c)>>)
  /\ r.ht = s.ht \/ (s.ht # <<>> /\ r.ht = Tail(s.ht))

LEMMA TailKeeps ==
  ASSUME NEW S, NEW q \in Seq(S), NEW t, t = q \/ (q # <<>> /\ t = Tail(q))
  PROVE  t \in Seq(S) /\ \A k \in 1 .. Len(t) : \E j \in 1 .. Len(q) : t[k] = q[j]
<1>1. CASE t = q
  BY <1>1
<1>2. CASE q # <<>> /\ t = Tail(q)
  <2>1. /\ t \in Seq(S) /\ Len(t) = Len(q) - 1 /\ Len(q) \in Nat
        /\ \A k \in 1 .. Len(t) : t[k] = q[k + 1]
    BY <1>2
  <2>2. \A k \in 1 .. Len(t) : k + 1 \in 1 .. Len(q)
    BY <2>1
  <2> QED
    BY <2>1, <2>2
<1> QED
  BY <1>1, <1>2

\* The tasks of r are among those of s.
FewerTasks(s, r) == \A k \in 1 .. Len(r.ht) : \E j \in 1 .. Len(s.ht) : r.ht[k] = s.ht[j]

LEMMA TasksLeave ==
  ASSUME NEW s \in ServerTypes, NEW r, r.ht = s.ht \/ (s.ht # <<>> /\ r.ht = Tail(s.ht))
  PROVE  r.ht \in Seq(Tasks) /\ FewerTasks(s, r)
<1> DEFINE q == s.ht
           t == r.ht
<1>1. q \in Seq(Tasks) /\ (t = q \/ (q # <<>> /\ t = Tail(q)))
  BY DEF ServerTypes
<1> HIDE DEF q, t
<1>2. t \in Seq(Tasks) /\ \A k \in 1 .. Len(t) : \E j \in 1 .. Len(q) : t[k] = q[j]
  BY <1>1, TailKeeps
<1> QED
  BY <1>2 DEF q, t, FewerTasks

LEMMA ClientKeeps ==
  ASSUME NEW s \in ServerTypes, NEW r \in ServerTypes, ServerFits(s), s.http,
         NEW op \in ConnectionOps, NEW c \in Connections, ClientHeard(s, r, op, c)
  PROVE  /\ EndsFit(r) /\ ConnectionsFit(r) /\ TaskFits(r)
         /\ End(r) = End(s) /\ r.told # <<>> /\ r.told[1] = s.told[1]
         /\ \A d : Heard(r, d) = IF c = d THEN op ELSE Heard(s, d)
<1>1. op \in CallOps /\ c \in Ends /\ c # NoConnection
  BY ServerAssumption DEF ConnectionOps, CallOps, Ends
<1>2. /\ s.told # <<>> /\ End(s) = "created" /\ s.handler
      /\ s.told[1].op = "created" /\ s.thread # "none" /\ \A d : ~Leaving(s, d)
  BY HttpIs
<1>3. /\ r.told # <<>> /\ r.told[1] = s.told[1]
      /\ \A d : Heard(r, d) = IF c = d THEN op ELSE Heard(s, d)
  BY <1>1, <1>2, HeardOne DEF ClientHeard
<1>4. End(r) = End(s)
  BY <1>1, <1>3 DEF End
<1>5. EndsFit(r)
  <2>1. \A k \in 1 .. Len(r.ht) : r.ht[k].op \in {"shutdown", "answer"}
    <3>1. \A k \in 1 .. Len(s.ht) : s.ht[k].op \in {"shutdown", "answer"}
      BY <1>2 DEF ServerFits, EndsFit
    <3>2. \A k \in 1 .. Len(r.ht) : \E j \in 1 .. Len(s.ht) : r.ht[k] = s.ht[j]
      <4>1. FewerTasks(s, r)
        BY TasksLeave DEF ClientHeard
      <4> QED
        BY <4>1 DEF FewerTasks
    <3> QED
      BY <3>1, <3>2
  <2>2. /\ r.thread # "none" /\ r.refs = (IF r.thread = "running" THEN 1 ELSE 0)
        /\ r.bad \subseteq {"server_impl.cc:376"} /\ r.http /\ r.handler
    BY <1>2 DEF ServerFits, EndsFit, ClientHeard
  <2>3. r.told[1].op = "created" /\ End(r) = "created"
    BY <1>2, <1>3, <1>4
  <2> QED
    BY <1>3, <2>1, <2>2, <2>3 DEF EndsFit, ServerOps
<1>6. ConnectionsFit(r)
  <2>1. ConnectionsFit(s)
    BY DEF ServerFits
  <2>2. IsFiniteSet(r.open) /\ r.http
    BY <2>1, FS_AddElement, FS_RemoveElement DEF ConnectionsFit, ClientHeard
  <2>3. ASSUME NEW d \in Connections
        PROVE  /\ d \in r.open => Heard(r, d) \in Live /\ r.conn[d] = StateAfter(Heard(r, d))
               /\ d \notin r.open => r.conn[d] = "none"
               /\ Heard(r, d) \in Live => d \in r.open \/ Leaving(r, d)
               /\ Heard(r, d) \in Live \cup {"none", "disconnected"}
    <3>1. s.conn \in [Connections -> {"none", "http", "pending", "ws"}]
      BY DEF ServerTypes
    <3>2. r.conn = [s.conn EXCEPT ![c] = StateAfter(op)]
      BY DEF ClientHeard
    <3>3. CASE d = c
      <4>1. Heard(r, d) = op /\ r.conn[d] = StateAfter(op)
        BY <1>3, <3>1, <3>2, <3>3
      <4>2. CASE op = "disconnected"
        <5>1. d \notin r.open /\ StateAfter(op) = "none"
          BY <3>3, <4>2 DEF ClientHeard, StateAfter
        <5> QED
          BY <4>1, <4>2, <5>1 DEF Live
      <4>3. CASE op # "disconnected"
        <5>1. d \in r.open /\ op \in Live
          BY <3>3, <4>3 DEF ClientHeard, ConnectionOps
        <5> QED
          BY <4>1, <5>1
      <4> QED
        BY <4>2, <4>3
    <3>4. CASE d # c
      <4>1. Heard(r, d) = Heard(s, d) /\ r.conn[d] = s.conn[d] /\ (d \in r.open <=> d \in s.open)
        BY <1>3, <3>1, <3>2, <3>4 DEF ClientHeard
      <4>2. /\ d \in s.open => Heard(s, d) \in Live /\ s.conn[d] = StateAfter(Heard(s, d))
            /\ d \notin s.open => s.conn[d] = "none"
            /\ Heard(s, d) \in Live => d \in s.open
            /\ Heard(s, d) \in Live \cup {"none", "disconnected"}
        BY <1>2, <2>1 DEF ConnectionsFit
      <4> QED
        BY <4>1, <4>2
    <3> QED
      BY <3>3, <3>4
  <2> QED
    BY <2>2, <2>3 DEF ConnectionsFit
<1>7. TaskFits(r)
  <2>1. SUFFICES ASSUME op = "request", r.now = <<Call("close", c)>> PROVE TaskFits(r)
    BY DEF TaskFits, ClientHeard
  <2>2. r.http /\ c \in r.open
    BY <2>1 DEF ClientHeard
  <2>3. r.conn[c] = "http"
    BY <2>1 DEF ClientHeard, StateAfter, ServerTypes
  <2> QED
    BY <2>1, <2>2, <2>3 DEF TaskFits
<1> QED
  BY <1>3, <1>4, <1>5, <1>6, <1>7

\* Answers that are on their way are not those of connection c.
NoAnswers(s, c) == c \notin s.reply /\ \A k \in 1 .. Len(s.ht) : IsAnswer(s, k) => s.ht[k].c # c

LEMMA AskedHasAnswers ==
  ASSUME NEW s \in ServerTypes, AnswersFit(s), NEW c, ~Asked(s, c)
  PROVE  NoAnswers(s, c)
BY DEF NoAnswers, AnswersFit

LEMMA AnswersKept ==
  ASSUME NEW s \in ServerTypes, NEW r \in ServerTypes, AnswersFit(s), NEW c,
         \A d \in Connections : d # c => (Asked(s, d) => Asked(r, d)),
         r.ht = s.ht \/ (s.ht # <<>> /\ r.ht = Tail(s.ht)),
         r.reply = s.reply \/ (NoAnswers(s, c) /\ r.reply = s.reply \cup {c}),
         Asked(r, c) \/ NoAnswers(r, c)
  PROVE  AnswersFit(r)
<1>1. \A d \in Connections : Asked(s, d) => Asked(r, d) \/ NoAnswers(r, d)
  OBVIOUS
<1>2. r.reply \subseteq Connections /\ s.reply \subseteq Connections /\ s.ht \in Seq(Tasks)
  BY DEF ServerTypes
<1>3. \A d \in r.reply : Asked(r, d)
  <2>1. SUFFICES ASSUME NEW d \in r.reply PROVE Asked(r, d)
    OBVIOUS
  <2>2. ~NoAnswers(r, d)
    BY DEF NoAnswers
  <2>3. CASE d = c
    BY <2>2, <2>3
  <2>4. CASE d # c
    BY <1>2, <2>4 DEF AnswersFit
  <2> QED
    BY <2>3, <2>4
<1>4. ASSUME NEW k \in 1 .. Len(r.ht), IsAnswer(r, k)
      PROVE  r.ht[k].c \in Connections \ r.reply /\ Asked(r, r.ht[k].c)
  <2>1. PICK j \in 1 .. Len(s.ht) : r.ht[k] = s.ht[j]
    <3>1. FewerTasks(s, r)
      BY TasksLeave
    <3> QED
      BY <3>1 DEF FewerTasks
  <2>2. IsAnswer(s, j)
    BY <1>4, <2>1 DEF IsAnswer
  <2>3. r.ht[k].c \in Connections \ s.reply /\ Asked(s, r.ht[k].c)
    BY <2>1, <2>2 DEF AnswersFit
  <2>4. ~NoAnswers(r, r.ht[k].c)
    BY <1>4 DEF NoAnswers
  <2>5. Asked(r, r.ht[k].c)
    BY <1>1, <2>3, <2>4
  <2>6. r.ht[k].c \notin r.reply
    BY <2>1, <2>2, <2>3 DEF NoAnswers
  <2> QED
    BY <2>3, <2>5, <2>6
<1>5. \A j, k \in 1 .. Len(r.ht) :
        IsAnswer(r, j) /\ IsAnswer(r, k) /\ r.ht[j].c = r.ht[k].c => j = k
  <2>1. CASE r.ht = s.ht
    BY <2>1 DEF AnswersFit, IsAnswer
  <2>2. CASE s.ht # <<>> /\ r.ht = Tail(s.ht)
    <3>1. Len(r.ht) = Len(s.ht) - 1 /\ Len(s.ht) \in Nat /\ \A k \in 1 .. Len(r.ht) : r.ht[k] = s.ht[k + 1]
      BY <1>2, <2>2
    <3>2. SUFFICES ASSUME NEW j \in 1 .. Len(r.ht), NEW k \in 1 .. Len(r.ht),
                          IsAnswer(r, j), IsAnswer(r, k), r.ht[j].c = r.ht[k].c
                   PROVE  j = k
      OBVIOUS
    <3>3. j + 1 \in 1 .. Len(s.ht) /\ k + 1 \in 1 .. Len(s.ht)
      BY <3>1
    <3>4. IsAnswer(s, j + 1) /\ IsAnswer(s, k + 1) /\ s.ht[j + 1].c = s.ht[k + 1].c
      BY <3>1, <3>2 DEF IsAnswer
    <3>5. j + 1 = k + 1
      BY <3>3, <3>4 DEF AnswersFit
    <3> QED
      BY <3>5
  <2> QED
    BY <2>1, <2>2
<1> QED
  BY <1>3, <1>4, <1>5 DEF AnswersFit

-----------------------------------------------------------------------------
(* What clients do, and what the running task does to a connection.          *)

\* What the handler heard of a connection before a call.
Before(op) ==
  CASE op = "connected"          -> {"none"}
    [] op = "request"            -> {"connected"}
    [] op = "webSocketRequest"   -> {"connected"}
    [] op = "webSocketConnected" -> {"webSocketRequest"}
    [] op = "webSocketMessage"   -> {"webSocketConnected"}
    [] op = "disconnected"       -> Live

MayHear(s, op, c) == End(s) = "created" /\ Heard(s, c) \in Before(op)

PostsUses(r) ==
  \A k \in 1 .. Len(r.toUI) : r.toUI[k].op = "use" /\ r.toUI[k].c \in Connections

\* A step that is about connections only.
ClientStep(s, r) ==
  /\ r \in ServerTypes /\ ServerFits(r)
  /\ s.told # <<>> /\ r.told # <<>> /\ r.told[1] = s.told[1] /\ End(r) = End(s)
  /\ \/ r.told = s.told
     \/ \E op \in ConnectionOps, c \in Connections : Hears1(s, r, op, c) /\ MayHear(s, op, c)
  /\ r.http = s.http
  /\ \A k \in 1 .. Len(r.ht) : \E j \in 1 .. Len(s.ht) : r.ht[k] = s.ht[j]
  /\ PostsUses(r)

LEMMA ConnectionIs ==
  ASSUME NEW s \in ServerTypes, ServerFits(s), s.http, NEW c \in Connections
  PROVE  /\ s.handler = TRUE /\ s.http = TRUE
         /\ c \in s.open <=> s.conn[c] # "none"
         /\ c \in s.open <=> Heard(s, c) \in Live
         /\ c \in s.open => s.conn[c] = StateAfter(Heard(s, c))
<1>1. s.handler = TRUE /\ s.http = TRUE /\ ~Leaving(s, c)
  BY HttpIs DEF ServerTypes
<1>2. /\ c \in s.open => Heard(s, c) \in Live /\ s.conn[c] = StateAfter(Heard(s, c))
      /\ c \notin s.open => s.conn[c] = "none"
      /\ Heard(s, c) \in Live => c \in s.open \/ Leaving(s, c)
  BY DEF ServerFits, ConnectionsFit
<1>3. \A op \in Live : StateAfter(op) # "none"
  BY DEF StateAfter, Live
<1> QED
  BY <1>1, <1>2, <1>3

\* A step that ends with a call about a connection.
LEMMA ClientSteps ==
  ASSUME NEW s \in ServerTypes, NEW r \in ServerTypes, ServerFits(s), s.http,
         NEW op \in ConnectionOps, NEW c \in Connections, ClientHeard(s, r, op, c),
         Heard(s, c) \in Before(op),
         r.reply = s.reply \/ (op = "webSocketRequest" /\ r.reply = s.reply \cup {c}),
         op = "webSocketConnected" => NoAnswers(r, c),
         PostsUses(r)
  PROVE  ClientStep(s, r)
<1>1. /\ EndsFit(r) /\ ConnectionsFit(r) /\ TaskFits(r)
      /\ End(r) = End(s) /\ r.told # <<>> /\ r.told[1] = s.told[1]
      /\ \A d : Heard(r, d) = IF c = d THEN op ELSE Heard(s, d)
  BY ClientKeeps
<1>2. s.told # <<>> /\ End(s) = "created"
  BY HttpIs
<1>3. s.conn \in [Connections -> {"none", "http", "pending", "ws"}] /\ r.conn = [s.conn EXCEPT ![c] = StateAfter(op)]
  BY DEF ServerTypes, ClientHeard
<1>4. AnswersFit(r)
  <2>1. \A d \in Connections : d # c => (Asked(s, d) => Asked(r, d))
    BY <1>1, <1>3 DEF Asked
  <2>2. r.ht = s.ht \/ (s.ht # <<>> /\ r.ht = Tail(s.ht))
    BY DEF ClientHeard
  <2>3. AnswersFit(s)
    BY DEF ServerFits
  <2>4. ~Asked(s, c) => NoAnswers(s, c)
    BY <2>3, AskedHasAnswers
  <2>5. NoAnswers(s, c) /\ r.reply = s.reply => NoAnswers(r, c)
    <3>1. \A k \in 1 .. Len(r.ht) : \E j \in 1 .. Len(s.ht) : r.ht[k] = s.ht[j]
      <4>1. FewerTasks(s, r)
        BY <2>2, TasksLeave
      <4> QED
        BY <2>2, <4>1 DEF FewerTasks
    <3> QED
      BY <3>1 DEF NoAnswers, IsAnswer
  <2>6. r.reply = s.reply \/ (NoAnswers(s, c) /\ r.reply = s.reply \cup {c})
    BY <2>4 DEF Before, Asked
  <2>7. Asked(r, c) \/ NoAnswers(r, c)
    <3>1. Heard(r, c) = op /\ r.conn[c] = StateAfter(op)
      BY <1>1, <1>3
    <3>2. CASE op \in {"connected", "request"}
      <4>1. ~Asked(s, c)
        BY <3>2 DEF Before, Asked
      <4> QED
        BY <2>4, <2>5, <4>1, <3>2
    <3>3. CASE op \in {"webSocketRequest", "disconnected"}
      BY <3>1, <3>3 DEF Asked, StateAfter
    <3>4. CASE op = "webSocketConnected"
      BY <3>4
    <3>5. CASE op = "webSocketMessage"
      <4>1. Heard(s, c) = "webSocketConnected" /\ c \in s.open /\ s.conn[c] = "ws"
        BY <3>5, ConnectionIs DEF Before, StateAfter, Live
      <4> QED
        BY <2>4, <2>5, <4>1, <3>5 DEF Asked
    <3> QED
      BY <3>2, <3>3, <3>4, <3>5 DEF ConnectionOps, Live
  <2> QED
    BY <2>1, <2>2, <2>3, <2>6, <2>7, AnswersKept
<1>5. \A k \in 1 .. Len(r.ht) : \E j \in 1 .. Len(s.ht) : r.ht[k] = s.ht[j]
  <2>1. FewerTasks(s, r)
    BY TasksLeave DEF ClientHeard
  <2> QED
    BY <2>1 DEF FewerTasks
<1>6. Hears1(s, r, op, c) /\ MayHear(s, op, c) /\ r.http = s.http
  BY <1>2 DEF ClientHeard, MayHear
<1>7. ServerFits(r)
  BY <1>1, <1>4 DEF ServerFits
<1> QED
  BY <1>1, <1>2, <1>5, <1>6, <1>7 DEF ClientStep

ConnStates == {"none", "http", "pending", "ws"}

LEMMA NoPosts ==
  ASSUME NEW r, r.toUI = <<>> PROVE PostsUses(r)
<1>1. Len(r.toUI) = 0
  OBVIOUS
<1> QED
  BY <1>1 DEF PostsUses

LEMMA HearsTypes ==
  ASSUME NEW s \in ServerTypes, NEW op \in ConnectionOps, NEW c \in Connections
  PROVE  /\ Append(s.told, Call(op, c)) \in Seq(Calls)
         /\ StateAfter(op) \in ConnStates
         /\ [s.conn EXCEPT ![c] = StateAfter(op)] \in [Connections -> ConnStates]
<1>1. Call(op, c) \in Calls
  BY CallsAre DEF ConnectionOps, CallOps, Ends
<1>2. s.told \in Seq(Calls) /\ s.conn \in [Connections -> ConnStates]
  BY DEF ServerTypes, ConnStates
<1>3. StateAfter(op) \in ConnStates
  BY DEF StateAfter, ConnStates
<1> QED
  BY <1>1, <1>2, <1>3

LEMMA OnConnectSteps ==
  ASSUME NEW s \in ServerTypes, ServerFits(s), s.http, s.now = <<>>, s.toUI = <<>>,
         NEW c \in Connections, Heard(s, c) = "none",
         NEW r, r = OnConnect([s EXCEPT !.open = @ \cup {c}], c)
  PROVE  ClientStep(s, r)
<1> DEFINE m == [s.conn EXCEPT ![c] = StateAfter("connected")]
           t == Append(s.told, Call("connected", c))
           o == s.open \cup {c}
<1>1. s.handler = TRUE /\ s.http = TRUE /\ s.conn[c] = "none"
  BY ConnectionIs DEF Live
<1>2. r = [s EXCEPT !.open = o, !.conn = m, !.told = t]
  BY <1>1 DEF OnConnect, Tell, Check, ServerTypes, StateAfter
<1>3. "connected" \in ConnectionOps /\ Heard(s, c) \in Before("connected")
  BY DEF Live, ConnectionOps, Before
<1>4. t \in Seq(Calls) /\ m \in [Connections -> ConnStates] /\ o \in SUBSET Connections
  BY <1>3, HearsTypes DEF ServerTypes
<1>5. r.told = t /\ r.conn = m /\ r.open = o
  <2> HIDE DEF t, m, o
  <2> QED
    BY <1>2 DEF ServerTypes
<1>6. /\ r.thread = s.thread /\ r.refs = s.refs /\ r.handler = s.handler /\ r.http = s.http
      /\ r.bad = s.bad /\ r.now = <<>> /\ r.ht = s.ht /\ r.reply = s.reply /\ r.toUI = <<>>
  BY <1>2 DEF ServerTypes
<1>7. r \in ServerTypes
  <2> HIDE DEF t, m, o
  <2> QED
    BY <1>2, <1>4 DEF ServerTypes, ConnStates
<1>8. ClientHeard(s, r, "connected", c)
  BY <1>5, <1>6 DEF ClientHeard, Hears1
<1> QED
  BY <1>3, <1>6, <1>7, <1>8, NoPosts, ClientSteps

LEMMA OnCloseSteps ==
  ASSUME NEW s \in ServerTypes, ServerFits(s), s.http, NEW c \in Connections,
         s.toUI = <<>>, s.now = <<>>, c \in s.open,
         NEW r, r = OnClose([s EXCEPT !.open = @ \ {c}], c)
  PROVE  ClientStep(s, r)
<1> DEFINE m == [s.conn EXCEPT ![c] = StateAfter("disconnected")]
           t == Append(s.told, Call("disconnected", c))
           o == s.open \ {c}
<1>1. s.handler = TRUE /\ s.http = TRUE /\ s.conn[c] # "none" /\ Heard(s, c) \in Live
  BY ConnectionIs
<1>2. r = [s EXCEPT !.open = o, !.conn = m, !.told = t]
  BY <1>1 DEF OnClose, Tell, Check, ServerTypes, StateAfter
<1>3. "disconnected" \in ConnectionOps /\ Heard(s, c) \in Before("disconnected")
  BY <1>1 DEF Live, ConnectionOps, Before
<1>4. /\ t \in Seq(Calls) /\ m \in [Connections -> ConnStates] /\ o \in SUBSET Connections
  BY <1>3, HearsTypes DEF ServerTypes
<1>5. r.told = t /\ r.conn = m /\ r.open = o
  <2> HIDE DEF m, t, o
  <2> QED
    BY <1>2 DEF ServerTypes
<1>6. /\ r.thread = s.thread /\ r.refs = s.refs /\ r.handler = s.handler /\ r.http = s.http
      /\ r.bad = s.bad /\ r.now = s.now /\ r.ht = s.ht /\ r.reply = s.reply /\ r.toUI = s.toUI
  BY <1>2 DEF ServerTypes
<1>7. r \in ServerTypes
  <2> HIDE DEF m, t, o
  <2> QED
    BY <1>2, <1>4 DEF ServerTypes, ConnStates
<1>8. ClientHeard(s, r, "disconnected", c)
  BY <1>1, <1>5, <1>6 DEF ClientHeard, Hears1
<1> QED
  BY <1>1, <1>3, <1>5, <1>6, <1>7, <1>8, NoPosts, ClientSteps

LEMMA OnHttpRequestSteps ==
  ASSUME NEW s \in ServerTypes, ServerFits(s), s.http, NEW c \in Connections,
         s.toUI = <<>>, s.now = <<>>, c \in s.open, Heard(s, c) = "connected",
         NEW r, r = OnHttpRequest(s, c)
  PROVE  ClientStep(s, r)
<1> DEFINE m == [s.conn EXCEPT ![c] = StateAfter("request")]
           t == Append(s.told, Call("request", c))
           o == s.open \cup {c}
           n == <<Call("close", c)>>
<1>1. s.handler = TRUE /\ s.http = TRUE /\ s.conn[c] = "http" /\ Heard(s, c) = "connected" /\ c \in s.open
  BY ConnectionIs DEF StateAfter, Live
<1>9. s.conn = m /\ s.open = o
  BY <1>1 DEF ServerTypes, StateAfter
<1>2. r = [s EXCEPT !.told = t, !.now = n]
  <2>1. Check(Check(s, s.conn[c] # "none", "server_impl.cc:489"),
              s.conn[c] = "http", "server_impl.cc:494") = s
    BY <1>1 DEF Check, ServerTypes
  <2>2. r = Then(Tell(s, "request", c), "close", c)
    BY <1>1, <2>1 DEF OnHttpRequest
  <2>3. Tell(s, "request", c) = [s EXCEPT !.told = t]
    BY <1>1 DEF Tell, Check, ServerTypes
  <2>4. s.now = <<>> /\ Append(<<>>, Call("close", c)) = n
    OBVIOUS
  <2> HIDE DEF t, n
  <2> QED
    BY <2>2, <2>3, <2>4 DEF Then, ServerTypes
<1>3. "request" \in ConnectionOps /\ Heard(s, c) \in Before("request")
  BY <1>1 DEF Live, ConnectionOps, Before
<1>4. /\ t \in Seq(Calls) /\ m \in [Connections -> ConnStates] /\ o \in SUBSET Connections
      /\ n \in Seq(Calls)
  <2>1. Call("close", c) \in Calls
    BY CallsAre DEF CallOps, Ends
  <2>2. t \in Seq(Calls) /\ m \in [Connections -> ConnStates]
    BY <1>3, HearsTypes
  <2>3. o \in SUBSET Connections
    BY DEF ServerTypes
  <2> QED
    BY <2>1, <2>2, <2>3
<1>5. r.told = t /\ r.conn = m /\ r.open = o /\ r.now = n
  <2> HIDE DEF m, t, o, n
  <2> QED
    BY <1>2, <1>9 DEF ServerTypes
<1>6. /\ r.thread = s.thread /\ r.refs = s.refs /\ r.handler = s.handler /\ r.http = s.http
      /\ r.bad = s.bad /\ r.ht = s.ht /\ r.reply = s.reply /\ r.toUI = s.toUI
  BY <1>2 DEF ServerTypes
<1>7. r \in ServerTypes
  <2> HIDE DEF m, t, o, n
  <2> QED
    BY <1>2, <1>4 DEF ServerTypes, ConnStates
<1>8. ClientHeard(s, r, "request", c)
  BY <1>1, <1>5, <1>6 DEF ClientHeard, Hears1
<1> QED
  BY <1>1, <1>3, <1>5, <1>6, <1>7, <1>8, NoPosts, ClientSteps

LEMMA OnWebSocketMessageSteps ==
  ASSUME NEW s \in ServerTypes, ServerFits(s), s.http, NEW c \in Connections,
         s.toUI = <<>>, s.now = <<>>, c \in s.open, Heard(s, c) = "webSocketConnected",
         NEW r, r = OnWebSocketMessage(s, c)
  PROVE  ClientStep(s, r)
<1> DEFINE m == [s.conn EXCEPT ![c] = StateAfter("webSocketMessage")]
           t == Append(s.told, Call("webSocketMessage", c))
           o == s.open \cup {c}
<1>1. s.handler = TRUE /\ s.http = TRUE /\ s.conn[c] = "ws" /\ s.now = <<>> /\ c \in s.open
  BY ConnectionIs DEF StateAfter, Live
<1>9. s.conn = m /\ s.open = o
  BY <1>1 DEF ServerTypes, StateAfter
<1>2. r = [s EXCEPT !.told = t]
  BY <1>1 DEF OnWebSocketMessage, Tell, Check, ServerTypes, StateAfter
<1>3. "webSocketMessage" \in ConnectionOps /\ Heard(s, c) \in Before("webSocketMessage")
  BY <1>1 DEF Live, ConnectionOps, Before
<1>4. /\ t \in Seq(Calls) /\ m \in [Connections -> ConnStates] /\ o \in SUBSET Connections
  BY <1>3, HearsTypes DEF ServerTypes
<1>5. r.told = t /\ r.conn = m /\ r.open = o
  <2> HIDE DEF m, t, o
  <2> QED
    BY <1>2, <1>9 DEF ServerTypes
<1>6. /\ r.thread = s.thread /\ r.refs = s.refs /\ r.handler = s.handler /\ r.http = s.http
      /\ r.bad = s.bad /\ r.now = s.now /\ r.ht = s.ht /\ r.reply = s.reply /\ r.toUI = s.toUI
  BY <1>2 DEF ServerTypes
<1>7. r \in ServerTypes
  <2> HIDE DEF m, t, o
  <2> QED
    BY <1>2, <1>4 DEF ServerTypes, ConnStates
<1>8. ClientHeard(s, r, "webSocketMessage", c)
  BY <1>1, <1>5, <1>6 DEF ClientHeard, Hears1
<1> QED
  BY <1>1, <1>3, <1>5, <1>6, <1>7, <1>8, NoPosts, ClientSteps

\* The tasks that a use of the callback becomes.
LEMMA UsesArePosted ==
  ASSUME NEW c \in Connections, NEW used \in Seq(BOOLEAN), NEW u,
         u = [k \in DOMAIN used |-> Task("use", c, used[k])] \o <<Task("use", c, FALSE)>>
  PROVE  u \in Seq(Tasks) /\ \A k \in 1 .. Len(u) : u[k].op = "use" /\ u[k].c \in Connections
<1> DEFINE v == [k \in DOMAIN used |-> Task("use", c, used[k])]
           x == Task("use", c, FALSE)
           w == <<x>>
<1>1. \A b \in BOOLEAN : Task("use", c, b) \in Tasks
  BY DEF Task, Tasks, Ends
<1>2. \A b : Task("use", c, b).op = "use" /\ Task("use", c, b).c = c
  BY DEF Task
<1>3. DOMAIN used = 1 .. Len(used) /\ Len(used) \in Nat /\ \A k \in 1 .. Len(used) : used[k] \in BOOLEAN
  OBVIOUS
<1>4. v \in Seq(Tasks) /\ Len(v) = Len(used)
  <2>1. v \in [1 .. Len(used) -> Tasks]
    BY <1>1, <1>3
  <2> HIDE DEF v
  <2> QED
    BY <1>3, <2>1
<1>5. \A k \in 1 .. Len(v) : v[k].op = "use" /\ v[k].c = c
  BY <1>2, <1>3, <1>4
<1>6. w \in Seq(Tasks) /\ Len(w) = 1 /\ w[1].op = "use" /\ w[1].c = c
  <2>1. x \in Tasks /\ x.op = "use" /\ x.c = c
    BY DEF Task, Tasks, Ends
  <2> HIDE DEF x
  <2> QED
    BY <2>1
<1>7. u = v \o w
  OBVIOUS
<1> HIDE DEF v, w
<1>8. /\ u \in Seq(Tasks) /\ Len(u) = Len(v) + 1
      /\ \A k \in 1 .. Len(u) : u[k] = IF k <= Len(v) THEN v[k] ELSE w[k - Len(v)]
  <2>1. /\ v \o w \in Seq(Tasks) /\ Len(v \o w) = Len(v) + Len(w)
        /\ \A k \in 1 .. Len(v) + Len(w) :
             (v \o w)[k] = IF k <= Len(v) THEN v[k] ELSE w[k - Len(v)]
    BY <1>4, <1>6, ConcatProperties, Zenon
  <2> QED
    BY <1>6, <1>7, <2>1
<1>9. ASSUME NEW k \in 1 .. Len(u) PROVE u[k].op = "use" /\ u[k].c \in Connections
  <2>1. CASE k <= Len(v)
    <3>1. k \in 1 .. Len(v)
      BY <1>4, <2>1
    <3> QED
      BY <1>5, <1>8, <2>1, <3>1
  <2>2. CASE ~(k <= Len(v))
    <3>1. k - Len(v) = 1
      BY <1>3, <1>4, <1>8, <2>2
    <3> QED
      BY <1>6, <1>8, <2>2, <3>1
  <2> QED
    BY <2>1, <2>2
<1> QED
  BY <1>8, <1>9

LEMMA OnWebSocketRequestSteps ==
  ASSUME NEW s \in ServerTypes, ServerFits(s), s.http, NEW c \in Connections,
         s.toUI = <<>>, s.now = <<>>, c \in s.open, Heard(s, c) = "connected",
         NEW reply \in Replies, NEW r, r = OnWebSocketRequest(s, c, reply)
  PROVE  ClientStep(s, r)
<1> DEFINE m == [s.conn EXCEPT ![c] = StateAfter("webSocketRequest")]
           t == Append(s.told, Call("webSocketRequest", c))
           o == s.open \cup {c}
           y == s.reply \cup {c}
           used == CASE reply = "continue" -> <<TRUE>>
                     [] reply = "cancel"   -> <<FALSE>>
                     [] reply = "both"     -> <<TRUE, FALSE>>
                     [] reply = "release"  -> <<>>
           u == [k \in DOMAIN used |-> Task("use", c, used[k])] \o <<Task("use", c, FALSE)>>
<1>1. /\ s.handler = TRUE /\ s.http = TRUE /\ s.conn[c] = "http" /\ Heard(s, c) = "connected"
      /\ c \in s.open
  BY ConnectionIs DEF StateAfter, Live
<1>2. r = [s EXCEPT !.conn = m, !.told = t, !.reply = y, !.toUI = u]
  <2>1. Check(Check(s, s.conn[c] # "none", "server_impl.cc:506"),
              s.conn[c] = "http", "server_impl.cc:511") = s
    BY <1>1 DEF Check, ServerTypes
  <2>2. r = Tell([s EXCEPT !.conn[c] = "pending", !.reply = y, !.toUI = u], "webSocketRequest", c)
    BY <1>1, <2>1 DEF OnWebSocketRequest
  <2> HIDE DEF u, y
  <2>3. [s EXCEPT !.conn[c] = "pending", !.reply = y, !.toUI = u]
          = [s EXCEPT !.conn = m, !.reply = y, !.toUI = u]
    BY DEF ServerTypes, StateAfter
  <2> HIDE DEF m
  <2> DEFINE q == [s EXCEPT !.conn = m, !.reply = y, !.toUI = u]
  <2>4. q.handler = TRUE /\ q.told = s.told
    BY <1>1 DEF ServerTypes
  <2>5. Tell(q, "webSocketRequest", c) = [q EXCEPT !.told = t]
    BY <2>4 DEF Tell, Check, ServerTypes
  <2> HIDE DEF t
  <2>6. [q EXCEPT !.told = t] = [s EXCEPT !.conn = m, !.told = t, !.reply = y, !.toUI = u]
    BY DEF ServerTypes
  <2> QED
    BY <2>2, <2>3, <2>5, <2>6
<1>3. "webSocketRequest" \in ConnectionOps /\ Heard(s, c) \in Before("webSocketRequest")
  BY <1>1 DEF Live, ConnectionOps, Before
<1>4. /\ t \in Seq(Calls) /\ m \in [Connections -> ConnStates] /\ o = s.open
      /\ y \in SUBSET Connections
  BY <1>1, <1>3, HearsTypes DEF ServerTypes
<1>5. u \in Seq(Tasks) /\ \A k \in 1 .. Len(u) : u[k].op = "use" /\ u[k].c \in Connections
  <2>1. used \in Seq(BOOLEAN)
    <3>1. reply \in {"continue", "cancel", "both", "release"}
      BY ServerAssumption
    <3>2. <<TRUE>> \in Seq(BOOLEAN) /\ <<FALSE>> \in Seq(BOOLEAN)
          /\ <<TRUE, FALSE>> \in Seq(BOOLEAN) /\ <<>> \in Seq(BOOLEAN)
      OBVIOUS
    <3> QED
      BY <3>1, <3>2
  <2> HIDE DEF used
  <2> QED
    BY <2>1, UsesArePosted
<1>6. r.told = t /\ r.conn = m /\ r.open = o /\ r.reply = y /\ r.toUI = u
  <2> HIDE DEF m, t, y, u
  <2> QED
    BY <1>2, <1>4 DEF ServerTypes
<1>7. /\ r.thread = s.thread /\ r.refs = s.refs /\ r.handler = s.handler /\ r.http = s.http
      /\ r.bad = s.bad /\ r.now = s.now /\ r.ht = s.ht
  <2> HIDE DEF m, t, y, u
  <2> QED
    BY <1>2 DEF ServerTypes
<1>8. r \in ServerTypes
  <2> HIDE DEF m, t, y, u
  <2> QED
    BY <1>2, <1>4, <1>5, ZenonT(60) DEF ServerTypes, ConnStates
<1>9. ClientHeard(s, r, "webSocketRequest", c)
  BY <1>6, <1>7 DEF ClientHeard, Hears1
<1>10. PostsUses(r)
  <2> HIDE DEF u
  <2> QED
    BY <1>5, <1>6 DEF PostsUses
<1> QED
  BY <1>3, <1>6, <1>8, <1>9, <1>10, ClientSteps

-----------------------------------------------------------------------------
(* Steps that tell the handler nothing.                                      *)

QuietStep(s, r) ==
  /\ r.told = s.told /\ r.now = s.now
  /\ r.http = s.http /\ r.open = s.open /\ r.conn = s.conn

LEMMA QuietKeeps ==
  ASSUME NEW s \in ServerTypes, NEW r \in ServerTypes, ServerFits(s), s.told # <<>>,
         QuietStep(s, r),
         r.handler = s.handler \/ End(s) = "destroyed",
         r.thread # "none", r.refs = IF r.thread = "running" THEN 1 ELSE 0,
         r.bad \subseteq {"server_impl.cc:376"},
         \A k \in 1 .. Len(r.ht) : r.ht[k].op \in {"shutdown", "answer"},
         AnswersFit(r)
  PROVE  ServerFits(r) /\ \A c : Heard(r, c) = Heard(s, c)
<1>1. \A c : Heard(r, c) = Heard(s, c)
  BY DEF Heard, QuietStep
<1>2. End(r) = End(s)
  BY <1>1 DEF End
<1>3. \A c : Leaving(r, c) <=> Leaving(s, c)
  BY DEF Leaving, QuietStep
<1>4. EndsFit(r)
  <2>1. EndsFit(s)
    BY DEF ServerFits
  <2>2. ~r.handler => End(s) = "destroyed"
    BY <2>1 DEF EndsFit
  <2> QED
    BY <1>2, <2>1, <2>2 DEF EndsFit, QuietStep
<1>5. ConnectionsFit(r)
  BY <1>1, <1>3 DEF ServerFits, ConnectionsFit, QuietStep
<1>6. TaskFits(r)
  BY <1>1, <1>2 DEF ServerFits, TaskFits, QuietStep
<1> QED
  BY <1>1, <1>4, <1>5, <1>6 DEF ServerFits

\* A task of the handler thread that finds nothing to do.
LEMMA TaskDropped ==
  ASSUME NEW s \in ServerTypes, NEW r \in ServerTypes, ServerFits(s), s.told # <<>>,
         QuietStep(s, r), r.handler = s.handler, r.thread = s.thread, r.refs = s.refs,
         r.reply = s.reply, r.bad \subseteq {"server_impl.cc:376"}, r.toUI = <<>>,
         r.ht = s.ht \/ (s.ht # <<>> /\ r.ht = Tail(s.ht))
  PROVE  ClientStep(s, r) /\ \A c : Heard(r, c) = Heard(s, c)
<1>1. \A k \in 1 .. Len(r.ht) : \E j \in 1 .. Len(s.ht) : r.ht[k] = s.ht[j]
  <2>1. r.ht = s.ht \/ (s.ht # <<>> /\ r.ht = Tail(s.ht))
    OBVIOUS
  <2>9. FewerTasks(s, r)
    BY <2>1, TasksLeave
  <2> QED
    BY <2>9 DEF FewerTasks
<1>2. \A k \in 1 .. Len(r.ht) : r.ht[k].op \in {"shutdown", "answer"}
  <2>1. \A k \in 1 .. Len(s.ht) : s.ht[k].op \in {"shutdown", "answer"}
    BY DEF ServerFits, EndsFit
  <2> QED
    BY <1>1, <2>1
<1>3. AnswersFit(r)
  <2>1. \A c : Asked(s, c) => Asked(r, c)
    BY DEF Asked, Heard, QuietStep
  <2>2. ~Asked(s, NoConnection) => NoAnswers(s, NoConnection)
    BY AskedHasAnswers DEF ServerFits
  <2>3. NoAnswers(s, NoConnection) => NoAnswers(r, NoConnection)
    BY <1>1 DEF NoAnswers, IsAnswer
  <2>4. Asked(r, NoConnection) \/ NoAnswers(r, NoConnection)
    BY <2>1, <2>2, <2>3
  <2> QED
    BY <2>1, <2>4, AnswersKept DEF ServerFits
<1>4. r.thread # "none" /\ r.refs = IF r.thread = "running" THEN 1 ELSE 0
  BY DEF ServerFits, EndsFit
<1>5. ServerFits(r) /\ \A c : Heard(r, c) = Heard(s, c)
  BY <1>2, <1>3, <1>4, QuietKeeps
<1>6. End(r) = End(s)
  BY <1>5 DEF End
<1> QED
  BY <1>1, <1>5, <1>6, NoPosts DEF ClientStep, QuietStep

\* r is y without a connection, which the handler heard of.
Closed1(y, r, c) ==
  /\ r \in ServerTypes
  /\ r.told = Append(y.told, Call("disconnected", c))
  /\ r.conn = [y.conn EXCEPT ![c] = "none"] /\ r.open = y.open \ {c}
  /\ r.thread = y.thread /\ r.refs = y.refs /\ r.handler = y.handler /\ r.http = y.http
  /\ r.bad = y.bad /\ r.now = y.now /\ r.reply = y.reply /\ r.toUI = y.toUI
  /\ r.ht = y.ht

LEMMA CloseIs ==
  ASSUME NEW y \in ServerTypes, NEW c \in Connections, y.handler = TRUE, c \in y.open,
         y.conn[c] # "none", NEW r, r = Close(y, c)
  PROVE  Closed1(y, r, c)
<1> DEFINE o == y.open \ {c}
           m == [y.conn EXCEPT ![c] = "none"]
           t == Append(y.told, Call("disconnected", c))
           z == [y EXCEPT !.open = o]
           x == [z EXCEPT !.conn = m]
<1>1. o \in SUBSET Connections /\ m \in [Connections -> ConnStates]
  BY DEF ServerTypes, ConnStates
<1>2. t \in Seq(Calls)
  <2>1. Call("disconnected", c) \in Calls
    BY CallsAre DEF CallOps, Ends
  <2> QED
    BY <2>1 DEF ServerTypes
<1>3. r = OnClose(z, c)
  BY DEF Close
<1> HIDE DEF o
<1>4. /\ z.handler = TRUE /\ z.conn = y.conn /\ z.open = o /\ z.thread = y.thread
      /\ z.refs = y.refs /\ z.http = y.http /\ z.bad = y.bad /\ z.now = y.now
      /\ z.reply = y.reply /\ z.toUI = y.toUI /\ z.ht = y.ht /\ z.told = y.told
  BY DEF ServerTypes
<1>5. z \in ServerTypes
  BY <1>1 DEF ServerTypes
<1> HIDE DEF z
<1>6. r = [z EXCEPT !.conn = m, !.told = t]
  <2>1. Check(z, z.conn[c] # "none", "server_impl.cc:693") = z
    BY <1>4, <1>5 DEF Check, ServerTypes
  <2>2. [z EXCEPT !.conn[c] = "none"] = x
    BY <1>4, <1>5 DEF ServerTypes
  <2>3. r = Tell(x, "disconnected", c)
    BY <1>3, <2>1, <2>2 DEF OnClose
  <2> HIDE DEF m
  <2>4. x.handler = TRUE /\ x.told = y.told
    BY <1>4, <1>5 DEF ServerTypes
  <2>5. Tell(x, "disconnected", c) = [x EXCEPT !.told = t]
    BY <1>5, <2>4 DEF Tell, Check, ServerTypes
  <2> HIDE DEF t
  <2>6. [x EXCEPT !.told = t] = [z EXCEPT !.conn = m, !.told = t]
    BY <1>5 DEF ServerTypes
  <2> QED
    BY <2>3, <2>5, <2>6
<1> HIDE DEF m, t
<1>7. r.told = t /\ r.conn = m /\ r.open = o
  BY <1>4, <1>5, <1>6 DEF ServerTypes
<1>8. /\ r.thread = y.thread /\ r.refs = y.refs /\ r.handler = y.handler /\ r.http = y.http
      /\ r.bad = y.bad /\ r.now = y.now /\ r.reply = y.reply /\ r.toUI = y.toUI
      /\ r.ht = y.ht
  BY <1>4, <1>5, <1>6 DEF ServerTypes
<1>9. r \in ServerTypes
  BY <1>1, <1>2, <1>5, <1>6 DEF ServerTypes, ConnStates
<1> QED
  BY <1>7, <1>8, <1>9 DEF m, o, t, Closed1

LEMMA DeniedIs ==
  ASSUME NEW y \in ServerTypes, NEW c \in Connections, y.handler = TRUE, c \in y.open,
         NEW r, r = Close([y EXCEPT !.conn[c] = "ws"], c)
  PROVE  Closed1(y, r, c)
<1> DEFINE w == [y.conn EXCEPT ![c] = "ws"]
           q == [y EXCEPT !.conn = w]
<1>1. w \in [Connections -> ConnStates] /\ w[c] = "ws"
      /\ [w EXCEPT ![c] = "none"] = [y.conn EXCEPT ![c] = "none"]
  BY DEF ServerTypes, ConnStates
<1>2. r = Close(q, c)
  <2>1. [y EXCEPT !.conn[c] = "ws"] = q
    BY DEF ServerTypes
  <2> QED
    BY <2>1
<1> HIDE DEF w
<1>3. /\ q.handler = TRUE /\ q.conn = w /\ q.open = y.open /\ q.thread = y.thread
      /\ q.refs = y.refs /\ q.http = y.http /\ q.bad = y.bad /\ q.now = y.now
      /\ q.reply = y.reply /\ q.toUI = y.toUI /\ q.ht = y.ht /\ q.told = y.told
  BY DEF ServerTypes
<1>4. q \in ServerTypes
  BY <1>1 DEF ServerTypes, ConnStates
<1> HIDE DEF q
<1>5. Closed1(q, r, c)
  BY <1>1, <1>2, <1>3, <1>4, CloseIs
<1>6. /\ r \in ServerTypes
      /\ r.told = Append(q.told, Call("disconnected", c))
      /\ r.conn = [q.conn EXCEPT ![c] = "none"] /\ r.open = q.open \ {c}
      /\ r.thread = q.thread /\ r.refs = q.refs /\ r.handler = q.handler /\ r.http = q.http
      /\ r.bad = q.bad /\ r.now = q.now /\ r.reply = q.reply /\ r.toUI = q.toUI
      /\ r.ht = q.ht
  BY <1>5 DEF Closed1
<1>7. q.handler = y.handler
  BY <1>3
<1> QED
  BY <1>1, <1>3, <1>6, <1>7 DEF Closed1
\* A connection gets a state, and the handler a call.
ToldOnly(y, r, m, t) == r = [y EXCEPT !.conn = m, !.told = t]

LEMMA ToldFits ==
  ASSUME NEW y \in ServerTypes, NEW m \in [Connections -> ConnStates], NEW t \in Seq(Calls),
         NEW r, ToldOnly(y, r, m, t)
  PROVE  r \in ServerTypes
<1>1. m \in [Connections -> {"none", "http", "pending", "ws"}]
  BY DEF ConnStates
<1> QED
  BY <1>1 DEF ToldOnly, ServerTypes

LEMMA ContinueSteps ==
  ASSUME NEW s \in ServerTypes, ServerFits(s), s.toUI = <<>>, s.now = <<>>, s.ht # <<>>,
         Head(s.ht).op = "answer", NEW r,
         r = ContinueWebSocketRequest([s EXCEPT !.ht = Tail(@)], Head(s.ht).c, Head(s.ht).allow)
  PROVE  ClientStep(s, r)
<1> DEFINE c == Head(s.ht).c
           allow == Head(s.ht).allow
           h == Tail(s.ht)
           y == [s EXCEPT !.ht = h]
<1>1. /\ s.ht \in Seq(Tasks) /\ h \in Seq(Tasks) /\ Head(s.ht) = s.ht[1] /\ 1 \in 1 .. Len(s.ht)
      /\ Len(h) = Len(s.ht) - 1 /\ \A k \in 1 .. Len(h) : h[k] = s.ht[k + 1] /\ k + 1 \in 1 .. Len(s.ht)
  BY DEF ServerTypes
<1>2. IsAnswer(s, 1) /\ s.ht[1].c = c
  BY <1>1 DEF IsAnswer
<1>3. c \in Connections /\ Asked(s, c) /\ c \notin s.reply
  BY <1>1, <1>2 DEF ServerFits, AnswersFit
<1>4. \A k \in 1 .. Len(h) : h[k].op = "answer" => h[k].c # c
  <2>1. SUFFICES ASSUME NEW k \in 1 .. Len(h), h[k].op = "answer", h[k].c = c PROVE FALSE
    OBVIOUS
  <2>2. IsAnswer(s, k + 1) /\ s.ht[k + 1].c = s.ht[1].c
    BY <1>1, <1>2, <2>1 DEF IsAnswer
  <2>3. k + 1 = 1
    BY <1>1, <1>2, <2>2 DEF ServerFits, AnswersFit
  <2> QED
    BY <2>3
<1>5. s.told # <<>>
  <2>1. s # NewServer
    BY FirstFields
  <2>2. s # Started
    BY FirstFields DEF ServerTask, Task
  <2> QED
    BY <2>1, <2>2 DEF ServerFits, EndsFit
<1>6. allow \in BOOLEAN
  <2>1. s.ht[1] \in Tasks
    BY <1>1
  <2> QED
    BY <1>1, <2>1 DEF Tasks
<1>7. r = ContinueWebSocketRequest(y, c, allow)
  OBVIOUS
<1> HIDE DEF c, allow
<1>8. y \in ServerTypes
  BY <1>1 DEF ServerTypes
<1>9. /\ y.thread = s.thread /\ y.refs = s.refs /\ y.handler = s.handler /\ y.http = s.http
      /\ y.bad = s.bad /\ y.now = s.now /\ y.reply = s.reply /\ y.toUI = s.toUI
      /\ y.told = s.told /\ y.conn = s.conn /\ y.open = s.open /\ y.ht = h
  BY DEF ServerTypes
<1> HIDE DEF y, h
<1>10. CASE ~s.http
  <2>1. r = y
    BY <1>7, <1>9, <1>10 DEF ContinueWebSocketRequest
  <2>2. r.bad \subseteq {"server_impl.cc:376"}
    BY <1>9, <2>1 DEF ServerFits, EndsFit
  <2> QED
    BY <1>5, <1>8, <1>9, <2>1, <2>2, TaskDropped DEF QuietStep, h
<1>11. CASE s.http /\ s.conn[c] # "pending"
  <2>1. s.conn[c] = "none" /\ s.http = TRUE
    BY <1>3, <1>11 DEF Asked, ServerTypes
  <2>2. r = [y EXCEPT !.bad = @ \cup {"server_impl.cc:376"}]
    BY <1>7, <1>8, <1>9, <2>1, ZenonT(60) DEF ContinueWebSocketRequest, Check, ServerTypes
  <2>3. r \in ServerTypes
    <3> DEFINE b == y.bad \cup {"server_impl.cc:376"}
    <3>1. r = [y EXCEPT !.bad = b]
      BY <2>2
    <3>2. y.bad \in SUBSET {"server_impl.cc:376"}
      BY <1>8 DEF ServerTypes
    <3>3. b \in SUBSET {"server_impl.cc:376"}
      BY <3>2
    <3> HIDE DEF b
    <3> QED
      BY <1>8, <3>1, <3>3 DEF ServerTypes
  <2>4. /\ r.thread = s.thread /\ r.refs = s.refs /\ r.handler = s.handler /\ r.http = s.http
        /\ r.now = s.now /\ r.reply = s.reply /\ r.toUI = s.toUI
        /\ r.told = s.told /\ r.conn = s.conn /\ r.open = s.open /\ r.ht = h
    BY <1>8, <1>9, <2>2 DEF ServerTypes
  <2>5. r.bad \subseteq {"server_impl.cc:376"}
    <3>1. r.bad = y.bad \cup {"server_impl.cc:376"}
      BY <1>8, <2>2 DEF ServerTypes
    <3> QED
      BY <1>9, <3>1 DEF ServerFits, EndsFit
  <2> QED
    BY <1>5, <2>3, <2>4, <2>5, TaskDropped DEF QuietStep, h
<1>12. CASE s.http /\ s.conn[c] = "pending"
  <2>1. /\ s.handler = TRUE /\ s.http = TRUE /\ c \in s.open
        /\ Heard(s, c) = "webSocketRequest"
    BY <1>3, <1>12, ConnectionIs DEF StateAfter, Live
  <2>2. Check(Check(y, y.conn[c] # "none", "server_impl.cc:376"),
              y.conn[c] \in {"none", "pending"}, "server_impl.cc:382") = y
    BY <1>8, <1>9, <1>12 DEF Check, ServerTypes
  <2>3. CASE allow
    <3> DEFINE m == [s.conn EXCEPT ![c] = StateAfter("webSocketConnected")]
               t == Append(s.told, Call("webSocketConnected", c))
    <3>1. allow = TRUE
      BY <1>6, <2>3
    <3>2. r = Tell([y EXCEPT !.conn[c] = "ws"], "webSocketConnected", c)
      BY <1>7, <1>9, <1>12, <2>1, <2>2, <3>1 DEF ContinueWebSocketRequest
    <3>3. r = [y EXCEPT !.conn = m, !.told = t]
      <4> DEFINE q == [y EXCEPT !.conn = m]
      <4>1. [y EXCEPT !.conn[c] = "ws"] = q
        BY <1>8, <1>9 DEF ServerTypes, StateAfter
      <4> HIDE DEF m
      <4>2. q.handler = TRUE /\ q.told = s.told
        BY <1>8, <1>9, <2>1 DEF ServerTypes
      <4>3. Tell(q, "webSocketConnected", c) = [q EXCEPT !.told = t]
        BY <1>8, <4>2 DEF Tell, Check, ServerTypes
      <4> HIDE DEF t
      <4>4. [q EXCEPT !.told = t] = [y EXCEPT !.conn = m, !.told = t]
        BY <1>8 DEF ServerTypes
      <4> QED
        BY <3>2, <4>1, <4>3, <4>4
    <3>4. "webSocketConnected" \in ConnectionOps /\ Heard(s, c) \in Before("webSocketConnected")
      BY <2>1 DEF Live, ConnectionOps, Before
    <3>5. t \in Seq(Calls) /\ m \in [Connections -> ConnStates]
      BY <1>3, <3>4, HearsTypes
    <3>6. r.told = t /\ r.conn = m
      <4> HIDE DEF m, t
      <4> QED
        BY <1>8, <3>3 DEF ServerTypes
    <3>7. /\ r.thread = y.thread /\ r.refs = y.refs /\ r.handler = y.handler /\ r.http = y.http
          /\ r.bad = y.bad /\ r.now = y.now /\ r.reply = y.reply /\ r.toUI = y.toUI
          /\ r.open = y.open /\ r.ht = h
      <4> HIDE DEF m, t
      <4>1. /\ r.thread = y.thread /\ r.refs = y.refs /\ r.handler = y.handler /\ r.http = y.http
            /\ r.bad = y.bad /\ r.now = y.now /\ r.reply = y.reply /\ r.toUI = y.toUI
            /\ r.open = y.open /\ r.ht = y.ht
        BY <1>8, <3>3 DEF ServerTypes
      <4> QED
        BY <1>9, <4>1
    <3>8. r \in ServerTypes
      <4> HIDE DEF m, t
      <4>1. ToldOnly(y, r, m, t)
        BY <3>3 DEF ToldOnly
      <4> QED
        BY <1>8, <3>5, <4>1, ToldFits
    <3>9. ClientHeard(s, r, "webSocketConnected", c)
      <4>1. s.open \cup {c} = s.open /\ r.ht = Tail(s.ht)
        BY <1>9, <2>1, <3>7 DEF h
      <4> QED
        BY <1>9, <3>6, <3>7, <4>1 DEF ClientHeard, Hears1
    <3>10. NoAnswers(r, c)
      BY <1>3, <1>4, <1>9, <3>7 DEF NoAnswers, IsAnswer
    <3> QED
      BY <1>3, <1>9, <2>1, <3>4, <3>7, <3>8, <3>9, <3>10, NoPosts, ClientSteps
  <2>4. CASE ~allow
    <3> DEFINE m == [s.conn EXCEPT ![c] = StateAfter("disconnected")]
               t == Append(s.told, Call("disconnected", c))
               o == s.open \ {c}
    <3>1. allow = FALSE
      BY <1>6, <2>4
    <3>2. r = Close([y EXCEPT !.conn[c] = "ws"], c)
      BY <1>7, <1>9, <1>12, <2>1, <2>2, <3>1 DEF ContinueWebSocketRequest
    <3>4. "disconnected" \in ConnectionOps /\ Heard(s, c) \in Before("disconnected")
      BY <2>1 DEF Live, ConnectionOps, Before
    <3>5. Closed1(y, r, c)
      <4>1. y.handler = TRUE /\ c \in y.open
        BY <1>9, <2>1
      <4> QED
        BY <1>3, <1>8, <3>2, <4>1, DeniedIs, Zenon
    <3>6. /\ r \in ServerTypes
          /\ r.told = Append(y.told, Call("disconnected", c))
          /\ r.conn = [y.conn EXCEPT ![c] = "none"] /\ r.open = y.open \ {c}
          /\ r.thread = y.thread /\ r.refs = y.refs /\ r.handler = y.handler /\ r.http = y.http
          /\ r.bad = y.bad /\ r.now = y.now /\ r.reply = y.reply /\ r.toUI = y.toUI
          /\ r.ht = y.ht
      BY <3>5 DEF Closed1
    <3>7. r.told = t /\ r.conn = m /\ r.open = o /\ r.ht = h
      BY <1>9, <3>6 DEF StateAfter
    <3>9. ClientHeard(s, r, "disconnected", c)
      <4>1. r.ht = Tail(s.ht)
        BY <3>7 DEF h
      <4> QED
        BY <1>9, <3>6, <3>7, <4>1 DEF ClientHeard, Hears1
    <3> QED
      BY <1>3, <1>9, <2>1, <3>4, <3>6, <3>7, <3>9, NoPosts, ClientSteps, ZenonT(60)
  <2> QED
    BY <2>3, <2>4
<1> QED
  BY <1>10, <1>11, <1>12

\* The connection of a request that was answered is closed.
LEMMA CloseSteps ==
  ASSUME NEW s \in ServerTypes, ServerFits(s), s.toUI = <<>>, s.now # <<>>,
         Head(s.now).op = "close", NEW r, r = Proceed(s)
  PROVE  ClientStep(s, r)
<1>1. s.now \in Seq(Calls)
  BY DEF ServerTypes
<1>2. PICK c \in Connections :
        s.now = <<Call("close", c)>> /\ s.http /\ c \in s.open /\ s.conn[c] = "http"
  <2>1. CASE \E c \in Connections :
               s.now = <<Call("close", c)>> /\ s.http /\ c \in s.open /\ s.conn[c] = "http"
    BY <2>1
  <2>2. CASE /\ s.now[Len(s.now)] = Call("destroyed", NoConnection)
             /\ \A k \in 1 .. Len(s.now) - 1 :
                  \E c \in Connections : s.now[k] = Call("disconnected", c)
    <3>1. Head(s.now) = s.now[1] /\ Len(s.now) \in Nat \ {0}
      BY <1>1
    <3>2. CASE Len(s.now) = 1
      <4>1. s.now[1].op = "destroyed"
        BY <2>2, <3>2 DEF Call
      <4> QED
        BY <3>1, <4>1
    <3>3. CASE Len(s.now) # 1
      <4>1. 1 \in 1 .. Len(s.now) - 1
        <5> DEFINE n == Len(s.now)
        <5>1. n \in Nat /\ n # 0 /\ n # 1
          BY <3>1, <3>3
        <5> HIDE DEF n
        <5>2. 1 \in 1 .. n - 1
          BY <5>1
        <5> QED
          BY <5>2 DEF n
      <4>2. PICK d \in Connections : s.now[1] = Call("disconnected", d)
        BY <2>2, <4>1
      <4>3. s.now[1].op = "disconnected"
        BY <4>2 DEF Call
      <4> QED
        BY <3>1, <4>3
    <3> QED
      BY <3>2, <3>3
  <2> QED
    BY <2>1, <2>2 DEF ServerFits, TaskFits
<1>3. Head(s.now) = Call("close", c) /\ Tail(s.now) = <<>> /\ Call("close", c).c = c
      /\ Call("close", c).op = "close"
  BY <1>2 DEF Call
<1> DEFINE e == <<>>
           y == [s EXCEPT !.now = e]
<1>4. s.handler = TRUE /\ s.http = TRUE /\ Heard(s, c) \in Live
  BY <1>2, ConnectionIs
<1>5. y \in ServerTypes
  <2>1. e \in Seq(Calls)
    OBVIOUS
  <2> HIDE DEF e
  <2> QED
    BY <2>1 DEF ServerTypes
<1>6. /\ y.thread = s.thread /\ y.refs = s.refs /\ y.handler = s.handler /\ y.http = s.http
      /\ y.bad = s.bad /\ y.now = <<>> /\ y.reply = s.reply /\ y.toUI = s.toUI
      /\ y.told = s.told /\ y.conn = s.conn /\ y.open = s.open /\ y.ht = s.ht
  BY DEF ServerTypes
<1>7. r = CloseConnection(y, c)
  BY <1>3 DEF Proceed
<1> HIDE DEF y
<1>8. r = Close(y, c)
  BY <1>2, <1>4, <1>6, <1>7 DEF CloseConnection
<1>9. Closed1(y, r, c)
  <2>1. y.handler = TRUE /\ c \in y.open /\ y.conn[c] # "none"
    BY <1>2, <1>4, <1>6
  <2> QED
    BY <1>5, <1>8, <2>1, CloseIs
<1>10. /\ r \in ServerTypes
       /\ r.told = Append(y.told, Call("disconnected", c))
       /\ r.conn = [y.conn EXCEPT ![c] = "none"] /\ r.open = y.open \ {c}
       /\ r.thread = y.thread /\ r.refs = y.refs /\ r.handler = y.handler /\ r.http = y.http
       /\ r.bad = y.bad /\ r.now = y.now /\ r.reply = y.reply /\ r.toUI = y.toUI
       /\ r.ht = y.ht
  BY <1>9 DEF Closed1
<1>11. "disconnected" \in ConnectionOps /\ Heard(s, c) \in Before("disconnected")
  BY <1>4 DEF ConnectionOps, Before
<1>12. ClientHeard(s, r, "disconnected", c)
  <2>1. r.told = Append(s.told, Call("disconnected", c))
        /\ r.conn = [s.conn EXCEPT ![c] = StateAfter("disconnected")]
        /\ r.open = s.open \ {c}
    BY <1>6, <1>10 DEF StateAfter
  <2> QED
    BY <1>6, <1>10, <2>1 DEF ClientHeard, Hears1
<1> QED
  BY <1>2, <1>4, <1>6, <1>10, <1>11, <1>12, NoPosts, ClientSteps

-----------------------------------------------------------------------------
(* Every step that a server takes once it was started.                       *)

Tells(s, r) ==
  \/ r.told = s.told
  \/ \E op \in ConnectionOps, c \in Connections : Hears1(s, r, op, c) /\ MayHear(s, op, c)
  \/ \E op \in {"created", "failed"} :
       Hears1(s, r, op, NoConnection) /\ s.told = <<>> /\ r.http = (op = "created")
  \/ /\ Hears1(s, r, "destroyed", NoConnection) /\ End(s) \in {"created", "failed"}
     /\ \A c \in Connections : Heard(s, c) \in {"none", "disconnected"}

ServerStep(s, r) ==
  /\ r \in ServerTypes /\ ServerFits(r)
  /\ s # NewServer /\ r.told # <<>>
  /\ Tells(s, r)
  /\ \A k \in 1 .. Len(r.ht) :
       r.ht[k].op = "answer" \/ \E j \in 1 .. Len(s.ht) : r.ht[k] = s.ht[j]
  /\ s.http => r.http \/ \E j \in 1 .. Len(s.ht) : s.ht[j].op = "shutdown"
  /\ r.http => s.http \/ s.told = <<>>
  /\ \A k \in 1 .. Len(r.toUI) :
       \/ r.toUI[k].op = "use" /\ r.toUI[k].c \in Connections
       \/ r.toUI[k].op = "shutdown" /\ End(r) = "destroyed"

LEMMA QueueIs ==
  ASSUME NEW S, NEW q \in Seq(S), q # <<>>
  PROVE  /\ Head(q) = q[1] /\ Len(q) \in Nat /\ Len(q) >= 1
         /\ Tail(q) \in Seq(S) /\ Len(Tail(q)) = Len(q) - 1
         /\ \A k \in 1 .. Len(q) - 1 : Tail(q)[k] = q[k + 1]
OBVIOUS

LEMMA EmptyIs ==
  ASSUME NEW S, NEW q \in Seq(S)
  PROVE  q = <<>> <=> Len(q) = 0
OBVIOUS

LEMMA ClientStepsAreSteps ==
  ASSUME NEW s \in ServerTypes, NEW r, ClientStep(s, r)
  PROVE  ServerStep(s, r)
<1>1. s # NewServer
  BY FirstFields DEF ClientStep
<1>2. Tells(s, r)
  BY DEF ClientStep, Tells
<1>3. \A k \in 1 .. Len(r.toUI) : r.toUI[k].op = "use" /\ r.toUI[k].c \in Connections
  BY DEF ClientStep, PostsUses
<1>4. /\ r \in ServerTypes /\ ServerFits(r) /\ r.told # <<>>
      /\ \A k \in 1 .. Len(r.ht) : \E j \in 1 .. Len(s.ht) : r.ht[k] = s.ht[j]
      /\ r.http = s.http
  BY DEF ClientStep
<1> QED
  BY <1>1, <1>2, <1>3, <1>4 DEF ServerStep

\* A server that can start has one task and heard nothing.
LEMMA StartIs ==
  ASSUME NEW s \in ServerTypes, ServerFits(s), s.ht # <<>>, Head(s.ht).op = "start"
  PROVE  s = Started
<1>1. s.ht \in Seq(Tasks)
  BY DEF ServerTypes
<1>2. Head(s.ht) = s.ht[1] /\ 1 \in 1 .. Len(s.ht)
  BY <1>1
<1>3. s.told = <<>>
  BY <1>2 DEF ServerFits, EndsFit
<1>4. s \in {NewServer, Started}
  BY <1>3 DEF ServerFits, EndsFit
<1> QED
  BY <1>4, FirstFields

\* The record of a server that was created or failed.
Begun(op) ==
  [thread |-> "running", refs |-> 1, handler |-> TRUE, http |-> op = "created", open |-> {},
   conn |-> [c \in Connections |-> "none"], reply |-> {}, ht |-> <<>>,
   now |-> IF op = "created" THEN <<>> ELSE <<Call("destroyed", NoConnection)>>,
   toUI |-> <<>>, told |-> <<Call(op, NoConnection)>>, bad |-> {}]

LEMMA BeginIs ==
  ASSUME NEW listens \in BOOLEAN
  PROVE  StartOnHandlerThread([Started EXCEPT !.ht = Tail(@)], listens)
           = Begun(IF listens THEN "created" ELSE "failed")
<1>1. Tail(<<ServerTask("start")>>) = <<>>
  OBVIOUS
<1>2. \A x : Append(<<>>, x) = <<x>>
  OBVIOUS
<1>3. CASE listens
  BY <1>1, <1>2, <1>3 DEF StartOnHandlerThread, Tell, Check, Started, Begun
<1>4. CASE ~listens
  BY <1>1, <1>2, <1>4, ZenonT(60) DEF StartOnHandlerThread, Tell, Check, Then, Started, Begun
<1> QED
  BY <1>3, <1>4

LEMMA BegunTypes ==
  ASSUME NEW op \in {"created", "failed"}
  PROVE  Begun(op) \in ServerTypes
<1> DEFINE n == IF op = "created" THEN <<>> ELSE <<Call("destroyed", NoConnection)>>
           t == <<Call(op, NoConnection)>>
           m == [c \in Connections |-> "none"]
           e == <<>>
           h == op = "created"
<1>1. Call(op, NoConnection) \in Calls /\ Call("destroyed", NoConnection) \in Calls
  BY CallsAre DEF CallOps, ServerOps, Ends
<1>2. n \in Seq(Calls) /\ t \in Seq(Calls) /\ e \in Seq(Tasks)
  <2>1. \A x \in Calls : <<x>> \in Seq(Calls)
    OBVIOUS
  <2>2. <<>> \in Seq(Calls) /\ <<>> \in Seq(Tasks)
    OBVIOUS
  <2> QED
    BY <1>1, <2>1, <2>2
<1>3. m \in [Connections -> {"none", "http", "pending", "ws"}]
  OBVIOUS
<1>4. h \in BOOLEAN
  OBVIOUS
<1>5. Begun(op) =
        [thread |-> "running", refs |-> 1, handler |-> TRUE, http |-> h, open |-> {},
         conn |-> m, reply |-> {}, ht |-> e, now |-> n, toUI |-> e, told |-> t, bad |-> {}]
  BY DEF Begun
<1> HIDE DEF n, t, m, e, h
<1> QED
  BY <1>2, <1>3, <1>4, <1>5 DEF ServerTypes

LEMMA BegunFields ==
  ASSUME NEW op \in {"created", "failed"}, NEW r, r = Begun(op)
  PROVE  /\ r.told = <<Call(op, NoConnection)>> /\ r.thread = "running" /\ r.refs = 1
         /\ op = "created" => r.http = TRUE /\ r.now = <<>>
         /\ op = "failed" => r.http = FALSE /\ r.now = <<Call("destroyed", NoConnection)>>
         /\ r.handler = TRUE /\ r.open = {} /\ r.reply = {}
         /\ r.conn = [c \in Connections |-> "none"] /\ r.ht = <<>> /\ r.toUI = <<>> /\ r.bad = {}
<1>1. CASE op = "created"
  BY <1>1 DEF Begun
<1>2. CASE op = "failed"
  BY <1>2 DEF Begun
<1> QED
  BY <1>1, <1>2

LEMMA HeardServer ==
  ASSUME NEW s \in ServerTypes, NEW r, NEW op \in ServerOps, Hears1(s, r, op, NoConnection)
  PROVE  /\ r.told # <<>> /\ r.told[Len(r.told)] = Call(op, NoConnection)
         /\ r.told \in Seq(Calls)
         /\ s.told # <<>> => r.told[1] = s.told[1]
         /\ s.told = <<>> => r.told[1] = Call(op, NoConnection)
         /\ End(r) = op
         /\ \A c : Heard(r, c) = IF NoConnection = c THEN op ELSE Heard(s, c)
<1>1. op \in CallOps /\ NoConnection \in Ends
  BY DEF CallOps, Ends
<1>2. /\ r.told \in Seq(Calls) /\ r.told # <<>> /\ Len(r.told) = Len(s.told) + 1
      /\ r.told[Len(r.told)] = Call(op, NoConnection)
      /\ s.told # <<>> => r.told[1] = s.told[1]
      /\ s.told = <<>> => r.told[1] = Call(op, NoConnection)
      /\ \A d : Heard(r, d) = IF NoConnection = d THEN op ELSE Heard(s, d)
  BY <1>1, HeardOne
<1>3. End(r) = op
  BY <1>2 DEF End
<1> QED
  BY <1>2, <1>3

LEMMA HeardClient ==
  ASSUME NEW s \in ServerTypes, NEW r, NEW op \in ConnectionOps, NEW c \in Connections,
         Hears1(s, r, op, c)
  PROVE  /\ r.told \in Seq(Calls) /\ r.told # <<>>
         /\ r.told[Len(r.told)] = Call(op, c)
         /\ s.told # <<>> => r.told[1] = s.told[1]
         /\ End(r) = End(s)
         /\ \A d : Heard(r, d) = IF c = d THEN op ELSE Heard(s, d)
<1>1. op \in CallOps /\ c \in Ends /\ c # NoConnection
  BY ServerAssumption DEF CallOps, Ends, ConnectionOps
<1>2. /\ r.told \in Seq(Calls) /\ r.told # <<>> /\ Len(r.told) = Len(s.told) + 1
      /\ r.told[Len(r.told)] = Call(op, c)
      /\ s.told # <<>> => r.told[1] = s.told[1]
      /\ s.told = <<>> => r.told[1] = Call(op, c)
      /\ \A d : Heard(r, d) = IF c = d THEN op ELSE Heard(s, d)
  BY <1>1, HeardOne
<1>3. End(r) = End(s)
  BY <1>1, <1>2 DEF End
<1> QED
  BY <1>2, <1>3

LEMMA BegunSteps ==
  ASSUME NEW s, s = Started, NEW op \in {"created", "failed"}, NEW r, r = Begun(op)
  PROVE  ServerStep(s, r)
<1>3. r \in ServerTypes /\ s \in ServerTypes
  BY BegunTypes, FirstServers
<1>4. /\ r.told = <<Call(op, NoConnection)>> /\ r.thread = "running" /\ r.refs = 1
      /\ op = "created" => r.http = TRUE /\ r.now = <<>>
      /\ op = "failed" => r.http = FALSE /\ r.now = <<Call("destroyed", NoConnection)>>
      /\ r.handler = TRUE /\ r.open = {} /\ r.reply = {}
      /\ r.conn = [c \in Connections |-> "none"] /\ r.ht = <<>> /\ r.toUI = <<>> /\ r.bad = {}
  BY BegunFields
<1>5. s.told = <<>> /\ s.http = FALSE /\ s # NewServer /\ (\A c : Heard(s, c) = "none")
  BY FirstFields, FirstServers
<1>6. Hears1(s, r, op, NoConnection)
  <2>1. \A x : Append(<<>>, x) = <<x>>
    OBVIOUS
  <2> QED
    BY <1>4, <1>5, <2>1 DEF Hears1
<1>8. /\ r.told # <<>> /\ r.told[1] = Call(op, NoConnection)
      /\ \A c : Heard(r, c) = IF NoConnection = c THEN op ELSE "none"
  <2>1. /\ r.told # <<>> /\ (s.told = <<>> => r.told[1] = Call(op, NoConnection))
        /\ \A c : Heard(r, c) = IF NoConnection = c THEN op ELSE Heard(s, c)
    BY <1>3, <1>6, HeardServer DEF ServerOps
  <2> QED
    BY <1>5, <2>1
<1>9. Call(op, NoConnection).op = op /\ Call("destroyed", NoConnection).op = "destroyed"
  BY DEF Call
<1>10. EndsFit(r)
  <2>1. End(r) = op /\ r.told[1].op = op
    BY <1>8, <1>9 DEF End
  <2>2. op = "failed" => r.now # <<>>
    <3>1. \A x : <<x>> # <<>>
      OBVIOUS
    <3> QED
      BY <1>4, <3>1
  <2>3. 1 .. Len(r.ht) = {}
    <3>1. Len(r.ht) = 0
      BY <1>4
    <3> QED
      BY <3>1
  <2> QED
    BY <1>4, <1>8, <2>1, <2>2, <2>3 DEF EndsFit, ServerOps
<1>11. ConnectionsFit(r)
  <2>1. \A c \in Connections : Heard(r, c) = "none" /\ r.conn[c] = "none"
    BY <1>4, <1>8, ServerAssumption
  <2>2. IsFiniteSet(r.open)
    BY <1>4, FS_EmptySet
  <2> QED
    BY <1>4, <2>1, <2>2 DEF ConnectionsFit, Live
<1>12. TaskFits(r)
  <2>1. CASE op = "created"
    BY <1>4, <2>1 DEF TaskFits
  <2>2. CASE op = "failed"
    <3>1. r.now = <<Call("destroyed", NoConnection)>> /\ ~r.http
      BY <1>4, <2>2
    <3>2. Len(r.now) = 1 /\ r.now[1] = Call("destroyed", NoConnection)
      <4> DEFINE x == Call("destroyed", NoConnection)
      <4> HIDE DEF x
      <4>1. r.now = <<x>>
        BY <3>1 DEF x
      <4>2. Len(r.now) = 1 /\ r.now[1] = x
        BY <4>1
      <4> QED
        BY <4>2 DEF x
    <3> QED
      BY <3>1, <3>2 DEF TaskFits
  <2> QED
    BY <2>1, <2>2
<1>13. AnswersFit(r)
  <2>1. r.ht = <<>> /\ r.reply = {}
    BY <1>4
  <2>2. Len(r.ht) = 0
    BY <2>1
  <2>3. 1 .. Len(r.ht) = {}
    BY <2>2
  <2> QED
    BY <2>1, <2>3 DEF AnswersFit
<1>14. Tells(s, r)
  <2>1. r.http = (op = "created")
    BY <1>4
  <2> QED
    BY <1>5, <1>6, <2>1 DEF Tells
<1>15. 1 .. Len(r.ht) = {} /\ 1 .. Len(r.toUI) = {}
  <2>1. Len(r.ht) = 0 /\ Len(r.toUI) = 0
    BY <1>4
  <2> QED
    BY <2>1
<1> QED
  BY <1>3, <1>5, <1>8, <1>10, <1>11, <1>12, <1>13, <1>14, <1>15 DEF ServerStep, ServerFits

\* The handler thread starts.
LEMMA BeginSteps ==
  ASSUME NEW s \in ServerTypes, ServerFits(s), s.ht # <<>>, Head(s.ht).op = "start",
         NEW listens \in BOOLEAN,
         NEW r, r = StartOnHandlerThread([s EXCEPT !.ht = Tail(@)], listens)
  PROVE  ServerStep(s, r)
<1>1. s = Started
  BY StartIs
<1>2. r = Begun("created") \/ r = Begun("failed")
  BY <1>1, BeginIs
<1> QED
  BY <1>1, <1>2, BegunSteps

LEMMA TaskIs ==
  ASSUME NEW s \in ServerTypes, ServerFits(s), s.now # <<>>, Head(s.now).op # "close"
  PROVE  /\ s.http = FALSE /\ s.told # <<>> /\ s.handler = TRUE /\ s.open = {}
         /\ s.now[Len(s.now)] = Call("destroyed", NoConnection)
         /\ \A k \in 1 .. Len(s.now) - 1 :
              /\ End(s) = "created"
              /\ \E c \in Connections : s.now[k] = Call("disconnected", c) /\ Heard(s, c) \in Live
         /\ \A j, k \in 1 .. Len(s.now) - 1 : s.now[j] = s.now[k] => j = k
         /\ End(s) \in {"created", "failed"}
<1>1. s.now \in Seq(Calls)
  BY DEF ServerTypes
<1>2. Head(s.now) = s.now[1]
  BY <1>1, QueueIs
<1>3. ASSUME NEW c \in Connections, s.now = <<Call("close", c)>>
      PROVE  FALSE
  <2>1. \A x : <<x>>[1] = x
    OBVIOUS
  <2>2. s.now[1] = Call("close", c)
    BY <1>3, <2>1
  <2> QED
    BY <1>2, <2>2 DEF Call
<1>4. /\ ~s.http
      /\ s.now[Len(s.now)] = Call("destroyed", NoConnection)
      /\ \A k \in 1 .. Len(s.now) - 1 :
           /\ End(s) = "created"
           /\ \E c \in Connections : s.now[k] = Call("disconnected", c) /\ Heard(s, c) \in Live
      /\ \A j, k \in 1 .. Len(s.now) - 1 : s.now[j] = s.now[k] => j = k
  BY <1>3 DEF ServerFits, TaskFits
<1>5. s.told # <<>>
  BY FirstFields DEF ServerFits, EndsFit
<1>6. End(s) \in {"created", "failed"} /\ s.handler
  <2>1. End(s) \in ServerOps /\ End(s) # "destroyed"
    BY <1>5 DEF ServerFits, EndsFit
  <2> QED
    BY <2>1 DEF ServerFits, EndsFit, ServerOps
<1>7. s.open = {}
  BY <1>4 DEF ServerFits, ConnectionsFit
<1>8. s.http = FALSE /\ s.handler = TRUE
  BY <1>4, <1>6 DEF ServerTypes
<1> QED
  BY <1>4, <1>5, <1>6, <1>7, <1>8

\* The record after the last task of the handler thread told the handler.
LEMMA EndIs ==
  ASSUME NEW s \in ServerTypes, s.handler = TRUE, s.toUI = <<>>, s.now # <<>>,
         Head(s.now).op = "destroyed", NEW r, r = Proceed(s)
  PROVE  /\ r.told = Append(s.told, Call("destroyed", NoConnection))
         /\ r.toUI = <<ServerTask("shutdown")>> /\ r.now = Tail(s.now)
         /\ r.thread = s.thread /\ r.refs = s.refs /\ r.handler = s.handler /\ r.http = s.http
         /\ r.bad = s.bad /\ r.reply = s.reply /\ r.ht = s.ht
         /\ r.open = s.open /\ r.conn = s.conn
         /\ r \in ServerTypes
<1> DEFINE n == Tail(s.now)
           t == Append(s.told, Call("destroyed", NoConnection))
           u == <<ServerTask("shutdown")>>
           y == [s EXCEPT !.now = n]
           z == [s EXCEPT !.now = n, !.told = t]
<1>1. Call("destroyed", NoConnection) \in Calls
  BY CallsAre DEF CallOps, ServerOps, Ends
<1>2. n \in Seq(Calls) /\ t \in Seq(Calls)
  BY <1>1 DEF ServerTypes
<1>3. u \in Seq(Tasks)
  <2>1. ServerTask("shutdown") \in Tasks
    BY DEF ServerTask, Task, Tasks, Ends
  <2> QED
    BY <2>1
<1>4. \A x : Append(<<>>, x) = <<x>>
  OBVIOUS
<1>5. r = ToUI(Tell(y, "destroyed", NoConnection), ServerTask("shutdown"))
  BY DEF Proceed
<1>6. y.handler = TRUE /\ y.told = s.told /\ y.bad = s.bad
  BY DEF ServerTypes
<1>7. Tell(y, "destroyed", NoConnection) = z
  BY <1>6 DEF Tell, Check, ServerTypes
<1>8. z.toUI = <<>>
  BY DEF ServerTypes
<1>9. r = [z EXCEPT !.toUI = u]
  <2>1. Append(z.toUI, ServerTask("shutdown")) = u
    BY <1>4, <1>8
  <2>2. r = ToUI(z, ServerTask("shutdown"))
    BY <1>5, <1>7
  <2> HIDE DEF z, u
  <2> QED
    BY <2>1, <2>2 DEF ToUI
<1>10. r = [s EXCEPT !.now = n, !.told = t, !.toUI = u]
  BY <1>9 DEF ServerTypes
<1> HIDE DEF n, t, u, y, z
<1>11. r \in ServerTypes
  BY <1>2, <1>3, <1>10 DEF ServerTypes
<1>12. /\ r.told = t /\ r.toUI = u /\ r.now = n
       /\ r.thread = s.thread /\ r.refs = s.refs /\ r.handler = s.handler /\ r.http = s.http
       /\ r.bad = s.bad /\ r.reply = s.reply /\ r.ht = s.ht
       /\ r.open = s.open /\ r.conn = s.conn
  BY <1>10 DEF ServerTypes
<1> QED
  BY <1>11, <1>12 DEF n, t, u

\* The handler hears the end of its server.
LEMMA EndSteps ==
  ASSUME NEW s \in ServerTypes, ServerFits(s), s.toUI = <<>>, s.now # <<>>,
         Head(s.now).op = "destroyed", NEW r, r = Proceed(s)
  PROVE  ServerStep(s, r)
<1>1. /\ s.http = FALSE /\ s.told # <<>> /\ s.handler = TRUE /\ s.open = {}
      /\ s.now[Len(s.now)] = Call("destroyed", NoConnection)
      /\ \A k \in 1 .. Len(s.now) - 1 :
           /\ End(s) = "created"
           /\ \E c \in Connections : s.now[k] = Call("disconnected", c) /\ Heard(s, c) \in Live
      /\ End(s) \in {"created", "failed"}
  BY TaskIs
<1>2. /\ s.now \in Seq(Calls) /\ Head(s.now) = s.now[1] /\ Len(s.now) \in Nat /\ Len(s.now) >= 1
      /\ Len(Tail(s.now)) = Len(s.now) - 1 /\ Tail(s.now) \in Seq(Calls)
  <2>1. s.now \in Seq(Calls)
    BY DEF ServerTypes
  <2> QED
    BY <2>1, QueueIs
<1>3. Len(s.now) = 1
  <2>1. SUFFICES ASSUME Len(s.now) # 1 PROVE FALSE
    OBVIOUS
  <2>2. 1 \in 1 .. Len(s.now) - 1
    <3> DEFINE n == Len(s.now)
    <3>1. n \in Nat /\ n >= 1 /\ n # 1
      BY <1>2, <2>1
    <3> HIDE DEF n
    <3>2. 1 \in 1 .. n - 1
      BY <3>1
    <3> QED
      BY <3>2 DEF n
  <2>3. PICK c \in Connections : s.now[1] = Call("disconnected", c)
    BY <1>1, <2>2
  <2> QED
    BY <1>2, <2>3 DEF Call
<1>4. Tail(s.now) = <<>>
  <2>1. Len(Tail(s.now)) = 0
    BY <1>2, <1>3
  <2> QED
    BY <1>2, <2>1, EmptyIs
<1>5. /\ r.told = Append(s.told, Call("destroyed", NoConnection))
      /\ r.toUI = <<ServerTask("shutdown")>> /\ r.now = <<>>
      /\ r.thread = s.thread /\ r.refs = s.refs /\ r.handler = s.handler /\ r.http = s.http
      /\ r.bad = s.bad /\ r.reply = s.reply /\ r.ht = s.ht
      /\ r.open = s.open /\ r.conn = s.conn
      /\ r \in ServerTypes
  BY <1>1, <1>4, EndIs, ZenonT(60)
<1>6. Hears1(s, r, "destroyed", NoConnection)
  BY <1>5 DEF Hears1
<1>7. /\ r.told # <<>> /\ r.told[Len(r.told)] = Call("destroyed", NoConnection)
      /\ r.told \in Seq(Calls)
      /\ s.told # <<>> => r.told[1] = s.told[1]
      /\ End(r) = "destroyed"
      /\ \A c : Heard(r, c) = IF NoConnection = c THEN "destroyed" ELSE Heard(s, c)
  BY <1>6, HeardServer DEF ServerOps
<1>8. \A c \in Connections : Heard(r, c) = Heard(s, c)
  BY <1>7, ServerAssumption
<1>9. \A c \in Connections : ~Leaving(s, c)
  <2>1. 1 .. Len(s.now) = {1}
    BY <1>3
  <2>2. s.now[1].op = "destroyed"
    BY <1>2
  <2> QED
    BY <2>1, <2>2 DEF Leaving, Call
<1>10. \A c \in Connections : Heard(s, c) \in {"none", "disconnected"} /\ s.conn[c] = "none"
  BY <1>1, <1>9 DEF ServerFits, ConnectionsFit
<1>11. EndsFit(r)
  <2>1. /\ s.thread # "none" /\ s.told[1].op \in {"created", "failed"}
        /\ \A k \in 1 .. Len(s.ht) : s.ht[k].op \in {"shutdown", "answer"}
        /\ s.refs = IF s.thread = "running" THEN 1 ELSE 0
        /\ s.bad \subseteq {"server_impl.cc:376"}
    BY <1>1 DEF ServerFits, EndsFit
  <2>2. Call("destroyed", NoConnection).op = "destroyed"
    BY DEF Call
  <2> QED
    BY <1>1, <1>5, <1>7, <2>1, <2>2 DEF EndsFit, ServerOps
<1>12. ConnectionsFit(r)
  <2>1. r.open = {} /\ IsFiniteSet(r.open)
    BY <1>1, <1>5, FS_EmptySet
  <2> QED
    BY <1>5, <1>8, <1>10, <2>1 DEF ConnectionsFit, Live
<1>13. TaskFits(r)
  BY <1>5 DEF TaskFits
<1>14. AnswersFit(r)
  <2>1. \A d \in Ends : d # NoConnection => (Asked(s, d) => Asked(r, d))
    BY <1>5, <1>7 DEF Asked
  <2>2. \A d \in Connections : Asked(s, d) => Asked(r, d)
    BY <1>5, <1>8 DEF Asked
  <2>3. AnswersFit(s)
    BY DEF ServerFits
  <2>4. r.reply \subseteq Connections
    BY <1>5 DEF ServerTypes
  <2> QED
    BY <1>5, <2>2, <2>3, <2>4 DEF AnswersFit, IsAnswer
<1>15. Tells(s, r)
  BY <1>1, <1>6, <1>10 DEF Tells
<1>16. \A k \in 1 .. Len(r.toUI) : r.toUI[k].op = "shutdown"
  <2> DEFINE x == ServerTask("shutdown")
  <2>1. x.op = "shutdown"
    BY DEF ServerTask, Task
  <2>2. r.toUI = <<x>>
    BY <1>5
  <2> HIDE DEF x
  <2>3. Len(r.toUI) = 1 /\ r.toUI[1] = x
    BY <2>2
  <2> QED
    BY <2>1, <2>3
<1>17. s # NewServer
  BY <1>1, FirstFields
<1> QED
  BY <1>1, <1>5, <1>7, <1>11, <1>12, <1>13, <1>14, <1>15, <1>16, <1>17 DEF ServerStep, ServerFits

\* The record after the handler thread told of a connection that was closed.
LEMMA LeaveIs ==
  ASSUME NEW s \in ServerTypes, s.handler = TRUE, s.now # <<>>, NEW c \in Connections,
         Head(s.now) = Call("disconnected", c), NEW r, r = Proceed(s)
  PROVE  /\ r.told = Append(s.told, Call("disconnected", c))
         /\ r.toUI = s.toUI /\ r.now = Tail(s.now)
         /\ r.thread = s.thread /\ r.refs = s.refs /\ r.handler = s.handler /\ r.http = s.http
         /\ r.bad = s.bad /\ r.reply = s.reply /\ r.ht = s.ht
         /\ r.open = s.open /\ r.conn = s.conn
         /\ r \in ServerTypes
<1> DEFINE n == Tail(s.now)
           t == Append(s.told, Call("disconnected", c))
           y == [s EXCEPT !.now = n]
<1>1. Call("disconnected", c) \in Calls
  BY CallsAre DEF CallOps, ServerOps, Ends
<1>2. n \in Seq(Calls) /\ t \in Seq(Calls)
  BY <1>1 DEF ServerTypes
<1>3. Call("disconnected", c).op = "disconnected" /\ Call("disconnected", c).c = c
  BY DEF Call
<1>4. r = Tell(y, "disconnected", c)
  BY <1>3 DEF Proceed
<1>5. y.handler = TRUE /\ y.told = s.told /\ y.bad = s.bad
  BY DEF ServerTypes
<1>6. r = [s EXCEPT !.now = n, !.told = t]
  BY <1>4, <1>5 DEF Tell, Check, ServerTypes
<1> HIDE DEF n, t, y
<1>7. r \in ServerTypes
  BY <1>2, <1>6 DEF ServerTypes
<1>8. /\ r.told = t /\ r.toUI = s.toUI /\ r.now = n
      /\ r.thread = s.thread /\ r.refs = s.refs /\ r.handler = s.handler /\ r.http = s.http
      /\ r.bad = s.bad /\ r.reply = s.reply /\ r.ht = s.ht
      /\ r.open = s.open /\ r.conn = s.conn
  BY <1>6 DEF ServerTypes
<1> QED
  BY <1>7, <1>8 DEF n, t

\* The rest of a task, when a connection at its front was reported.
LEMMA RestFits ==
  ASSUME NEW s \in ServerTypes, NEW r \in ServerTypes, ServerFits(s), s.now # <<>>,
         s.http = FALSE, s.told # <<>>, End(s) = "created", NEW c \in Connections,
         s.now[1] = Call("disconnected", c), Len(s.now) >= 2,
         s.now[Len(s.now)] = Call("destroyed", NoConnection),
         \A k \in 1 .. Len(s.now) - 1 :
           \E d \in Connections : s.now[k] = Call("disconnected", d) /\ Heard(s, d) \in Live,
         \A j, k \in 1 .. Len(s.now) - 1 : s.now[j] = s.now[k] => j = k,
         r.now = Tail(s.now), r.http = FALSE, End(r) = "created",
         \A d : Heard(r, d) = IF c = d THEN "disconnected" ELSE Heard(s, d)
  PROVE  /\ TaskFits(r)
         /\ \A d \in Connections : d # c /\ Leaving(s, d) => Leaving(r, d)
         /\ r.now # <<>>
<1>1. /\ Len(s.now) \in Nat /\ Len(r.now) = Len(s.now) - 1
      /\ \A k \in 1 .. Len(r.now) : r.now[k] = s.now[k + 1]
  <2>1. s.now \in Seq(Calls)
    BY DEF ServerTypes
  <2> QED
    BY <2>1, QueueIs
<1>2. r.now # <<>> /\ r.now[Len(r.now)] = Call("destroyed", NoConnection)
  <2>1. Len(r.now) \in 1 .. Len(r.now) /\ Len(r.now) + 1 = Len(s.now) /\ Len(r.now) # 0
    BY <1>1
  <2>2. r.now # <<>>
    <3>1. r.now \in Seq(Calls)
      BY DEF ServerTypes
    <3> QED
      BY <2>1, <3>1, EmptyIs
  <2> QED
    BY <1>1, <2>1, <2>2
<1>3. ASSUME NEW k \in 1 .. Len(r.now) - 1
      PROVE  \E d \in Connections : r.now[k] = Call("disconnected", d) /\ Heard(r, d) \in Live
  <2>1. k + 1 \in 1 .. Len(s.now) - 1 /\ r.now[k] = s.now[k + 1] /\ 1 \in 1 .. Len(s.now) - 1
        /\ k + 1 # 1
    BY <1>1
  <2>2. PICK d \in Connections : s.now[k + 1] = Call("disconnected", d) /\ Heard(s, d) \in Live
    BY <2>1
  <2>3. s.now[k + 1] # s.now[1]
    BY <2>1
  <2>4. d # c
    BY <2>2, <2>3
  <2> QED
    BY <2>1, <2>2, <2>4
<1>4. ASSUME NEW j \in 1 .. Len(r.now) - 1, NEW k \in 1 .. Len(r.now) - 1, r.now[j] = r.now[k]
      PROVE  j = k
  <2>1. /\ k + 1 \in 1 .. Len(s.now) - 1 /\ r.now[k] = s.now[k + 1]
        /\ j + 1 \in 1 .. Len(s.now) - 1 /\ r.now[j] = s.now[j + 1]
    BY <1>1
  <2>2. j + 1 = k + 1
    BY <1>4, <2>1
  <2> QED
    BY <2>2
<1>5. TaskFits(r)
  BY <1>2, <1>3, <1>4 DEF TaskFits
<1>6. ASSUME NEW d \in Connections, d # c, Leaving(s, d)
      PROVE  Leaving(r, d)
  <2>1. PICK k \in 1 .. Len(s.now) : s.now[k] = Call("disconnected", d)
    BY <1>6 DEF Leaving
  <2>2. k # 1
    BY <1>6, <2>1, CallsDiffer
  <2>3. k - 1 \in 1 .. Len(r.now) /\ r.now[k - 1] = s.now[k - 1 + 1]
    BY <1>1, <2>2
  <2>4. r.now[k - 1] = s.now[k]
    BY <2>3
  <2> QED
    BY <2>1, <2>3, <2>4 DEF Leaving
<1> QED
  BY <1>2, <1>5, <1>6

\* The handler hears that a connection was closed by the shutdown.
LEMMA LeaveSteps ==
  ASSUME NEW s \in ServerTypes, ServerFits(s), s.toUI = <<>>, s.now # <<>>,
         Head(s.now).op = "disconnected", NEW r, r = Proceed(s)
  PROVE  ServerStep(s, r)
<1>1. /\ s.http = FALSE /\ s.told # <<>> /\ s.handler = TRUE /\ s.open = {}
      /\ s.now[Len(s.now)] = Call("destroyed", NoConnection)
      /\ \A k \in 1 .. Len(s.now) - 1 :
           /\ End(s) = "created"
           /\ \E c \in Connections : s.now[k] = Call("disconnected", c) /\ Heard(s, c) \in Live
      /\ \A j, k \in 1 .. Len(s.now) - 1 : s.now[j] = s.now[k] => j = k
  BY TaskIs
<1>2. /\ s.now \in Seq(Calls) /\ Head(s.now) = s.now[1] /\ Len(s.now) \in Nat /\ Len(s.now) >= 1
  <2>1. s.now \in Seq(Calls)
    BY DEF ServerTypes
  <2> QED
    BY <2>1, QueueIs
<1>3. Len(s.now) # 1
  <2>1. Call("destroyed", NoConnection).op = "destroyed"
    BY DEF Call
  <2> QED
    BY <1>1, <1>2, <2>1
<1>4. 1 \in 1 .. Len(s.now) - 1 /\ Len(s.now) >= 2
  <2> DEFINE n == Len(s.now)
  <2>1. n \in Nat /\ n >= 1 /\ n # 1
    BY <1>2, <1>3
  <2> HIDE DEF n
  <2>2. 1 \in 1 .. n - 1 /\ n >= 2
    BY <2>1
  <2> QED
    BY <2>2 DEF n
<1>5. PICK c \in Connections : s.now[1] = Call("disconnected", c) /\ Heard(s, c) \in Live
  BY <1>1, <1>4
<1>6. End(s) = "created"
  BY <1>1, <1>4
<1>7. Head(s.now) = Call("disconnected", c)
  BY <1>2, <1>5
<1>8. /\ r.told = Append(s.told, Call("disconnected", c))
      /\ r.toUI = s.toUI /\ r.now = Tail(s.now)
      /\ r.thread = s.thread /\ r.refs = s.refs /\ r.handler = s.handler /\ r.http = s.http
      /\ r.bad = s.bad /\ r.reply = s.reply /\ r.ht = s.ht
      /\ r.open = s.open /\ r.conn = s.conn
      /\ r \in ServerTypes
  <2>1. s.handler = TRUE
    BY <1>1
  <2> QED
    BY <1>7, <2>1, LeaveIs, ZenonT(60)
<1>9. "disconnected" \in CallOps /\ c \in Ends /\ "disconnected" \in ConnectionOps
  BY DEF CallOps, Ends, ConnectionOps
<1>10. Hears1(s, r, "disconnected", c)
  BY <1>8 DEF Hears1
<1>11. /\ r.told \in Seq(Calls) /\ r.told # <<>>
       /\ r.told[Len(r.told)] = Call("disconnected", c)
       /\ s.told # <<>> => r.told[1] = s.told[1]
       /\ End(r) = End(s)
       /\ \A d : Heard(r, d) = IF c = d THEN "disconnected" ELSE Heard(s, d)
  BY <1>9, <1>10, HeardClient
<1>12. End(r) = "created"
  BY <1>6, <1>11
<1>13. TaskFits(r) /\ r.now # <<>> /\ \A d \in Connections : d # c /\ Leaving(s, d) => Leaving(r, d)
  <2>1. r.http = FALSE
    BY <1>1, <1>8
  <2>2. \A k \in 1 .. Len(s.now) - 1 :
          \E d \in Connections : s.now[k] = Call("disconnected", d) /\ Heard(s, d) \in Live
    BY <1>1
  <2> QED
    <3>1. r \in ServerTypes /\ r.now = Tail(s.now)
      BY <1>8
    <3>2. \A d : Heard(r, d) = IF c = d THEN "disconnected" ELSE Heard(s, d)
      BY <1>11
    <3>3. /\ s.http = FALSE /\ s.told # <<>>
          /\ s.now[Len(s.now)] = Call("destroyed", NoConnection)
          /\ \A j, k \in 1 .. Len(s.now) - 1 : s.now[j] = s.now[k] => j = k
      BY <1>1
    <3>4. s.now[1] = Call("disconnected", c)
      BY <1>5
    <3> QED
      BY <1>4, <1>6, <1>12, <2>1, <2>2, <3>1, <3>2, <3>3, <3>4, RestFits
<1>14. EndsFit(r)
  <2>1. /\ s.thread # "none" /\ s.told[1].op \in {"created", "failed"}
        /\ \A k \in 1 .. Len(s.ht) : s.ht[k].op \in {"shutdown", "answer"}
        /\ s.refs = IF s.thread = "running" THEN 1 ELSE 0
        /\ s.bad \subseteq {"server_impl.cc:376"}
    BY <1>1 DEF ServerFits, EndsFit
  <2> QED
    BY <1>1, <1>8, <1>11, <1>12, <1>13, <2>1 DEF EndsFit, ServerOps
<1>15. \A d \in Connections :
         /\ s.conn[d] = "none"
         /\ Heard(s, d) \in Live => Leaving(s, d)
         /\ Heard(s, d) \in Live \cup {"none", "disconnected"}
  BY <1>1 DEF ServerFits, ConnectionsFit
<1>16. ConnectionsFit(r)
  <2>1. r.open = {} /\ IsFiniteSet(r.open)
    BY <1>1, <1>8, FS_EmptySet
  <2>2. "disconnected" \notin Live
    BY DEF Live
  <2>3. \A d \in Connections : Heard(r, d) \in Live => Leaving(r, d)
    BY <1>11, <1>13, <1>15, <2>2
  <2>4. \A d \in Connections : Heard(r, d) \in Live \cup {"none", "disconnected"}
    BY <1>11, <1>15
  <2> QED
    BY <1>8, <1>15, <2>1, <2>3, <2>4 DEF ConnectionsFit
<1>17. AnswersFit(r)
  <2>1. Asked(r, c)
    BY <1>8, <1>11, <1>15 DEF Asked
  <2>2. \A d \in Connections : Asked(s, d) => Asked(r, d)
    BY <1>8, <1>11, <2>1 DEF Asked
  <2>3. AnswersFit(s)
    BY DEF ServerFits
  <2>4. r.reply \subseteq Connections
    BY <1>8 DEF ServerTypes
  <2> QED
    BY <1>8, <2>2, <2>3, <2>4 DEF AnswersFit, IsAnswer
<1>18. Tells(s, r)
  <2>1. MayHear(s, "disconnected", c)
    BY <1>5, <1>6 DEF MayHear, Before
  <2> QED
    BY <1>9, <1>10, <2>1 DEF Tells
<1>19. s # NewServer
  BY <1>1, FirstFields
<1>20. 1 .. Len(r.toUI) = {}
  <2>1. r.toUI = <<>>
    BY <1>8
  <2>2. Len(r.toUI) = 0
    BY <2>1
  <2> QED
    BY <2>2
<1> QED
  BY <1>1, <1>8, <1>11, <1>13, <1>14, <1>16, <1>17, <1>18, <1>19, <1>20 DEF ServerStep, ServerFits

\* The enumeration of a finite set has each element once.
LEMMA EnumerationIs ==
  ASSUME NEW S, IsFiniteSet(S), NEW q, q = SetToSeq(S)
  PROVE  /\ q \in Seq(S) /\ Len(q) \in Nat /\ DOMAIN q = 1 .. Len(q)
         /\ \A j, k \in 1 .. Len(q) : q[j] = q[k] => j = k
         /\ \A x \in S : \E k \in 1 .. Len(q) : q[k] = x
<1> DEFINE n == Cardinality(S)
<1>1. n \in Nat /\ ExistsBijection(1 .. n, S)
  BY FS_CardinalityType
<1> HIDE DEF n
<1>2. \E f \in [1 .. n -> S] : IsInjective(f)
  BY <1>1 DEF ExistsBijection, Bijection, Injection
<1>3. q \in [1 .. n -> S] /\ IsInjective(q)
  BY <1>2 DEF SetToSeq, n
<1>4. q \in Injection(1 .. n, S)
  BY <1>3 DEF Injection
<1>5. Cardinality(1 .. n) = n
  <2>1. 1 \in Int /\ n \in Int
    BY <1>1
  <2>2. Cardinality(1 .. n) = IF 1 > n THEN 0 ELSE n - 1 + 1
    BY <2>1, FS_Interval
  <2> QED
    BY <1>1, <2>2
<1>6. q \in Surjection(1 .. n, S)
  BY <1>4, <1>5, FS_Injection DEF n
<1>7. q \in Seq(S) /\ Len(q) = n
  BY <1>1, <1>3
<1>8. \A j, k \in 1 .. n : q[j] = q[k] => j = k
  BY <1>3 DEF IsInjective
<1>9. \A x \in S : \E k \in 1 .. n : q[k] = x
  BY <1>6 DEF Surjection
<1> QED
  BY <1>1, <1>3, <1>7, <1>8, <1>9

LEMMA LastPut ==
  ASSUME NEW S, NEW p \in Seq(S), NEW x \in S
  PROVE  /\ p \o <<x>> \in Seq(S) /\ Len(p \o <<x>>) = Len(p) + 1
         /\ \A k \in 1 .. Len(p) : (p \o <<x>>)[k] = p[k]
         /\ (p \o <<x>>)[Len(p) + 1] = x
<1>1. <<x>> \in Seq(S) /\ Len(<<x>>) = 1 /\ <<x>>[1] = x /\ Len(p) \in Nat
  OBVIOUS
<1> QED
  BY <1>1

\* What is left of a shutdown: each connection once, the end of the server last.
LEMMA FarewellIs ==
  ASSUME NEW L \in SUBSET Connections, NEW q \in Seq(L),
         \A j, k \in 1 .. Len(q) : q[j] = q[k] => j = k,
         \A x \in L : \E k \in 1 .. Len(q) : q[k] = x
  PROVE  \E n \in Seq(Calls) :
           /\ n = [k \in DOMAIN q |-> Call("disconnected", q[k])]
                    \o <<Call("destroyed", NoConnection)>>
           /\ n # <<>> /\ Len(n) \in Nat
           /\ n[Len(n)] = Call("destroyed", NoConnection)
           /\ \A k \in 1 .. Len(n) - 1 : \E c \in L : n[k] = Call("disconnected", c)
           /\ \A j, k \in 1 .. Len(n) - 1 : n[j] = n[k] => j = k
           /\ \A c \in L : \E k \in 1 .. Len(n) : n[k] = Call("disconnected", c)
<1>1. /\ q \in Seq(L) /\ Len(q) \in Nat /\ DOMAIN q = 1 .. Len(q)
      /\ \A j, k \in 1 .. Len(q) : q[j] = q[k] => j = k
      /\ \A x \in L : \E k \in 1 .. Len(q) : q[k] = x
  OBVIOUS
<1> DEFINE m == Len(q)
           p == [k \in 1 .. m |-> Call("disconnected", q[k])]
           x == Call("destroyed", NoConnection)
           n == p \o <<x>>
<1>2. \A k \in 1 .. m : q[k] \in L
  BY <1>1
<1>3. x \in Calls /\ \A c \in L : Call("disconnected", c) \in Calls
  BY CallsAre DEF CallOps, ServerOps, Ends
<1>4. n = [k \in DOMAIN q |-> Call("disconnected", q[k])] \o <<Call("destroyed", NoConnection)>>
  BY <1>1
<1>5. m \in Nat /\ (\A k \in 1 .. m : p[k] = Call("disconnected", q[k]))
  BY <1>1
<1>6. p \in [1 .. m -> Calls]
  <2>1. \A k \in 1 .. m : Call("disconnected", q[k]) \in Calls
    BY <1>2, <1>3
  <2> QED
    BY <2>1
<1> HIDE DEF m, p, x
<1>7. p \in Seq(Calls) /\ Len(p) = m
  BY <1>5, <1>6
<1>9. /\ n \in Seq(Calls) /\ Len(n) = m + 1
      /\ \A k \in 1 .. m : n[k] = p[k]
      /\ n[m + 1] = x
  BY <1>3, <1>7, LastPut
<1> HIDE DEF n
<1>10. n # <<>>
  <2>1. Len(n) # 0
    BY <1>5, <1>9
  <2> QED
    BY <1>9, <2>1, EmptyIs
<1>11. Len(n) \in Nat /\ Len(n) - 1 = m
  BY <1>5, <1>9
<1>12. \A k \in 1 .. m : \E c \in L : n[k] = Call("disconnected", c)
  BY <1>2, <1>5, <1>9
<1>13. \A j, k \in 1 .. m : n[j] = n[k] => j = k
  <2> TAKE j, k \in 1 .. m
  <2> HAVE n[j] = n[k]
  <2>1. Call("disconnected", q[j]) = Call("disconnected", q[k])
    BY <1>5, <1>9
  <2>2. q[j] = q[k]
    BY <2>1, CallsDiffer
  <2> QED
    BY <1>1, <2>2 DEF m
<1>14. \A c \in L : \E k \in 1 .. Len(n) : n[k] = Call("disconnected", c)
  <2> TAKE c \in L
  <2>1. PICK k \in 1 .. m : q[k] = c
    BY <1>1 DEF m
  <2>2. k \in 1 .. Len(n)
    BY <1>5, <1>9
  <2> QED
    BY <1>5, <1>9, <2>1, <2>2
<1> QED
  <2>1. Len(n) = m + 1 /\ n[Len(n)] = Call("destroyed", NoConnection)
    BY <1>9 DEF x
  <2> QED
    BY <1>4, <1>9, <1>10, <1>11, <1>12, <1>13, <1>14, <2>1

Farewell(L) ==
  [k \in DOMAIN SetToSeq(L) |-> Call("disconnected", SetToSeq(L)[k])]
    \o <<Call("destroyed", NoConnection)>>

BidsFarewell(L, n) ==
  /\ n # <<>> /\ Len(n) \in Nat
  /\ n[Len(n)] = Call("destroyed", NoConnection)
  /\ \A k \in 1 .. Len(n) - 1 : \E c \in L : n[k] = Call("disconnected", c)
  /\ \A j, k \in 1 .. Len(n) - 1 : n[j] = n[k] => j = k
  /\ \A c \in L : \E k \in 1 .. Len(n) : n[k] = Call("disconnected", c)

LEMMA FarewellOf ==
  ASSUME NEW L \in SUBSET Connections, IsFiniteSet(L)
  PROVE  Farewell(L) \in Seq(Calls) /\ BidsFarewell(L, Farewell(L))
<1> DEFINE q == SetToSeq(L)
<1>1. /\ q \in Seq(L)
      /\ \A j, k \in 1 .. Len(q) : q[j] = q[k] => j = k
      /\ \A x \in L : \E k \in 1 .. Len(q) : q[k] = x
  BY EnumerationIs, SMTT(60)
<1> HIDE DEF q
<1>2. PICK n \in Seq(Calls) :
        /\ n = [k \in DOMAIN q |-> Call("disconnected", q[k])]
                 \o <<Call("destroyed", NoConnection)>>
        /\ n # <<>> /\ Len(n) \in Nat
        /\ n[Len(n)] = Call("destroyed", NoConnection)
        /\ \A k \in 1 .. Len(n) - 1 : \E c \in L : n[k] = Call("disconnected", c)
        /\ \A j, k \in 1 .. Len(n) - 1 : n[j] = n[k] => j = k
        /\ \A c \in L : \E k \in 1 .. Len(n) : n[k] = Call("disconnected", c)
  BY <1>1, FarewellIs
<1>3. Farewell(L) = n
  BY <1>2 DEF Farewell, q
<1>4. BidsFarewell(L, n)
  BY <1>2 DEF BidsFarewell
<1> QED
  BY <1>3, <1>4

\* The record after a shutdown that found the port taken.
Down(s, L, n, r) ==
  /\ r.http = FALSE /\ r.open = {} /\ r.conn = [c \in Connections |-> "none"]
  /\ r.told = s.told /\ r.toUI = s.toUI /\ r.ht = Tail(s.ht) /\ r.now = n
  /\ r.thread = s.thread /\ r.refs = s.refs /\ r.handler = s.handler
  /\ r.bad = s.bad /\ r.reply = s.reply
  /\ r \in ServerTypes

LEMMA DownRecord ==
  ASSUME NEW s \in ServerTypes, s.ht # <<>>, NEW n \in Seq(Calls), NEW L, NEW r,
         r = [s EXCEPT !.ht = Tail(@), !.http = FALSE, !.open = {},
                       !.conn = [c \in Connections |-> "none"], !.now = n]
  PROVE  Down(s, L, n, r)
<1> DEFINE h == Tail(s.ht)
           m == [c \in Connections |-> "none"]
<1>1. h \in Seq(Tasks) /\ m \in [Connections -> {"none", "http", "pending", "ws"}]
  <2>1. s.ht \in Seq(Tasks)
    BY DEF ServerTypes
  <2> QED
    BY <2>1, QueueIs
<1>2. r = [s EXCEPT !.ht = h, !.http = FALSE, !.open = {}, !.conn = m, !.now = n]
  OBVIOUS
<1> HIDE DEF h, m
<1>3. r \in ServerTypes
  BY <1>1, <1>2, ZenonT(60) DEF ServerTypes
<1>4. /\ r.http = FALSE /\ r.open = {} /\ r.conn = m
      /\ r.told = s.told /\ r.toUI = s.toUI /\ r.ht = h
      /\ r.thread = s.thread /\ r.refs = s.refs /\ r.handler = s.handler
      /\ r.bad = s.bad /\ r.reply = s.reply /\ r.now = n
  BY <1>2 DEF ServerTypes
<1> QED
  BY <1>3, <1>4 DEF Down, h, m

LEMMA DownIs ==
  ASSUME NEW s \in ServerTypes, s.http = TRUE, s.ht # <<>>, NEW L,
         L = {c \in Connections : s.conn[c] # "none"}, IsFiniteSet(L),
         NEW r, r = ShutdownOnHandlerThread([s EXCEPT !.ht = Tail(@)])
  PROVE  Down(s, L, Farewell(L), r) /\ BidsFarewell(L, Farewell(L))
<1> DEFINE h == Tail(s.ht)
           m == [c \in Connections |-> "none"]
           y == [s EXCEPT !.ht = h]
           z == [y EXCEPT !.http = FALSE, !.open = {}, !.conn = m]
<1>1. Farewell(L) \in Seq(Calls) /\ BidsFarewell(L, Farewell(L))
  BY FarewellOf
<1>2. y.http = TRUE /\ y.conn = s.conn /\ NewServer.conn = m
  BY FirstFields DEF ServerTypes
<1>3. r = [z EXCEPT !.now = Farewell(L)]
  <2>1. {c \in Connections : y.conn[c] # "none"} = L
    BY <1>2
  <2>2. r = ShutdownOnHandlerThread(y)
    OBVIOUS
  <2> HIDE DEF y, m
  <2> QED
    BY <1>2, <2>1, <2>2 DEF ShutdownOnHandlerThread, Farewell
<1>4. r = [s EXCEPT !.ht = h, !.http = FALSE, !.open = {}, !.conn = m, !.now = Farewell(L)]
  <2> HIDE DEF h, m
  <2> QED
    BY <1>3 DEF ServerTypes
<1> QED
  BY <1>1, <1>4, DownRecord

LEMMA AnswersShift ==
  ASSUME NEW s \in ServerTypes, NEW r \in ServerTypes, AnswersFit(s),
         \A d \in Connections : Asked(s, d) => Asked(r, d),
         s.ht # <<>>, r.ht = Tail(s.ht), r.reply = s.reply
  PROVE  AnswersFit(r)
<1>1. /\ Len(s.ht) \in Nat /\ Len(r.ht) = Len(s.ht) - 1
      /\ \A k \in 1 .. Len(r.ht) : k + 1 \in 1 .. Len(s.ht) /\ r.ht[k] = s.ht[k + 1]
  <2>1. s.ht \in Seq(Tasks)
    BY DEF ServerTypes
  <2> QED
    BY <2>1, QueueIs
<1>2. \A c \in r.reply : Asked(r, c)
  BY DEF AnswersFit, ServerTypes
<1>3. \A k \in 1 .. Len(r.ht) :
        IsAnswer(r, k) => r.ht[k].c \in Connections \ r.reply /\ Asked(r, r.ht[k].c)
  BY <1>1 DEF AnswersFit, IsAnswer
<1>4. ASSUME NEW j \in 1 .. Len(r.ht), NEW k \in 1 .. Len(r.ht), IsAnswer(r, j), IsAnswer(r, k),
             r.ht[j].c = r.ht[k].c
      PROVE  j = k
  <2>1. IsAnswer(s, j + 1) /\ IsAnswer(s, k + 1) /\ s.ht[j + 1].c = s.ht[k + 1].c
    BY <1>1, <1>4 DEF IsAnswer
  <2>2. j + 1 = k + 1
    BY <1>1, <2>1 DEF AnswersFit
  <2> QED
    BY <2>2
<1> QED
  BY <1>2, <1>3, <1>4 DEF AnswersFit

\* A shutdown leaves what it has still to tell.
LEMMA DownKeeps ==
  ASSUME NEW s \in ServerTypes, ServerFits(s), s.toUI = <<>>, s.now = <<>>, s.http = TRUE,
         s.ht # <<>>, Head(s.ht).op = "shutdown", NEW n, NEW r,
         Down(s, s.open, n, r), BidsFarewell(s.open, n)
  PROVE  ServerStep(s, r)
<1>1. /\ s.told # <<>> /\ End(s) = "created" /\ s.handler = TRUE
      /\ s.told[1].op = "created" /\ s.thread # "none"
  BY HttpIs DEF ServerTypes
<1>2. /\ IsFiniteSet(s.open)
      /\ \A c \in Connections :
           /\ c \in s.open => Heard(s, c) \in Live /\ s.conn[c] = StateAfter(Heard(s, c))
           /\ c \notin s.open => s.conn[c] = "none"
           /\ Heard(s, c) \in Live => c \in s.open
           /\ Heard(s, c) \in Live \cup {"none", "disconnected"}
  <2>1. \A c \in Connections : ~Leaving(s, c)
    BY HttpIs
  <2> QED
    BY <2>1 DEF ServerFits, ConnectionsFit
<1>7. /\ r.http = FALSE /\ r.open = {} /\ r.conn = [c \in Connections |-> "none"]
      /\ r.told = s.told /\ r.toUI = s.toUI /\ r.ht = Tail(s.ht) /\ r.now = n
      /\ r.thread = s.thread /\ r.refs = s.refs /\ r.handler = s.handler
      /\ r.bad = s.bad /\ r.reply = s.reply
      /\ r \in ServerTypes
  BY DEF Down
<1>8. /\ n # <<>> /\ Len(n) \in Nat
      /\ n[Len(n)] = Call("destroyed", NoConnection)
      /\ \A k \in 1 .. Len(n) - 1 : \E c \in s.open : n[k] = Call("disconnected", c)
      /\ \A j, k \in 1 .. Len(n) - 1 : n[j] = n[k] => j = k
      /\ \A c \in s.open : \E k \in 1 .. Len(n) : n[k] = Call("disconnected", c)
  BY DEF BidsFarewell
<1>9. End(r) = "created" /\ \A c : Heard(r, c) = Heard(s, c)
  BY <1>1, <1>7 DEF End, Heard
<1>10. EndsFit(r)
  <2>1. /\ \A k \in 1 .. Len(s.ht) : s.ht[k].op \in {"shutdown", "answer"}
        /\ s.refs = IF s.thread = "running" THEN 1 ELSE 0
        /\ s.bad \subseteq {"server_impl.cc:376"}
    BY <1>1 DEF ServerFits, EndsFit
  <2>2. \A k \in 1 .. Len(r.ht) : r.ht[k].op \in {"shutdown", "answer"}
    <3>1. FewerTasks(s, r)
      BY <1>7, <2>1, TasksLeave
    <3> QED
      BY <1>7, <2>1, <3>1 DEF FewerTasks
  <2> QED
    BY <1>1, <1>7, <1>8, <1>9, <2>1, <2>2 DEF EndsFit, ServerOps
<1>11. ConnectionsFit(r)
  <2>1. r.open = {} /\ IsFiniteSet(r.open)
    BY <1>7, FS_EmptySet
  <2>2. \A c \in Connections : Heard(r, c) \in Live => Leaving(r, c)
    BY <1>2, <1>7, <1>8, <1>9 DEF Leaving
  <2>3. \A c \in Connections :
          r.conn[c] = "none" /\ Heard(r, c) \in Live \cup {"none", "disconnected"}
    BY <1>2, <1>7, <1>9
  <2>4. \A c \in Connections :
          /\ c \in r.open => Heard(r, c) \in Live /\ r.conn[c] = StateAfter(Heard(r, c))
          /\ c \notin r.open => r.conn[c] = "none"
          /\ Heard(r, c) \in Live => c \in r.open \/ Leaving(r, c)
          /\ Heard(r, c) \in Live \cup {"none", "disconnected"}
    BY <2>1, <2>2, <2>3
  <2> QED
    BY <2>1, <2>4 DEF ConnectionsFit
<1>12. TaskFits(r)
  <2>1. \A k \in 1 .. Len(n) - 1 :
          \E c \in Connections : n[k] = Call("disconnected", c) /\ Heard(r, c) \in Live
    <3>1. s.open \subseteq Connections
      BY DEF ServerTypes
    <3> QED
      BY <1>2, <1>8, <1>9, <3>1
  <2> QED
    BY <1>7, <1>8, <1>9, <2>1 DEF TaskFits
<1>13. AnswersFit(r)
  <2>1. \A d \in Connections : Asked(s, d) => Asked(r, d)
    BY <1>7, <1>9 DEF Asked
  <2>2. AnswersFit(s) /\ r.reply = s.reply
    BY <1>7 DEF ServerFits
  <2>3. r.ht = Tail(s.ht)
    BY <1>7
  <2> QED
    BY <1>7, <2>1, <2>2, <2>3, AnswersShift
<1>14. Tells(s, r)
  BY <1>7 DEF Tells
<1>15. s # NewServer
  BY <1>1, FirstFields
<1>16. 1 .. Len(r.toUI) = {}
  <2>1. r.toUI = <<>>
    BY <1>7
  <2>2. Len(r.toUI) = 0
    BY <2>1
  <2> QED
    BY <2>2
<1>17. \A k \in 1 .. Len(r.ht) : \E j \in 1 .. Len(s.ht) : r.ht[k] = s.ht[j]
  <2>1. FewerTasks(s, r)
    BY <1>7, TasksLeave
  <2> QED
    BY <1>7, <2>1 DEF FewerTasks
<1>18. \E j \in 1 .. Len(s.ht) : s.ht[j].op = "shutdown"
  <2>1. s.ht \in Seq(Tasks)
    BY DEF ServerTypes
  <2>2. Head(s.ht) = s.ht[1] /\ 1 \in 1 .. Len(s.ht)
    BY <2>1
  <2> QED
    BY <2>2
<1> QED
  BY <1>1, <1>7, <1>10, <1>11, <1>12, <1>13, <1>14, <1>15, <1>16, <1>17, <1>18
  DEF ServerStep, ServerFits

LEMMA DownSteps ==
  ASSUME NEW s \in ServerTypes, ServerFits(s), s.toUI = <<>>, s.now = <<>>, s.http = TRUE,
         s.ht # <<>>, Head(s.ht).op = "shutdown", NEW r,
         r = ShutdownOnHandlerThread([s EXCEPT !.ht = Tail(@)])
  PROVE  ServerStep(s, r)
<1>1. \A c \in Connections : c \in s.open <=> s.conn[c] # "none"
  BY ConnectionIs
<1>2. s.open = {c \in Connections : s.conn[c] # "none"}
  BY <1>1 DEF ServerTypes
<1>3. IsFiniteSet(s.open)
  BY DEF ServerFits, ConnectionsFit
<1>4. Down(s, s.open, Farewell(s.open), r) /\ BidsFarewell(s.open, Farewell(s.open))
  BY <1>2, <1>3, DownIs, ZenonT(60)
<1> QED
  BY <1>4, DownKeeps

\* A shutdown that comes after the last call only tells the UI thread again.
LEMMA DownAgainIs ==
  ASSUME NEW s \in ServerTypes, s.http = FALSE, s.toUI = <<>>, s.ht # <<>>,
         NEW r, r = ShutdownOnHandlerThread([s EXCEPT !.ht = Tail(@)])
  PROVE  /\ r \in ServerTypes /\ QuietStep(s, r)
         /\ r.toUI = <<ServerTask("shutdown")>> /\ r.ht = Tail(s.ht)
         /\ r.thread = s.thread /\ r.refs = s.refs /\ r.handler = s.handler
         /\ r.bad = s.bad /\ r.reply = s.reply
<1> DEFINE h == Tail(s.ht)
           u == <<ServerTask("shutdown")>>
           y == [s EXCEPT !.ht = h]
<1>1. h \in Seq(Tasks)
  <2>1. s.ht \in Seq(Tasks)
    BY DEF ServerTypes
  <2> QED
    BY <2>1, QueueIs
<1>2. u \in Seq(Tasks)
  <2>1. ServerTask("shutdown") \in Tasks
    BY DEF ServerTask, Task, Tasks, Ends
  <2> QED
    BY <2>1
<1>3. y.http = FALSE /\ y.toUI = <<>>
  BY DEF ServerTypes
<1>4. r = ToUI(y, ServerTask("shutdown"))
  <2>1. r = ShutdownOnHandlerThread(y)
    OBVIOUS
  <2> HIDE DEF y
  <2> QED
    BY <1>3, <2>1 DEF ShutdownOnHandlerThread
<1>5. r = [y EXCEPT !.toUI = u]
  <2>1. \A x : Append(<<>>, x) = <<x>>
    OBVIOUS
  <2>2. Append(y.toUI, ServerTask("shutdown")) = u
    BY <1>3, <2>1
  <2> HIDE DEF y, u
  <2> QED
    BY <1>4, <2>2 DEF ToUI
<1>6. r = [s EXCEPT !.ht = h, !.toUI = u]
  <2> HIDE DEF h, u
  <2> QED
    BY <1>5 DEF ServerTypes
<1> HIDE DEF h, u, y
<1>7. r \in ServerTypes
  BY <1>1, <1>2, <1>6 DEF ServerTypes
<1>8. /\ r.told = s.told /\ r.now = s.now
      /\ r.http = s.http /\ r.open = s.open /\ r.conn = s.conn
      /\ r.toUI = u /\ r.ht = h
      /\ r.thread = s.thread /\ r.refs = s.refs /\ r.handler = s.handler
      /\ r.bad = s.bad /\ r.reply = s.reply
  BY <1>6 DEF ServerTypes
<1> QED
  BY <1>7, <1>8 DEF QuietStep, h, u

LEMMA DownAgainKeeps ==
  ASSUME NEW s \in ServerTypes, ServerFits(s), s.now = <<>>, s.http = FALSE, s.told # <<>>,
         s.ht # <<>>, NEW r \in ServerTypes, QuietStep(s, r),
         r.toUI = <<ServerTask("shutdown")>>, r.ht = Tail(s.ht),
         r.thread = s.thread, r.refs = s.refs, r.handler = s.handler,
         r.bad = s.bad, r.reply = s.reply
  PROVE  ServerStep(s, r)
<1>1. End(s) = "destroyed" /\ s.told # <<>>
  BY DEF ServerFits, EndsFit
<1>2. /\ s.thread # "none"
      /\ \A k \in 1 .. Len(s.ht) : s.ht[k].op \in {"shutdown", "answer"}
      /\ s.refs = IF s.thread = "running" THEN 1 ELSE 0
      /\ s.bad \subseteq {"server_impl.cc:376"}
  BY DEF ServerFits, EndsFit
<1>3. \A k \in 1 .. Len(r.ht) : \E j \in 1 .. Len(s.ht) : r.ht[k] = s.ht[j]
  <2>1. FewerTasks(s, r)
    BY TasksLeave
  <2> QED
    BY <2>1 DEF FewerTasks
<1>4. \A k \in 1 .. Len(r.ht) : r.ht[k].op \in {"shutdown", "answer"}
  BY <1>2, <1>3
<1>5. AnswersFit(r)
  <2>1. \A d \in Connections : Asked(s, d) => Asked(r, d)
    BY DEF Asked, QuietStep, Heard
  <2>2. AnswersFit(s)
    BY DEF ServerFits
  <2> QED
    BY <2>1, <2>2, AnswersShift
<1>6. ServerFits(r) /\ \A c : Heard(r, c) = Heard(s, c)
  BY <1>2, <1>4, <1>5, QuietKeeps
<1>7. End(r) = "destroyed"
  BY <1>1, <1>6 DEF End
<1>8. r.told = s.told /\ r.http = s.http
  BY DEF QuietStep
<1>9. \A k \in 1 .. Len(r.toUI) : r.toUI[k].op = "shutdown"
  <2> DEFINE x == ServerTask("shutdown")
  <2>1. x.op = "shutdown"
    BY DEF ServerTask, Task
  <2>2. r.toUI = <<x>>
    OBVIOUS
  <2> HIDE DEF x
  <2>3. Len(r.toUI) = 1 /\ r.toUI[1] = x
    BY <2>2
  <2> QED
    BY <2>1, <2>3
<1>10. s # NewServer
  BY FirstFields
<1> QED
  BY <1>3, <1>6, <1>7, <1>8, <1>9, <1>10 DEF ServerStep, Tells

\* The shutdown of a server that has heard something.
LEMMA ShutdownSteps ==
  ASSUME NEW s \in ServerTypes, ServerFits(s), s.toUI = <<>>, s.now = <<>>,
         s.ht # <<>>, Head(s.ht).op = "shutdown", NEW r,
         r = ShutdownOnHandlerThread([s EXCEPT !.ht = Tail(@)])
  PROVE  ServerStep(s, r)
<1>1. s.told # <<>>
  <2>1. s # NewServer
    BY FirstFields
  <2>2. s # Started
    <3>1. Head(<<ServerTask("start")>>).op = "start"
      BY DEF ServerTask, Task
    <3> QED
      BY <3>1, FirstFields
  <2> QED
    BY <2>1, <2>2 DEF ServerFits, EndsFit
<1>2. CASE s.http = TRUE
  BY <1>2, DownSteps
<1>3. CASE s.http = FALSE
  <2>1. /\ r \in ServerTypes /\ QuietStep(s, r)
        /\ r.toUI = <<ServerTask("shutdown")>> /\ r.ht = Tail(s.ht)
        /\ r.thread = s.thread /\ r.refs = s.refs /\ r.handler = s.handler
        /\ r.bad = s.bad /\ r.reply = s.reply
    BY <1>3, DownAgainIs
  <2> QED
    BY <1>1, <1>3, <2>1, DownAgainKeeps
<1> QED
  BY <1>2, <1>3 DEF ServerTypes

LEMMA ProceedSteps ==
  ASSUME NEW s \in ServerTypes, ServerFits(s), s.toUI = <<>>, s.now # <<>>,
         NEW r, r = Proceed(s)
  PROVE  ServerStep(s, r)
<1>1. CASE Head(s.now).op = "close"
  BY <1>1, CloseSteps, ClientStepsAreSteps
<1>2. CASE Head(s.now).op # "close"
  <2>1. /\ s.now[Len(s.now)] = Call("destroyed", NoConnection)
        /\ \A k \in 1 .. Len(s.now) - 1 : \E c \in Connections : s.now[k] = Call("disconnected", c)
    BY <1>2, TaskIs
  <2>2. Head(s.now) = s.now[1] /\ Len(s.now) \in Nat /\ Len(s.now) >= 1
    <3>1. s.now \in Seq(Calls)
      BY DEF ServerTypes
    <3> QED
      BY <3>1, QueueIs
  <2>3. Head(s.now).op \in {"destroyed", "disconnected"}
    <3> DEFINE n == Len(s.now)
    <3>1. n = 1 \/ 1 \in 1 .. n - 1
      <4>1. n \in Nat /\ n >= 1
        BY <2>2
      <4> HIDE DEF n
      <4> QED
        BY <4>1
    <3>2. CASE n = 1
      BY <2>1, <2>2, <3>2 DEF Call
    <3>3. CASE 1 \in 1 .. n - 1
      <4>1. PICK c \in Connections : s.now[1] = Call("disconnected", c)
        BY <2>1, <3>3
      <4> QED
        BY <2>2, <4>1 DEF Call
    <3> QED
      BY <3>1, <3>2, <3>3
  <2> QED
    BY <2>3, EndSteps, LeaveSteps
<1> QED
  BY <1>1, <1>2

LEMMA AnswerSteps ==
  ASSUME NEW s \in ServerTypes, ServerFits(s), s.toUI = <<>>, s.now = <<>>, s.ht # <<>>,
         Head(s.ht).op = "answer", NEW r,
         r = ContinueWebSocketRequest([s EXCEPT !.ht = Tail(@)], Head(s.ht).c, Head(s.ht).allow)
  PROVE  ServerStep(s, r)
BY ContinueSteps, ClientStepsAreSteps

\* The UI thread lets go of the handler after its last call.
LEMMA ReleaseSteps ==
  ASSUME NEW s \in ServerTypes, ServerFits(s), s.toUI = <<>>, s.told # <<>>,
         End(s) = "destroyed", NEW r, r = ShutdownOnUIThread(s)
  PROVE  ServerStep(s, r)
<1> DEFINE th == IF s.thread = "running" THEN "stopping" ELSE s.thread
<1>1. /\ s.thread # "none"
      /\ \A k \in 1 .. Len(s.ht) : s.ht[k].op \in {"shutdown", "answer"}
      /\ s.refs = IF s.thread = "running" THEN 1 ELSE 0
      /\ s.bad \subseteq {"server_impl.cc:376"}
  BY DEF ServerFits, EndsFit
<1>2. r = [s EXCEPT !.handler = FALSE, !.thread = th, !.refs = 0]
  <2>1. CASE s.thread = "running"
    BY <1>1, <2>1 DEF ShutdownOnUIThread, ServerTypes
  <2>2. CASE s.thread # "running"
    BY <1>1, <2>2 DEF ShutdownOnUIThread, ServerTypes
  <2> QED
    BY <2>1, <2>2
<1>3. th \in {"stopping", "ended"}
  BY <1>1 DEF ServerTypes
<1> HIDE DEF th
<1>4. /\ r.told = s.told /\ r.now = s.now
      /\ r.http = s.http /\ r.open = s.open /\ r.conn = s.conn
      /\ r.toUI = s.toUI /\ r.ht = s.ht /\ r.bad = s.bad /\ r.reply = s.reply
      /\ r.thread = th /\ r.refs = 0
  BY <1>2 DEF ServerTypes
<1>5. r \in ServerTypes
  <2>1. th \in {"none", "running", "stopping", "ended"}
    BY <1>3
  <2>2. FALSE \in BOOLEAN /\ 0 \in Int
    OBVIOUS
  <2> QED
    BY <1>2, <2>1, <2>2 DEF ServerTypes
<1>6. QuietStep(s, r)
  BY <1>4 DEF QuietStep
<1>7. AnswersFit(r)
  <2>1. \A d \in Connections : Asked(s, d) => Asked(r, d)
    BY <1>4 DEF Asked, Heard
  <2>2. r.reply \subseteq Connections
    BY <1>5 DEF ServerTypes
  <2> QED
    BY <1>4, <2>1, <2>2 DEF AnswersFit, IsAnswer, ServerFits
<1>8. ServerFits(r)
  <2>1. r.thread # "none" /\ r.refs = IF r.thread = "running" THEN 1 ELSE 0
    BY <1>3, <1>4
  <2>2. r.bad \subseteq {"server_impl.cc:376"}
    BY <1>1, <1>4
  <2>3. \A k \in 1 .. Len(r.ht) : r.ht[k].op \in {"shutdown", "answer"}
    BY <1>1, <1>4
  <2> QED
    BY <1>5, <1>6, <1>7, <2>1, <2>2, <2>3, QuietKeeps
<1>9. s # NewServer
  BY FirstFields
<1>10. 1 .. Len(r.toUI) = {}
  <2>1. r.toUI = <<>>
    BY <1>4
  <2>2. Len(r.toUI) = 0
    BY <2>1
  <2> QED
    BY <2>2
<1> QED
  BY <1>4, <1>5, <1>8, <1>9, <1>10 DEF ServerStep, Tells

\* The thread of a server that was released is joined.
LEMMA EndedSteps ==
  ASSUME NEW s \in ServerTypes, ServerFits(s), s.toUI = <<>>, s.thread = "stopping",
         NEW r, r = [s EXCEPT !.thread = "ended"]
  PROVE  ServerStep(s, r)
<1>1. s.told # <<>>
  BY FirstFields DEF ServerFits, EndsFit
<1>2. /\ \A k \in 1 .. Len(s.ht) : s.ht[k].op \in {"shutdown", "answer"}
      /\ s.refs = 0
      /\ s.bad \subseteq {"server_impl.cc:376"}
  BY <1>1 DEF ServerFits, EndsFit
<1>4. /\ r.told = s.told /\ r.now = s.now
      /\ r.http = s.http /\ r.open = s.open /\ r.conn = s.conn /\ r.handler = s.handler
      /\ r.toUI = s.toUI /\ r.ht = s.ht /\ r.bad = s.bad /\ r.reply = s.reply
      /\ r.thread = "ended" /\ r.refs = 0
  BY <1>2 DEF ServerTypes
<1>5. r \in ServerTypes
  BY DEF ServerTypes
<1>6. QuietStep(s, r)
  BY <1>4 DEF QuietStep
<1>7. AnswersFit(r)
  <2>1. \A d \in Connections : Asked(s, d) => Asked(r, d)
    BY <1>4 DEF Asked, Heard
  <2>2. r.reply \subseteq Connections
    BY <1>5 DEF ServerTypes
  <2> QED
    BY <1>4, <2>1, <2>2 DEF AnswersFit, IsAnswer, ServerFits
<1>8. ServerFits(r)
  <2>1. r.thread # "none" /\ r.refs = IF r.thread = "running" THEN 1 ELSE 0
    BY <1>4
  <2>2. r.bad \subseteq {"server_impl.cc:376"}
    BY <1>2, <1>4
  <2>3. \A k \in 1 .. Len(r.ht) : r.ht[k].op \in {"shutdown", "answer"}
    BY <1>2, <1>4
  <2>4. r.handler = s.handler
    BY <1>4
  <2> QED
    BY <1>1, <1>5, <1>6, <1>7, <2>1, <2>2, <2>3, <2>4, QuietKeeps
<1>9. s # NewServer
  BY <1>1, FirstFields
<1>10. 1 .. Len(r.toUI) = {}
  <2>1. r.toUI = <<>>
    BY <1>4
  <2>2. Len(r.toUI) = 0
    BY <2>1
  <2> QED
    BY <2>2
<1> QED
  BY <1>1, <1>4, <1>5, <1>8, <1>9, <1>10 DEF ServerStep, Tells

\* A server that is started.
LEMMA SameServer ==
  ASSUME NEW s \in ServerTypes, NEW r \in ServerTypes,
         r.thread = s.thread, r.refs = s.refs, r.handler = s.handler, r.http = s.http,
         r.open = s.open, r.conn = s.conn, r.reply = s.reply, r.ht = s.ht, r.now = s.now,
         r.toUI = s.toUI, r.told = s.told, r.bad = s.bad
  PROVE  r = s
<1>1. s = [thread |-> s.thread, refs |-> s.refs, handler |-> s.handler, http |-> s.http,
        open |-> s.open, conn |-> s.conn, reply |-> s.reply, ht |-> s.ht, now |-> s.now,
        toUI |-> s.toUI, told |-> s.told, bad |-> s.bad]
  BY DEF ServerTypes
<1>2. r = [thread |-> r.thread, refs |-> r.refs, handler |-> r.handler, http |-> r.http,
        open |-> r.open, conn |-> r.conn, reply |-> r.reply, ht |-> r.ht, now |-> r.now,
        toUI |-> r.toUI, told |-> r.told, bad |-> r.bad]
  BY DEF ServerTypes
<1> QED
  BY <1>1, <1>2

LEMMA StartIsRecorded ==
  ASSUME NEW s \in ServerTypes, s.thread = "none", s.refs = 0, s.ht = <<>>,
         NEW r, r = StartOnUIThread(s, TRUE)
  PROVE  /\ r \in ServerTypes
         /\ r.thread = "running" /\ r.refs = 1 /\ r.handler = s.handler /\ r.http = s.http
         /\ r.open = s.open /\ r.conn = s.conn /\ r.reply = s.reply
         /\ r.ht = <<ServerTask("start")>> /\ r.now = s.now
         /\ r.toUI = s.toUI /\ r.told = s.told /\ r.bad = s.bad
<1> DEFINE x == ServerTask("start")
           h == <<x>>
           z == [s EXCEPT !.thread = "running", !.refs = 1]
<1>1. x \in Tasks
  BY DEF ServerTask, Task, Tasks, Ends
<1>2. h \in Seq(Tasks) /\ Append(<<>>, x) = h
  BY <1>1
<1>3. Check(s, s.thread = "none", "server_impl.cc:548") = s
  BY DEF Check, ServerTypes
<1>4. r = ToHandler(z, x)
  <2>1. r = ToHandler([s EXCEPT !.thread = "running", !.refs = s.refs + 1], x)
    BY <1>3 DEF StartOnUIThread
  <2>2. s.refs + 1 = 1
    OBVIOUS
  <2> HIDE DEF x
  <2> QED
    BY <2>1, <2>2
<1>5. z.thread = "running" /\ z.ht = <<>>
  BY DEF ServerTypes
<1>6. r = [z EXCEPT !.ht = h]
  <2> HIDE DEF z, x, h
  <2> QED
    BY <1>2, <1>4, <1>5 DEF ToHandler
<1>7. r = [s EXCEPT !.thread = "running", !.refs = 1, !.ht = h]
  <2> HIDE DEF h, x
  <2> QED
    BY <1>6 DEF ServerTypes
<1> HIDE DEF x, z, h
<1>8. r \in ServerTypes
  <2>1. "running" \in {"none", "running", "stopping", "ended"} /\ 1 \in Int
    OBVIOUS
  <2> QED
    BY <1>2, <1>7, <2>1 DEF ServerTypes
<1>9. /\ r.thread = "running" /\ r.refs = 1 /\ r.handler = s.handler /\ r.http = s.http
      /\ r.open = s.open /\ r.conn = s.conn /\ r.reply = s.reply
      /\ r.ht = h /\ r.now = s.now
      /\ r.toUI = s.toUI /\ r.told = s.told /\ r.bad = s.bad
  BY <1>7 DEF ServerTypes
<1> QED
  BY <1>8, <1>9 DEF h, x

LEMMA StartedIs ==
  StartOnUIThread(NewServer, TRUE) = Started /\ StartOnUIThread(NewServer, FALSE) = NewServer
<1> DEFINE s == NewServer
           r == StartOnUIThread(s, TRUE)
<1>1. s \in ServerTypes /\ Started \in ServerTypes
  BY FirstServers
<1>2. s.thread = "none" /\ s.refs = 0 /\ s.ht = <<>> /\ s.bad = {} /\ Started.bad = {}
      /\ Started.refs = 1
  BY DEF NewServer, Started
<1> HIDE DEF s, r
<1>3. /\ r \in ServerTypes
      /\ r.thread = "running" /\ r.refs = 1 /\ r.handler = s.handler /\ r.http = s.http
      /\ r.open = s.open /\ r.conn = s.conn /\ r.reply = s.reply
      /\ r.ht = <<ServerTask("start")>> /\ r.now = s.now
      /\ r.toUI = s.toUI /\ r.told = s.told /\ r.bad = s.bad
  <2>1. r = StartOnUIThread(s, TRUE)
    BY DEF r
  <2> QED
    BY <1>1, <1>2, <2>1, StartIsRecorded
<1>4. /\ s.http = Started.http /\ s.handler = Started.handler
      /\ s.open = Started.open /\ s.reply = Started.reply /\ s.conn = Started.conn
      /\ Started.ht = <<ServerTask("start")>>
      /\ s.now = Started.now /\ s.toUI = Started.toUI /\ s.told = Started.told
      /\ Started.thread = "running"
  BY FirstFields DEF s
<1>5. r = Started
  BY <1>1, <1>2, <1>3, <1>4, SameServer, ZenonT(60)
<1>6. StartOnUIThread(s, FALSE) = s
  BY <1>1, <1>2 DEF StartOnUIThread, Check, ServerTypes
<1> QED
  BY <1>5, <1>6 DEF r, s

\* One more task for the handler thread, if there still is one.
LEMMA ToHandlerIs ==
  ASSUME NEW s \in ServerTypes, NEW t \in Tasks, NEW r, r = ToHandler(s, t)
  PROVE  /\ r \in ServerTypes /\ QuietStep(s, r)
         /\ r.ht = s.ht \/ r.ht = Append(s.ht, t)
         /\ r.thread = s.thread /\ r.refs = s.refs /\ r.handler = s.handler
         /\ r.bad = s.bad /\ r.reply = s.reply /\ r.toUI = s.toUI
<1>1. CASE s.thread \notin {"running", "stopping"}
  BY <1>1 DEF ToHandler, QuietStep
<1>2. CASE s.thread \in {"running", "stopping"}
  <2> DEFINE h == Append(s.ht, t)
  <2>1. h \in Seq(Tasks)
    BY DEF ServerTypes
  <2>2. r = [s EXCEPT !.ht = h]
    BY <1>2 DEF ToHandler, ServerTypes
  <2> HIDE DEF h
  <2>3. r \in ServerTypes
    BY <2>1, <2>2 DEF ServerTypes
  <2>4. /\ r.told = s.told /\ r.now = s.now
        /\ r.http = s.http /\ r.open = s.open /\ r.conn = s.conn
        /\ r.ht = h
        /\ r.thread = s.thread /\ r.refs = s.refs /\ r.handler = s.handler
        /\ r.bad = s.bad /\ r.reply = s.reply /\ r.toUI = s.toUI
    BY <2>2 DEF ServerTypes
  <2> QED
    BY <2>3, <2>4 DEF QuietStep, h
<1> QED
  BY <1>1, <1>2

LEMMA AppendedTasks ==
  ASSUME NEW h \in Seq(Tasks), NEW t \in Tasks, NEW g, g = h \/ g = Append(h, t)
  PROVE  /\ Len(h) \in Nat /\ Len(g) \in {Len(h), Len(h) + 1}
         /\ \A k \in 1 .. Len(h) : g[k] = h[k]
         /\ \A k \in 1 .. Len(g) : k \in 1 .. Len(h) \/ (k = Len(h) + 1 /\ g[k] = t)
<1>1. CASE g = h
  BY <1>1
<1>2. CASE g = Append(h, t)
  BY <1>2
<1> QED
  BY <1>1, <1>2

\* The first use of a callback posts the one answer; every other does nothing.
LEMMA UseKeeps ==
  ASSUME NEW s \in ServerTypes, ServerFits(s), s.toUI = <<>>, s.told # <<>>,
         NEW c \in Connections, c \in s.reply, NEW t \in Tasks, t.op = "answer", t.c = c,
         NEW r \in ServerTypes, QuietStep(s, r), r.ht = s.ht \/ r.ht = Append(s.ht, t),
         r.thread = s.thread, r.refs = s.refs, r.handler = s.handler,
         r.bad = s.bad, r.reply = s.reply \ {c}, r.toUI = s.toUI
  PROVE  ServerStep(s, r)
<1>1. /\ s.thread # "none"
      /\ \A k \in 1 .. Len(s.ht) : s.ht[k].op \in {"shutdown", "answer"}
      /\ s.refs = IF s.thread = "running" THEN 1 ELSE 0
      /\ s.bad \subseteq {"server_impl.cc:376"}
  BY DEF ServerFits, EndsFit
<1>2. /\ Len(s.ht) \in Nat /\ Len(r.ht) \in {Len(s.ht), Len(s.ht) + 1}
      /\ \A k \in 1 .. Len(s.ht) : r.ht[k] = s.ht[k]
      /\ \A k \in 1 .. Len(r.ht) : k \in 1 .. Len(s.ht) \/ (k = Len(s.ht) + 1 /\ r.ht[k] = t)
  <2>1. s.ht \in Seq(Tasks)
    BY DEF ServerTypes
  <2> QED
    BY <2>1, AppendedTasks, SMTT(60)
<1>3. \A d : Asked(s, d) => Asked(r, d)
  BY DEF Asked, QuietStep, Heard
<1>4. AnswersFit(s) /\ Asked(s, c) /\ s.reply \subseteq Connections
  BY DEF ServerFits, AnswersFit, ServerTypes
<1>5. \A k \in 1 .. Len(s.ht) : IsAnswer(s, k) => s.ht[k].c # c
  BY <1>4 DEF AnswersFit
<1>6. AnswersFit(r)
  <2>1. \A d \in r.reply : Asked(r, d)
    BY <1>3, <1>4 DEF AnswersFit
  <2>2. ASSUME NEW k \in 1 .. Len(r.ht), IsAnswer(r, k)
        PROVE  r.ht[k].c \in Connections \ r.reply /\ Asked(r, r.ht[k].c)
    <3>1. CASE k \in 1 .. Len(s.ht)
      <4>1. IsAnswer(s, k) /\ r.ht[k] = s.ht[k]
        BY <1>2, <2>2, <3>1 DEF IsAnswer
      <4>2. s.ht[k].c \in Connections \ s.reply /\ Asked(s, s.ht[k].c)
        BY <1>4, <3>1, <4>1 DEF AnswersFit
      <4> QED
        BY <1>3, <4>1, <4>2
    <3>2. CASE r.ht[k] = t
      BY <1>3, <1>4, <3>2
    <3> QED
      BY <1>2, <3>1, <3>2
  <2>3. ASSUME NEW j \in 1 .. Len(r.ht), NEW k \in 1 .. Len(r.ht), IsAnswer(r, j), IsAnswer(r, k),
               r.ht[j].c = r.ht[k].c
        PROVE  j = k
    <3>1. \A m \in 1 .. Len(s.ht) : IsAnswer(r, m) <=> IsAnswer(s, m)
      BY <1>2 DEF IsAnswer
    <3>2. CASE j \in 1 .. Len(s.ht) /\ k \in 1 .. Len(s.ht)
      BY <1>2, <1>4, <2>3, <3>1, <3>2 DEF AnswersFit
    <3>3. CASE j \in 1 .. Len(s.ht) /\ k \notin 1 .. Len(s.ht)
      <4>1. s.ht[j].c # c
        BY <1>5, <2>3, <3>1, <3>3
      <4> QED
        BY <1>2, <2>3, <3>3, <4>1
    <3>4. CASE j \notin 1 .. Len(s.ht) /\ k \in 1 .. Len(s.ht)
      <4>1. s.ht[k].c # c
        BY <1>5, <2>3, <3>1, <3>4
      <4> QED
        BY <1>2, <2>3, <3>4, <4>1
    <3>5. CASE j \notin 1 .. Len(s.ht) /\ k \notin 1 .. Len(s.ht)
      BY <1>2, <3>5
    <3> QED
      BY <3>2, <3>3, <3>4, <3>5
  <2> QED
    BY <2>1, <2>2, <2>3 DEF AnswersFit
<1>7. ServerFits(r)
  <2>1. r.thread # "none" /\ r.refs = IF r.thread = "running" THEN 1 ELSE 0
    BY <1>1
  <2>2. r.bad \subseteq {"server_impl.cc:376"}
    BY <1>1
  <2>3. \A k \in 1 .. Len(r.ht) : r.ht[k].op \in {"shutdown", "answer"}
    BY <1>1, <1>2
  <2> QED
    BY <1>6, <2>1, <2>2, <2>3, QuietKeeps
<1>8. r.told = s.told /\ r.http = s.http
  BY DEF QuietStep
<1>9. 1 .. Len(r.toUI) = {}
  <2>1. Len(r.toUI) = 0
    OBVIOUS
  <2> QED
    BY <2>1
<1>10. s # NewServer
  BY FirstFields
<1>11. \A k \in 1 .. Len(r.ht) : r.ht[k].op = "answer" \/ \E j \in 1 .. Len(s.ht) : r.ht[k] = s.ht[j]
  BY <1>2
<1> QED
  BY <1>7, <1>8, <1>9, <1>10, <1>11 DEF ServerStep, Tells

\* AcceptWebSocketCallback on the UI thread.
LEMMA UseSteps ==
  ASSUME NEW s \in ServerTypes, ServerFits(s), s.toUI = <<>>, s.told # <<>>,
         NEW c \in Connections, NEW allow \in BOOLEAN, NEW r, r = UseCallback(s, c, allow)
  PROVE  ServerStep(s, r)
<1>1. CASE c \notin s.reply
  <2>1. r = s
    BY <1>1 DEF UseCallback
  <2>2. s # NewServer
    BY FirstFields
  <2>3. 1 .. Len(r.toUI) = {}
    <3>1. Len(r.toUI) = 0
      BY <2>1
    <3> QED
      BY <3>1
  <2> QED
    BY <2>1, <2>2, <2>3 DEF ServerStep, Tells
<1>2. CASE c \in s.reply
  <2> DEFINE t == Task("answer", c, allow)
             o == s.reply \ {c}
             y == [s EXCEPT !.reply = o]
  <2>1. t \in Tasks /\ t.op = "answer" /\ t.c = c
    <3>1. t \in Tasks
      BY DEF Task, Tasks, Ends
    <3>2. t.op = "answer" /\ t.c = c
      BY DEF Task
    <3> QED
      BY <3>1, <3>2
  <2>2. r = ToHandler(y, t)
    BY <1>2 DEF UseCallback
  <2> HIDE DEF t
  <2>3. o \in SUBSET Connections
    BY DEF ServerTypes
  <2>4. y \in ServerTypes
    <3> HIDE DEF o
    <3> QED
      BY <2>3 DEF ServerTypes
  <2>5. /\ y.told = s.told /\ y.now = s.now
        /\ y.http = s.http /\ y.open = s.open /\ y.conn = s.conn
        /\ y.ht = s.ht /\ y.reply = o
        /\ y.thread = s.thread /\ y.refs = s.refs /\ y.handler = s.handler
        /\ y.bad = s.bad /\ y.toUI = s.toUI
    BY DEF ServerTypes
  <2> HIDE DEF y
  <2>6. /\ r \in ServerTypes /\ QuietStep(y, r)
        /\ r.ht = y.ht \/ r.ht = Append(y.ht, t)
        /\ r.thread = y.thread /\ r.refs = y.refs /\ r.handler = y.handler
        /\ r.bad = y.bad /\ r.reply = y.reply /\ r.toUI = y.toUI
    BY <2>1, <2>2, <2>4, ToHandlerIs
  <2>7. QuietStep(s, r)
    BY <2>5, <2>6 DEF QuietStep
  <2>8. /\ r.ht = s.ht \/ r.ht = Append(s.ht, t)
        /\ r.thread = s.thread /\ r.refs = s.refs /\ r.handler = s.handler
        /\ r.bad = s.bad /\ r.reply = s.reply \ {c} /\ r.toUI = s.toUI
    BY <2>5, <2>6
  <2>9. r \in ServerTypes
    BY <2>6
  <2> QED
    BY <1>2, <2>1, <2>7, <2>8, <2>9, UseKeeps, ZenonT(60)
<1> QED
  BY <1>1, <1>2

\* Shutdown posts to the handler thread, if there still is one.
LEMMA StopIs ==
  ASSUME NEW s \in ServerTypes, ServerFits(s), s.told # <<>>, NEW r, r = Shutdown(s)
  PROVE  /\ r \in ServerTypes /\ ServerFits(r) /\ \A c : Heard(r, c) = Heard(s, c)
         /\ r.told = s.told /\ r.http = s.http /\ r.toUI = s.toUI
<1> DEFINE t == ServerTask("shutdown")
<1>1. t \in Tasks /\ t.op = "shutdown"
  <2>1. t \in Tasks
    BY DEF ServerTask, Task, Tasks, Ends
  <2>2. t.op = "shutdown"
    BY DEF ServerTask, Task
  <2> QED
    BY <2>1, <2>2
<1>2. r = ToHandler(s, t)
  BY DEF Shutdown
<1> HIDE DEF t
<1>3. /\ r \in ServerTypes /\ QuietStep(s, r)
      /\ r.ht = s.ht \/ r.ht = Append(s.ht, t)
      /\ r.thread = s.thread /\ r.refs = s.refs /\ r.handler = s.handler
      /\ r.bad = s.bad /\ r.reply = s.reply /\ r.toUI = s.toUI
  BY <1>1, <1>2, ToHandlerIs
<1>4. /\ Len(s.ht) \in Nat /\ Len(r.ht) \in {Len(s.ht), Len(s.ht) + 1}
      /\ \A k \in 1 .. Len(s.ht) : r.ht[k] = s.ht[k]
      /\ \A k \in 1 .. Len(r.ht) : k \in 1 .. Len(s.ht) \/ (k = Len(s.ht) + 1 /\ r.ht[k] = t)
  <2>1. s.ht \in Seq(Tasks)
    BY DEF ServerTypes
  <2>2. r.ht = s.ht \/ r.ht = Append(s.ht, t)
    BY <1>3
  <2> QED
    BY <1>1, <2>1, <2>2, AppendedTasks
<1>5. /\ s.thread # "none"
      /\ \A k \in 1 .. Len(s.ht) : s.ht[k].op \in {"shutdown", "answer"}
      /\ s.refs = IF s.thread = "running" THEN 1 ELSE 0
      /\ s.bad \subseteq {"server_impl.cc:376"}
  BY DEF ServerFits, EndsFit
<1>6. AnswersFit(r)
  <2>1. \A k \in 1 .. Len(r.ht) : IsAnswer(r, k) =>
          k \in 1 .. Len(s.ht) /\ IsAnswer(s, k) /\ r.ht[k] = s.ht[k]
    BY <1>1, <1>4 DEF IsAnswer
  <2>2. \A d : Asked(s, d) => Asked(r, d)
    BY <1>3 DEF Asked, QuietStep, Heard
  <2>3. AnswersFit(s) /\ r.reply = s.reply
    BY <1>3 DEF ServerFits
  <2> QED
    BY <2>1, <2>2, <2>3 DEF AnswersFit
<1>7. ServerFits(r) /\ \A c : Heard(r, c) = Heard(s, c)
  <2>1. \A k \in 1 .. Len(r.ht) : r.ht[k].op \in {"shutdown", "answer"}
    BY <1>1, <1>4, <1>5
  <2>2. r.thread # "none" /\ r.refs = (IF r.thread = "running" THEN 1 ELSE 0)
        /\ r.bad \subseteq {"server_impl.cc:376"} /\ r.handler = s.handler
    BY <1>3, <1>5
  <2>3. r \in ServerTypes /\ QuietStep(s, r)
    BY <1>3
  <2> QED
    BY <1>6, <2>1, <2>2, <2>3, QuietKeeps
<1> QED
  BY <1>3, <1>7 DEF QuietStep

-----------------------------------------------------------------------------
(* What a step of a server does to its handler.                              *)

HeardOp(o, s) == IF Len(s.told) > Len(o.told) THEN s.told[Len(s.told)].op ELSE "none"

\* Nothing that its ServerHandler keeps or completes.
Passes(o, s, op) ==
  /\ op \in ConnectionOps \cup {"none"}
  /\ o.told # <<>> /\ s.told[1] = o.told[1] /\ End(s) = End(o)

Begins(o, s, op) ==
  /\ op \in {"created", "failed"}
  /\ o.told = <<>> /\ s.told[1].op = op /\ End(s) = op /\ s.http = (op = "created")

Finishes(o, s, op) ==
  /\ op = "destroyed"
  /\ o.told # <<>> /\ s.told[1] = o.told[1]
  /\ End(o) \in {"created", "failed"} /\ End(s) = "destroyed"

LEMMA HeardOpIs ==
  ASSUME NEW o \in ServerTypes, NEW s, NEW op \in CallOps, NEW c \in Ends, Hears1(o, s, op, c)
  PROVE  HeardOp(o, s) = op
<1>1. /\ s.told \in Seq(Calls) /\ s.told # <<>> /\ Len(s.told) = Len(o.told) + 1
      /\ s.told[Len(s.told)] = Call(op, c)
  BY HeardOne
<1>2. Len(o.told) \in Nat
  BY DEF ServerTypes
<1>3. Len(s.told) > Len(o.told) /\ Call(op, c).op = op
  BY <1>1, <1>2 DEF Call
<1> QED
  BY <1>1, <1>3 DEF HeardOp

LEMMA StepIs ==
  ASSUME NEW o \in ServerTypes, ServerFits(o), NEW s, ServerStep(o, s)
  PROVE  \/ Passes(o, s, HeardOp(o, s))
         \/ Begins(o, s, HeardOp(o, s))
         \/ Finishes(o, s, HeardOp(o, s))
<1>1. s.told # <<>> /\ Tells(o, s)
  BY DEF ServerStep
<1>2. CASE s.told = o.told
  <2>1. Len(o.told) \in Nat
    BY DEF ServerTypes
  <2>2. HeardOp(o, s) = "none"
    BY <1>2, <2>1 DEF HeardOp
  <2>3. End(s) = End(o)
    BY <1>2 DEF End, Heard
  <2> QED
    BY <1>1, <1>2, <2>2, <2>3 DEF Passes
<1>3. ASSUME NEW op \in ConnectionOps, NEW c \in Connections, Hears1(o, s, op, c), MayHear(o, op, c)
      PROVE  Passes(o, s, HeardOp(o, s))
  <2>1. op \in CallOps /\ c \in Ends
    BY DEF ConnectionOps, CallOps, Ends
  <2>2. HeardOp(o, s) = op
    BY <1>3, <2>1, HeardOpIs
  <2>3. End(o) = "created"
    BY <1>3 DEF MayHear
  <2>4. o.told # <<>>
    BY <2>3, FirstServers DEF ServerFits, EndsFit, End
  <2>5. /\ o.told # <<>> => s.told[1] = o.told[1]
        /\ End(s) = End(o)
    BY <1>3, HeardClient
  <2> QED
    BY <2>2, <2>4, <2>5 DEF Passes
<1>4. ASSUME NEW op \in {"created", "failed"}, Hears1(o, s, op, NoConnection), o.told = <<>>,
             s.http = (op = "created")
      PROVE  Begins(o, s, HeardOp(o, s))
  <2>1. op \in ServerOps /\ op \in CallOps /\ NoConnection \in Ends
    BY DEF ServerOps, CallOps, Ends
  <2>2. HeardOp(o, s) = op
    BY <1>4, <2>1, HeardOpIs
  <2>3. /\ o.told = <<>> => s.told[1] = Call(op, NoConnection)
        /\ End(s) = op
    BY <1>4, <2>1, HeardServer
  <2>4. s.told[1].op = op
    BY <1>4, <2>3 DEF Call
  <2> QED
    BY <1>4, <2>2, <2>3, <2>4 DEF Begins
<1>5. ASSUME Hears1(o, s, "destroyed", NoConnection), End(o) \in {"created", "failed"}
      PROVE  Finishes(o, s, HeardOp(o, s))
  <2>1. "destroyed" \in ServerOps /\ "destroyed" \in CallOps /\ NoConnection \in Ends
    BY DEF ServerOps, CallOps, Ends
  <2>2. HeardOp(o, s) = "destroyed"
    BY <1>5, <2>1, HeardOpIs
  <2>3. /\ o.told # <<>> => s.told[1] = o.told[1]
        /\ End(s) = "destroyed"
    BY <1>5, <2>1, HeardServer
  <2>4. o.told # <<>>
    BY <1>5, FirstServers DEF ServerFits, EndsFit, End
  <2> QED
    BY <1>5, <2>2, <2>3, <2>4 DEF Finishes
<1> QED
  BY <1>1, <1>2, <1>3, <1>4, <1>5 DEF Tells

-----------------------------------------------------------------------------
(* The queue of the UI thread.                                               *)

\* The queue is u without its first d tasks, followed by those a server posted.
Posts(u, v, d, i, p) ==
  /\ v \in Seq(UITasks) /\ p \in Seq(Tasks)
  /\ d \in {0, 1} /\ d <= Len(u)
  /\ Len(v) = Len(u) - d + Len(p)
  /\ \A k \in 1 .. Len(u) - d : v[k] = u[k + d]
  /\ \A k \in 1 .. Len(p) : v[Len(u) - d + k] = UITask(i, p[k])

LEMMA PostsAre ==
  ASSUME NEW u \in Seq(UITasks), NEW i \in Ids, NEW p \in Seq(Tasks), NEW q, NEW d,
         \/ q = u /\ d = 0
         \/ u # <<>> /\ q = Tail(u) /\ d = 1
  PROVE  Posts(u, q \o [k \in DOMAIN p |-> UITask(i, p[k])], d, i, p)
<1> DEFINE n == Len(p)
           w == [k \in 1 .. n |-> UITask(i, p[k])]
           m == Len(q)
           v == q \o w
<1>1. n \in Nat /\ DOMAIN p = 1 .. n /\ \A k \in 1 .. n : p[k] \in Tasks
  OBVIOUS
<1>2. \A k \in 1 .. n : UITask(i, p[k]) \in UITasks
  BY <1>1 DEF UITask, UITasks
<1>3. w \in [1 .. n -> UITasks]
  BY <1>2
<1>4. \A k \in 1 .. n : w[k] = UITask(i, p[k])
  OBVIOUS
<1>5. /\ q \in Seq(UITasks) /\ d \in {0, 1} /\ d <= Len(u) /\ Len(u) \in Nat /\ m = Len(u) - d
      /\ \A k \in 1 .. m : q[k] = u[k + d]
  <2>1. CASE q = u /\ d = 0
    BY <2>1
  <2>2. CASE u # <<>> /\ q = Tail(u) /\ d = 1
    BY <2>2, QueueIs
  <2> QED
    BY <2>1, <2>2
<1>6. q \o [k \in DOMAIN p |-> UITask(i, p[k])] = v
  BY <1>1
<1> HIDE DEF n, w
<1>7. w \in Seq(UITasks) /\ Len(w) = n
  BY <1>1, <1>3
<1>8. v \in Seq(UITasks) /\ Len(v) = m + n
  BY <1>5, <1>7, ConcatProperties, Zenon
<1>9. \A k \in 1 .. m + n : v[k] = IF k <= m THEN q[k] ELSE w[k - m]
  BY <1>5, <1>7, ConcatProperties, Zenon
<1>10. m \in Nat
  BY <1>5
<1> HIDE DEF v, m
<1>11. \A k \in 1 .. m : v[k] = q[k]
  BY <1>1, <1>9, <1>10
<1>12. \A k \in 1 .. n : v[m + k] = w[k]
  <2> TAKE k \in 1 .. n
  <2> DEFINE j == m + k
  <2>1. j \in 1 .. m + n /\ ~(j <= m) /\ j - m = k
    BY <1>1, <1>10
  <2> HIDE DEF j
  <2>2. v[j] = IF j <= m THEN q[j] ELSE w[j - m]
    BY <1>9, <2>1
  <2>3. v[j] = w[k]
    BY <2>1, <2>2
  <2> QED
    BY <2>3 DEF j
<1>13. Posts(u, v, d, i, p)
  BY <1>4, <1>5, <1>8, <1>11, <1>12 DEF Posts, n
<1> QED
  BY <1>6, <1>13

\* A server whose posts were taken.
LEMMA ClearedIs ==
  ASSUME NEW s \in ServerTypes, ServerFits(s), NEW z, z = [s EXCEPT !.toUI = <<>>]
  PROVE  /\ z \in ServerTypes /\ ServerFits(z) /\ z.toUI = <<>>
         /\ z.told = s.told /\ z.ht = s.ht /\ z.http = s.http /\ End(z) = End(s)
         /\ z.now = s.now
<1> DEFINE e == <<>>
<1>1. e \in Seq(Tasks)
  OBVIOUS
<1>2. z = [s EXCEPT !.toUI = e]
  OBVIOUS
<1>3. z.toUI = <<>>
  BY DEF ServerTypes
<1> HIDE DEF e
<1>4. z \in ServerTypes
  BY <1>1, <1>2 DEF ServerTypes
<1>5. /\ z.thread = s.thread /\ z.refs = s.refs /\ z.handler = s.handler /\ z.http = s.http
      /\ z.open = s.open /\ z.conn = s.conn /\ z.reply = s.reply /\ z.ht = s.ht
      /\ z.now = s.now /\ z.told = s.told /\ z.bad = s.bad
  BY <1>2 DEF ServerTypes
<1>6. \A c : Heard(z, c) = Heard(s, c) /\ (Leaving(z, c) <=> Leaving(s, c))
             /\ (Asked(z, c) <=> Asked(s, c))
  BY <1>5 DEF Heard, Leaving, Asked
<1>7. End(z) = End(s)
  BY <1>6 DEF End
<1>8. CASE s.told # <<>>
  <2>1. QuietStep(s, z)
    BY <1>5 DEF QuietStep
  <2>2. AnswersFit(z)
    BY <1>5, <1>6 DEF AnswersFit, IsAnswer, ServerFits
  <2>3. /\ s.thread # "none"
        /\ \A k \in 1 .. Len(s.ht) : s.ht[k].op \in {"shutdown", "answer"}
        /\ s.refs = (IF s.thread = "running" THEN 1 ELSE 0)
        /\ s.bad \subseteq {"server_impl.cc:376"}
    BY <1>8 DEF ServerFits, EndsFit
  <2>4. z.handler = s.handler /\ z.thread # "none" /\ z.bad \subseteq {"server_impl.cc:376"}
        /\ z.refs = (IF z.thread = "running" THEN 1 ELSE 0)
        /\ \A k \in 1 .. Len(z.ht) : z.ht[k].op \in {"shutdown", "answer"}
    BY <1>5, <2>3
  <2>5. ServerFits(z)
    BY <1>4, <1>8, <2>1, <2>2, <2>4, QuietKeeps
  <2> QED
    BY <1>3, <1>4, <1>5, <1>7, <2>5
<1>9. CASE s.told = <<>>
  <2>1. s.toUI = <<>>
    BY <1>9, FirstFields DEF ServerFits, EndsFit
  <2>2. z = s
    BY <1>3, <1>4, <1>5, <2>1, SameServer
  <2> QED
    BY <1>3, <1>4, <1>5, <1>7, <2>2
<1> QED
  BY <1>8, <1>9

\* What a step from o to z means to the ServerHandler and the UI thread, with
\* the tasks p it posts to the UI thread.
Moved(o, z, op, p) ==
  /\ z \in ServerTypes /\ ServerFits(z) /\ z.toUI = <<>>
  /\ o # NewServer /\ z.told # <<>>
  /\ Passes(o, z, op) \/ Begins(o, z, op) \/ Finishes(o, z, op)
  /\ \A k \in 1 .. Len(z.ht) :
       z.ht[k].op = "answer" \/ \E j \in 1 .. Len(o.ht) : z.ht[k] = o.ht[j]
  /\ o.http => z.http \/ \E j \in 1 .. Len(o.ht) : o.ht[j].op = "shutdown"
  /\ z.http => o.http \/ o.told = <<>>
  /\ Begins(o, z, op) => Len(p) >= 1 /\ p[1].op = "complete" /\ p[1].allow = (op = "created")
  /\ \A k \in 1 .. Len(p) :
       \/ p[k].op = "complete" /\ k = 1 /\ (Begins(o, z, op) \/ (Finishes(o, z, op) /\ p[k].allow))
       \/ p[k].op = "use" /\ p[k].c \in Connections
       \/ p[k].op = "shutdown" /\ End(z) = "destroyed"

LEMMA CompletesIs ==
  ASSUME NEW op \in CallOps \cup {"none"}
  PROVE  /\ op \in ConnectionOps \cup {"none"} => Completes(op) = <<>>
         /\ op \in {"created", "failed"} =>
              Completes(op) = <<Task("complete", NoConnection, op = "created")>>
         /\ op = "destroyed" => Completes(op) = <<Task("complete", NoConnection, TRUE)>>
BY DEF Completes, CallOps, ConnectionOps, ServerOps, Live

\* A task in front of those a function of the server posted.
IsFront(t, u, p) == p = <<t>> \o u

Fronts(t, u, p) ==
  /\ p \in Seq(Tasks) /\ Len(p) >= 1 /\ Len(p) \in Nat /\ p[1] = t
  /\ \A k \in 1 .. Len(p) : k = 1 \/ \E j \in 1 .. Len(u) : p[k] = u[j]

LEMMA FrontTask ==
  ASSUME NEW t \in Tasks, NEW u \in Seq(Tasks), NEW p, IsFront(t, u, p)
  PROVE  Fronts(t, u, p)
<1> USE DEF IsFront
<1>1. <<t>> \in Seq(Tasks) /\ Len(<<t>>) = 1 /\ <<t>>[1] = t /\ Len(u) \in Nat
  OBVIOUS
<1> DEFINE w == <<t>>
           n == Len(u)
<1> HIDE DEF w
<1>2. p \in Seq(Tasks) /\ Len(p) = 1 + n
  BY <1>1, ConcatProperties, Zenon DEF w
<1>3. \A k \in 1 .. 1 + n : p[k] = IF k <= 1 THEN w[k] ELSE u[k - 1]
  <2>1. \A k \in 1 .. Len(w) + Len(u) : (w \o u)[k] = IF k <= Len(w) THEN w[k] ELSE u[k - Len(w)]
    BY <1>1, ConcatProperties, Zenon DEF w
  <2>2. p = w \o u /\ Len(w) = 1
    BY <1>1 DEF w
  <2> QED
    BY <2>1, <2>2
<1>4. n \in Nat
  BY <1>1
<1>5. p[1] = t
  <2>1. 1 \in 1 .. 1 + n /\ 1 <= 1
    BY <1>4
  <2> QED
    BY <1>1, <1>3, <2>1 DEF w
<1>6. ASSUME NEW k \in 1 .. 1 + n, k # 1
      PROVE  \E j \in 1 .. n : p[k] = u[j]
  <2>1. k - 1 \in 1 .. n /\ ~(k <= 1)
    BY <1>4, <1>6
  <2> QED
    BY <1>3, <2>1
<1> QED
  BY <1>2, <1>4, <1>5, <1>6 DEF Fronts

LEMMA MovedIs ==
  ASSUME NEW o \in ServerTypes, ServerFits(o), NEW s, ServerStep(o, s),
         NEW z, z = [s EXCEPT !.toUI = <<>>], NEW op, op = HeardOp(o, s),
         NEW p, p = Completes(op) \o s.toUI
  PROVE  p \in Seq(Tasks) /\ Moved(o, z, op, p)
<1>1. /\ s \in ServerTypes /\ ServerFits(s) /\ o # NewServer /\ s.told # <<>>
      /\ \A k \in 1 .. Len(s.ht) :
           s.ht[k].op = "answer" \/ \E j \in 1 .. Len(o.ht) : s.ht[k] = o.ht[j]
      /\ o.http => s.http \/ \E j \in 1 .. Len(o.ht) : o.ht[j].op = "shutdown"
      /\ s.http => o.http \/ o.told = <<>>
      /\ \A k \in 1 .. Len(s.toUI) :
           \/ s.toUI[k].op = "use" /\ s.toUI[k].c \in Connections
           \/ s.toUI[k].op = "shutdown" /\ End(s) = "destroyed"
  BY DEF ServerStep
<1>2. /\ z \in ServerTypes /\ ServerFits(z) /\ z.toUI = <<>>
      /\ z.told = s.told /\ z.ht = s.ht /\ z.http = s.http /\ End(z) = End(s)
  BY <1>1, ClearedIs
<1>3. s.toUI \in Seq(Tasks)
  BY <1>1 DEF ServerTypes
<1>4. Passes(o, s, op) \/ Begins(o, s, op) \/ Finishes(o, s, op)
  BY StepIs
<1>5. /\ Passes(o, s, op) => Passes(o, z, op)
      /\ Begins(o, s, op) <=> Begins(o, z, op)
      /\ Finishes(o, s, op) <=> Finishes(o, z, op)
  BY <1>2 DEF Passes, Begins, Finishes
<1>6. /\ z.told # <<>>
      /\ \A k \in 1 .. Len(z.ht) :
           z.ht[k].op = "answer" \/ \E j \in 1 .. Len(o.ht) : z.ht[k] = o.ht[j]
      /\ o.http => z.http \/ \E j \in 1 .. Len(o.ht) : o.ht[j].op = "shutdown"
      /\ z.http => o.http \/ o.told = <<>>
      /\ \A k \in 1 .. Len(s.toUI) :
           \/ s.toUI[k].op = "use" /\ s.toUI[k].c \in Connections
           \/ s.toUI[k].op = "shutdown" /\ End(z) = "destroyed"
  BY <1>1, <1>2
<1>7. \A allow \in BOOLEAN : Task("complete", NoConnection, allow) \in Tasks
        /\ Task("complete", NoConnection, allow).op = "complete"
        /\ Task("complete", NoConnection, allow).allow = allow
  <2>1. \A allow \in BOOLEAN : Task("complete", NoConnection, allow) \in Tasks
    BY DEF Task, Tasks, Ends
  <2>2. \A allow : Task("complete", NoConnection, allow).op = "complete"
                     /\ Task("complete", NoConnection, allow).allow = allow
    BY DEF Task
  <2> QED
    BY <2>1, <2>2
<1>8. CASE Passes(o, s, op)
  <2>1. op \in ConnectionOps \cup {"none"}
    BY <1>8 DEF Passes
  <2>2. op \in CallOps \cup {"none"} /\ op \notin {"created", "failed", "destroyed"}
    BY <2>1 DEF ConnectionOps, CallOps, Live
  <2>3. Completes(op) = <<>>
    BY <2>1, <2>2, CompletesIs
  <2>4. p = s.toUI
    BY <1>3, <2>3
  <2>5. ~Begins(o, z, op)
    BY <2>2 DEF Begins
  <2>6. \A k \in 1 .. Len(p) :
          \/ p[k].op = "use" /\ p[k].c \in Connections
          \/ p[k].op = "shutdown" /\ End(z) = "destroyed"
    BY <1>6, <2>4
  <2>7. Passes(o, z, op)
    BY <1>5, <1>8
  <2> QED
    BY <1>1, <1>2, <1>3, <1>6, <2>4, <2>5, <2>6, <2>7 DEF Moved
<1>9. ASSUME NEW t \in Tasks, p = <<t>> \o s.toUI, t.op = "complete",
             \/ Begins(o, z, op) /\ t.allow = (op = "created")
             \/ Finishes(o, z, op) /\ t.allow /\ ~Begins(o, z, op)
      PROVE  p \in Seq(Tasks) /\ Moved(o, z, op, p)
  <2>1. /\ p \in Seq(Tasks) /\ Len(p) >= 1 /\ Len(p) \in Nat /\ p[1] = t
        /\ \A k \in 1 .. Len(p) : k = 1 \/ \E j \in 1 .. Len(s.toUI) : p[k] = s.toUI[j]
    <3> DEFINE u == s.toUI
    <3>1. t \in Tasks /\ IsFront(t, u, p) /\ u \in Seq(Tasks)
      BY <1>3, <1>9 DEF IsFront
    <3> HIDE DEF u
    <3>2. Fronts(t, u, p)
      BY <3>1, FrontTask
    <3> QED
      BY <3>2 DEF u, Fronts
  <2>2. Begins(o, z, op) => Len(p) >= 1 /\ p[1].op = "complete" /\ p[1].allow = (op = "created")
    BY <1>9, <2>1
  <2>3. \A k \in 1 .. Len(p) :
          \/ p[k].op = "complete" /\ k = 1 /\ (Begins(o, z, op) \/ (Finishes(o, z, op) /\ p[k].allow))
          \/ p[k].op = "use" /\ p[k].c \in Connections
          \/ p[k].op = "shutdown" /\ End(z) = "destroyed"
    <3> TAKE k \in 1 .. Len(p)
    <3>1. CASE k = 1
      BY <1>9, <2>1, <3>1
    <3>2. CASE k # 1
      BY <1>6, <2>1, <3>2
    <3> QED
      BY <3>1, <3>2
  <2>4. Passes(o, z, op) \/ Begins(o, z, op) \/ Finishes(o, z, op)
    BY <1>9
  <2> QED
    BY <1>1, <1>2, <1>6, <2>1, <2>2, <2>3, <2>4 DEF Moved
<1>10. CASE Begins(o, s, op)
  <2> DEFINE t == Task("complete", NoConnection, op = "created")
  <2>1. op \in {"created", "failed"}
    BY <1>10 DEF Begins
  <2>2. op \in CallOps \cup {"none"} /\ (op = "created") \in BOOLEAN
    BY <2>1 DEF CallOps, ServerOps
  <2>3. Completes(op) = <<t>>
    BY <2>1, <2>2, CompletesIs
  <2>4. t \in Tasks /\ t.op = "complete" /\ t.allow = (op = "created")
    BY <1>7, <2>2
  <2>5. Begins(o, z, op)
    BY <1>5, <1>10
  <2>6. p = <<t>> \o s.toUI
    BY <2>3
  <2> HIDE DEF t
  <2> QED
    BY <1>9, <2>4, <2>5, <2>6
<1>11. CASE Finishes(o, s, op)
  <2> DEFINE t == Task("complete", NoConnection, TRUE)
  <2>1. op = "destroyed"
    BY <1>11 DEF Finishes
  <2>2. op \in CallOps \cup {"none"} /\ ~Begins(o, z, op)
    BY <2>1 DEF CallOps, ServerOps, Begins
  <2>3. Completes(op) = <<t>>
    BY <2>1, <2>2, CompletesIs
  <2>4. t \in Tasks /\ t.op = "complete" /\ t.allow
    BY <1>7
  <2>5. Finishes(o, z, op)
    BY <1>5, <1>11
  <2>6. p = <<t>> \o s.toUI
    BY <2>3
  <2> HIDE DEF t
  <2> QED
    BY <1>9, <2>2, <2>4, <2>5, <2>6
<1> QED
  BY <1>4, <1>8, <1>10, <1>11

-----------------------------------------------------------------------------
(* What a step does to a server, its ServerHandler and its tasks.            *)

\* The queue v is u without its first d tasks, with those in p behind, as tasks of i.
Moves(u, v, d, i, p) ==
  /\ Len(u) \in Nat /\ Len(v) \in Nat /\ Len(p) \in Nat /\ d \in {0, 1} /\ d <= Len(u)
  /\ Len(v) = Len(u) - d + Len(p)
  /\ \A k \in 1 .. Len(v) :
       \/ k + d \in 1 .. Len(u) /\ k <= Len(u) - d /\ v[k] = u[k + d]
       \/ \E m \in 1 .. Len(p) : k = Len(u) - d + m /\ v[k].id = i /\ v[k].task = p[m]
  /\ \A k \in 1 .. Len(u) : k > d => k - d \in 1 .. Len(v) /\ v[k - d] = u[k]
  /\ \A m \in 1 .. Len(p) : Len(u) - d + m \in 1 .. Len(v)
       /\ v[Len(u) - d + m].id = i /\ v[Len(u) - d + m].task = p[m]

LEMMA QueueMoves ==
  ASSUME NEW u \in Seq(UITasks), NEW v, NEW d, NEW i, NEW p, Posts(u, v, d, i, p)
  PROVE  Moves(u, v, d, i, p)
<1> DEFINE n == Len(u) - d
           w == Len(p)
           l == Len(v)
           x == Len(u)
<1>1. /\ x \in Nat /\ l \in Nat /\ w \in Nat /\ d \in {0, 1} /\ d <= x /\ l = n + w /\ n \in Nat
      /\ \A k \in 1 .. n : v[k] = u[k + d]
      /\ \A k \in 1 .. w : v[n + k] = UITask(i, p[k])
  <2>1. v \in Seq(UITasks) /\ p \in Seq(Tasks) /\ d \in {0, 1} /\ d <= Len(u) /\ Len(v) = Len(u) - d + Len(p)
    BY DEF Posts
  <2>2. /\ \A k \in 1 .. n : v[k] = u[k + d]
        /\ \A k \in 1 .. w : v[n + k] = UITask(i, p[k])
    BY Zenon DEF Posts
  <2>3. x \in Nat /\ l \in Nat /\ w \in Nat
    BY <2>1
  <2>4. n \in Nat
    BY <2>1, <2>3
  <2> QED
    BY <2>1, <2>2, <2>3, <2>4
<1>2. \A k \in 1 .. w : v[n + k].id = i /\ v[n + k].task = p[k]
  <2>1. \A t : UITask(i, t).id = i /\ UITask(i, t).task = t
    BY DEF UITask
  <2> HIDE DEF n, w, l, x
  <2> QED
    BY <1>1, <2>1
<1>3. n = x - d
  OBVIOUS
<1> HIDE DEF n, w, l, x
<1>4. ASSUME NEW k \in 1 .. l
      PROVE  \/ k + d \in 1 .. x /\ k <= n /\ v[k] = u[k + d]
             \/ \E m \in 1 .. w : k = n + m /\ v[k].id = i /\ v[k].task = p[m]
  <2>1. CASE k <= n
    <3>1. k \in 1 .. n /\ k + d \in 1 .. x
      BY <1>1, <1>3, <2>1
    <3> QED
      BY <1>1, <2>1, <3>1
  <2>2. CASE ~(k <= n)
    <3> DEFINE m == k - n
    <3>1. m \in 1 .. w /\ k = n + m
      BY <1>1, <2>2
    <3> HIDE DEF m
    <3> QED
      BY <1>2, <3>1
  <2> QED
    BY <2>1, <2>2
<1>5. ASSUME NEW k \in 1 .. x, k > d
      PROVE  k - d \in 1 .. l /\ v[k - d] = u[k]
  <2> DEFINE m == k - d
  <2>1. m \in 1 .. n /\ m + d = k /\ m \in 1 .. l
    BY <1>1, <1>3, <1>5
  <2> HIDE DEF m
  <2>2. v[m] = u[m + d]
    BY <1>1, <2>1
  <2>3. m \in 1 .. l /\ v[m] = u[k]
    BY <2>1, <2>2
  <2> QED
    BY <2>3 DEF m
<1>6. \A m \in 1 .. w : n + m \in 1 .. l
  BY <1>1
<1> QED
  BY <1>1, <1>2, <1>4, <1>5, <1>6 DEF Moves, n, w, l, x

\* The tasks of a server when others move, and when it posts none.
OldTasks(u, v, d, j) ==
  /\ d \in {0, 1} /\ Len(u) \in Nat /\ Len(v) \in Nat
  /\ \A k \in 1 .. Len(v) : v[k].id = j => k + d \in 1 .. Len(u) /\ v[k] = u[k + d]

SameTasks(u, v, d, j) ==
  /\ OldTasks(u, v, d, j)
  /\ \A k \in 1 .. Len(u) : IsComplete(u, j, k) => k > d /\ k - d \in 1 .. Len(v) /\ v[k - d] = u[k]

LEMMA OthersTasks ==
  ASSUME NEW u \in Seq(UITasks), NEW v, NEW d, NEW i, NEW p, Posts(u, v, d, i, p),
         NEW j, j # i, d = 1 => ~IsComplete(u, j, 1)
  PROVE  SameTasks(u, v, d, j)
<1>1. /\ Len(u) \in Nat /\ Len(v) \in Nat /\ d \in {0, 1}
      /\ \A k \in 1 .. Len(v) :
           \/ k + d \in 1 .. Len(u) /\ k <= Len(u) - d /\ v[k] = u[k + d]
           \/ \E m \in 1 .. Len(p) :
                k = Len(u) - d + m /\ v[k].id = i /\ v[k].task = p[m]
      /\ \A k \in 1 .. Len(u) : k > d => k - d \in 1 .. Len(v) /\ v[k - d] = u[k]
  <2>1. Moves(u, v, d, i, p)
    BY QueueMoves
  <2> QED
    BY <2>1, Zenon DEF Moves
<1>2. ASSUME NEW k \in 1 .. Len(u), IsComplete(u, j, k)
      PROVE  k > d
  BY <1>1, <1>2
<1> QED
  BY <1>1, <1>2 DEF SameTasks, OldTasks

\* Tasks of other servers, and of the server itself when it posts none.
LEMMA TasksKept ==
  ASSUME NEW j, NEW s, NEW u, NEW v, NEW d, OldTasks(u, v, d, j), TasksFit(j, s, u)
  PROVE  TasksFit(j, s, v)
<1>1. /\ s.toUI = <<>>
      /\ d \in {0, 1} /\ Len(v) \in Nat
      /\ \A k \in 1 .. Len(v) : v[k].id = j => k + d \in 1 .. Len(u) /\ v[k] = u[k + d]
  BY DEF OldTasks, TasksFit
<1>2. \A k \in 1 .. Len(u) : u[k].id = j =>
        /\ u[k].task.op = "start" => s = NewServer
        /\ u[k].task.op # "start" => s.told # <<>>
        /\ u[k].task.op = "shutdown" => End(s) = "destroyed"
        /\ u[k].task.op # "answer"
        /\ u[k].task.op = "use" => u[k].task.c \in Connections
  BY DEF TasksFit
<1>3. ASSUME NEW k \in 1 .. Len(v), v[k].id = j
      PROVE  /\ v[k].task.op = "start" => s = NewServer
             /\ v[k].task.op # "start" => s.told # <<>>
             /\ v[k].task.op = "shutdown" => End(s) = "destroyed"
             /\ v[k].task.op # "answer"
             /\ v[k].task.op = "use" => v[k].task.c \in Connections
  <2>1. k + d \in 1 .. Len(u) /\ v[k] = u[k + d]
    BY <1>1, <1>3
  <2> QED
    BY <1>2, <1>3, <2>1
<1>4. ASSUME NEW k \in 1 .. Len(v), NEW m \in 1 .. Len(v), Of(v, j, "start", k), Of(v, j, "start", m)
      PROVE  k = m
  <2>1. Of(u, j, "start", k + d) /\ Of(u, j, "start", m + d)
        /\ k + d \in 1 .. Len(u) /\ m + d \in 1 .. Len(u)
    BY <1>1, <1>4 DEF Of
  <2>2. k + d = m + d
    BY <2>1 DEF TasksFit
  <2> QED
    BY <1>1, <2>2
<1> QED
  BY <1>1, <1>3, <1>4 DEF TasksFit

\* What completes a start or a stop stays in the queue.
SameCompletes(u, v, d, j) ==
  /\ d \in {0, 1} /\ Len(u) \in Nat /\ Len(v) \in Nat
  /\ \A k \in 1 .. Len(v) : IsComplete(v, j, k) => k + d \in 1 .. Len(u) /\ v[k] = u[k + d]
  /\ \A k \in 1 .. Len(u) : IsComplete(u, j, k) => k > d /\ k - d \in 1 .. Len(v) /\ v[k - d] = u[k]

LEMMA CompletesKept ==
  ASSUME NEW j, NEW s, NEW t, NEW h, NEW u, CompletesFit(j, s, t, h, u),
         NEW v, NEW d, SameCompletes(u, v, d, j),
         NEW z, NEW r, NEW e,
         r.callback = t.callback, r.stopped = t.stopped, e = j => h = j,
         s.told # <<>> => z.told # <<>> /\ z.told[1] = s.told[1],
         t.callback = "start" /\ z.told # <<>> => s.told # <<>>,
         End(z) = End(s)
  PROVE  CompletesFit(j, z, r, e, v)
<1>1. /\ d \in {0, 1} /\ Len(u) \in Nat /\ Len(v) \in Nat
      /\ \A k \in 1 .. Len(v) : IsComplete(v, j, k) =>
           k + d \in 1 .. Len(u) /\ v[k] = u[k + d] /\ IsComplete(u, j, k + d)
      /\ \A k \in 1 .. Len(u) : IsComplete(u, j, k) =>
           k > d /\ k - d \in 1 .. Len(v) /\ v[k - d] = u[k] /\ IsComplete(v, j, k - d)
  BY DEF SameCompletes, IsComplete, Of
<1>2. ASSUME r.callback = "start", z.told # <<>>
      PROVE  \E k \in 1 .. Len(v) :
               /\ IsComplete(v, j, k) /\ v[k].task.allow = (z.told[1].op = "created")
               /\ \A m \in 1 .. k - 1 : ~IsComplete(v, j, m)
  <2>1. PICK k \in 1 .. Len(u) :
          /\ IsComplete(u, j, k) /\ u[k].task.allow = (s.told[1].op = "created")
          /\ \A m \in 1 .. k - 1 : ~IsComplete(u, j, m)
    BY <1>2 DEF CompletesFit
  <2> DEFINE n == k - d
  <2>2. n \in 1 .. Len(v) /\ v[n] = u[k] /\ IsComplete(v, j, n) /\ n + d = k
    BY <1>1, <2>1
  <2> HIDE DEF n
  <2>3. \A m \in 1 .. n - 1 : ~IsComplete(v, j, m)
    <3> SUFFICES ASSUME NEW m \in 1 .. n - 1, IsComplete(v, j, m)
                 PROVE  FALSE
      OBVIOUS
    <3>1. m \in 1 .. Len(v) /\ m + d \in 1 .. k - 1
      BY <1>1, <2>2, SMTT(60)
    <3> QED
      BY <1>1, <2>1, <3>1
  <2>4. v[n].task.allow = (z.told[1].op = "created")
    BY <1>2, <2>1, <2>2
  <2> QED
    BY <2>2, <2>3, <2>4
<1>3. ASSUME End(z) # "destroyed", NEW k \in 1 .. Len(v), NEW m \in 1 .. Len(v),
             IsComplete(v, j, k), IsComplete(v, j, m)
      PROVE  k = m
  <2>1. k + d \in 1 .. Len(u) /\ m + d \in 1 .. Len(u)
        /\ IsComplete(u, j, k + d) /\ IsComplete(u, j, m + d)
    BY <1>1, <1>3
  <2>2. k + d = m + d
    BY <1>3, <2>1 DEF CompletesFit
  <2> QED
    BY <1>1, <2>2
<1>4. ASSUME r.callback = "none", e = j, NEW k \in 1 .. Len(v), IsComplete(v, j, k)
      PROVE  FALSE
  <2>1. k + d \in 1 .. Len(u) /\ IsComplete(u, j, k + d)
    BY <1>1, <1>4
  <2> QED
    BY <1>4, <2>1 DEF CompletesFit
<1>5. ASSUME r.callback = "stop", r.stopped = "yes"
      PROVE  /\ z.told # <<>>
             /\ \A k \in 1 .. Len(v) : IsComplete(v, j, k) =>
                  v[k].task.allow /\ End(z) = "destroyed"
  <2>1. /\ s.told # <<>>
        /\ \A k \in 1 .. Len(u) : IsComplete(u, j, k) =>
             u[k].task.allow /\ End(s) = "destroyed"
    BY <1>5 DEF CompletesFit
  <2>2. ASSUME NEW k \in 1 .. Len(v), IsComplete(v, j, k)
        PROVE  v[k].task.allow /\ End(z) = "destroyed"
    <3>1. k + d \in 1 .. Len(u) /\ IsComplete(u, j, k + d) /\ v[k] = u[k + d]
      BY <1>1, <2>2
    <3> QED
      BY <2>1, <3>1
  <2> QED
    BY <2>1, <2>2
<1> QED
  BY <1>2, <1>3, <1>4, <1>5, Zenon DEF CompletesFit

LEMMA SameTasksComplete ==
  ASSUME NEW j, NEW u, NEW v, NEW d, SameTasks(u, v, d, j)
  PROVE  SameCompletes(u, v, d, j)
BY DEF SameTasks, OldTasks, SameCompletes, IsComplete, Of

\* A step that is not about server j.
LEMMA OtherKept ==
  ASSUME NEW j, NEW s, NEW t, NEW h, NEW g, NEW u, OneFits(j, s, t, h, g, u),
         NEW v, NEW d, SameTasks(u, v, d, j),
         NEW e, NEW f, e = h \/ (h # j /\ e # j), f.id = j => g.id = j,
         PageFits(j, s, t, e, f)
  PROVE  OneFits(j, s, t, e, f, v)
<1>1. /\ ServerFits(s) /\ TestFits(j, s, t, h, g, u) /\ TasksFit(j, s, u)
      /\ CompletesFit(j, s, t, h, u) /\ HandlerFits(j, s, t, h)
  BY DEF OneFits
<1>2. TasksFit(j, s, v)
  <2>1. OldTasks(u, v, d, j)
    BY DEF SameTasks
  <2> QED
    BY <1>1, <2>1, TasksKept
<1>3. CompletesFit(j, s, t, e, v)
  <2>1. SameCompletes(u, v, d, j)
    BY SameTasksComplete
  <2> QED
    BY <1>1, <2>1, CompletesKept
<1>4. HandlerFits(j, s, t, e)
  BY <1>1 DEF HandlerFits
<1>5. TestFits(j, s, t, e, f, v)
  <2>1. ASSUME t.callback = "unused"
        PROVE  /\ s = NewServer /\ t = NewTest
               /\ e # j /\ f.id # j
               /\ \A k \in 1 .. Len(v) : v[k].id # j
    <3>1. /\ s = NewServer /\ t = NewTest /\ h # j /\ g.id # j
          /\ \A k \in 1 .. Len(u) : u[k].id # j
      BY <1>1, <2>1 DEF TestFits
    <3>2. \A k \in 1 .. Len(v) : v[k].id = j => k + d \in 1 .. Len(u) /\ v[k] = u[k + d]
      BY DEF SameTasks, OldTasks
    <3> QED
      BY <3>1, <3>2
  <2> QED
    BY <1>1, <2>1 DEF TestFits
<1> QED
  BY <1>1, <1>2, <1>3, <1>4, <1>5 DEF OneFits

\* What a ServerHandler keeps of a call.
LEMMA HearsIs ==
  ASSUME NEW t \in TestTypes, NEW op,
         op \in {"created", "failed"} => t.server = FALSE, op = "destroyed" => t.server = TRUE
  PROVE  /\ Hears(t, op) \in TestTypes
         /\ Hears(t, op).callback = t.callback /\ Hears(t, op).stopped = t.stopped
         /\ Hears(t, op).bad = t.bad
         /\ Hears(t, op).server = (IF op \in {"created", "failed"} THEN TRUE
                                   ELSE IF op = "destroyed" THEN FALSE ELSE t.server)
<1>1. CASE op \in {"created", "failed"}
  <2>1. Hears(t, op) = OnServerCreated(t)
    BY <1>1 DEF Hears
  <2>2. OnServerCreated(t) = [t EXCEPT !.server = TRUE]
    BY <1>1 DEF OnServerCreated, Failing, TestTypes
  <2> QED
    BY <1>1, <2>1, <2>2 DEF TestTypes
<1>2. CASE op = "destroyed"
  <2>1. Hears(t, op) = OnServerDestroyed(t)
    BY <1>2 DEF Hears
  <2>2. OnServerDestroyed(t) = [t EXCEPT !.server = FALSE]
    BY <1>2 DEF OnServerDestroyed, Failing, TestTypes
  <2> QED
    BY <1>2, <2>1, <2>2 DEF TestTypes
<1>3. CASE op \notin {"created", "failed", "destroyed"}
  BY <1>3 DEF Hears, TestTypes
<1> QED
  BY <1>1, <1>2, <1>3

\* What a server's step lets its ServerHandler know, and the tasks it leaves.
LEMMA MovedFacts ==
  ASSUME NEW o \in ServerTypes, ServerFits(o), NEW z, NEW op, NEW p, Moved(o, z, op, p)
  PROVE  /\ z.told # <<>>
         /\ o.told = <<>> => Begins(o, z, op) /\ End(o) = "none"
         /\ o.told # <<>> => z.told[1] = o.told[1] /\ ~Begins(o, z, op)
         /\ End(o) = "destroyed" => End(z) = "destroyed"
         /\ Passes(o, z, op) => End(z) = End(o)
         /\ Finishes(o, z, op) => End(z) = "destroyed" /\ z.http = FALSE
         /\ op \in {"created", "failed"} => Begins(o, z, op)
         /\ op = "destroyed" => Finishes(o, z, op)
<1>1. /\ z \in ServerTypes /\ ServerFits(z) /\ z.told # <<>>
      /\ Passes(o, z, op) \/ Begins(o, z, op) \/ Finishes(o, z, op)
  BY DEF Moved
<1>2. o.told = <<>> => Begins(o, z, op) /\ End(o) = "none"
  <2>1. o.told = <<>> => o \in {NewServer, Started}
    BY DEF ServerFits, EndsFit
  <2> QED
    BY <1>1, <2>1, FirstServers DEF Passes, Finishes, End
<1>3. o.told # <<>> => z.told[1] = o.told[1] /\ ~Begins(o, z, op)
  BY <1>1 DEF Passes, Begins, Finishes
<1>4. Passes(o, z, op) => End(z) = End(o)
  BY DEF Passes
<1>5. Finishes(o, z, op) => End(z) = "destroyed" /\ z.http = FALSE
  BY <1>1 DEF Finishes, ServerFits, EndsFit, ServerTypes
<1>6. op \in {"created", "failed"} => Begins(o, z, op)
  BY <1>1 DEF Passes, Begins, Finishes, ConnectionOps, Live
<1>7. op = "destroyed" => Finishes(o, z, op)
  BY <1>1 DEF Passes, Begins, Finishes, ConnectionOps, Live
<1>8. End(o) = "destroyed" => End(z) = "destroyed"
  BY <1>1, <1>2, <1>3, <1>4, <1>5
<1> QED
  BY <1>1, <1>2, <1>3, <1>4, <1>5, <1>6, <1>7, <1>8

\* Its ServerHandler still knows what it is to know.
LEMMA MovedTest ==
  ASSUME NEW o \in ServerTypes, ServerFits(o), NEW z, NEW op, NEW p, Moved(o, z, op, p),
         NEW t \in TestTypes, NEW i, NEW h, NEW g, NEW u, TestFits(i, o, t, h, g, u), NEW v,
         NEW r, r = Hears(t, op)
  PROVE  /\ TestFits(i, z, r, h, g, v) /\ r \in TestTypes
         /\ r.callback = t.callback /\ r.stopped = t.stopped
<1>1. t.server <=> End(o) \in {"created", "failed"}
  BY DEF TestFits
<1>2. op \in {"created", "failed"} => t.server = FALSE
  BY <1>1, MovedFacts DEF Begins, TestTypes
<1>3. op = "destroyed" => t.server = TRUE
  <2> SUFFICES ASSUME op = "destroyed"
               PROVE  t.server = TRUE
    OBVIOUS
  <2>1. End(o) \in {"created", "failed"}
    BY MovedFacts DEF Finishes
  <2>2. t.server
    BY <1>1, <2>1
  <2>3. t.server \in BOOLEAN
    BY DEF TestTypes
  <2> QED
    BY <2>2, <2>3
<1>4. /\ r \in TestTypes /\ r.callback = t.callback /\ r.stopped = t.stopped /\ r.bad = t.bad
      /\ r.server = (IF op \in {"created", "failed"} THEN TRUE
                     ELSE IF op = "destroyed" THEN FALSE ELSE t.server)
  BY <1>2, <1>3, HearsIs
<1>5. r.server <=> End(z) \in {"created", "failed"}
  <2>1. CASE op \in {"created", "failed"}
    BY <1>4, <2>1, MovedFacts DEF Begins
  <2>2. CASE op = "destroyed"
    BY <1>4, <2>2, MovedFacts
  <2>3. CASE op \notin {"created", "failed", "destroyed"}
    <3>1. Passes(o, z, op)
      BY <2>3 DEF Moved, Begins, Finishes
    <3>2. End(z) = End(o)
      BY <3>1 DEF Passes
    <3> QED
      BY <1>1, <1>4, <2>3, <3>2
  <2> QED
    BY <2>1, <2>2, <2>3
<1>6. o # NewServer
  BY DEF Moved
<1>7. r.callback # "unused"
  BY <1>4, <1>6 DEF TestFits
<1>8. ASSUME r.stopped = "no"
      PROVE  /\ \A k \in 1 .. Len(z.ht) : z.ht[k].op # "shutdown"
             /\ z.told # <<>> /\ z.told[1].op = "created" => z.http
  <2>1. /\ \A k \in 1 .. Len(o.ht) : o.ht[k].op # "shutdown"
        /\ o.told # <<>> /\ o.told[1].op = "created" => o.http
    BY <1>4, <1>8 DEF TestFits
  <2>2. /\ \A k \in 1 .. Len(z.ht) :
             z.ht[k].op = "answer" \/ \E j \in 1 .. Len(o.ht) : z.ht[k] = o.ht[j]
        /\ o.http => z.http \/ \E j \in 1 .. Len(o.ht) : o.ht[j].op = "shutdown"
    BY DEF Moved
  <2>3. \A k \in 1 .. Len(z.ht) : z.ht[k].op # "shutdown"
    BY <2>1, <2>2
  <2>4. o.told = <<>> => z.told[1].op = op /\ z.http = (op = "created")
    BY MovedFacts DEF Begins
  <2>5. o.told # <<>> => z.told[1] = o.told[1]
    BY MovedFacts
  <2> QED
    BY <2>1, <2>2, <2>3, <2>4, <2>5
<1>9. r.bad \subseteq {"server_test.cc:59"}
  BY <1>4 DEF TestTypes
<1> QED
  BY <1>4, <1>5, <1>7, <1>8, <1>9 DEF TestFits

\* So do the tasks of the UI thread.
LEMMA MovedTasks ==
  ASSUME NEW o \in ServerTypes, ServerFits(o), NEW z, NEW op, NEW p, Moved(o, z, op, p),
         NEW i, NEW u \in Seq(UITasks), TasksFit(i, o, u), NEW v, NEW d, Posts(u, v, d, i, p)
  PROVE  TasksFit(i, z, v)
<1>1. /\ Len(u) \in Nat /\ Len(v) \in Nat
      /\ \A k \in 1 .. Len(v) :
           \/ k + d \in 1 .. Len(u) /\ k <= Len(u) - d /\ v[k] = u[k + d]
           \/ \E m \in 1 .. Len(p) :
                k = Len(u) - d + m /\ v[k].id = i /\ v[k].task = p[m]
  <2>1. Moves(u, v, d, i, p)
    BY QueueMoves
  <2> QED
    BY <2>1, Zenon DEF Moves
<1>2. /\ z.toUI = <<>> /\ o # NewServer /\ z.told # <<>>
      /\ \A m \in 1 .. Len(p) :
           \/ p[m].op = "complete"
           \/ p[m].op = "use" /\ p[m].c \in Connections
           \/ p[m].op = "shutdown" /\ End(z) = "destroyed"
  BY DEF Moved
<1>3. End(o) = "destroyed" => End(z) = "destroyed"
  BY MovedFacts
<1>4. ASSUME NEW k \in 1 .. Len(v), v[k].id = i
      PROVE  /\ v[k].task.op # "start"
             /\ v[k].task.op = "shutdown" => End(z) = "destroyed"
             /\ v[k].task.op # "answer"
             /\ v[k].task.op = "use" => v[k].task.c \in Connections
  <2>1. CASE k + d \in 1 .. Len(u) /\ v[k] = u[k + d]
    <3>1. \A m \in 1 .. Len(u) : u[m].id = i =>
            /\ u[m].task.op = "start" => o = NewServer
            /\ u[m].task.op = "shutdown" => End(o) = "destroyed"
            /\ u[m].task.op # "answer"
            /\ u[m].task.op = "use" => u[m].task.c \in Connections
      BY DEF TasksFit
    <3> QED
      BY <1>2, <1>3, <1>4, <2>1, <3>1
  <2>2. ASSUME NEW m \in 1 .. Len(p), v[k].task = p[m]
        PROVE  /\ v[k].task.op # "start"
               /\ v[k].task.op = "shutdown" => End(z) = "destroyed"
               /\ v[k].task.op # "answer"
               /\ v[k].task.op = "use" => v[k].task.c \in Connections
    BY <1>2, <2>2
  <2> QED
    BY <1>1, <2>1, <2>2
<1>5. \A k \in 1 .. Len(v) : ~Of(v, i, "start", k)
  BY <1>4 DEF Of
<1> QED
  BY <1>2, <1>4, <1>5 DEF TasksFit

\* A task that completes something was there before, or posted, and none is lost.
CompletesMove(u, v, d, i, p) ==
  /\ d \in {0, 1} /\ Len(u) \in Nat /\ Len(v) \in Nat /\ Len(p) \in Nat /\ d <= Len(u)
  /\ \A k \in 1 .. Len(v) : IsComplete(v, i, k) =>
       \/ k + d \in 1 .. Len(u) /\ v[k] = u[k + d] /\ IsComplete(u, i, k + d)
       \/ \E m \in 1 .. Len(p) :
            p[m].op = "complete" /\ k = Len(u) - d + m /\ v[k].task = p[m]
  /\ \A k \in 1 .. Len(u) : IsComplete(u, i, k) =>
       k > d /\ k - d \in 1 .. Len(v) /\ v[k - d] = u[k]
  /\ \A m \in 1 .. Len(p) : p[m].op = "complete" =>
       /\ Len(u) - d + m \in 1 .. Len(v) /\ IsComplete(v, i, Len(u) - d + m)
       /\ v[Len(u) - d + m].task = p[m]

LEMMA MovedPosts ==
  ASSUME NEW i, NEW u \in Seq(UITasks), NEW v, NEW d, NEW p, Posts(u, v, d, i, p),
         d = 1 => u[1].task.op # "complete"
  PROVE  CompletesMove(u, v, d, i, p)
<1>1. /\ Len(u) \in Nat /\ Len(v) \in Nat /\ Len(p) \in Nat /\ d \in {0, 1} /\ d <= Len(u)
      /\ \A k \in 1 .. Len(v) :
           \/ k + d \in 1 .. Len(u) /\ k <= Len(u) - d /\ v[k] = u[k + d]
           \/ \E m \in 1 .. Len(p) : k = Len(u) - d + m /\ v[k].id = i /\ v[k].task = p[m]
      /\ \A k \in 1 .. Len(u) : k > d => k - d \in 1 .. Len(v) /\ v[k - d] = u[k]
      /\ \A m \in 1 .. Len(p) : Len(u) - d + m \in 1 .. Len(v)
           /\ v[Len(u) - d + m].id = i /\ v[Len(u) - d + m].task = p[m]
  <2>1. Moves(u, v, d, i, p)
    BY QueueMoves
  <2> QED
    BY <2>1, Zenon DEF Moves
<1>2. ASSUME NEW k \in 1 .. Len(v), IsComplete(v, i, k)
      PROVE  \/ k + d \in 1 .. Len(u) /\ v[k] = u[k + d] /\ IsComplete(u, i, k + d)
             \/ \E m \in 1 .. Len(p) :
                  p[m].op = "complete" /\ k = Len(u) - d + m /\ v[k].task = p[m]
  <2>1. CASE k + d \in 1 .. Len(u) /\ v[k] = u[k + d]
    BY <1>2, <2>1 DEF IsComplete, Of
  <2>2. ASSUME NEW m \in 1 .. Len(p), k = Len(u) - d + m, v[k].task = p[m]
        PROVE  p[m].op = "complete" /\ k = Len(u) - d + m /\ v[k].task = p[m]
    BY <1>2, <2>2 DEF IsComplete, Of
  <2> QED
    BY <1>1, <2>1, <2>2
<1>3. ASSUME NEW k \in 1 .. Len(u), IsComplete(u, i, k)
      PROVE  k > d /\ k - d \in 1 .. Len(v) /\ v[k - d] = u[k]
  <2>1. k > d
    BY <1>1, <1>3 DEF IsComplete, Of
  <2> QED
    BY <1>1, <2>1
<1>4. ASSUME NEW m \in 1 .. Len(p), p[m].op = "complete"
      PROVE  /\ Len(u) - d + m \in 1 .. Len(v) /\ IsComplete(v, i, Len(u) - d + m)
             /\ v[Len(u) - d + m].task = p[m]
  BY <1>1, <1>4 DEF IsComplete, Of
<1> QED
  BY <1>1, <1>2, <1>3, <1>4, Zenon DEF CompletesMove

\* A server that was created or failed: nothing of it was in the queue.
LEMMA BegunCompletes ==
  ASSUME NEW o \in ServerTypes, ServerFits(o), NEW z, NEW op, NEW p, Moved(o, z, op, p),
         Begins(o, z, op), NEW t \in TestTypes, NEW i, NEW h, NEW u \in Seq(UITasks),
         TasksFit(i, o, u), CompletesFit(i, o, t, h, u), HandlerFits(i, o, t, h),
         NEW v, NEW d, Posts(u, v, d, i, p), d = 1 => u[1].task.op # "complete",
         NEW r, r.callback = t.callback, r.stopped = t.stopped
  PROVE  CompletesFit(i, z, r, h, v)
<1> DEFINE n == Len(u) - d + 1
<1>1. o.told = <<>> /\ o # NewServer
  BY DEF Begins, Moved
<1>2. \A k \in 1 .. Len(u) : ~IsComplete(u, i, k)
  BY <1>1 DEF TasksFit, IsComplete, Of
<1>3. /\ d \in {0, 1} /\ Len(u) \in Nat /\ Len(v) \in Nat /\ Len(p) \in Nat /\ d <= Len(u)
      /\ \A k \in 1 .. Len(v) : IsComplete(v, i, k) =>
           \/ k + d \in 1 .. Len(u) /\ v[k] = u[k + d] /\ IsComplete(u, i, k + d)
           \/ \E m \in 1 .. Len(p) :
                p[m].op = "complete" /\ k = Len(u) - d + m /\ v[k].task = p[m]
      /\ \A m \in 1 .. Len(p) : p[m].op = "complete" =>
           /\ Len(u) - d + m \in 1 .. Len(v) /\ IsComplete(v, i, Len(u) - d + m)
           /\ v[Len(u) - d + m].task = p[m]
  <2>1. CompletesMove(u, v, d, i, p)
    BY MovedPosts
  <2> QED
    BY <2>1, Zenon DEF CompletesMove
<1>4. /\ Len(p) >= 1 /\ p[1].op = "complete" /\ p[1].allow = (op = "created")
      /\ \A m \in 1 .. Len(p) : p[m].op = "complete" => m = 1
  BY DEF Moved
<1>5. 1 \in 1 .. Len(p)
  BY <1>3, <1>4
<1>6. n \in 1 .. Len(v) /\ IsComplete(v, i, n) /\ v[n].task = p[1]
  BY <1>3, <1>4, <1>5
<1>7. \A k \in 1 .. Len(v) : IsComplete(v, i, k) => k = n
  BY <1>2, <1>3, <1>4
<1> HIDE DEF n
<1>8. v[n].task.allow = (z.told[1].op = "created")
  BY <1>4, <1>6 DEF Begins
<1>9. \A j \in 1 .. n - 1 : ~IsComplete(v, i, j)
  BY <1>3, <1>6, <1>7
<1>10. ~(r.callback = "none" /\ h = i)
  BY <1>1 DEF HandlerFits
<1>11. ~(r.callback = "stop" /\ r.stopped = "yes")
  BY <1>1 DEF CompletesFit
<1> QED
  BY <1>6, <1>7, <1>8, <1>9, <1>10, <1>11 DEF CompletesFit

\* A server that was destroyed was stopped, or it had failed.
LEMMA EndedCompletes ==
  ASSUME NEW o \in ServerTypes, ServerFits(o), NEW z, NEW op, NEW p, Moved(o, z, op, p),
         Finishes(o, z, op), NEW t \in TestTypes, NEW i, NEW h, NEW g, NEW u \in Seq(UITasks),
         TestFits(i, o, t, h, g, u), CompletesFit(i, o, t, h, u), HandlerFits(i, o, t, h),
         NEW v, NEW d, Posts(u, v, d, i, p), d = 1 => u[1].task.op # "complete",
         NEW r, r.callback = t.callback, r.stopped = t.stopped
  PROVE  CompletesFit(i, z, r, h, v)
<1>1. /\ o.told # <<>> /\ z.told # <<>> /\ z.told[1] = o.told[1]
      /\ End(o) # "destroyed" /\ End(z) = "destroyed" /\ z.http = FALSE
  BY MovedFacts DEF Finishes
<1>2. /\ d \in {0, 1} /\ Len(u) \in Nat /\ Len(v) \in Nat /\ Len(p) \in Nat /\ d <= Len(u)
      /\ \A k \in 1 .. Len(v) : IsComplete(v, i, k) =>
           \/ k + d \in 1 .. Len(u) /\ v[k] = u[k + d] /\ IsComplete(u, i, k + d)
           \/ \E m \in 1 .. Len(p) :
                p[m].op = "complete" /\ k = Len(u) - d + m /\ v[k].task = p[m]
      /\ \A k \in 1 .. Len(u) : IsComplete(u, i, k) =>
           k > d /\ k - d \in 1 .. Len(v) /\ v[k - d] = u[k]
  <2>1. CompletesMove(u, v, d, i, p)
    BY MovedPosts
  <2> QED
    BY <2>1, Zenon DEF CompletesMove
<1>3. \A m \in 1 .. Len(p) : p[m].op = "complete" => p[m].allow
  BY DEF Moved, Begins, Finishes
<1>4. ASSUME r.callback = "start"
      PROVE  \E k \in 1 .. Len(v) :
               /\ IsComplete(v, i, k) /\ v[k].task.allow = (z.told[1].op = "created")
               /\ \A m \in 1 .. k - 1 : ~IsComplete(v, i, m)
  <2>1. PICK k \in 1 .. Len(u) :
          /\ IsComplete(u, i, k) /\ u[k].task.allow = (o.told[1].op = "created")
          /\ \A m \in 1 .. k - 1 : ~IsComplete(u, i, m)
    BY <1>1, <1>4 DEF CompletesFit
  <2> DEFINE n == k - d
  <2>2. n \in 1 .. Len(v) /\ v[n] = u[k] /\ n + d = k
    BY <1>2, <2>1
  <2> HIDE DEF n
  <2>3. IsComplete(v, i, n)
    BY <2>1, <2>2 DEF IsComplete, Of
  <2>4. ASSUME NEW m \in 1 .. n - 1, IsComplete(v, i, m)
        PROVE  FALSE
    <3>1. m \in 1 .. Len(v) /\ m + d \in 1 .. k - 1
      BY <1>2, <2>2
    <3>2. ASSUME NEW x \in 1 .. Len(p)
          PROVE  m # Len(u) - d + x
      BY <1>2, <2>2, <3>1
    <3> QED
      BY <1>2, <2>1, <2>4, <3>1, <3>2
  <2>5. v[n].task.allow = (z.told[1].op = "created")
    BY <1>1, <2>1, <2>2
  <2> QED
    BY <2>2, <2>3, <2>4, <2>5
<1>5. ASSUME r.callback = "none", h = i
      PROVE  FALSE
  <2>1. t.stopped = "no" /\ o.told[1].op = "created"
    BY <1>5 DEF HandlerFits
  <2>2. /\ \A k \in 1 .. Len(o.ht) : o.ht[k].op # "shutdown"
        /\ o.http
    BY <1>1, <2>1 DEF TestFits
  <2>3. o.http => z.http \/ \E j \in 1 .. Len(o.ht) : o.ht[j].op = "shutdown"
    BY DEF Moved
  <2> QED
    BY <1>1, <2>2, <2>3
<1>6. ASSUME r.callback = "stop", r.stopped = "yes", NEW k \in 1 .. Len(v), IsComplete(v, i, k)
      PROVE  v[k].task.allow
  <2>1. \A m \in 1 .. Len(u) : IsComplete(u, i, m) => u[m].task.allow
    BY <1>6 DEF CompletesFit
  <2> QED
    BY <1>2, <1>3, <1>6, <2>1
<1> QED
  BY <1>1, <1>4, <1>5, <1>6 DEF CompletesFit

LEMMA MovedCompletes ==
  ASSUME NEW o \in ServerTypes, ServerFits(o), NEW z, NEW op, NEW p, Moved(o, z, op, p),
         NEW t \in TestTypes, NEW i, NEW h, NEW g, NEW u \in Seq(UITasks),
         TasksFit(i, o, u), TestFits(i, o, t, h, g, u), CompletesFit(i, o, t, h, u),
         HandlerFits(i, o, t, h),
         NEW v, NEW d, Posts(u, v, d, i, p), d = 1 => u[1].task.op # "complete",
         NEW r, r.callback = t.callback, r.stopped = t.stopped
  PROVE  CompletesFit(i, z, r, h, v)
<1>1. CASE Begins(o, z, op)
  BY <1>1, BegunCompletes, ZenonT(60)
<1>2. CASE Finishes(o, z, op)
  BY <1>2, EndedCompletes, ZenonT(60)
<1>3. CASE Passes(o, z, op)
  <2>1. /\ o.told # <<>> /\ z.told # <<>> /\ z.told[1] = o.told[1] /\ End(z) = End(o)
        /\ ~Begins(o, z, op) /\ ~Finishes(o, z, op)
    BY <1>3, MovedFacts DEF Passes, Finishes, ConnectionOps, Live
  <2>2. \A m \in 1 .. Len(p) : p[m].op # "complete"
    BY <2>1 DEF Moved
  <2>3. SameCompletes(u, v, d, i)
    <3>1. /\ d \in {0, 1} /\ Len(u) \in Nat /\ Len(v) \in Nat /\ Len(p) \in Nat /\ d <= Len(u)
          /\ \A k \in 1 .. Len(v) : IsComplete(v, i, k) =>
               \/ k + d \in 1 .. Len(u) /\ v[k] = u[k + d] /\ IsComplete(u, i, k + d)
               \/ \E m \in 1 .. Len(p) :
                    p[m].op = "complete" /\ k = Len(u) - d + m /\ v[k].task = p[m]
          /\ \A k \in 1 .. Len(u) : IsComplete(u, i, k) =>
               k > d /\ k - d \in 1 .. Len(v) /\ v[k - d] = u[k]
      <4>1. CompletesMove(u, v, d, i, p)
        BY MovedPosts
      <4> QED
        BY <4>1, Zenon DEF CompletesMove
    <3> QED
      BY <2>2, <3>1 DEF SameCompletes
  <2> QED
    BY <2>1, <2>3, CompletesKept
<1> QED
  BY <1>1, <1>2, <1>3 DEF Moved

LEMMA MovedOne ==
  ASSUME NEW o \in ServerTypes, NEW z, NEW op, NEW p, Moved(o, z, op, p),
         NEW t \in TestTypes, NEW i, NEW h, NEW g, NEW u \in Seq(UITasks),
         OneFits(i, o, t, h, g, u),
         NEW v, NEW d, Posts(u, v, d, i, p), d = 1 => u[1].task.op # "complete",
         NEW r, r = Hears(t, op)
  PROVE  OneFits(i, z, r, h, g, v) /\ r \in TestTypes /\ z \in ServerTypes
<1>1. /\ ServerFits(o) /\ TestFits(i, o, t, h, g, u) /\ TasksFit(i, o, u)
      /\ CompletesFit(i, o, t, h, u) /\ HandlerFits(i, o, t, h) /\ PageFits(i, o, t, h, g)
  BY DEF OneFits
<1>2. z \in ServerTypes /\ ServerFits(z)
  BY DEF Moved
<1>3. /\ TestFits(i, z, r, h, g, v) /\ r \in TestTypes
      /\ r.callback = t.callback /\ r.stopped = t.stopped
  BY <1>1, MovedTest
<1>4. TasksFit(i, z, v)
  BY <1>1, MovedTasks, ZenonT(60)
<1>5. CompletesFit(i, z, r, h, v)
  <2>1. r.callback = t.callback /\ r.stopped = t.stopped
    BY <1>3
  <2> QED
    BY <1>1, <2>1, MovedCompletes, ZenonT(60)
<1>6. HandlerFits(i, z, r, h)
  BY <1>1, <1>3, MovedFacts DEF HandlerFits
<1>7. PageFits(i, z, r, h, g)
  <2>1. z.http => o.http \/ o.told = <<>>
    BY DEF Moved
  <2>2. z.told # <<>>
    BY DEF Moved
  <2> QED
    BY <1>1, <1>3, <2>1, <2>2 DEF PageFits
<1> QED
  BY <1>2, <1>3, <1>4, <1>5, <1>6, <1>7 DEF OneFits

-----------------------------------------------------------------------------
(* Steps that run a function of a server.                                    *)

\* At most one handler hears something, and that is what its server may tell.
Telling ==
  \/ \A j \in Ids : servers'[j].told = servers[j].told
  \/ \E i \in Ids :
       /\ Tells(servers[i], servers'[i])
       /\ \A j \in Ids : j # i => servers'[j] = servers[j]

\* One server, its ServerHandler and its tasks move; the page and the others stay.
LEMMA MovingKeeps ==
  ASSUME Fits, NEW i \in Ids, NEW z, NEW op, NEW p, NEW d, Moved(servers[i], z, op, p),
         servers' = [servers EXCEPT ![i] = z],
         tests' = [tests EXCEPT ![i] = Hears(tests[i], op)],
         Posts(ui, ui', d, i, p), d = 1 => ui[1].task.op # "complete",
         handler' = handler, page' = page
  PROVE  Fits'
<1>1. /\ servers \in [Ids -> ServerTypes] /\ tests \in [Ids -> TestTypes]
      /\ handler \in Ids \cup {Nobody, Closed}
      /\ page \in [state : {"stopped", "starting", "running", "stopping", "refused", "closed"},
                   id : Ids \cup {Nobody}]
      /\ ui \in Seq(UITasks)
  BY DEF Fits, Types
<1>2. \A j \in Ids : OneFits(j, servers[j], tests[j], handler, page, ui)
  BY DEF Fits
<1>3. servers[i] \in ServerTypes /\ tests[i] \in TestTypes
  BY <1>1
<1>4. /\ OneFits(i, z, Hears(tests[i], op), handler, page, ui')
      /\ Hears(tests[i], op) \in TestTypes /\ z \in ServerTypes
  <2>1. OneFits(i, servers[i], tests[i], handler, page, ui)
    BY <1>2
  <2> DEFINE r == Hears(tests[i], op)
  <2>2. r = Hears(tests[i], op)
    OBVIOUS
  <2> HIDE DEF r
  <2>3. OneFits(i, z, r, handler, page, ui') /\ r \in TestTypes /\ z \in ServerTypes
    BY <1>1, <1>3, <2>1, <2>2, MovedOne
  <2> QED
    BY <2>2, <2>3
<1>5. ui' \in Seq(UITasks)
  BY DEF Posts
<1>6. /\ servers' \in [Ids -> ServerTypes] /\ servers'[i] = z
      /\ \A j \in Ids : j # i => servers'[j] = servers[j]
  BY <1>1, <1>4
<1>7. /\ tests' \in [Ids -> TestTypes] /\ tests'[i] = Hears(tests[i], op)
      /\ \A j \in Ids : j # i => tests'[j] = tests[j]
  BY <1>1, <1>4
<1>8. Types'
  BY <1>1, <1>5, <1>6, <1>7 DEF Types
<1>9. ASSUME NEW j \in Ids
      PROVE  OneFits(j, servers'[j], tests'[j], handler', page', ui')
  <2>1. CASE j = i
    BY <1>4, <1>6, <1>7, <2>1
  <2>2. CASE j # i
    <3>1. OneFits(j, servers[j], tests[j], handler, page, ui)
      BY <1>2
    <3>2. SameTasks(ui, ui', d, j)
      <4>1. d = 1 => ~IsComplete(ui, j, 1)
        BY DEF IsComplete, Of
      <4> QED
        BY <1>1, <2>2, <4>1, OthersTasks
    <3>3. PageFits(j, servers[j], tests[j], handler, page)
      BY <3>1 DEF OneFits
    <3>4. OneFits(j, servers[j], tests[j], handler, page, ui')
      BY <3>1, <3>2, <3>3, OtherKept
    <3> QED
      BY <1>6, <1>7, <2>2, <3>4
  <2> QED
    BY <2>1, <2>2
<1>10. ClosedFits'
  BY DEF Fits, ClosedFits
<1> QED
  BY <1>8, <1>9, <1>10 DEF Fits

LEMMA RunsKeeps ==
  ASSUME Fits, NEW i \in Ids, NEW s, ServerStep(servers[i], s), NEW q, Runs(i, s, q),
         q = ui \/ (ui # <<>> /\ q = Tail(ui) /\ Head(ui).task.op # "complete"),
         handler' = handler, page' = page
  PROVE  Fits' /\ Telling
<1> DEFINE op == HeardOp(servers[i], s)
           z == [s EXCEPT !.toUI = <<>>]
           p == Completes(op) \o s.toUI
           d == IF q = ui THEN 0 ELSE 1
<1>1. servers[i] \in ServerTypes /\ ServerFits(servers[i]) /\ ui \in Seq(UITasks)
  BY DEF Fits, Types, OneFits
<1>2. /\ servers' = [servers EXCEPT ![i] = z]
      /\ tests' = [tests EXCEPT ![i] = Hears(tests[i], op)]
      /\ ui' = q \o [k \in DOMAIN p |-> UITask(i, p[k])]
  BY DEF Runs, HeardOp
<1>3. d = 1 => ui # <<>> /\ q = Tail(ui) /\ ui[1].task.op # "complete"
  BY <1>1
<1>4. \/ q = ui /\ d = 0
      \/ ui # <<>> /\ q = Tail(ui) /\ d = 1
  OBVIOUS
<1> HIDE DEF op, z, p, d
<1>5. z = [s EXCEPT !.toUI = <<>>] /\ op = HeardOp(servers[i], s) /\ p = Completes(op) \o s.toUI
  BY DEF op, z, p
<1>6. p \in Seq(Tasks) /\ Moved(servers[i], z, op, p)
  BY <1>1, <1>5, MovedIs
<1>7. Posts(ui, ui', d, i, p)
  BY <1>1, <1>2, <1>4, <1>6, PostsAre
<1>8. Moved(servers[i], z, op, p) /\ (d = 1 => ui[1].task.op # "complete")
  BY <1>3, <1>6
<1>9. Fits'
  BY <1>2, <1>7, <1>8, MovingKeeps
<1>10. Telling
  <2>1. Tells(servers[i], s) /\ s \in ServerTypes /\ servers \in [Ids -> ServerTypes]
    BY DEF ServerStep, Fits, Types
  <2>2. z.told = s.told /\ z.http = s.http
    BY <1>5, <2>1 DEF ServerTypes
  <2>3. Tells(servers[i], z)
    BY <2>1, <2>2 DEF Tells, Hears1
  <2>4. servers'[i] = z /\ \A j \in Ids : j # i => servers'[j] = servers[j]
    BY <1>2, <2>1
  <2> QED
    BY <2>3, <2>4 DEF Telling
<1> QED
  BY <1>9, <1>10

LEMMA NoPostsAre ==
  ASSUME NEW u \in Seq(UITasks), NEW i \in Ids, NEW q, NEW d,
         \/ q = u /\ d = 0
         \/ u # <<>> /\ q = Tail(u) /\ d = 1
  PROVE  Posts(u, q, d, i, <<>>)
<1>1. q \in Seq(UITasks) /\ Len(q) = Len(u) - d /\ d \in {0, 1} /\ d <= Len(u) /\ Len(u) \in Nat
      /\ \A k \in 1 .. Len(u) - d : q[k] = u[k + d]
  <2>1. CASE q = u /\ d = 0
    BY <2>1
  <2>2. CASE u # <<>> /\ q = Tail(u) /\ d = 1
    BY <2>2, QueueIs
  <2> QED
    BY <2>1, <2>2
<1> DEFINE e == <<>>
<1>2. e \in Seq(Tasks) /\ Len(e) = 0
  OBVIOUS
<1> HIDE DEF e
<1>3. \A k \in 1 .. Len(e) : FALSE
  BY <1>2
<1>4. Posts(u, q, d, i, e)
  BY <1>1, <1>2, <1>3 DEF Posts
<1> QED
  BY <1>4 DEF e

\* Without a call and without posts nothing but the server changes.
LEMMA QuietRuns ==
  ASSUME NEW o \in ServerTypes, NEW s \in ServerTypes, s.told = o.told, s.toUI = <<>>
  PROVE  /\ HeardOp(o, s) = "none" /\ [s EXCEPT !.toUI = <<>>] = s
         /\ Completes("none") \o s.toUI = <<>>
         /\ \A t : Hears(t, "none") = t
<1>1. HeardOp(o, s) = "none"
  <2>1. Len(o.told) \in Nat
    BY DEF ServerTypes
  <2> QED
    BY <2>1 DEF HeardOp
<1>2. [s EXCEPT !.toUI = <<>>] = s
  BY DEF ServerTypes
<1>3. Completes("none") = <<>>
  BY DEF Completes
<1>4. \A t : Hears(t, "none") = t
  BY DEF Hears
<1> QED
  BY <1>1, <1>2, <1>3, <1>4

\* A thread that is joined.
LEMMA ThreadEndsKeeps ==
  ASSUME Fits, NEW i \in Ids, ThreadEnds(i)
  PROVE  Fits' /\ Telling
<1> DEFINE o == servers[i]
           z == [o EXCEPT !.thread = "ended"]
<1>1. o \in ServerTypes /\ ServerFits(o) /\ ui \in Seq(UITasks) /\ o.toUI = <<>>
      /\ servers \in [Ids -> ServerTypes] /\ tests \in [Ids -> TestTypes]
  BY DEF Fits, Types, OneFits, TasksFit
<1>2. /\ o.thread = "stopping" /\ servers' = [servers EXCEPT ![i] = z]
      /\ tests' = tests /\ handler' = handler /\ page' = page /\ ui' = ui
  BY <1>1 DEF ThreadEnds
<1>3. z.told = o.told /\ z.toUI = <<>>
  BY <1>1 DEF ServerTypes
<1>4. z = [o EXCEPT !.thread = "ended"]
  OBVIOUS
<1> HIDE DEF o, z
<1>5. ServerStep(o, z)
  BY <1>1, <1>2, <1>4, EndedSteps
<1>6. z \in ServerTypes
  BY <1>5 DEF ServerStep
<1>7. /\ HeardOp(o, z) = "none" /\ [z EXCEPT !.toUI = <<>>] = z
      /\ Completes("none") \o z.toUI = <<>>
      /\ \A t : Hears(t, "none") = t
  BY <1>1, <1>3, <1>6, QuietRuns
<1>8. Moved(o, z, "none", <<>>)
  BY <1>1, <1>5, <1>7, MovedIs
<1>9. Posts(ui, ui', 0, i, <<>>)
  BY <1>1, <1>2, NoPostsAre
<1>10. tests' = [tests EXCEPT ![i] = Hears(tests[i], "none")]
  BY <1>1, <1>2, <1>7
<1>11. Moved(servers[i], z, "none", <<>>)
  BY <1>8 DEF o
<1> DEFINE e == <<>>
           d == 0
           op == "none"
<1>12. /\ Moved(servers[i], z, op, e) /\ Posts(ui, ui', d, i, e)
       /\ servers' = [servers EXCEPT ![i] = z]
       /\ tests' = [tests EXCEPT ![i] = Hears(tests[i], op)]
       /\ d # 1 /\ handler' = handler /\ page' = page
  <2>1. Moved(servers[i], z, op, e)
    BY <1>11
  <2>2. Posts(ui, ui', d, i, e)
    BY <1>9
  <2>3. tests' = [tests EXCEPT ![i] = Hears(tests[i], op)]
    BY <1>10
  <2>4. d # 1
    OBVIOUS
  <2> HIDE DEF e, d, op
  <2> QED
    BY <1>2, <2>1, <2>2, <2>3, <2>4
<1> HIDE DEF e, d, op
<1>13. Telling
  BY <1>1, <1>2, <1>3 DEF Telling, o
<1> QED
  BY <1>12, <1>13, MovingKeeps

\* A server that is started.
LEMMA StartedOne ==
  ASSUME NEW i \in Ids, NEW t, NEW h, NEW g, NEW u \in Seq(UITasks), u # <<>>,
         OneFits(i, NewServer, t, h, g, u), Of(u, i, "start", 1),
         NEW r \in {NewServer, Started}, NEW v, Posts(u, v, 1, i, <<>>)
  PROVE  OneFits(i, r, t, h, g, v)
<1>1. /\ TestFits(i, NewServer, t, h, g, u) /\ TasksFit(i, NewServer, u)
      /\ CompletesFit(i, NewServer, t, h, u) /\ HandlerFits(i, NewServer, t, h)
      /\ PageFits(i, NewServer, t, h, g)
  BY DEF OneFits
<1>2. /\ Len(u) \in Nat /\ Len(v) \in Nat /\ Len(u) >= 1
      /\ \A k \in 1 .. Len(v) : k + 1 \in 1 .. Len(u) /\ v[k] = u[k + 1]
  <2>1. Moves(u, v, 1, i, <<>>)
    BY QueueMoves
  <2>2. /\ Len(u) \in Nat /\ Len(v) \in Nat
        /\ \A k \in 1 .. Len(v) :
             \/ k + 1 \in 1 .. Len(u) /\ k <= Len(u) - 1 /\ v[k] = u[k + 1]
             \/ \E m \in 1 .. Len(<<>>) : k = Len(u) - 1 + m /\ v[k].id = i /\ v[k].task = <<>>[m]
    BY <2>1, Zenon DEF Moves
  <2>3. \A m \in 1 .. Len(<<>>) : FALSE
    OBVIOUS
  <2> QED
    BY <2>2, <2>3
<1>3. \A k \in 1 .. Len(v) : v[k].id # i
  <2> SUFFICES ASSUME NEW k \in 1 .. Len(v), v[k].id = i
               PROVE  FALSE
    OBVIOUS
  <2>1. k + 1 \in 1 .. Len(u) /\ v[k] = u[k + 1]
    BY <1>2
  <2>2. u[k + 1].task.op = "start"
    BY <1>1, <2>1, FirstFields DEF TasksFit
  <2>3. Of(u, i, "start", k + 1)
    BY <2>1, <2>2 DEF Of
  <2>4. 1 \in 1 .. Len(u)
    BY <1>2
  <2>5. k + 1 = 1
    BY <1>1, <2>1, <2>3, <2>4 DEF TasksFit
  <2> QED
    BY <2>5
<1>4. TasksFit(i, r, v)
  <2>1. r.toUI = <<>>
    BY FirstFields
  <2> QED
    BY <1>3, <2>1 DEF TasksFit, Of
<1>5. /\ NewServer.told = <<>> /\ r.told = <<>> /\ End(NewServer) = "none" /\ End(r) = "none"
      /\ r.http = FALSE /\ NewServer.http = FALSE
  BY FirstFields, FirstServers DEF End
<1>6. CompletesFit(i, r, t, h, v)
  <2>1. \A k \in 1 .. Len(v) : ~IsComplete(v, i, k)
    BY <1>3 DEF IsComplete, Of
  <2>2. ~(t.callback = "stop" /\ t.stopped = "yes")
    BY <1>1, <1>5 DEF CompletesFit
  <2> QED
    BY <1>5, <2>1, <2>2 DEF CompletesFit
<1>7. HandlerFits(i, r, t, h) /\ PageFits(i, r, t, h, g)
  BY <1>1, <1>5 DEF HandlerFits, PageFits
<1>8. TestFits(i, r, t, h, g, v)
  <2>1. t.callback # "unused"
    <3>1. 1 \in 1 .. Len(u) /\ u[1].id = i
      BY <1>2 DEF Of
    <3> QED
      BY <1>1, <3>1 DEF TestFits
  <2>2. \A k \in 1 .. Len(r.ht) : r.ht[k].op # "shutdown"
    <3>1. CASE r = NewServer
      BY <3>1, FirstFields
    <3>2. CASE r = Started
      BY <3>2, FirstFields DEF ServerTask, Task
    <3> QED
      BY <3>1, <3>2
  <2> QED
    BY <1>1, <1>5, <2>1, <2>2 DEF TestFits
<1> QED
  BY <1>4, <1>6, <1>7, <1>8, FirstServers DEF OneFits

LEMMA StartKeeps ==
  ASSUME Fits, ui # <<>>, NEW i \in Ids, Of(ui, i, "start", 1),
         NEW starts \in BOOLEAN,
         Runs(i, StartOnUIThread(servers[i], starts), Tail(ui)), handler' = handler, page' = page
  PROVE  Fits' /\ Telling
<1>1. /\ servers \in [Ids -> ServerTypes] /\ tests \in [Ids -> TestTypes]
      /\ handler \in Ids \cup {Nobody, Closed}
      /\ page \in [state : {"stopped", "starting", "running", "stopping", "refused", "closed"},
                   id : Ids \cup {Nobody}]
      /\ ui \in Seq(UITasks)
  BY DEF Fits, Types
<1>2. \A j \in Ids : OneFits(j, servers[j], tests[j], handler, page, ui)
  BY DEF Fits
<1>3. servers[i] = NewServer
  <2>1. TasksFit(i, servers[i], ui)
    BY <1>2 DEF OneFits
  <2>2. 1 \in 1 .. Len(ui) /\ ui[1].id = i /\ ui[1].task.op = "start"
    BY <1>1 DEF Of
  <2> QED
    BY <2>1, <2>2 DEF TasksFit
<1> DEFINE r == StartOnUIThread(servers[i], starts)
<1>4. r \in {NewServer, Started}
  <2>1. CASE starts = TRUE
    BY <1>3, <2>1, StartedIs
  <2>2. CASE starts = FALSE
    BY <1>3, <2>2, StartedIs
  <2> QED
    BY <2>1, <2>2
<1> HIDE DEF r
<1>5. /\ HeardOp(NewServer, r) = "none" /\ [r EXCEPT !.toUI = <<>>] = r
      /\ Completes("none") \o r.toUI = <<>>
      /\ \A t : Hears(t, "none") = t
  BY <1>4, FirstServers, FirstFields, QuietRuns
<1>6. /\ servers' = [servers EXCEPT ![i] = r] /\ tests' = tests
      /\ ui' = Tail(ui) \o [k \in DOMAIN <<>> |-> UITask(i, <<>>[k])]
  <2>1. Runs(i, r, Tail(ui))
    BY DEF r
  <2> DEFINE op == HeardOp(servers[i], r)
             p == Completes(op) \o r.toUI
  <2>2. /\ servers' = [servers EXCEPT ![i] = [r EXCEPT !.toUI = <<>>]]
        /\ tests' = [tests EXCEPT ![i] = Hears(tests[i], op)]
        /\ ui' = Tail(ui) \o [k \in DOMAIN p |-> UITask(i, p[k])]
    BY <2>1 DEF Runs, HeardOp
  <2>3. op = "none"
    BY <1>3, <1>5
  <2>4. p = <<>>
    BY <1>5, <2>3
  <2> HIDE DEF op, p
  <2> QED
    BY <1>1, <1>5, <2>2, <2>3, <2>4
<1>7. Posts(ui, ui', 1, i, <<>>)
  <2>1. <<>> \in Seq(Tasks)
    OBVIOUS
  <2> QED
    BY <1>1, <1>6, <2>1, PostsAre
<1>8. OneFits(i, r, tests[i], handler, page, ui')
  <2>1. OneFits(i, NewServer, tests[i], handler, page, ui)
    BY <1>2, <1>3
  <2> QED
    BY <1>1, <1>4, <1>7, <2>1, StartedOne
<1>9. ASSUME NEW j \in Ids
      PROVE  OneFits(j, servers'[j], tests'[j], handler', page', ui')
  <2>1. CASE j = i
    BY <1>1, <1>6, <1>8, <2>1
  <2>2. CASE j # i
    <3>1. OneFits(j, servers[j], tests[j], handler, page, ui)
      BY <1>2
    <3>2. SameTasks(ui, ui', 1, j)
      <4>1. ~IsComplete(ui, j, 1)
        BY DEF IsComplete, Of
      <4> QED
        BY <1>1, <1>7, <2>2, <4>1, OthersTasks
    <3>3. PageFits(j, servers[j], tests[j], handler, page)
      BY <3>1 DEF OneFits
    <3>4. OneFits(j, servers[j], tests[j], handler, page, ui')
      BY <3>1, <3>2, <3>3, OtherKept
    <3> QED
      BY <1>1, <1>6, <2>2, <3>4
  <2> QED
    BY <2>1, <2>2
<1>10. Types'
  BY <1>1, <1>4, <1>6, <1>7, FirstServers DEF Types, Posts
<1>11. ClosedFits'
  BY DEF Fits, ClosedFits
<1>12. Telling
  BY <1>1, <1>3, <1>4, <1>6, FirstFields DEF Telling
<1> QED
  BY <1>9, <1>10, <1>11, <1>12 DEF Fits

LEMMA ServersAre ==
  ASSUME Fits, NEW i \in Ids
  PROVE  servers[i] \in ServerTypes /\ ServerFits(servers[i]) /\ servers[i].toUI = <<>>
BY DEF Fits, Types, OneFits, TasksFit

\* A task of a handler thread, or the rest of one.
LEMMA HandlerThreadKeeps ==
  ASSUME Fits, NEW i \in Ids, HandlerThread(i)
  PROVE  Fits' /\ Telling
<1> DEFINE s == servers[i]
           t == Head(s.ht)
           y == [s EXCEPT !.ht = Tail(@)]
<1>1. s \in ServerTypes /\ ServerFits(s) /\ s.toUI = <<>>
  BY ServersAre
<1>2. ASSUME NEW r, ServerStep(s, r), OnHandlerThread(i, r)
      PROVE  Fits' /\ Telling
  <2>1. Runs(i, r, ui) /\ handler' = handler /\ page' = page
    BY <1>2 DEF OnHandlerThread
  <2> QED
    BY <1>2, <2>1, RunsKeeps
<1>3. \/ s.now # <<>> /\ OnHandlerThread(i, Proceed(s))
      \/ /\ s.now = <<>> /\ s.ht # <<>>
         /\ \/ /\ t.op = "start"
               /\ \E listens \in BOOLEAN : OnHandlerThread(i, StartOnHandlerThread(y, listens))
            \/ t.op = "shutdown" /\ OnHandlerThread(i, ShutdownOnHandlerThread(y))
            \/ t.op = "answer" /\ OnHandlerThread(i, ContinueWebSocketRequest(y, t.c, t.allow))
  BY DEF HandlerThread
<1>4. CASE s.now # <<>> /\ OnHandlerThread(i, Proceed(s))
  <2>1. ServerStep(s, Proceed(s))
    BY <1>1, <1>4, ProceedSteps
  <2> QED
    BY <1>2, <1>4, <2>1
<1>5. ASSUME s.now = <<>>, s.ht # <<>>, t.op = "start",
             NEW listens \in BOOLEAN, OnHandlerThread(i, StartOnHandlerThread(y, listens))
      PROVE  Fits' /\ Telling
  <2>1. ServerStep(s, StartOnHandlerThread(y, listens))
    BY <1>1, <1>5, BeginSteps
  <2> QED
    BY <1>2, <1>5, <2>1
<1>6. CASE s.now = <<>> /\ s.ht # <<>> /\ t.op = "shutdown" /\ OnHandlerThread(i, ShutdownOnHandlerThread(y))
  <2>1. ServerStep(s, ShutdownOnHandlerThread(y))
    BY <1>1, <1>6, ShutdownSteps
  <2> QED
    BY <1>2, <1>6, <2>1
<1>7. CASE s.now = <<>> /\ s.ht # <<>> /\ t.op = "answer"
           /\ OnHandlerThread(i, ContinueWebSocketRequest(y, t.c, t.allow))
  <2>1. ServerStep(s, ContinueWebSocketRequest(y, t.c, t.allow))
    BY <1>1, <1>7, AnswerSteps
  <2> QED
    BY <1>2, <1>7, <2>1
<1> HIDE DEF s, t, y
<1> QED
  BY <1>3, <1>4, <1>5, <1>6, <1>7

\* A client of the server.
LEMMA ClientMoves ==
  ASSUME Fits, NEW i \in Ids, NEW c \in Connections, Client(i, c)
  PROVE  Fits' /\ Telling
<1> DEFINE s == servers[i]
           last == Heard(s, c)
           x == OnConnect([s EXCEPT !.open = @ \cup {c}], c)
           e == OnClose([s EXCEPT !.open = @ \ {c}], c)
<1>1. s \in ServerTypes /\ ServerFits(s) /\ s.toUI = <<>>
  BY ServersAre
<1>2. ASSUME NEW r, ClientStep(s, r), OnHandlerThread(i, r)
      PROVE  Fits' /\ Telling
  <2>1. Runs(i, r, ui) /\ handler' = handler /\ page' = page
    BY <1>2 DEF OnHandlerThread
  <2>2. ServerStep(s, r)
    BY <1>1, <1>2, ClientStepsAreSteps
  <2> QED
    BY <2>1, <2>2, RunsKeeps
<1>3. /\ s.http /\ s.now = <<>>
      /\ \/ last = "none" /\ OnHandlerThread(i, x)
         \/ /\ c \in s.open
            /\ \/ last = "connected" /\ OnHandlerThread(i, OnHttpRequest(s, c))
               \/ /\ last = "connected"
                  /\ \E reply \in Replies : OnHandlerThread(i, OnWebSocketRequest(s, c, reply))
               \/ last = "webSocketConnected" /\ OnHandlerThread(i, OnWebSocketMessage(s, c))
               \/ OnHandlerThread(i, e)
  BY DEF Client, Heard
<1>4. CASE last = "none" /\ OnHandlerThread(i, x)
  <2>1. ClientStep(s, x)
    BY <1>1, <1>3, <1>4, OnConnectSteps
  <2> QED
    BY <1>2, <1>4, <2>1
<1>5. CASE c \in s.open /\ last = "connected" /\ OnHandlerThread(i, OnHttpRequest(s, c))
  <2>1. ClientStep(s, OnHttpRequest(s, c))
    BY <1>1, <1>3, <1>5, OnHttpRequestSteps
  <2> QED
    BY <1>2, <1>5, <2>1
<1>6. ASSUME c \in s.open, last = "connected", NEW reply \in Replies,
             OnHandlerThread(i, OnWebSocketRequest(s, c, reply))
      PROVE  Fits' /\ Telling
  <2>1. ClientStep(s, OnWebSocketRequest(s, c, reply))
    BY <1>1, <1>3, <1>6, OnWebSocketRequestSteps
  <2> QED
    BY <1>2, <1>6, <2>1
<1>7. CASE c \in s.open /\ last = "webSocketConnected" /\ OnHandlerThread(i, OnWebSocketMessage(s, c))
  <2>1. ClientStep(s, OnWebSocketMessage(s, c))
    BY <1>1, <1>3, <1>7, OnWebSocketMessageSteps
  <2> QED
    BY <1>2, <1>7, <2>1
<1>8. CASE c \in s.open /\ OnHandlerThread(i, e)
  <2>1. ClientStep(s, e)
    BY <1>1, <1>3, <1>8, OnCloseSteps
  <2> QED
    BY <1>2, <1>8, <2>1
<1> HIDE DEF s, last, x, e
<1> QED
  BY <1>3, <1>4, <1>5, <1>6, <1>7, <1>8

\* A function of a server on the UI thread.
LEMMA UIThreadKeeps ==
  ASSUME Fits, UIThread, Head(ui).task.op # "complete"
  PROVE  Fits' /\ Telling
<1> DEFINE i == Head(ui).id
           t == Head(ui).task
           s == servers[i]
<1>1. ui \in Seq(UITasks) /\ ui # <<>>
  BY DEF Fits, Types, UIThread
<1>2. Head(ui) = ui[1] /\ 1 \in 1 .. Len(ui) /\ ui[1] \in UITasks
  BY <1>1
<1>3. i \in Ids /\ t.allow \in BOOLEAN /\ t = ui[1].task /\ ui[1].id = i
  BY <1>2 DEF UITasks, Tasks
<1>4. s \in ServerTypes /\ ServerFits(s) /\ s.toUI = <<>>
  BY <1>3, ServersAre
<1>5. \/ t.op = "start" /\ \E starts \in BOOLEAN : Runs(i, StartOnUIThread(s, starts), Tail(ui))
      \/ t.op = "shutdown" /\ Runs(i, ShutdownOnUIThread(s), Tail(ui))
      \/ t.op = "use" /\ Runs(i, UseCallback(s, t.c, t.allow), Tail(ui))
  BY DEF UIThread
<1>6. handler' = handler /\ page' = page
  BY DEF UIThread
<1>7. TasksFit(i, s, ui)
  BY <1>3 DEF Fits, OneFits
<1>8. /\ t.op # "start" => s.told # <<>>
      /\ t.op = "shutdown" => End(s) = "destroyed"
      /\ t.op = "use" => t.c \in Connections
  BY <1>2, <1>3, <1>7 DEF TasksFit
<1>9. t.op # "complete"
  OBVIOUS
<1>10. ASSUME NEW r, ServerStep(s, r), Runs(i, r, Tail(ui))
       PROVE  Fits' /\ Telling
  <2> DEFINE q == Tail(ui)
  <2>1. Runs(i, r, q) /\ ui # <<>> /\ q = Tail(ui) /\ Head(ui).task.op # "complete"
    BY <1>1, <1>10
  <2> HIDE DEF q
  <2>2. i \in Ids /\ ServerStep(servers[i], r)
    BY <1>3, <1>10
  <2> HIDE DEF i
  <2> QED
    BY <1>6, <2>1, <2>2, RunsKeeps
<1>11. CASE t.op = "start" /\ \E starts \in BOOLEAN : Runs(i, StartOnUIThread(s, starts), Tail(ui))
  <2> PICK starts \in BOOLEAN : Runs(i, StartOnUIThread(s, starts), Tail(ui))
    BY <1>11
  <2>1. Of(ui, i, "start", 1) /\ Runs(i, StartOnUIThread(servers[i], starts), Tail(ui)) /\ i \in Ids
    BY <1>3, <1>11 DEF Of
  <2> HIDE DEF i, t, s
  <2> QED
    BY <1>1, <1>6, <2>1, StartKeeps
<1>12. CASE t.op = "shutdown" /\ Runs(i, ShutdownOnUIThread(s), Tail(ui))
  <2>1. ServerStep(s, ShutdownOnUIThread(s))
    BY <1>4, <1>8, <1>12, ReleaseSteps
  <2> QED
    BY <1>10, <1>12, <2>1
<1>13. CASE t.op = "use" /\ Runs(i, UseCallback(s, t.c, t.allow), Tail(ui))
  <2>1. s.told # <<>> /\ t.c \in Connections
    BY <1>8, <1>13
  <2>2. ServerStep(s, UseCallback(s, t.c, t.allow))
    BY <1>3, <1>4, <2>1, UseSteps
  <2> QED
    BY <1>10, <1>13, <2>2
<1> HIDE DEF i, t, s
<1> QED
  BY <1>5, <1>11, <1>12, <1>13

-----------------------------------------------------------------------------
(* A start or a stop is completed.                                           *)

PageTypes == [state : {"stopped", "starting", "running", "stopping", "refused", "closed"},
              id : Ids \cup {Nobody}]

\* The page f after an answer to the page g, that counts when g waits for it.
Shows(i, g, f, from, state) ==
  IF g.state = from /\ g.id = i THEN f.state = state /\ f.id = i ELSE f = g

\* What completing leaves: handler e and page f.
Completion(i, t, h, g, ok, e, f) ==
  \/ (h = Closed \/ t.callback = "none") /\ e = h /\ f = g
  \/ /\ h # Closed /\ t.callback = "start" /\ e = (IF ok THEN h ELSE Nobody)
     /\ Shows(i, g, f, "starting", IF ok THEN "running" ELSE "stopped")
  \/ /\ h # Closed /\ t.callback = "stop" /\ e = h
     /\ Shows(i, g, f, "stopping", IF ok THEN "stopped" ELSE "running")

\* The first that completes something of server i tells how it went.
TellsHow(i, s, t, h, u, ok) ==
  /\ s.told # <<>> /\ t.callback # "unused"
  /\ t.callback = "start" => h = i /\ t.stopped = "no" /\ ok = (s.told[1].op = "created")
  /\ t.callback = "none" => h # i
  /\ t.callback = "stop" => h # i
  /\ t.callback = "stop" /\ t.stopped # "early" => ok /\ s.http = FALSE
  /\ s.told[1].op # "created" => s.http = FALSE
  /\ t.stopped = "no" /\ s.told[1].op = "created" => End(s) # "destroyed"
  /\ End(s) # "destroyed" => \A k \in 1 .. Len(u) : IsComplete(u, i, k) => k = 1

LEMMA CompletedFacts ==
  ASSUME NEW i \in Ids, NEW s \in ServerTypes, NEW t \in TestTypes, NEW h, NEW g, NEW u,
         Len(u) \in Nat, Len(u) >= 1,
         OneFits(i, s, t, h, g, u), IsComplete(u, i, 1), NEW ok, ok = u[1].task.allow
  PROVE  TellsHow(i, s, t, h, u, ok)
<1>1. /\ ServerFits(s) /\ TestFits(i, s, t, h, g, u) /\ TasksFit(i, s, u)
      /\ CompletesFit(i, s, t, h, u) /\ HandlerFits(i, s, t, h) /\ PageFits(i, s, t, h, g)
  BY DEF OneFits
<1>2. 1 \in 1 .. Len(u) /\ u[1].id = i /\ u[1].task.op = "complete"
  BY DEF IsComplete, Of
<1>3. s.told # <<>> /\ t.callback # "unused"
  BY <1>1, <1>2 DEF TasksFit, TestFits
<1>4. s.http \in BOOLEAN
  BY DEF ServerTypes
<1>5. ASSUME t.callback = "start"
      PROVE  h = i /\ t.stopped = "no" /\ ok = (s.told[1].op = "created")
  <2>1. h = i /\ t.stopped = "no"
    BY <1>1, <1>5 DEF HandlerFits
  <2>2. PICK k \in 1 .. Len(u) :
          /\ IsComplete(u, i, k) /\ u[k].task.allow = (s.told[1].op = "created")
          /\ \A j \in 1 .. k - 1 : ~IsComplete(u, i, j)
    BY <1>1, <1>3, <1>5 DEF CompletesFit
  <2>3. k = 1
    <3>1. k = 1 \/ 1 \in 1 .. k - 1
      OBVIOUS
    <3> QED
      BY <2>2, <3>1
  <2> QED
    BY <2>1, <2>2, <2>3
<1>6. t.callback = "none" => h # i
  BY <1>1, <1>2 DEF CompletesFit
<1>7. t.callback = "stop" => h # i /\ t.stopped # "no"
  BY <1>1 DEF HandlerFits
<1>8. t.stopped \in {"no", "early", "yes"}
  BY DEF TestTypes
<1>9. End(s) = "destroyed" => s.http = FALSE
  BY <1>1, <1>4 DEF ServerFits, EndsFit
<1>10. s.told[1].op # "created" => s.http = FALSE
  BY <1>1, <1>3, <1>4 DEF ServerFits, EndsFit
<1>11. t.stopped = "no" /\ s.told[1].op = "created" => End(s) # "destroyed"
  BY <1>1, <1>3, <1>9 DEF TestFits
<1>12. End(s) # "destroyed" => \A k \in 1 .. Len(u) : IsComplete(u, i, k) => k = 1
  BY <1>1, <1>2 DEF CompletesFit
<1>13. t.callback = "stop" /\ t.stopped = "yes" => ok /\ End(s) = "destroyed"
  BY <1>1, <1>2 DEF CompletesFit
<1> QED
  BY <1>3, <1>5, <1>6, <1>7, <1>8, <1>9, <1>10, <1>11, <1>12, <1>13 DEF TellsHow

\* Server i after its start or its stop was completed.
LEMMA CompletedOne ==
  ASSUME NEW i \in Ids, NEW s \in ServerTypes, NEW t \in TestTypes,
         NEW h \in Ids \cup {Nobody, Closed}, NEW g \in PageTypes, NEW u \in Seq(UITasks), u # <<>>,
         OneFits(i, s, t, h, g, u), IsComplete(u, i, 1), NEW ok, ok = u[1].task.allow,
         h = Closed => g.id = Nobody,
         NEW v, OldTasks(u, v, 1, i),
         NEW e, NEW f, Completion(i, t, h, g, ok, e, f),
         NEW r, r.server = t.server, r.bad = t.bad, r.stopped = t.stopped, r.callback = "none"
  PROVE  OneFits(i, s, r, e, f, v)
<1>1. /\ ServerFits(s) /\ TestFits(i, s, t, h, g, u) /\ TasksFit(i, s, u)
      /\ CompletesFit(i, s, t, h, u) /\ HandlerFits(i, s, t, h) /\ PageFits(i, s, t, h, g)
  BY DEF OneFits
<1>2. /\ s.told # <<>> /\ t.callback # "unused"
      /\ t.callback = "start" => h = i /\ t.stopped = "no" /\ ok = (s.told[1].op = "created")
      /\ t.callback = "none" => h # i
      /\ t.callback = "stop" => h # i
      /\ t.callback = "stop" /\ t.stopped # "early" => ok /\ s.http = FALSE
      /\ s.told[1].op # "created" => s.http = FALSE
      /\ t.stopped = "no" /\ s.told[1].op = "created" => End(s) # "destroyed"
      /\ End(s) # "destroyed" => \A k \in 1 .. Len(u) : IsComplete(u, i, k) => k = 1
  <2>1. Len(u) \in Nat /\ Len(u) >= 1
    OBVIOUS
  <2>2. TellsHow(i, s, t, h, u, ok)
    BY <2>1, CompletedFacts
  <2> QED
    BY <2>2 DEF TellsHow
<1>3. i # Nobody /\ i # Closed /\ Nobody # Closed /\ i \in Nat
  BY TestAssumption DEF Ids, Nobody, Closed
<1>4. t.callback \in {"start", "stop", "none"}
  BY <1>2 DEF TestTypes
<1>5. /\ Len(u) \in Nat /\ Len(v) \in Nat
      /\ \A k \in 1 .. Len(v) : v[k].id = i => k + 1 \in 1 .. Len(u) /\ v[k] = u[k + 1]
  BY DEF OldTasks
<1>6. End(s) # "destroyed" => \A k \in 1 .. Len(v) : ~IsComplete(v, i, k)
  <2> SUFFICES ASSUME End(s) # "destroyed", NEW k \in 1 .. Len(v), IsComplete(v, i, k)
               PROVE  FALSE
    OBVIOUS
  <2>1. k + 1 \in 1 .. Len(u) /\ IsComplete(u, i, k + 1)
    BY <1>5 DEF IsComplete, Of
  <2>2. k + 1 = 1
    BY <1>2, <2>1
  <2> QED
    BY <2>2
<1>7. e = i => t.callback = "start" /\ ok
  BY <1>2, <1>3, <1>4 DEF Completion
<1>8. TasksFit(i, s, v)
  BY <1>1, TasksKept
<1>9. CompletesFit(i, s, r, e, v)
  <2>1. e = i => \A k \in 1 .. Len(v) : ~IsComplete(v, i, k)
    BY <1>2, <1>6, <1>7
  <2>2. r.callback # "start" /\ r.callback # "stop"
    OBVIOUS
  <2> QED
    BY <1>6, <2>1, <2>2 DEF CompletesFit
<1>10. HandlerFits(i, s, r, e)
  <2>1. e = i => r.stopped = "no" /\ s.told # <<>> /\ s.told[1].op = "created"
    BY <1>2, <1>7
  <2> QED
    BY <2>1 DEF HandlerFits
<1>11. TestFits(i, s, r, e, f, v)
  BY <1>1 DEF TestFits
<1>12. PageFits(i, s, r, e, f)
  <2>1. CASE h = Closed
    <3>1. f = g /\ f.id # i
      BY <1>3, <2>1 DEF Completion
    <3> QED
      BY <3>1 DEF PageFits
  <2>2. CASE t.callback = "none"
    <3>1. f = g /\ e = h
      BY <2>2 DEF Completion
    <3> QED
      BY <1>1, <2>2, <3>1 DEF PageFits
  <2>3. CASE h # Closed /\ t.callback = "start"
    <3>1. /\ e = (IF ok THEN h ELSE Nobody)
          /\ Shows(i, g, f, "starting", IF ok THEN "running" ELSE "stopped")
      BY <2>3 DEF Completion
    <3>2. h = i /\ t.stopped = "no" /\ ok = (s.told[1].op = "created")
      BY <1>2, <2>3
    <3>3. CASE g.state = "starting" /\ g.id = i
      <4>1. f.id = i /\ f.state = IF ok THEN "running" ELSE "stopped"
        BY <3>1, <3>3 DEF Shows
      <4>2. CASE ok
        BY <3>1, <3>2, <4>1, <4>2 DEF PageFits
      <4>3. CASE ~ok
        <5>1. s.http = FALSE /\ e = Nobody /\ f.state = "stopped"
          BY <1>2, <3>1, <3>2, <4>1, <4>3
        <5> QED
          BY <1>2, <5>1 DEF PageFits
      <4> QED
        BY <4>2, <4>3
    <3>4. CASE ~(g.state = "starting" /\ g.id = i)
      <4>1. f = g
        BY <3>1, <3>4 DEF Shows
      <4> QED
        BY <1>1, <1>3, <2>3, <3>2, <3>4, <4>1 DEF PageFits
    <3> QED
      BY <3>3, <3>4
  <2>4. CASE h # Closed /\ t.callback = "stop"
    <3>1. /\ e = h
          /\ Shows(i, g, f, "stopping", IF ok THEN "stopped" ELSE "running")
      BY <2>4 DEF Completion
    <3>2. CASE g.state = "stopping" /\ g.id = i
      <4>1. f.id = i /\ f.state = IF ok THEN "stopped" ELSE "running"
        BY <3>1, <3>2 DEF Shows
      <4>2. CASE t.stopped = "early"
        BY <4>1, <4>2 DEF PageFits
      <4>3. CASE t.stopped # "early"
        <5>1. ok /\ s.http = FALSE /\ h = Nobody /\ f.state = "stopped"
          BY <1>1, <1>2, <2>4, <3>2, <4>1, <4>3 DEF PageFits
        <5> QED
          BY <1>2, <3>1, <5>1 DEF PageFits
      <4> QED
        BY <4>2, <4>3
    <3>3. CASE ~(g.state = "stopping" /\ g.id = i)
      <4>1. f = g
        BY <3>1, <3>3 DEF Shows
      <4> QED
        BY <1>1, <2>4, <3>1, <3>3, <4>1 DEF PageFits
    <3> QED
      BY <3>2, <3>3
  <2> QED
    BY <1>4, <2>1, <2>2, <2>3, <2>4
<1> QED
  BY <1>1, <1>8, <1>9, <1>10, <1>11, <1>12 DEF OneFits

\* The others when the start or the stop of server i was completed.
LEMMA CompletedOther ==
  ASSUME NEW i \in Ids, NEW s, NEW t \in TestTypes, NEW h \in Ids \cup {Nobody, Closed},
         NEW g, NEW u, NEW ok, OneFits(i, s, t, h, g, u),
         NEW e, NEW f, Completion(i, t, h, g, ok, e, f),
         NEW j \in Ids, j # i, NEW o, NEW b, OneFits(j, o, b, h, g, u),
         NEW v, SameTasks(u, v, 1, j)
  PROVE  OneFits(j, o, b, e, f, v)
<1>1. /\ h = i /\ e = Nobody
      \/ e = h
  BY DEF Completion, OneFits, HandlerFits
<1>2. f.id = j => f = g
  BY DEF Completion, Shows
<1>3. j # Nobody /\ i # Nobody
  BY TestAssumption DEF Ids, Nobody
<1>4. PageFits(j, o, b, h, g)
  BY DEF OneFits
<1>5. PageFits(j, o, b, e, f)
  BY <1>1, <1>2, <1>3, <1>4 DEF PageFits
<1>6. e = h \/ (h # j /\ e # j)
  BY <1>1, <1>3
<1>7. f.id = j => g.id = j
  BY <1>2
<1> QED
  BY <1>5, <1>6, <1>7, OtherKept

LEMMA CompleteKeeps ==
  ASSUME Fits, UIThread, Head(ui).task.op = "complete"
  PROVE  Fits' /\ Telling
<1> DEFINE i == Head(ui).id
           ok == Head(ui).task.allow
           r == [tests[i] EXCEPT !.callback = "none"]
<1>1. /\ servers \in [Ids -> ServerTypes] /\ tests \in [Ids -> TestTypes]
      /\ handler \in Ids \cup {Nobody, Closed} /\ page \in PageTypes
      /\ ui \in Seq(UITasks) /\ ui # <<>>
  BY DEF Fits, Types, UIThread, PageTypes
<1>2. Head(ui) = ui[1] /\ 1 \in 1 .. Len(ui) /\ ui[1] \in UITasks
  BY <1>1
<1>3. i \in Ids /\ ok = ui[1].task.allow /\ ok \in BOOLEAN /\ IsComplete(ui, i, 1)
      /\ \A j : j # i => ~IsComplete(ui, j, 1)
  BY <1>2 DEF UITasks, Tasks, IsComplete, Of
<1>4. RunCompleteCallback(i, ok, Tail(ui))
  BY DEF UIThread
<1>5. /\ tests' = [tests EXCEPT ![i] = r] /\ ui' = Tail(ui) /\ servers' = servers
  BY <1>1, <1>3, <1>4 DEF RunCompleteCallback
<1>6. \A j \in Ids : OneFits(j, servers[j], tests[j], handler, page, ui)
  BY DEF Fits
<1>7. /\ servers[i] \in ServerTypes /\ tests[i] \in TestTypes
      /\ OneFits(i, servers[i], tests[i], handler, page, ui)
  BY <1>1, <1>3, <1>6
<1>8. Posts(ui, ui', 1, i, <<>>)
  BY <1>1, <1>3, <1>5, NoPostsAre
<1>9. /\ r \in TestTypes
      /\ r.server = tests[i].server /\ r.bad = tests[i].bad /\ r.stopped = tests[i].stopped
      /\ r.callback = "none"
  BY <1>7 DEF TestTypes
<1>10. Completion(i, tests[i], handler, page, ok, handler', page')
       /\ handler' \in {handler, Nobody} /\ page' \in PageTypes
       /\ (handler = Closed => page' = page)
  <2>1. tests[i].callback \in {"start", "stop", "none"}
    <3>1. tests[i].callback # "unused"
      <4>1. TestFits(i, servers[i], tests[i], handler, page, ui) /\ ui[1].id = i
        BY <1>2, <1>7 DEF OneFits
      <4> QED
        BY <1>2, <4>1 DEF TestFits
    <3> QED
      BY <1>7, <3>1 DEF TestTypes
  <2>2. CASE handler = Closed \/ tests[i].callback = "none"
    <3>1. handler' = handler /\ page' = page
      BY <1>4, <2>2 DEF RunCompleteCallback
    <3> QED
      BY <1>1, <2>2, <3>1 DEF Completion
  <2>3. ASSUME NEW from, NEW state \in {"stopped", "running"}, page' = Answered(i, from, state)
        PROVE  Shows(i, page, page', from, state) /\ page' \in PageTypes
    <3>1. page = [state |-> page.state, id |-> page.id]
      BY <1>1 DEF PageTypes
    <3>2. CASE page = [state |-> from, id |-> i]
      <4>1. page' = [state |-> state, id |-> i]
        BY <2>3, <3>2 DEF Answered
      <4>2. page' \in PageTypes
        BY <1>3, <4>1 DEF PageTypes
      <4> QED
        BY <3>2, <4>1, <4>2 DEF Shows
    <3>3. CASE page # [state |-> from, id |-> i]
      <4>1. page' = page /\ ~(page.state = from /\ page.id = i)
        BY <2>3, <3>1, <3>3 DEF Answered
      <4> QED
        BY <1>1, <4>1 DEF Shows
    <3> QED
      BY <3>2, <3>3
  <2>4. CASE handler # Closed /\ tests[i].callback = "start"
    <3>1. OnStartComplete(i, ok)
      BY <1>4, <2>4 DEF RunCompleteCallback
    <3>2. /\ handler' = (IF ok THEN handler ELSE Nobody)
          /\ page' = Answered(i, "starting", IF ok THEN "running" ELSE "stopped")
      BY <3>1 DEF OnStartComplete
    <3>3. (IF ok THEN "running" ELSE "stopped") \in {"stopped", "running"}
      OBVIOUS
    <3>4. Shows(i, page, page', "starting", IF ok THEN "running" ELSE "stopped") /\ page' \in PageTypes
      BY <2>3, <3>2, <3>3
    <3> QED
      BY <2>4, <3>2, <3>4 DEF Completion
  <2>5. CASE handler # Closed /\ tests[i].callback = "stop"
    <3>1. OnStopComplete(i, ok)
      BY <1>4, <2>5 DEF RunCompleteCallback
    <3>2. /\ handler' = handler
          /\ page' = Answered(i, "stopping", IF ok THEN "stopped" ELSE "running")
      BY <3>1 DEF OnStopComplete
    <3>3. (IF ok THEN "stopped" ELSE "running") \in {"stopped", "running"}
      OBVIOUS
    <3>4. Shows(i, page, page', "stopping", IF ok THEN "stopped" ELSE "running") /\ page' \in PageTypes
      BY <2>3, <3>2, <3>3
    <3> QED
      BY <2>5, <3>2, <3>4 DEF Completion
  <2> QED
    BY <2>1, <2>2, <2>4, <2>5
<1> HIDE DEF i, ok, r
<1>11. handler = Closed => page.id = Nobody /\ page.state = "closed"
  BY DEF Fits, ClosedFits
<1>12. OneFits(i, servers[i], r, handler', page', ui')
  <2>1. OldTasks(ui, ui', 1, i)
    <3>1. Len(ui') = Len(ui) - 1 /\ Len(ui) \in Nat /\ Len(ui') \in Nat
          /\ \A k \in 1 .. Len(ui) - 1 : ui'[k] = ui[k + 1]
      BY <1>1, <1>5, QueueIs
    <3>2. \A k \in 1 .. Len(ui') : k + 1 \in 1 .. Len(ui) /\ ui'[k] = ui[k + 1]
      BY <3>1
    <3> QED
      BY <3>1, <3>2 DEF OldTasks
  <2> QED
    BY <1>1, <1>3, <1>7, <1>9, <1>10, <1>11, <2>1, CompletedOne
<1>13. ASSUME NEW j \in Ids, j # i
       PROVE  OneFits(j, servers[j], tests[j], handler', page', ui')
  <2>1. SameTasks(ui, ui', 1, j)
    BY <1>1, <1>3, <1>8, <1>13, OthersTasks
  <2>2. OneFits(j, servers[j], tests[j], handler, page, ui)
    BY <1>6
  <2> QED
    BY <1>1, <1>3, <1>7, <1>10, <1>13, <2>1, <2>2, CompletedOther
<1>14. ASSUME NEW j \in Ids
       PROVE  OneFits(j, servers'[j], tests'[j], handler', page', ui')
  <2>1. CASE j = i
    BY <1>1, <1>5, <1>12, <2>1
  <2>2. CASE j # i
    BY <1>1, <1>5, <1>13, <2>2
  <2> QED
    BY <2>1, <2>2
<1>15. Types'
  <2>1. ui' \in Seq(UITasks)
    BY <1>8 DEF Posts
  <2> QED
    BY <1>1, <1>5, <1>9, <1>10, <2>1 DEF Types, PageTypes
<1>16. ClosedFits'
  <2>1. handler' = Closed => handler = Closed
    BY <1>10 DEF Nobody, Closed
  <2> QED
    BY <1>10, <1>11, <2>1 DEF ClosedFits
<1>20. Telling
  BY <1>5 DEF Telling
<1> QED
  BY <1>20, <1>14, <1>15, <1>16 DEF Fits

-----------------------------------------------------------------------------
(* The page.                                                                 *)

LEMMA QueueStays ==
  ASSUME NEW u \in Seq(UITasks), NEW j
  PROVE  SameTasks(u, u, 0, j) /\ OldTasks(u, u, 0, j)
<1>1. Len(u) \in Nat
  OBVIOUS
<1>2. \A k \in 1 .. Len(u) : k + 0 = k /\ k - 0 = k /\ k > 0
  BY <1>1
<1> QED
  BY <1>1, <1>2 DEF SameTasks, OldTasks

\* Only the page and its handler_ change.
LEMMA PageMoves ==
  ASSUME Fits, servers' = servers, tests' = tests, ui' = ui,
         handler' = handler \/ (handler \notin Ids /\ handler' = Closed),
         page' \in PageTypes, ClosedFits',
         \A j \in Ids : page'.id = j => page.id = j /\ PageFits(j, servers[j], tests[j], handler', page')
  PROVE  Fits' /\ Telling
<1>1. ui \in Seq(UITasks) /\ \A j \in Ids : OneFits(j, servers[j], tests[j], handler, page, ui)
  BY DEF Fits, Types
<1>2. ASSUME NEW j \in Ids
      PROVE  OneFits(j, servers[j], tests[j], handler', page', ui)
  <2>1. SameTasks(ui, ui, 0, j)
    BY <1>1, QueueStays
  <2>2. handler' = handler \/ (handler # j /\ handler' # j)
    BY TestAssumption DEF Ids, Closed
  <2>3. PageFits(j, servers[j], tests[j], handler', page')
    BY DEF PageFits
  <2>4. page'.id = j => page.id = j
    OBVIOUS
  <2>5. OneFits(j, servers[j], tests[j], handler, page, ui)
    BY <1>1
  <2> QED
    BY <2>1, <2>2, <2>3, <2>4, <2>5, OtherKept
<1>3. Types'
  BY DEF Fits, Types, PageTypes
<1>20. Telling
  BY DEF Telling
<1> QED
  BY <1>20, <1>2, <1>3 DEF Fits

LEMMA RefuseKeeps ==
  ASSUME Fits, Refuse, handler # Closed
  PROVE  Fits' /\ Telling
<1>1. page \in PageTypes
  BY DEF Fits, Types, PageTypes
<1>2. page'.id = page.id /\ page'.state = "refused" /\ page' \in PageTypes
  BY <1>1 DEF Refuse, PageTypes
<1>3. servers' = servers /\ tests' = tests /\ ui' = ui /\ handler' = handler
  BY DEF Refuse
<1>4. \A j \in Ids : page'.id = j => page.id = j /\ PageFits(j, servers[j], tests[j], handler', page')
  BY <1>2 DEF PageFits
<1>5. ClosedFits'
  BY <1>3 DEF ClosedFits
<1> QED
  BY <1>2, <1>3, <1>4, <1>5, PageMoves

LEMMA PageLoadsKeeps ==
  ASSUME Fits, PageLoads
  PROVE  Fits' /\ Telling
<1> DEFINE w == IF handler # Nobody THEN "running" ELSE "stopped"
<1>1. /\ handler # Closed /\ page' = [state |-> w, id |-> Nobody]
      /\ servers' = servers /\ tests' = tests /\ ui' = ui /\ handler' = handler
  BY DEF PageLoads
<1>2. w \in {"running", "stopped"}
  OBVIOUS
<1> HIDE DEF w
<1>3. page' \in PageTypes /\ page'.id = Nobody
  BY <1>1, <1>2 DEF PageTypes
<1>4. \A j \in Ids : page'.id # j
  BY <1>3, TestAssumption DEF Ids, Nobody
<1>5. ClosedFits'
  BY <1>1 DEF ClosedFits
<1> QED
  BY <1>1, <1>3, <1>4, <1>5, PageMoves

\* StopServer and Shutdown.
LEMMA StopServerIs ==
  ASSUME NEW t \in TestTypes, NEW callback \in {"stop", "none"}, NEW r, r = StopServer(t, callback)
  PROVE  /\ r \in TestTypes /\ r.server = t.server /\ r.callback = callback
         /\ r.stopped = (IF t.callback = "start" THEN "early" ELSE "yes")
<1> DEFINE b == IF t.server THEN t.bad ELSE t.bad \cup {"server_test.cc:59"}
           w == IF t.callback = "start" THEN "early" ELSE "yes"
<1>1. r = [t EXCEPT !.bad = b, !.callback = callback, !.stopped = w]
  BY DEF StopServer, Failing, TestTypes
<1>2. b \in SUBSET {"server_test.cc:59"} /\ w \in {"early", "yes"}
  BY DEF TestTypes
<1>3. w = (IF t.callback = "start" THEN "early" ELSE "yes")
  OBVIOUS
<1> HIDE DEF b, w
<1> QED
  BY <1>1, <1>2, <1>3 DEF TestTypes

LEMMA StoppedIs ==
  ASSUME NEW s \in ServerTypes, ServerFits(s), NEW t,
         t.server <=> End(s) \in {"created", "failed"},
         NEW r, r = IF t.server THEN Shutdown(s) ELSE s
  PROVE  /\ r \in ServerTypes /\ ServerFits(r) /\ End(r) = End(s)
         /\ r.told = s.told /\ r.http = s.http /\ r.toUI = s.toUI
         /\ s = NewServer => r = NewServer
<1>1. CASE t.server
  <2>1. End(s) \in {"created", "failed"}
    BY <1>1
  <2>2. s.told # <<>>
    BY <2>1, FirstServers DEF ServerFits, EndsFit, End
  <2>3. /\ r \in ServerTypes /\ ServerFits(r) /\ \A c : Heard(r, c) = Heard(s, c)
        /\ r.told = s.told /\ r.http = s.http /\ r.toUI = s.toUI
    BY <1>1, <2>2, StopIs
  <2>4. s # NewServer
    BY <2>2, FirstFields
  <2> QED
    BY <2>3, <2>4 DEF End
<1>2. CASE ~t.server
  BY <1>2
<1> QED
  BY <1>1, <1>2

ShutsDown(s, t, y) == y = IF t.server THEN Shutdown(s) ELSE s
IsStopped(t, callback, r) == r = StopServer(t, callback)

LEMMA StoppedOne ==
  ASSUME NEW i \in Ids, NEW s \in ServerTypes, NEW t \in TestTypes, NEW g, NEW u \in Seq(UITasks),
         OneFits(i, s, t, i, g, u), NEW callback \in {"stop", "none"},
         NEW y, ShutsDown(s, t, y), NEW r, IsStopped(t, callback, r),
         NEW e, e # i, NEW f, f.id = i => e = Nobody /\ callback = "stop" /\ f.state = "stopping"
  PROVE  OneFits(i, y, r, e, f, u) /\ y \in ServerTypes /\ r \in TestTypes
<1>1. /\ ServerFits(s) /\ TestFits(i, s, t, i, g, u) /\ TasksFit(i, s, u)
      /\ CompletesFit(i, s, t, i, u) /\ HandlerFits(i, s, t, i)
  BY DEF OneFits
<1>2. /\ r \in TestTypes /\ r.server = t.server /\ r.callback = callback
      /\ r.stopped = (IF t.callback = "start" THEN "early" ELSE "yes")
  BY StopServerIs DEF IsStopped
<1>3. /\ y \in ServerTypes /\ ServerFits(y) /\ End(y) = End(s)
      /\ y.told = s.told /\ y.http = s.http /\ y.toUI = s.toUI
      /\ s = NewServer => y = NewServer
  <2>1. t.server <=> End(s) \in {"created", "failed"}
    BY <1>1 DEF TestFits
  <2> QED
    BY <1>1, <2>1, StoppedIs DEF ShutsDown
<1>4. TestFits(i, y, r, e, f, u)
  <2>1. r.bad \subseteq {"server_test.cc:59"} /\ r.stopped # "no" /\ r.callback # "unused"
    BY <1>2 DEF TestTypes
  <2>2. r.server <=> End(y) \in {"created", "failed"}
    BY <1>1, <1>2, <1>3 DEF TestFits
  <2> QED
    BY <2>1, <2>2 DEF TestFits
<1>5. TasksFit(i, y, u)
  BY <1>1, <1>3 DEF TasksFit
<1>6. t.callback \in {"start", "none"} /\ (t.callback = "none" => s.told # <<>>)
  BY <1>1 DEF HandlerFits
<1>7. CompletesFit(i, y, r, e, u)
  <2>1. t.callback = "none" => \A k \in 1 .. Len(u) : ~IsComplete(u, i, k)
    BY <1>1 DEF CompletesFit
  <2>2. r.stopped = "yes" => t.callback = "none"
    BY <1>2, <1>6
  <2>3. End(s) # "destroyed" =>
          \A j, k \in 1 .. Len(u) : IsComplete(u, i, j) /\ IsComplete(u, i, k) => j = k
    BY <1>1 DEF CompletesFit
  <2>4. r.callback # "start"
    BY <1>2
  <2> QED
    BY <1>3, <1>6, <2>1, <2>2, <2>3, <2>4 DEF CompletesFit
<1>8. HandlerFits(i, y, r, e)
  BY <1>2 DEF HandlerFits
<1>9. PageFits(i, y, r, e, f)
  BY <1>2 DEF PageFits
<1> QED
  BY <1>2, <1>3, <1>4, <1>5, <1>7, <1>8, <1>9 DEF OneFits

LEMMA StopKeeps ==
  ASSUME Fits, handler \in Ids, NEW callback \in {"stop", "none"}, Stop(handler, callback),
         ui' = ui, handler' \in {Nobody, Closed}, page' \in PageTypes,
         page'.id # Nobody => page'.id = handler /\ handler' = Nobody /\ callback = "stop"
                                /\ page'.state = "stopping",
         ClosedFits'
  PROVE  Fits' /\ Telling
<1> DEFINE i == handler
           y == IF tests[i].server THEN Shutdown(servers[i]) ELSE servers[i]
           r == StopServer(tests[i], callback)
<1>1. /\ servers \in [Ids -> ServerTypes] /\ tests \in [Ids -> TestTypes]
      /\ ui \in Seq(UITasks)
      /\ \A j \in Ids : OneFits(j, servers[j], tests[j], handler, page, ui)
  BY DEF Fits, Types
<1>2. /\ tests' = [tests EXCEPT ![i] = r]
      /\ servers' = [servers EXCEPT ![i] = y]
  BY DEF Stop
<1>3. servers[i] \in ServerTypes /\ tests[i] \in TestTypes
      /\ OneFits(i, servers[i], tests[i], i, page, ui)
  BY <1>1
<1>4. ShutsDown(servers[i], tests[i], y) /\ IsStopped(tests[i], callback, r)
  BY DEF ShutsDown, IsStopped
<1>5. \A j \in Ids : j # Nobody /\ j # Closed
  BY TestAssumption DEF Ids, Nobody, Closed
<1>6. page'.id = i => handler' = Nobody /\ callback = "stop" /\ page'.state = "stopping"
  BY <1>5
<1>7. handler' # i /\ i \in Ids /\ handler = i
  BY <1>5
<1> HIDE DEF i, y, r
<1>8. OneFits(i, y, r, handler', page', ui) /\ y \in ServerTypes /\ r \in TestTypes
  <2> DEFINE s == servers[i]
             t == tests[i]
             e == handler'
             f == page'
  <2>1. s \in ServerTypes /\ t \in TestTypes /\ OneFits(i, s, t, i, page, ui)
    BY <1>3
  <2>2. ShutsDown(s, t, y) /\ IsStopped(t, callback, r)
    BY <1>4
  <2>3. e # i /\ i \in Ids /\ ui \in Seq(UITasks) /\ callback \in {"stop", "none"}
    BY <1>1, <1>7
  <2>4. f.id = i => e = Nobody /\ callback = "stop" /\ f.state = "stopping"
    BY <1>6
  <2> HIDE DEF s, t, e, f
  <2>5. OneFits(i, y, r, e, f, ui) /\ y \in ServerTypes /\ r \in TestTypes
    BY <2>1, <2>2, <2>3, <2>4, StoppedOne
  <2> QED
    BY <2>5 DEF e, f
<1>9. ASSUME NEW j \in Ids, j # i
      PROVE  OneFits(j, servers[j], tests[j], handler', page', ui)
  <2>1. SameTasks(ui, ui, 0, j)
    BY <1>1, QueueStays
  <2>2. handler # j /\ handler' # j /\ page'.id # j
    BY <1>5, <1>7, <1>9
  <2>3. PageFits(j, servers[j], tests[j], handler', page')
    BY <2>2 DEF PageFits
  <2>4. OneFits(j, servers[j], tests[j], handler, page, ui)
    BY <1>1
  <2> QED
    BY <2>1, <2>2, <2>3, <2>4, OtherKept
<1>10. ASSUME NEW j \in Ids
       PROVE  OneFits(j, servers'[j], tests'[j], handler', page', ui')
  <2>1. CASE j = i
    BY <1>1, <1>2, <1>7, <1>8, <2>1
  <2>2. CASE j # i
    BY <1>1, <1>2, <1>9, <2>2
  <2> QED
    BY <2>1, <2>2
<1>11. Types'
  BY <1>1, <1>2, <1>8 DEF Types, PageTypes
<1>12. y.told = servers[i].told
  <2> DEFINE s == servers[i]
             t == tests[i]
  <2>1. /\ s \in ServerTypes /\ ServerFits(s) /\ ShutsDown(s, t, y)
        /\ t.server <=> End(s) \in {"created", "failed"}
    BY <1>3, <1>4 DEF OneFits, TestFits
  <2> HIDE DEF s, t
  <2>2. y.told = s.told
    BY <2>1, StoppedIs DEF ShutsDown
  <2> QED
    BY <2>2 DEF s
<1>13. Telling
  BY <1>1, <1>2, <1>7, <1>8, <1>12 DEF Telling
<1> QED
  BY <1>10, <1>11, <1>13 DEF Fits

LEMMA PageStopsKeeps ==
  ASSUME Fits, PageStops
  PROVE  Fits' /\ Telling
<1>1. handler \in Ids \cup {Nobody, Closed} /\ page \in PageTypes /\ ClosedFits
  BY DEF Fits, Types, PageTypes
<1>2. page.state = "running" /\ handler # Closed
  BY <1>1 DEF PageStops, ClosedFits
<1>3. CASE handler = Nobody
  BY <1>2, <1>3, RefuseKeeps DEF PageStops
<1>4. CASE handler \in Ids
  <2>1. handler # Nobody
    BY <1>4, TestAssumption DEF Ids, Nobody
  <2>2. /\ Stop(handler, "stop") /\ handler' = Nobody /\ ui' = ui
        /\ page' = [state |-> "stopping", id |-> handler]
    BY <2>1 DEF PageStops
  <2>3. page' \in PageTypes /\ page'.id = handler /\ page'.state = "stopping"
    BY <1>4, <2>2 DEF PageTypes
  <2>4. ClosedFits'
    BY <2>2 DEF ClosedFits, Nobody, Closed
  <2> DEFINE callback == "stop"
  <2>5. callback \in {"stop", "none"} /\ Stop(handler, callback) /\ callback = "stop"
        /\ handler' \in {Nobody, Closed}
    BY <2>2
  <2> HIDE DEF callback
  <2> QED
    BY <1>4, <2>2, <2>3, <2>4, <2>5, StopKeeps
<1> QED
  BY <1>1, <1>2, <1>3, <1>4

LEMMA PageClosesKeeps ==
  ASSUME Fits, PageCloses
  PROVE  Fits' /\ Telling
<1>1. handler \in Ids \cup {Nobody, Closed} /\ handler # Closed
  BY DEF Fits, Types, PageCloses
<1>2. /\ handler' = Closed /\ page' = [state |-> "closed", id |-> Nobody] /\ ui' = ui
  BY DEF PageCloses
<1>3. page' \in PageTypes /\ page'.id = Nobody /\ page'.state = "closed"
  BY <1>2 DEF PageTypes
<1>4. ClosedFits'
  BY <1>3 DEF ClosedFits
<1>5. \A j \in Ids : j # Nobody /\ j # Closed
  BY TestAssumption DEF Ids, Nobody, Closed
<1>6. CASE handler = Nobody
  <2>1. servers' = servers /\ tests' = tests
    BY <1>6 DEF PageCloses
  <2>2. handler \notin Ids
    BY <1>5, <1>6
  <2> QED
    BY <1>2, <1>3, <1>4, <1>5, <2>1, <2>2, PageMoves
<1>7. CASE handler \in Ids
  <2>1. Stop(handler, "none")
    BY <1>5, <1>7 DEF PageCloses
  <2> DEFINE callback == "none"
  <2>2. callback \in {"stop", "none"} /\ Stop(handler, callback) /\ handler' \in {Nobody, Closed}
    BY <1>2, <2>1
  <2> HIDE DEF callback
  <2> QED
    BY <1>2, <1>3, <1>4, <1>7, <2>2, StopKeeps
<1> QED
  BY <1>1, <1>6, <1>7

-----------------------------------------------------------------------------
(* The invariant.                                                            *)

LEMMA InitFits ==
  Init => Fits
<1> SUFFICES ASSUME Init
             PROVE  Fits
  OBVIOUS
<1>1. /\ servers = [i \in Ids |-> NewServer] /\ tests = [i \in Ids |-> NewTest]
      /\ handler = Nobody /\ ui = <<>>
      /\ page = [state |-> "stopped", id |-> Nobody]
  BY DEF Init
<1>2. page \in PageTypes /\ page.id = Nobody
  BY <1>1 DEF PageTypes
<1>3. \A i \in Ids : i # Nobody
  BY TestAssumption DEF Ids, Nobody
<1>4. NewTest \in TestTypes /\ NewTest.server = FALSE /\ NewTest.bad = {}
      /\ NewTest.callback = "unused" /\ NewTest.stopped = "no"
  BY DEF NewTest, TestTypes
<1>5. 1 .. Len(ui) = {} /\ ui \in Seq(UITasks)
  <2>1. Len(ui) = 0
    BY <1>1
  <2> QED
    BY <1>1, <2>1
<1>6. /\ NewServer \in ServerTypes /\ ServerFits(NewServer) /\ End(NewServer) = "none"
      /\ NewServer.told = <<>> /\ NewServer.toUI = <<>> /\ NewServer.ht = <<>>
  BY FirstServers, FirstFields DEF End
<1>7. ASSUME NEW i \in Ids
      PROVE  OneFits(i, NewServer, NewTest, Nobody, page, ui)
  <2>1. TestFits(i, NewServer, NewTest, Nobody, page, ui)
    BY <1>2, <1>3, <1>4, <1>5, <1>6 DEF TestFits
  <2>2. TasksFit(i, NewServer, ui)
    BY <1>5, <1>6 DEF TasksFit
  <2>3. CompletesFit(i, NewServer, NewTest, Nobody, ui)
    BY <1>3, <1>4, <1>5 DEF CompletesFit
  <2>4. HandlerFits(i, NewServer, NewTest, Nobody)
    BY <1>3, <1>4 DEF HandlerFits
  <2>5. PageFits(i, NewServer, NewTest, Nobody, page)
    BY <1>2, <1>3 DEF PageFits
  <2> QED
    BY <1>6, <2>1, <2>2, <2>3, <2>4, <2>5 DEF OneFits
<1>8. Types
  BY <1>1, <1>2, <1>4, <1>5, <1>6 DEF Types, PageTypes
<1>9. ClosedFits
  BY <1>1 DEF ClosedFits, Nobody, Closed
<1>10. \A i \in Ids : OneFits(i, servers[i], tests[i], handler, page, ui)
  BY <1>1, <1>7
<1> QED
  BY <1>8, <1>9, <1>10 DEF Fits

LEMMA PageStartsKeeps ==
  ASSUME Fits, PageStarts
  PROVE  Fits' /\ Telling
<1> DEFINE i == CHOOSE i \in Ids : tests[i].callback = "unused"
           r == StartServer(tests[i])
           t == ServerTask("start")
           p == <<t>>
<1>1. /\ servers \in [Ids -> ServerTypes] /\ tests \in [Ids -> TestTypes]
      /\ handler \in Ids \cup {Nobody, Closed} /\ page \in PageTypes
      /\ ui \in Seq(UITasks)
      /\ \A j \in Ids : OneFits(j, servers[j], tests[j], handler, page, ui)
  BY DEF Fits, Types, PageTypes
<1>2. CASE Refuse
  <2>1. handler # Closed
    BY DEF PageStarts, Fits, ClosedFits
  <2> QED
    BY <1>2, <2>1, RefuseKeeps
<1>3. CASE ~Refuse
  <2>1. /\ handler = Nobody /\ \E j \in Ids : tests[j].callback = "unused"
        /\ handler' = i /\ tests' = [tests EXCEPT ![i] = r]
        /\ ui' = Append(ui, UITask(i, t)) /\ page' = [state |-> "starting", id |-> i]
        /\ servers' = servers
    BY <1>3 DEF PageStarts
  <2>2. i \in Ids /\ tests[i].callback = "unused"
    BY <2>1
  <2>3. r = StartServer(tests[i]) /\ t = ServerTask("start")
    OBVIOUS
  <2>4. t \in Tasks /\ t.op = "start"
    <3>1. t \in Tasks
      BY DEF ServerTask, Task, Tasks, Ends
    <3>2. t.op = "start"
      BY DEF ServerTask, Task
    <3> QED
      BY <3>1, <3>2
  <2> HIDE DEF i, r, t
  <2>5. /\ servers[i] = NewServer /\ tests[i] = NewTest
        /\ \A k \in 1 .. Len(ui) : ui[k].id # i
    BY <1>1, <2>2 DEF OneFits, TestFits
  <2>6. /\ NewTest \in TestTypes /\ NewTest.server = FALSE /\ NewTest.bad = {}
        /\ NewTest.callback = "unused" /\ NewTest.stopped = "no"
    BY DEF NewTest, TestTypes
  <2>7. r \in TestTypes /\ r.server = FALSE /\ r.bad = {} /\ r.callback = "start" /\ r.stopped = "no"
    <3> DEFINE n == NewTest
    <3>1. r = [n EXCEPT !.callback = "start"]
      BY <2>3, <2>5, <2>6 DEF StartServer, Failing, TestTypes
    <3>2. n \in TestTypes /\ n.server = FALSE /\ n.bad = {} /\ n.stopped = "no"
      BY <2>6
    <3> HIDE DEF n
    <3> QED
      BY <3>1, <3>2 DEF TestTypes
  <2>8. UITask(i, t) \in UITasks /\ UITask(i, t).id = i /\ UITask(i, t).task = t
    <3>1. UITask(i, t) \in UITasks
      BY <2>2, <2>4 DEF UITask, UITasks
    <3>2. UITask(i, t).id = i /\ UITask(i, t).task = t
      BY DEF UITask
    <3> QED
      BY <3>1, <3>2
  <2>9. /\ ui' \in Seq(UITasks) /\ Len(ui') = Len(ui) + 1 /\ Len(ui) \in Nat
        /\ \A k \in 1 .. Len(ui) : ui'[k] = ui[k]
        /\ ui'[Len(ui) + 1] = UITask(i, t)
    BY <1>1, <2>1, <2>8
  <2>10. /\ \A k \in 1 .. Len(ui') : ui'[k].id = i =>
              k = Len(ui) + 1 /\ ui'[k].task = t
         /\ \A k \in 1 .. Len(ui') : ui'[k].id # i => k \in 1 .. Len(ui) /\ ui'[k] = ui[k]
    BY <2>5, <2>8, <2>9
  <2>11. \A j \in Ids : j # Nobody /\ j # Closed
    BY TestAssumption DEF Ids, Nobody, Closed
  <2>12. page' \in PageTypes /\ page'.id = i /\ page'.state = "starting"
    BY <2>1, <2>2 DEF PageTypes
  <2>13. /\ NewServer \in ServerTypes /\ ServerFits(NewServer) /\ End(NewServer) = "none"
         /\ NewServer.told = <<>> /\ NewServer.toUI = <<>> /\ NewServer.ht = <<>>
    BY FirstServers, FirstFields DEF End
  <2>14. OneFits(i, NewServer, r, i, page', ui')
    <3>1. TestFits(i, NewServer, r, i, page', ui')
      BY <2>7, <2>13 DEF TestFits
    <3>2. TasksFit(i, NewServer, ui')
      BY <2>4, <2>10, <2>13 DEF TasksFit, Of
    <3>3. \A k \in 1 .. Len(ui') : ~IsComplete(ui', i, k)
      BY <2>4, <2>10 DEF IsComplete, Of
    <3>4. CompletesFit(i, NewServer, r, i, ui')
      BY <2>7, <2>13, <3>3 DEF CompletesFit
    <3>5. HandlerFits(i, NewServer, r, i)
      BY <2>7 DEF HandlerFits
    <3>6. PageFits(i, NewServer, r, i, page')
      BY <2>7, <2>12 DEF PageFits
    <3> QED
      BY <2>13, <3>1, <3>2, <3>4, <3>5, <3>6 DEF OneFits
  <2>15. ASSUME NEW j \in Ids, j # i
         PROVE  OneFits(j, servers[j], tests[j], i, page', ui')
    <3>1. SameTasks(ui, ui', 0, j)
      <4>1. \A k \in 1 .. Len(ui') : ui'[k].id = j => k + 0 \in 1 .. Len(ui) /\ ui'[k] = ui[k + 0]
        BY <2>9, <2>10, <2>15
      <4>2. \A k \in 1 .. Len(ui) : k > 0 /\ k - 0 \in 1 .. Len(ui') /\ ui'[k - 0] = ui[k]
        BY <2>9
      <4>3. Len(ui') \in Nat /\ Len(ui) \in Nat
        BY <2>9
      <4> QED
        BY <4>1, <4>2, <4>3 DEF SameTasks, OldTasks
    <3>2. handler # j /\ i # j /\ page'.id # j
      BY <2>1, <2>11, <2>12, <2>15
    <3>3. PageFits(j, servers[j], tests[j], i, page')
      BY <3>2 DEF PageFits
    <3>4. OneFits(j, servers[j], tests[j], handler, page, ui)
      BY <1>1
    <3> QED
      BY <3>1, <3>2, <3>3, <3>4, OtherKept
  <2>16. ASSUME NEW j \in Ids
         PROVE  OneFits(j, servers'[j], tests'[j], handler', page', ui')
    <3>1. CASE j = i
      BY <1>1, <2>1, <2>5, <2>14, <3>1
    <3>2. CASE j # i
      BY <1>1, <2>1, <2>15, <3>2
    <3> QED
      BY <3>1, <3>2
  <2>17. Types'
    BY <1>1, <2>1, <2>2, <2>7, <2>9, <2>12 DEF Types, PageTypes
  <2>18. ClosedFits'
    BY <2>1, <2>2, <2>11 DEF ClosedFits
  <2>19. Telling
    BY <2>1 DEF Telling
  <2> QED
    BY <2>16, <2>17, <2>18, <2>19 DEF Fits
<1> QED
  BY <1>2, <1>3

LEMMA NextKeeps ==
  Fits /\ [Next]_vars => Fits' /\ Telling
<1> SUFFICES ASSUME Fits, [Next]_vars
             PROVE  Fits' /\ Telling
  OBVIOUS
<1>1. CASE UIThread
  BY <1>1, CompleteKeeps, UIThreadKeeps
<1>2. ASSUME NEW i \in Ids, HandlerThread(i)
      PROVE  Fits' /\ Telling
  BY <1>2, HandlerThreadKeeps
<1>3. ASSUME NEW i \in Ids, ThreadEnds(i)
      PROVE  Fits' /\ Telling
  BY <1>3, ThreadEndsKeeps
<1>4. ASSUME NEW i \in Ids, NEW c \in Connections, Client(i, c)
      PROVE  Fits' /\ Telling
  BY <1>4, ClientMoves
<1>5. CASE PageStarts
  BY <1>5, PageStartsKeeps
<1>6. CASE PageStops
  BY <1>6, PageStopsKeeps
<1>7. CASE PageLoads
  BY <1>7, PageLoadsKeeps
<1>8. CASE PageCloses
  BY <1>8, PageClosesKeeps
<1>9. CASE UNCHANGED vars
  <2>1. servers' = servers /\ tests' = tests /\ handler' = handler /\ page' = page /\ ui' = ui
    BY <1>9 DEF vars
  <2>2. Types' /\ ClosedFits'
    BY <2>1 DEF Fits, Types, ClosedFits
  <2>3. \A j \in Ids : OneFits(j, servers'[j], tests'[j], handler', page', ui')
    BY <2>1 DEF Fits
  <2>4. Telling
    BY <2>1 DEF Telling
  <2> QED
    BY <2>2, <2>3, <2>4 DEF Fits
<1> QED
  BY <1>1, <1>2, <1>3, <1>4, <1>5, <1>6, <1>7, <1>8, <1>9 DEF Next, System

\* Servers, their ServerHandlers, the tasks that are on their way and the page
\* fit each other in every state of server_impl.cc and server_test.cc.
THEOREM ServersFit == Spec => []Fits
<1>1. Init => Fits
  BY InitFits
<1>2. Fits /\ [Next]_vars => Fits'
  BY NextKeeps
<1> QED
  BY <1>1, <1>2, PTL DEF Spec

LEMMA FitsAreCorrect ==
  Fits => ServersCorrect /\ AnswersAreTrue
<1> SUFFICES ASSUME Fits
             PROVE  ServersCorrect /\ AnswersAreTrue
  OBVIOUS
<1>1. /\ servers \in [Ids -> ServerTypes] /\ tests \in [Ids -> TestTypes]
      /\ handler \in Ids \cup {Nobody, Closed} /\ page \in PageTypes
  BY DEF Fits, Types, PageTypes
<1>2. ASSUME NEW i \in Ids
      PROVE  /\ EndsFit(servers[i]) /\ ConnectionsFit(servers[i])
             /\ TestFits(i, servers[i], tests[i], handler, page, ui)
             /\ HandlerFits(i, servers[i], tests[i], handler)
             /\ PageFits(i, servers[i], tests[i], handler, page)
             /\ servers[i] \in ServerTypes /\ tests[i] \in TestTypes
  BY <1>1 DEF Fits, OneFits, ServerFits
<1>3. TypeOK
  <2>1. ASSUME NEW i \in Ids
        PROVE  /\ servers[i].thread \in {"none", "running", "stopping", "ended"}
               /\ servers[i].refs = (IF servers[i].thread = "running" THEN 1 ELSE 0)
               /\ servers[i].open \subseteq {c \in Connections : servers[i].conn[c] # "none"}
               /\ tests[i].callback \in {"unused", "start", "stop", "none"}
    <3>1. /\ servers[i].thread \in {"none", "running", "stopping", "ended"}
          /\ servers[i].open \subseteq Connections
          /\ tests[i].callback \in {"unused", "start", "stop", "none"}
      BY <1>2 DEF ServerTypes, TestTypes
    <3>2. servers[i].refs = (IF servers[i].thread = "running" THEN 1 ELSE 0)
      BY <1>2 DEF EndsFit
    <3>3. \A c \in servers[i].open : servers[i].conn[c] # "none"
      BY <1>2, <3>1 DEF ConnectionsFit, StateAfter, Live
    <3> QED
      BY <3>1, <3>2, <3>3
  <2>2. page.state \in {"stopped", "starting", "running", "stopping", "refused", "closed"}
    BY <1>1 DEF PageTypes
  <2> QED
    BY <1>1, <2>1, <2>2 DEF TypeOK
<1>4. AssertionsHold
  BY <1>2 DEF AssertionsHold, EndsFit, TestFits
<1>5. ReleasedAfterLastCall
  <2> SUFFICES ASSUME NEW i \in Ids, ~servers[i].handler
               PROVE  /\ servers[i].told # <<>>
                      /\ servers[i].told[Len(servers[i].told)].op = "destroyed"
                      /\ ~servers[i].http /\ servers[i].open = {} /\ servers[i].now = <<>>
    BY DEF ReleasedAfterLastCall
  <2>1. End(servers[i]) = "destroyed"
    BY <1>2 DEF EndsFit
  <2>2. servers[i].told # <<>>
    BY <2>1, LastNone DEF End, Heard
  <2>3. /\ ~servers[i].http /\ servers[i].now = <<>>
        /\ servers[i].told[Len(servers[i].told)].op = "destroyed"
    BY <1>2, <2>1 DEF EndsFit
  <2>4. servers[i].open = {}
    BY <1>2, <2>3 DEF ConnectionsFit
  <2> QED
    BY <2>2, <2>3, <2>4
<1>6. StartIsCurrent
  BY <1>2 DEF StartIsCurrent, HandlerFits
<1>7. AnswersAreTrue
  <2> SUFFICES ASSUME page.id # Nobody, tests[page.id].stopped # "early"
               PROVE  /\ page.state = "running" => handler = page.id /\ servers[page.id].http
                      /\ page.state = "stopped" => handler = Nobody /\ ~servers[page.id].http
    BY DEF AnswersAreTrue
  <2>1. page.id \in Ids
    BY <1>1 DEF PageTypes
  <2>2. PageFits(page.id, servers[page.id], tests[page.id], handler, page)
    BY <1>2, <2>1
  <2>3. CASE page.state = "running"
    <3>1. handler = page.id /\ tests[page.id].callback = "none"
      BY <2>2, <2>3 DEF PageFits
    <3>2. /\ tests[page.id].stopped = "no"
          /\ servers[page.id].told # <<>> /\ servers[page.id].told[1].op = "created"
      BY <1>2, <2>1, <3>1 DEF HandlerFits
    <3>3. servers[page.id].http
      BY <1>2, <2>1, <3>2 DEF TestFits
    <3> QED
      BY <2>3, <3>1, <3>3
  <2>4. CASE page.state = "stopped"
    BY <2>2, <2>4 DEF PageFits
  <2> QED
    BY <2>3, <2>4
<1> QED
  BY <1>3, <1>4, <1>5, <1>6, <1>7 DEF ServersCorrect

\* The states of server_impl.cc and server_test.cc are those their DCHECKs ask
\* for, but for the two lines the model names: a server lets go of its handler
\* after the last call, when it has its port no more, and a start that is not
\* completed is the start of the page's own server.
THEOREM ServersAreCorrect == Spec => []ServersCorrect
<1>1. Fits => ServersCorrect
  BY FitsAreCorrect
<1> QED
  BY <1>1, ServersFit, PTL

\* A page that was told that its server runs, or stopped, was told the truth,
\* whatever the server's own thread has done since.
THEOREM PageToldTheTruth == Spec => []AnswersAreTrue
<1>1. Fits => AnswersAreTrue
  BY FitsAreCorrect
<1> QED
  BY <1>1, ServersFit, PTL

-----------------------------------------------------------------------------
(* The promise of cef_server.h.                                              *)

LEMMA LastPromised ==
  ASSUME NEW i \in Ids, NEW c
  PROVE  Promised!Last(i, c) = Heard(servers[i], c)
<1>1. [j \in Ids |-> servers[j].told][i] = servers[i].told
  OBVIOUS
<1> QED
  BY <1>1 DEF Promised!Last, Heard, LastCall

\* One call of a handler is a step of the promise when it may come.
LEMMA TellsOne ==
  ASSUME Fits, NEW i \in Ids, NEW op \in CallOps, NEW c \in Ends,
         Hears1(servers[i], servers'[i], op, c),
         \A j \in Ids : j # i => servers'[j] = servers[j],
         NEW before, Heard(servers[i], c) \in before
  PROVE  Promised!Told(i, c, before, op)
<1> DEFINE now == [j \in Ids |-> servers[j].told]
           next == [j \in Ids |-> servers'[j].told]
           call == Call(op, c)
<1>1. next[i] = Append(now[i], call) /\ \A j \in Ids : j # i => next[j] = now[j]
  BY DEF Hears1
<1>2. next = [now EXCEPT ![i] = Append(now[i], call)]
  <2>1. DOMAIN now = Ids /\ now = [j \in Ids |-> now[j]]
        /\ DOMAIN next = Ids /\ next = [j \in Ids |-> next[j]]
    OBVIOUS
  <2> HIDE DEF now, next, call
  <2> QED
    BY <1>1, <2>1
<1>3. Promised!Call(op, c) = call
  BY DEF Promised!Call, Call
<1>4. Promised!Last(i, c) \in before
  BY LastPromised
<1> QED
  BY <1>2, <1>3, <1>4 DEF Promised!Told

LEMMA TellingPromises ==
  ASSUME Fits, Telling
  PROVE  [Promised!Next]_([i \in Ids |-> servers[i].told])
<1>1. CASE \A j \in Ids : servers'[j].told = servers[j].told
  BY <1>1
<1>2. ASSUME NEW i \in Ids, Tells(servers[i], servers'[i]),
             \A j \in Ids : j # i => servers'[j] = servers[j]
      PROVE  [Promised!Next]_([j \in Ids |-> servers[j].told])
  <2>1. CASE servers'[i].told = servers[i].told
    BY <1>2, <2>1
  <2>2. ASSUME NEW op \in ConnectionOps, NEW c \in Connections,
               Hears1(servers[i], servers'[i], op, c), MayHear(servers[i], op, c)
        PROVE  Promised!Next
    <3>1. op \in CallOps /\ c \in Ends
      BY DEF ConnectionOps, CallOps, Ends
    <3>2. Promised!Told(i, c, Before(op), op)
      BY <1>2, <2>2, <3>1, TellsOne DEF MayHear
    <3>3. Promised!Last(i, NoConnection) = "created"
      BY <2>2, LastPromised DEF MayHear, End
    <3>4. \/ Promised!OnClientConnected(i, c) \/ Promised!OnClientDisconnected(i, c)
          \/ Promised!OnHttpRequest(i, c)
          \/ Promised!OnWebSocketRequest(i, c) \/ Promised!OnWebSocketConnected(i, c)
          \/ Promised!OnWebSocketMessage(i, c)
      BY <3>2 DEF ConnectionOps, Before, Live, Promised!OnClientConnected,
        Promised!OnClientDisconnected, Promised!OnHttpRequest, Promised!OnWebSocketRequest,
        Promised!OnWebSocketConnected, Promised!OnWebSocketMessage
    <3> QED
      BY <3>3, <3>4 DEF Promised!Next
  <2>3. ASSUME NEW op \in {"created", "failed"},
               Hears1(servers[i], servers'[i], op, NoConnection), servers[i].told = <<>>
        PROVE  Promised!Next
    <3>1. op \in CallOps /\ NoConnection \in Ends
      BY DEF CallOps, ServerOps, Ends
    <3>2. Heard(servers[i], NoConnection) \in {"none"}
      BY <2>3, LastNone DEF Heard
    <3>3. Promised!Told(i, NoConnection, {"none"}, op)
      BY <1>2, <2>3, <3>1, <3>2, TellsOne
    <3> QED
      BY <3>3 DEF Promised!Next, Promised!OnServerCreated
  <2>4. ASSUME Hears1(servers[i], servers'[i], "destroyed", NoConnection),
               End(servers[i]) \in {"created", "failed"},
               \A c \in Connections : Heard(servers[i], c) \in {"none", "disconnected"}
        PROVE  Promised!Next
    <3>1. "destroyed" \in CallOps /\ NoConnection \in Ends
      BY DEF CallOps, ServerOps, Ends
    <3>2. Heard(servers[i], NoConnection) \in {"created", "failed"}
      BY <2>4 DEF End
    <3>3. Promised!Told(i, NoConnection, {"created", "failed"}, "destroyed")
      BY <1>2, <2>4, <3>1, <3>2, TellsOne
    <3>4. \A c \in Connections : Promised!Last(i, c) \in {"none", "disconnected"}
      BY <2>4, LastPromised
    <3> QED
      BY <3>3, <3>4 DEF Promised!Next, Promised!OnServerDestroyed
  <2> QED
    BY <1>2, <2>1, <2>2, <2>3, <2>4 DEF Tells
<1> QED
  BY <1>1, <1>2 DEF Telling

\* A CefServerHandler hears what include/cef_server.h promises, however shutdowns,
\* closing clients, late answers and the UI thread cross each other.
THEOREM HandlersHearThePromise == Spec => KeepsPromise
<1>1. Init => Promised!Init
  BY FirstFields DEF Init, Promised!Init
<1>2. Fits /\ [Next]_vars => [Promised!Next]_([i \in Ids |-> servers[i].told])
  BY NextKeeps, TellingPromises
<1> QED
  BY <1>1, <1>2, ServersFit, PTL DEF Spec, KeepsPromise, Promised!Spec
=============================================================================
