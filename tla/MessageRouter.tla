---------------------------- MODULE MessageRouter ----------------------------
(***************************************************************************)
(* The message router (CefMessageRouterRendererSide and                     *)
(* CefMessageRouterBrowserSide): JavaScript in the contexts of renderer     *)
(* processes sends queries to native handlers in the browser process, which *)
(* answer from any thread.                                                  *)
(*                                                                         *)
(* A query is kept in three places that no lock keeps together: the         *)
(* renderer's table of requests, the browser's table of pending queries,    *)
(* and the callback object the handler holds.  Messages of one frame arrive *)
(* in order while its frame object is valid; when it is invalidated, those  *)
(* on their way to the browser are lost.  A context has its own frame here. *)
(***************************************************************************)
EXTENDS Integers, Sequences, FiniteSets

CONSTANTS
  Contexts,           \* JavaScript contexts, each used once
  PageOf,             \* the main frame's context of a context's page
  BrowserOf, ProcOf,  \* browser and renderer process of a context
  Handlers,           \* CefMessageRouterBrowserSide::Handler objects
  None,
  PersistentArgs,     \* values of a query's |persistent| the page uses
  MaxQuery,           \* bound: queries of one renderer process
  MaxAnswers,         \* bound: Success calls on one callback
  MaxClient,          \* bound: handlers removed and CancelPending calls
  RouterToldOfClose,  \* the client calls OnBeforeClose, as documented
  ReentrantRemove     \* a handler may remove itself inside OnQuery

Browsers == {BrowserOf[c] : c \in Contexts}
Procs    == {ProcOf[c] : c \in Contexts}
Mains    == {c \in Contexts : PageOf[c] = c}
Reserved == 0  \* kReservedId

ASSUME RouterAssumption ==
  /\ IsFiniteSet(Contexts)
  /\ PageOf \in [Contexts -> Contexts]
  /\ \A c \in Contexts : PageOf[c] \in Mains
                          /\ BrowserOf[PageOf[c]] = BrowserOf[c]
  /\ DOMAIN BrowserOf = Contexts
  /\ DOMAIN ProcOf = Contexts
  /\ None \notin Contexts \cup Handlers \cup Browsers
  /\ PersistentArgs \subseteq BOOLEAN
  /\ MaxQuery \in Nat
  /\ MaxAnswers \in Nat
  /\ MaxClient \in Nat
  /\ RouterToldOfClose \in BOOLEAN
  /\ ReentrantRemove \in BOOLEAN

VARIABLES
  \* renderer processes
  life,      \* of a context: "none", "live", "leaving", "released", "dead"
  ctxId,     \* V8HandlerImpl::context_id_
  lastReq,   \* request_id_generator_ of a process
  open,      \* browser_request_info_map_ of all processes
  heard,     \* what a query's JavaScript callbacks were called with
  \* messages
  up, down,  \* of a context's frame, to the browser and to the renderer
  \* content and the frame objects
  page,      \* main frame's context a browser shows
  valid,     \* contexts whose frame object sends and receives
  nav,       \* browsers with an allowed navigation that has not committed
  closed,    \* browsers whose OnBeforeClose was called
  dropped,   \* history: requests OnBeforeBrowse canceled and told nobody of
  \* the browser process's router
  pending,   \* browser_query_info_map_
  callbacks, \* CallbackImpl of every query id
  handlers,  \* handlers_
  tasks,     \* posted to the UI thread
  calls      \* of the client, MaxClient at most

rendererVars == <<life, ctxId, lastReq, open, heard>>
contentVars  == <<page, valid, nav, closed, dropped>>
routerVars   == <<pending, callbacks, handlers, tasks, calls>>
vars == <<rendererVars, up, down, contentVars, routerVars>>

Queries == Procs \X (1 .. MaxQuery)
QueryIds == 1 .. Cardinality(Queries)

Request  == [context : Contexts, rid : 1 .. MaxQuery, persistent : BOOLEAN]
Upward   == [type : {"query"}, cid : Nat \ {Reserved}, rid : 1 .. MaxQuery,
             persistent : BOOLEAN]
              \cup [type : {"cancel"}, cid : Nat \ {Reserved},
                    rid : 0 .. MaxQuery]
Downward == [cid : Nat \ {Reserved}, rid : 1 .. MaxQuery,
             result : {"success", "failure", "canceled"},
             n : 0 .. MaxAnswers]
QueryInfo == [id : Nat \ {0}, context : Contexts, cid : Nat \ {Reserved},
              rid : 1 .. MaxQuery, persistent : BOOLEAN, handler : Handlers]
\* router is router_ # nullptr; held: a handler took the callback; query names
\* the query in the renderer; given counts Success, failing is Failure.
CallbackImpl == [router : BOOLEAN, held : BOOLEAN, persistent : BOOLEAN,
                 query : Queries, given : 0 .. MaxAnswers, failing : BOOLEAN]
Task == [type : {"success", "failure"}, id : Nat \ {0}, n : 0 .. MaxAnswers]
          \cup [type : {"cancel"}, browser : Browsers \cup {None},
                handler : Handlers \cup {None}]

TypeOK ==
  /\ life \in [Contexts -> {"none", "live", "leaving", "released", "dead"}]
  /\ ctxId \in [Contexts -> Nat]
  /\ lastReq \in [Procs -> 0 .. MaxQuery]
  /\ open \subseteq Request
  /\ heard \in [Queries -> [got : 0 .. MaxAnswers, failed : BOOLEAN]]
  /\ up \in [Contexts -> Seq(Upward)]
  /\ down \in [Contexts -> Seq(Downward)]
  /\ page \in [Browsers -> Mains \cup {None}]
  /\ valid \subseteq Contexts
  /\ nav \subseteq Browsers
  /\ closed \subseteq Browsers
  /\ dropped \subseteq Contexts \X (1 .. MaxQuery)
  /\ pending \subseteq QueryInfo
  /\ callbacks \in Seq(CallbackImpl)
  /\ handlers \subseteq Handlers
  /\ tasks \in Seq(Task)
  /\ calls \in 0 .. MaxClient

Init ==
  /\ life = [c \in Contexts |-> "none"]
  /\ ctxId = [c \in Contexts |-> Reserved]
  /\ lastReq = [p \in Procs |-> 0]
  /\ open = {}
  /\ heard = [q \in Queries |-> [got |-> 0, failed |-> FALSE]]
  /\ up = [c \in Contexts |-> <<>>]
  /\ down = [c \in Contexts |-> <<>>]
  /\ page = [b \in Browsers |-> None]
  /\ valid = {}
  /\ nav = {}
  /\ closed = {}
  /\ dropped = {}
  /\ pending = {}
  /\ callbacks = <<>>
  /\ handlers = Handlers
  /\ tasks = <<>>
  /\ calls = 0

-----------------------------------------------------------------------------
(* The renderer-side router.  A frame whose object is invalid sends nothing. *)

Running(c) == life[c] \in {"live", "leaving"}

NextContextId(p) ==
  1 + Cardinality({c \in Contexts : ProcOf[c] = p /\ ctxId[c] # Reserved})

\* Each process numbers its own contexts, when they first need it.
GetIDForContext(c) ==
  IF ctxId[c] # Reserved THEN ctxId[c] ELSE NextContextId(ProcOf[c])

NextRequestId_Reserved(p) == lastReq[p]

NextRequestId(p) == lastReq[p] + 1

\* The requests of c's process and browser with these renderer-side ids.
Requests(c, cid, rid) ==
  {r \in open : /\ ProcOf[r.context] = ProcOf[c]
                /\ BrowserOf[r.context] = BrowserOf[c]
                /\ ctxId[r.context] = cid
                /\ rid \in {Reserved, r.rid}}

ToBrowser(c, m) ==
  up' = IF c \in valid THEN [up EXCEPT ![c] = Append(@, m)] ELSE up

Query(c, persistent) ==
  /\ Running(c)
  /\ lastReq[ProcOf[c]] < MaxQuery
  /\ LET cid == GetIDForContext(c)
         rid == NextRequestId(ProcOf[c])
     IN  /\ ctxId' = [ctxId EXCEPT ![c] = cid]
         /\ lastReq' = [lastReq EXCEPT ![ProcOf[c]] = rid]
         /\ open' = open \cup {[context |-> c, rid |-> rid,
                                persistent |-> persistent]}
         /\ ToBrowser(c, [type |-> "query", cid |-> cid, rid |-> rid,
                          persistent |-> persistent])
  /\ UNCHANGED <<life, heard, down, contentVars, routerVars>>

SendCancel_Quiet(c, cid, rid) ==
  /\ open' = open \ Requests(c, cid, rid)
  /\ UNCHANGED up

SendCancel(c, cid, rid) ==
  /\ open' = open \ Requests(c, cid, rid)
  /\ IF Requests(c, cid, rid) = {}
     THEN UNCHANGED up
     ELSE ToBrowser(c, [type |-> "cancel", cid |-> cid, rid |-> rid])

\* window.cefQueryCancel, for a request of this context or not.
CancelQuery(c, rid) ==
  /\ Running(c)
  /\ ctxId' = [ctxId EXCEPT ![c] = GetIDForContext(c)]
  /\ SendCancel(c, GetIDForContext(c), rid)
  /\ UNCHANGED <<life, lastReq, heard, down, contentVars, routerVars>>

ContextReleased(c) ==
  /\ life' = [life EXCEPT ![c] = "released"]
  /\ IF ctxId[c] = Reserved
     THEN UNCHANGED <<open, up>>
     ELSE SendCancel(c, ctxId[c], Reserved)
  /\ UNCHANGED <<ctxId, lastReq, heard, down, contentVars, routerVars>>

\* GetRequestInfo and the callback it leads to.
ExecuteCallback(r, m) ==
  LET q == <<ProcOf[r.context], r.rid>>
  IN  /\ open' = IF m.result = "success" /\ r.persistent THEN open ELSE open \ {r}
      /\ heard' = [heard EXCEPT ![q] =
           [got |-> IF m.result = "success" THEN m.n ELSE @.got,
            failed |-> @.failed \/ m.result = "failure"]]

RendererReceives(c) ==
  /\ down[c] # <<>>
  /\ LET m == Head(down[c])
     IN  IF Requests(c, m.cid, m.rid) = {}
         THEN UNCHANGED <<open, heard>>
         ELSE \E r \in Requests(c, m.cid, m.rid) : ExecuteCallback(r, m)
  /\ down' = [down EXCEPT ![c] = Tail(@)]
  /\ UNCHANGED <<life, ctxId, lastReq, up, contentVars, routerVars>>

-----------------------------------------------------------------------------
(* The browser-side router. *)

Ids(infos) == {info.id : info \in infos}

Message(info, result, n) ==
  [cid |-> info.cid, rid |-> info.rid, result |-> result, n |-> n]

Without(ids) == {info \in pending : info.id \notin ids}

Detached(ids) ==
  [i \in DOMAIN callbacks |->
     [callbacks[i] EXCEPT !.router = @ /\ i \notin ids]]

\* FindAll visits the queries of a browser in the order of their ids.
Sorted(ids) ==
  CHOOSE s \in [1 .. Cardinality(ids) -> ids] :
    \A i, j \in 1 .. Cardinality(ids) : i < j => s[i] < s[j]

\* The failures that tell the frame of c of canceled queries.
Notices(ids, c) ==
  LET gone == Sorted(Ids({info \in pending : info.id \in ids /\ info.context = c}))
  IN  [i \in DOMAIN gone |->
         Message(CHOOSE info \in pending : info.id = gone[i], "canceled", 0)]

CancelQueries_Attached(ids, notify) ==
  /\ pending' = Without(ids)
  /\ UNCHANGED callbacks
  /\ down' = IF notify
             THEN [c \in Contexts |->
                     IF c \in valid THEN down[c] \o Notices(ids, c) ELSE down[c]]
             ELSE down

\* CancelQuery for every query a visitor chose.
CancelQueries(ids, notify) ==
  /\ pending' = Without(ids)
  /\ callbacks' = Detached(ids)
  /\ down' = IF notify
             THEN [c \in Contexts |->
                     IF c \in valid THEN down[c] \o Notices(ids, c) ELSE down[c]]
             ELSE down

PendingFor_NeedsHandler(b, h) ==
  Ids({info \in pending : /\ b \in {None, BrowserOf[info.context]}
                          /\ h = info.handler})

\* The queries CancelPendingFor visits: of b and h, None standing for all.
PendingFor(b, h) ==
  Ids({info \in pending : /\ b \in {None, BrowserOf[info.context]}
                          /\ h \in {None, info.handler}})

CancelPendingFor(b, h, notify) == CancelQueries(PendingFor(b, h), notify)

\* One request is found by its first query, a context by all of them.
Found(same, rid) ==
  IF rid = Reserved THEN same ELSE {i \in same : \A j \in same : i <= j}

RequestsPending_AllBrowsers(b, cid, rid) ==
  Found(Ids({info \in pending : info.cid = cid /\ rid \in {Reserved, info.rid}}), rid)

\* The queries CancelPendingRequest cancels: the first with both ids, or all of
\* the context.
RequestsPending(b, cid, rid) ==
  Found(Ids({info \in pending : /\ BrowserOf[info.context] = b
                                /\ info.cid = cid
                                /\ rid \in {Reserved, info.rid}}), rid)

SendToRenderer(c, m) ==
  IF c \in valid THEN [down EXCEPT ![c] = Append(@, m)] ELSE down

NewCallback(c, m, held) ==
  [router |-> held, held |-> held, persistent |-> m.persistent,
   query |-> <<ProcOf[c], m.rid>>, given |-> 0, failing |-> FALSE]

CancelUnhandledQuery_Quiet(c, m) == UNCHANGED down

CancelUnhandledQuery(c, m) ==
  down' = SendToRenderer(c, Message(m, "canceled", 0))

\* Every handler declined, or there is none and no callback is made.
DeclineQuery(c, m) ==
  /\ CancelUnhandledQuery(c, m)
  /\ callbacks' = IF handlers = {} THEN callbacks
                  ELSE Append(callbacks, NewCallback(c, m, FALSE))
  /\ UNCHANGED <<pending, handlers>>

NewInfo(c, m, h) ==
  [id |-> Len(callbacks) + 1, context |-> c, cid |-> m.cid, rid |-> m.rid,
   persistent |-> m.persistent, handler |-> h]

HandleQuery(c, m, h) ==
  /\ h \in handlers
  /\ pending' = pending \cup {NewInfo(c, m, h)}
  /\ callbacks' = Append(callbacks, NewCallback(c, m, TRUE))
  /\ UNCHANGED <<handlers, down>>

\* The handler called RemoveHandler inside OnQuery: the query it then accepts
\* is added after its other queries were canceled.
HandleAndLeave(c, m, h) ==
  /\ ReentrantRemove
  /\ h \in handlers
  /\ handlers' = handlers \ {h}
  /\ LET ids == PendingFor(None, h)
     IN  /\ pending' = Without(ids) \cup {NewInfo(c, m, h)}
         /\ callbacks' = Append(Detached(ids), NewCallback(c, m, TRUE))
         /\ down' = [d \in Contexts |->
              IF d \in valid THEN down[d] \o Notices(ids, d) ELSE down[d]]

OnProcessMessageReceived(c) ==
  /\ up[c] # <<>>
  /\ up' = [up EXCEPT ![c] = Tail(@)]
  /\ LET m == Head(up[c])
     IN  \/ m.type = "query" /\ DeclineQuery(c, m)
         \/ m.type = "query" /\ \E h \in Handlers : HandleQuery(c, m, h)
         \/ m.type = "query" /\ \E h \in Handlers : HandleAndLeave(c, m, h)
         \/ /\ m.type = "cancel"
            /\ CancelQueries(RequestsPending(BrowserOf[c], m.cid, m.rid), FALSE)
            /\ UNCHANGED handlers
  /\ UNCHANGED <<rendererVars, contentVars, tasks, calls>>

\* Callback::Success, on any thread: only a task is posted.
Success(id) ==
  /\ id \in DOMAIN callbacks
  /\ callbacks[id].held /\ ~callbacks[id].failing
  /\ callbacks[id].given < MaxAnswers
  /\ callbacks' = [callbacks EXCEPT ![id].given = @ + 1]
  /\ tasks' = Append(tasks, [type |-> "success", id |-> id,
                             n |-> callbacks[id].given + 1])
  /\ UNCHANGED <<rendererVars, up, down, contentVars, pending, handlers, calls>>

Failure_Ahead(id) ==
  /\ id \in DOMAIN callbacks
  /\ callbacks[id].held /\ ~callbacks[id].failing
  /\ callbacks' = [callbacks EXCEPT ![id].failing = TRUE]
  /\ tasks' = <<[type |-> "failure", id |-> id, n |-> 0]>> \o tasks
  /\ UNCHANGED <<rendererVars, up, down, contentVars, pending, handlers, calls>>

\* Callback::Failure, on any thread.
Failure(id) ==
  /\ id \in DOMAIN callbacks
  /\ callbacks[id].held /\ ~callbacks[id].failing
  /\ callbacks' = [callbacks EXCEPT ![id].failing = TRUE]
  /\ tasks' = Append(tasks, [type |-> "failure", id |-> id, n |-> 0])
  /\ UNCHANGED <<rendererVars, up, down, contentVars, pending, handlers, calls>>

ClientCalls == calls < MaxClient /\ calls' = calls + 1

\* CancelPending on another thread than the UI thread.
PostCancelPending(b, h) ==
  /\ ClientCalls
  /\ tasks' = Append(tasks, [type |-> "cancel", browser |-> b, handler |-> h])
  /\ UNCHANGED <<rendererVars, up, down, contentVars, pending, callbacks, handlers>>

Complete_QuietFailure(t) ==
  \/ t.id \notin Ids(pending) /\ UNCHANGED <<pending, down>>
  \/ \E info \in pending :
       /\ info.id = t.id
       /\ down' = IF t.type = "failure" THEN down
                      ELSE SendToRenderer(info.context, Message(info, t.type, t.n))
       /\ pending' = IF t.type = "failure" \/ ~info.persistent
                     THEN Without({t.id}) ELSE pending

\* OnCallbackSuccess and OnCallbackFailure for a query that is still pending.
Complete(t) ==
  \/ t.id \notin Ids(pending) /\ UNCHANGED <<pending, down>>
  \/ \E info \in pending :
       /\ info.id = t.id
       /\ down' = SendToRenderer(info.context, Message(info, t.type, t.n))
       /\ pending' = IF t.type = "failure" \/ ~info.persistent
                     THEN Without({t.id}) ELSE pending

\* SuccessImpl, FailureImpl.
RunAnswer(t) ==
  IF ~callbacks[t.id].router
  THEN UNCHANGED <<pending, callbacks, down>>
  ELSE /\ Complete(t)
       /\ callbacks' = IF t.type = "failure" \/ ~callbacks[t.id].persistent
                       THEN Detached({t.id}) ELSE callbacks

RunTask ==
  /\ tasks # <<>>
  /\ tasks' = Tail(tasks)
  /\ LET t == Head(tasks)
     IN  \/ t.type = "cancel" /\ CancelPendingFor(t.browser, t.handler, TRUE)
         \/ t.type # "cancel" /\ RunAnswer(t)
  /\ UNCHANGED <<rendererVars, up, contentVars, handlers, calls>>

\* A client adds handlers while it has a browser.
AddHandler(h) ==
  /\ closed # Browsers
  /\ h \notin handlers
  /\ handlers' = handlers \cup {h}
  /\ UNCHANGED <<rendererVars, up, down, contentVars, pending, callbacks, tasks, calls>>

RemoveHandler_KeepsQueries(h) ==
  /\ ClientCalls
  /\ h \in handlers
  /\ handlers' = handlers \ {h}
  /\ UNCHANGED <<rendererVars, up, down, contentVars, pending, callbacks, tasks>>

RemoveHandler(h) ==
  /\ ClientCalls
  /\ h \in handlers
  /\ handlers' = handlers \ {h}
  /\ CancelPendingFor(None, h, TRUE)
  /\ UNCHANGED <<rendererVars, up, contentVars, tasks>>

CancelPending(b, h) ==
  /\ ClientCalls
  /\ CancelPendingFor(b, h, TRUE)
  /\ UNCHANGED <<rendererVars, up, contentVars, handlers, tasks>>

-----------------------------------------------------------------------------
(* Content: navigations, frames, processes and the browser's end, with what  *)
(* the client forwards to the two routers.                                   *)

Alive(p) == \A c \in Contexts : ProcOf[c] = p => life[c] # "dead"

\* A navigation of the main frame that the client allows.
OnBeforeBrowse(b) ==
  /\ b \notin closed
  /\ nav' = nav \cup {b}
  /\ dropped' = dropped \cup {<<info.context, info.rid>> : info \in
                                {i \in pending : BrowserOf[i.context] = b}}
  /\ CancelPendingFor(b, None, FALSE)
  /\ UNCHANGED <<rendererVars, up, page, valid, closed, handlers, tasks, calls>>

\* It turned into a download, or got no content: the page stays.
NavigationEnds(b) ==
  /\ b \in nav
  /\ page[b] # None
  /\ nav' = nav \ {b}
  /\ UNCHANGED <<rendererVars, up, down, page, valid, closed, dropped, routerVars>>

\* The new page's frame replaces the old one, whose object is invalidated; the
\* old page's contexts are released when their processes get to it.
Commit(c) ==
  LET b == BrowserOf[c]
  IN  /\ c \in Mains
      /\ life[c] = "none"
      /\ Alive(ProcOf[c])
      /\ b \in nav
      /\ nav' = nav \ {b}
      /\ page' = [page EXCEPT ![b] = c]
      /\ valid' = (valid \ {page[b]}) \cup {c}
      /\ life' = [d \in Contexts |->
                  IF d = c THEN "live"
                  ELSE IF BrowserOf[d] = b /\ life[d] = "live" THEN "leaving"
                  ELSE life[d]]
      /\ up' = [d \in Contexts |-> IF d = page[b] THEN <<>> ELSE up[d]]
      /\ UNCHANGED <<ctxId, lastReq, open, heard, down, closed, dropped, routerVars>>

SubFrameCreated(c) ==
  /\ c \notin Mains
  /\ life[c] = "none"
  /\ page[BrowserOf[c]] = PageOf[c]
  /\ life[PageOf[c]] = "live"
  /\ Alive(ProcOf[c])
  /\ life' = [life EXCEPT ![c] = "live"]
  /\ valid' = valid \cup {c}
  /\ UNCHANGED <<ctxId, lastReq, open, heard, up, down, page, nav, closed, dropped,
                 routerVars>>

\* A sub-frame is removed or navigated, or the context's page was replaced.
Release(c) ==
  /\ \/ life[c] = "leaving"
     \/ life[c] = "live" /\ c \notin Mains
  /\ ContextReleased(c)

\* The RenderFrameHost of a sub-frame is deleted.  Its messages come on a pipe
\* of their own, so some may not have arrived.
FrameDeleted(c) ==
  /\ c \in valid
  /\ c \notin Mains
  /\ life[c] = "released"
  /\ valid' = valid \ {c}
  /\ up' = [up EXCEPT ![c] = <<>>]
  /\ down' = [down EXCEPT ![c] = <<>>]
  /\ UNCHANGED <<rendererVars, page, nav, closed, dropped, routerVars>>

\* The frames of a dead process are gone.  A dead main frame's sub-frames in other
\* processes are removed with it: their contexts are released later.
\* PrimaryMainFrameRenderProcessGone is for the processes of main frames only.
RenderProcessGone(p) ==
  LET dead == {c \in Contexts : ProcOf[c] = p /\ Running(c)}
      told == {b \in Browsers \ closed : page[b] \in dead}
      gone == {c \in Contexts : ProcOf[c] = p \/ PageOf[c] \in dead}
  IN  /\ dead # {}
      /\ life' = [c \in Contexts |->
                  IF c \in dead THEN "dead"
                  ELSE IF c \in gone /\ life[c] = "live" THEN "leaving"
                  ELSE life[c]]
      /\ open' = {r \in open : r.context \notin dead}
      /\ valid' = valid \ gone
      /\ up' = [c \in Contexts |-> IF c \in gone THEN <<>> ELSE up[c]]
      /\ CancelQueries(UNION {PendingFor(b, None) : b \in told}, FALSE)
      /\ UNCHANGED <<ctxId, lastReq, heard, page, nav, closed, dropped, handlers,
                     tasks, calls>>

\* OnBeforeClose, after which the browser's frames are all removed.  A client
\* that does not forward it removes its handlers with the last browser.
Close(b) ==
  /\ b \notin closed
  /\ page[b] # None
  /\ closed' = closed \cup {b}
  /\ nav' = nav \ {b}
  /\ valid' = {c \in valid : BrowserOf[c] # b}
  /\ up' = [c \in Contexts |-> IF BrowserOf[c] = b THEN <<>> ELSE up[c]]
  /\ life' = [c \in Contexts |->
              IF BrowserOf[c] = b /\ life[c] = "live" THEN "leaving" ELSE life[c]]
  /\ \/ /\ RouterToldOfClose
        /\ CancelPendingFor(b, None, FALSE)
        /\ UNCHANGED handlers
     \/ /\ ~RouterToldOfClose
        /\ closed' = Browsers
        /\ handlers' = {}
        /\ CancelPendingFor(None, None, TRUE)
     \/ /\ ~RouterToldOfClose
        /\ closed' # Browsers
        /\ UNCHANGED <<pending, callbacks, down, handlers>>
  /\ UNCHANGED <<ctxId, lastReq, open, heard, page, dropped, tasks, calls>>

-----------------------------------------------------------------------------

JavaScript ==
  \E c \in Contexts :
    \/ \E persistent \in PersistentArgs : Query(c, persistent)
    \/ \E rid \in 1 .. MaxQuery : CancelQuery(c, rid)

Client ==
  \/ \E id \in QueryIds : Success(id) \/ Failure(id)
  \/ \E h \in Handlers : AddHandler(h) \/ RemoveHandler(h)
  \/ \E b \in Browsers \cup {None}, h \in Handlers \cup {None} :
       CancelPending(b, h) \/ PostCancelPending(b, h)

Content ==
  \/ \E b \in Browsers : OnBeforeBrowse(b) \/ NavigationEnds(b) \/ Close(b)
  \/ \E c \in Contexts :
       Commit(c) \/ SubFrameCreated(c) \/ Release(c) \/ FrameDeleted(c)
  \/ \E p \in Procs : RenderProcessGone(p)

Delivery ==
  \/ \E c \in Contexts : OnProcessMessageReceived(c) \/ RendererReceives(c)
  \/ RunTask

Next == JavaScript \/ Client \/ Content \/ Delivery

Spec == Init /\ [][Next]_vars

\* Message loops make progress, a handler completes the queries it took, and a
\* page that was replaced is torn down.
Completes(id) ==
  \/ Failure(id)
  \/ Success(id) /\ ~callbacks[id].persistent

Fairness ==
  /\ WF_vars(RunTask)
  /\ \A c \in Contexts :
       /\ WF_vars(OnProcessMessageReceived(c))
       /\ WF_vars(RendererReceives(c))
       /\ WF_vars(Release(c) /\ life[c] = "leaving")
  /\ \A id \in QueryIds : WF_vars(Completes(id))

FairSpec == Spec /\ Fairness

-----------------------------------------------------------------------------
(* Safety *)

FinalAnswer(m, r) == m.rid = r.rid /\ (m.result = "success" => ~r.persistent)

\* Contexts of one browser in two processes that were given the same id, which
\* the browser-side router takes for one context.
Twins(c, d) ==
  /\ BrowserOf[c] = BrowserOf[d]
  /\ ProcOf[c] # ProcOf[d]
  /\ ctxId[c] = ctxId[d]
  /\ ctxId[c] # Reserved

HasTwin(c) == \E d \in Contexts : Twins(c, d)

\* No request of a page that stays is forgotten: its message is on the way, its
\* query is pending, or what completes it is on the way back.  Two cases are
\* excepted, against cef_message_router.h:111 and :419: a navigation was allowed
\* and did not commit, which canceled the query without telling the page; and a
\* context with a twin, whose cancellations reach this one's queries.
NoOrphanRequest ==
  \A r \in open :
    LET c == r.context
    IN  life[c] = "live" =>
          \/ \E i \in DOMAIN up[c] : up[c][i].type = "query" /\ up[c][i].rid = r.rid
          \/ \E info \in pending : info.context = c /\ info.rid = r.rid
          \/ \E i \in DOMAIN down[c] : FinalAnswer(down[c][i], r)
          \/ <<c, r.rid>> \in dropped
          \/ HasTwin(c)

CancelComing(info) ==
  \E i \in DOMAIN up[info.context] :
    LET m == up[info.context][i]
    IN  m.type = "cancel" /\ m.rid \in {Reserved, info.rid}

Asked(info) ==
  \E r \in open : r.context = info.context /\ r.rid = info.rid

\* No handler works for nobody: while the frame is valid, a pending query is one
\* the page waits for, or its cancellation is on the way.  Excepted is a context
\* with a twin, whose queries the cancellation may have found in its place.
NoGhostQuery ==
  \A info \in pending :
    info.context \in valid =>
      Asked(info) \/ CancelComing(info) \/ HasTwin(info.context)

\* A handler's callback works as long as its query is pending, and no longer:
\* ~CallbackImpl asserts it, and an answer after OnQueryCanceled is harmless.
CallbackMatchesQuery ==
  \A id \in DOMAIN callbacks : callbacks[id].router <=> id \in Ids(pending)

\* RemoveHandler leaves no query that would call a handler its owner may delete.
RemovedHandlerOwnsNothing ==
  \A info \in pending : info.handler \in handlers

\* A closed browser has no pending query.
ClosedBrowserOwnsNothing ==
  \A info \in pending : BrowserOf[info.context] \notin closed

\* Whoever a pending query needs is there: its callback, its handler and its
\* browser.
QueriesHaveOwners ==
  /\ TypeOK
  /\ CallbackMatchesQuery
  /\ RemovedHandlerOwnsNothing
  /\ ClosedBrowserOwnsNothing

-----------------------------------------------------------------------------
(* Action property *)

\* Receiving a message of one context removes no query of another, its twins'
\* excepted (cef_message_router.h:111 promises it of those too).
Received(c) == up[c] # <<>> /\ up' = [up EXCEPT ![c] = Tail(@)]
                /\ UNCHANGED <<contentVars, tasks, handlers>>

CancelsAreOwn ==
  [][\A c \in Contexts : Received(c) =>
       \A info \in pending :
         \/ info.context = c
         \/ Twins(c, info.context)
         \/ info \in pending']_vars

-----------------------------------------------------------------------------
(* Refinement of QueryPromise *)

Answers(q)  == {id \in DOMAIN callbacks : callbacks[id].query = q}
Waiting(q)  == {r \in open : <<ProcOf[r.context], r.rid>> = q}

Phase(q) ==
  IF q[2] > lastReq[q[1]] THEN "new"
  ELSE IF Waiting(q) = {} THEN "ended"
  ELSE IF \E r \in Waiting(q) : r.persistent THEN "persistent" ELSE "once"

Given(q) ==
  IF Answers(q) = {} THEN 0 ELSE callbacks[CHOOSE id \in Answers(q) : TRUE].given

Promise == INSTANCE QueryPromise WITH
  phase   <- [q \in Queries |-> Phase(q)],
  given   <- [q \in Queries |-> Given(q)],
  failing <- [q \in Queries |-> \E id \in Answers(q) : callbacks[id].failing],
  got     <- [q \in Queries |-> heard[q].got],
  failed  <- [q \in Queries |-> heard[q].failed]

\* Every query keeps the promise made to the page.
PromiseKept == Promise!Spec

-----------------------------------------------------------------------------
(* Liveness *)

\* Every query that is not persistent ends: the page hears of it, cancels it or is
\* gone.  Excepted are the queries NoOrphanRequest excepts.
Lost(q) ==
  \E r \in Waiting(q) : <<r.context, r.rid>> \in dropped \/ HasTwin(r.context)

QueriesEnd ==
  \A q \in Queries : Phase(q) = "once" ~> Phase(q) = "ended" \/ Lost(q)
=============================================================================
