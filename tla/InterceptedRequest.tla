------------------------- MODULE InterceptedRequest -------------------------
(***************************************************************************)
(* A request of the browser that CEF may answer itself: InterceptedRequest  *)
(* between the loader's client and a loader (the network's or a             *)
(* StreamReaderURLLoader), and InterceptedRequestHandlerWrapper, which asks *)
(* the client's CefResourceRequestHandler.                                  *)
(*                                                                         *)
(* Everything here runs on the IO thread, but every question may be         *)
(* answered later: the wrapper may not be initialized, an observer is made  *)
(* on the UI thread, cookies are loaded and saved elsewhere, the handler    *)
(* may think.  Meanwhile the client may leave, its two pipes one after the  *)
(* other, and the browser may be destroyed.                                 *)
(*                                                                         *)
(* An operator gives the states w = [q, ls, told] a function may leave.     *)
(***************************************************************************)
EXTENDS StreamLoader

CONSTANTS
  HeaderClient,  \* the factory has a header client for loads of the network
  MaxLoads,      \* bound: loaders a request may start, one after the other
  RedirectLimit  \* redirect_limit_ (net::URLRequest::kMaxRedirects)

ASSUME RequestAssumption ==
  /\ HeaderClient \in BOOLEAN
  /\ MaxLoads \in Nat \ {0}
  /\ RedirectLimit \in Nat \ {0}

VARIABLES
  req,    \* the InterceptedRequest and its entry in the wrapper
  loads,  \* its loaders
  told    \* what the loader's client was told

vars == <<req, loads, told>>

Nobody == [to |-> "none", url |-> FALSE]
Continuations == {"none", "init", "cookies", "resource", "headers", "response", "redirect"}

NewRequest ==
  [life |-> "none",     \* "live", "waiting" for the loader pipe, "gone"
   load |-> 0,          \* number of the loader
   via |-> "none",      \* what proxied_client_receiver_ is bound to
   paused |-> FALSE,    \* proxied_client_receiver_ is
   client |-> TRUE,     \* target_client_ is bound
   completed |-> FALSE, \* completed_
   gotError |-> FALSE,  \* got_loader_error_
   limit |-> RedirectLimit,
   rip |-> FALSE,       \* redirect_in_progress_
   hredir |-> FALSE,    \* header_client_redirect_url_ is valid
   curh |-> 0,          \* loader whose headers current_headers_ are
   hcb |-> FALSE,       \* on_headers_received_callback_ is set
   only |-> FALSE,      \* intercept_only_
   cont |-> Nobody,     \* who has to continue the request, and with a new URL
   hop |-> FALSE,       \* its PendingRequest is on the UI thread
   tried |-> FALSE,     \* did_try_create_url_loader_network_observer_
   ready |-> FALSE,     \* wrapper: init_state_ is set
   down |-> FALSE,      \* wrapper: shutting_down_
   state |-> FALSE,     \* wrapper: request_map_ has the request
   handler |-> "none",  \* "handler": handler_; "scheme": only scheme_factory_
   completes |-> 0,     \* calls of OnResourceLoadComplete
   bad |-> {}]          \* lines that failed

Init ==
  /\ req = NewRequest
  /\ loads = [i \in 1 .. MaxLoads |-> NewLoad]
  /\ told = <<>>

State == [q |-> req, ls |-> loads, told |-> told]

Load(w)         == w.ls[w.q.load]
Put(w, x)       == [w EXCEPT !.ls[w.q.load] = x]
Tell(w, what)   == [w EXCEPT !.told = Append(@, what)]
Fails(w, line)  == [w EXCEPT !.q.bad = @ \cup {line}]
Await(w, to, url) == [w EXCEPT !.q.cont = [to |-> to, url |-> url]]

-----------------------------------------------------------------------------
(* The end of a request.                                                     *)

\* CallHandlerOnComplete
CallHandlerOnComplete(q) ==
  IF q.state /\ q.handler = "handler" THEN [q EXCEPT !.completes = @ + 1] ELSE q

OnRequestComplete(q) == [CallHandlerOnComplete(q) EXCEPT !.state = FALSE, !.cont = Nobody]

\* The request ends and tells the status it has, unless that was told.
OnDestroy(w, status) ==
  LET last == IF w.q.client /\ ~w.q.completed THEN Tell(w, status) ELSE w
      q == [OnRequestComplete(w.q) EXCEPT !.life = "gone", !.via = "none",
              !.client = FALSE, !.paused = FALSE, !.hcb = FALSE]
  IN [IF w.q.load = 0 THEN last ELSE Put(last, Delete(Load(w))) EXCEPT !.q = q]

\* SendErrorAndCompleteImmediately, and as the wrapper's cancel_callback_, which
\* is bound to a weak pointer.
SendError(w) == OnDestroy(w, "failure")
CancelRequest(w) == IF w.q.life = "live" THEN SendError(w) ELSE w

\* Mutant: the loader's messages are still received.
CallOnComplete_StaysBound(w, status, wait) ==
  LET y == [IF w.q.client THEN Tell(w, status) ELSE w EXCEPT !.q.completed = TRUE]
  IN IF wait /\ ~w.q.gotError
     THEN [y EXCEPT !.q = [@ EXCEPT !.life = "waiting", !.client = FALSE]]
     ELSE OnDestroy(y, status)

\* With wait, the other pipe of the client decides when the request ends.  The
\* wrapper keeps what it asked, and drops the answer.
CallOnComplete(w, status, wait) ==
  LET y == [IF w.q.client THEN Tell(w, status) ELSE w EXCEPT !.q.completed = TRUE]
  IN IF wait /\ ~w.q.gotError
     THEN [y EXCEPT !.q = [@ EXCEPT !.life = "waiting", !.client = FALSE,
                                    !.via = "none", !.paused = FALSE]]
     ELSE OnDestroy(y, status)

-----------------------------------------------------------------------------
(* Headers, redirects and responses.                                         *)

\* What a loader of the network does with the header client's answer.
NetworkHeaders(x, redirect) ==
  IF redirect \/ x.hdr = "redirect"
  THEN [x EXCEPT !.stage = "done", !.hdr = "none",
                 !.out = Append(@, Message("redirect", x.hdr = "ok"))]
  ELSE [x EXCEPT !.stage = "netBody", !.hdr = "none",
                 !.out = Append(@, Message("response", TRUE))]

ContinueToHandleOverrideHeaders(w, url) ==
  LET y == IF w.q.hcb THEN w ELSE Fails(w, "proxy_url_loader_factory.cc:950")
      q == [y.q EXCEPT !.hredir = url, !.hcb = FALSE, !.paused = FALSE]
      x == IF w.q.via = "stream" THEN ContinueWithResponseHeaders(Load(w), url)
           ELSE NetworkHeaders(Load(w), url)
  IN {[Put(y, x) EXCEPT !.q = q]}

\* Mutant: messages are not received again.
ContinueToBeforeRedirect_StaysPaused(w) ==
  {Tell([w EXCEPT !.q = [@ EXCEPT !.rip = FALSE, !.hredir = FALSE]], "redirect")}

ContinueToBeforeRedirect(w) ==
  {Tell([w EXCEPT !.q = [@ EXCEPT !.rip = FALSE, !.hredir = FALSE, !.paused = FALSE]],
        "redirect")}

\* Mutant: messages are received while the handler is asked.
Handling_NotPaused(w, redirect) == [w EXCEPT !.q.rip = @ \/ redirect]

\* HandleResponseOrRedirectHeaders, before OnRequestResponse.
Handling(w, redirect) ==
  [w EXCEPT !.q = [@ EXCEPT !.rip = w.q.rip \/ redirect, !.paused = w.q.via # "none"]]

\* OnRequestResponse with a redirect; cookies may have to be saved first.
HandleRedirect(w, to) ==
  LET y == Handling(w, TRUE) IN
  IF ~w.q.state THEN {y}
  ELSE {Await(y, to, TRUE)} \cup
       (IF to = "headers" THEN ContinueToHandleOverrideHeaders(y, TRUE)
        ELSE ContinueToBeforeRedirect(y))

ContinueToResponseStarted(w, url) ==
  LET x == Load(w)
      q == [w.q EXCEPT !.paused = FALSE]
  IN IF w.q.via = "stream"
     THEN IF url THEN HandleRedirect(Put(w, Cancel(x)), "redirect")
          ELSE {SendError(Put(w, Cancel(x))),  \* a failed CORS check
                Tell([Put(w, Continue(x)) EXCEPT !.q = q], "response")}
     ELSE {Tell([w EXCEPT !.q = q], "response")}

\* ContinueResponseOrRedirect
ContinueTo(w, to, url) ==
  CASE to = "headers"  -> ContinueToHandleOverrideHeaders(w, url)
    [] to = "redirect" -> ContinueToBeforeRedirect(w)
    [] to = "response" -> ContinueToResponseStarted(w, url)

\* MaybeSaveCookies; the callback goes on with the request.
MaybeSaveCookies(w, to, url) == {Await(w, to, url)} \cup ContinueTo(w, to, url)

-----------------------------------------------------------------------------
(* The start of a load.                                                      *)

\* A loader with a new handler; what the Range header asks for is the client's.
ContinueAfterInterceptWithOverride(w) ==
  LET Starts == UNION {Start(NewLoad, first) : first \in Firsts}
      old == \E i \in 1 .. w.q.load - 1 : w.ls[i].stage \notin {"none", "gone"}
      y == IF old THEN Fails(w, "proxy_url_loader_factory.cc:877") ELSE w
  IN {[Put(y, x) EXCEPT !.q.via = "stream"] : x \in Starts}

ContinueAfterIntercept(w) ==
  IF w.q.only THEN {SendError(w)}
  ELSE IF w.q.via = "network" THEN {w}
  ELSE {[Put(w, [NewLoad EXCEPT !.stage = "net"]) EXCEPT !.q.via = "network"]}

\* The answer of OnBeforeResourceLoad: cancel, a new URL, a handler or none.
\* Only the last two are the scheme factory's.
ContinueShouldInterceptRequest(w) ==
  (IF w.q.handler = "handler"
   THEN {SendError(w)} \cup HandleRedirect(w, "redirect") ELSE {})
  \cup ContinueAfterInterceptWithOverride(w) \cup ContinueAfterIntercept(w)

ShouldInterceptRequest(w) ==
  IF ~w.q.state THEN {w}
  ELSE (IF w.q.handler = "handler" THEN {Await(w, "resource", FALSE)} ELSE {})
       \cup ContinueShouldInterceptRequest(w)

\* OnBeforeRequest with an observer: handler and scheme factory are asked for.
\* A request that waits for its end does not hear of it.
AcceptWith(w, h, only) ==
  LET y == [w EXCEPT !.q = [@ EXCEPT !.state = TRUE, !.handler = h, !.only = only,
                                     !.tried = FALSE]]
  IN IF w.q.life # "live" THEN {y}
     ELSE IF h = "none" THEN ContinueAfterIntercept(y)
     ELSE {Await(y, "cookies", FALSE)} \cup ShouldInterceptRequest(y)

Accept(w) ==
  UNION {AcceptWith(w, h, only) : h \in {"none", "handler", "scheme"}, only \in BOOLEAN}

OnBeforeRequest(w) ==
  IF w.q.down THEN {CancelRequest(w)}
  ELSE IF ~w.q.ready THEN {Await(w, "init", FALSE)}
  ELSE Accept(w) \cup (IF w.q.tried THEN {} ELSE {[w EXCEPT !.q.hop = TRUE]})

\* Mutant: the stream loader of the redirected request is not deleted.
Restart_KeepsLoader(w) ==
  LET y == [w EXCEPT !.q = [@ EXCEPT !.load = @ + 1, !.via = "none", !.paused = FALSE]]
  IN {SendError(y)} \cup OnBeforeRequest(y)

\* A request that needs CORS may fail here.
Restart(w) ==
  LET old == IF w.q.load = 0 THEN w ELSE Put(w, Delete(Load(w)))
      y == [old EXCEPT !.q = [@ EXCEPT !.load = w.q.load + 1, !.via = "none",
                                       !.paused = FALSE]]
  IN {SendError(y)} \cup OnBeforeRequest(y)

\* The handler of a response may go on, change the URL or restart the request.
HandleResponse(w, to) ==
  LET y == Handling(w, FALSE)
      urls == IF w.q.handler = "handler" THEN BOOLEAN ELSE {FALSE}
  IN IF ~w.q.state THEN {y}
     ELSE (UNION {MaybeSaveCookies(y, to, url) : url \in urls})
          \cup (IF w.q.handler = "handler" /\ w.q.load < MaxLoads
                THEN Restart(y) ELSE {})

-----------------------------------------------------------------------------
(* Messages of the loader.                                                   *)

OnHeadersReceived(w) ==
  LET y == [w EXCEPT !.q = [@ EXCEPT !.curh = w.q.load, !.hcb = TRUE]]
  IN IF Load(w).hdr = "redirect" THEN HandleRedirect(y, "headers")
     ELSE HandleResponse(y, "headers")

\* current_request_uses_header_client_
UsesHeaderClient(w) == w.q.via = "stream" \/ HeaderClient

OnReceiveResponse(w) ==
  IF UsesHeaderClient(w) /\ w.q.curh # 0 THEN ContinueToResponseStarted([w EXCEPT !.q.curh = 0], FALSE)
  ELSE HandleResponse(w, "response")

\* A redirect the header client asked for comes with the status of a success.
OnReceiveRedirect(w, ok) ==
  LET y == [w EXCEPT !.q = [@ EXCEPT !.curh = IF UsesHeaderClient(w) THEN 0 ELSE w.q.curh,
                                     !.limit = w.q.limit - 1]]
      asked == w.q.hredir /\ ok
  IN IF y.q.limit = 0 THEN {SendError(y)}
     ELSE IF asked /\ ~UsesHeaderClient(w)
     THEN {Fails(y, "proxy_url_loader_factory.cc:679")}
     ELSE IF asked \/ ~w.q.rip THEN HandleRedirect(y, "redirect")
     ELSE ContinueToBeforeRedirect(y)

OnComplete(w, ok) ==
  {CallOnComplete(w, IF ok THEN "success" ELSE "failure", w.q.via = "network" /\ ok)}

OnMessage(w) ==
  LET m == Head(Load(w).out)
      y == Put(w, [Load(w) EXCEPT !.out = Tail(@)])
  IN CASE m.op = "response" -> OnReceiveResponse(y)
       [] m.op = "redirect" -> OnReceiveRedirect(y, m.ok)
       [] m.op = "size"     -> {y}
       [] m.op = "complete" -> OnComplete(y, m.ok)

-----------------------------------------------------------------------------
(* The wrapper.                                                              *)

\* Mutant: the requests stay in the map while they are canceled.
Destroyed_KeepsState(w) ==
  LET asked == w.q.state \/ w.q.cont.to = "init"
      y == [w EXCEPT !.q = [CallHandlerOnComplete(@) EXCEPT !.down = TRUE, !.ready = TRUE]]
  IN IF asked THEN CancelRequest(y) ELSE y

\* OnDestroyed: callbacks are dropped, handlers told, requests canceled.
Destroyed(w) ==
  LET asked == w.q.state \/ w.q.cont.to = "init"
      y == [w EXCEPT !.q = [OnRequestComplete(@) EXCEPT !.down = TRUE, !.ready = TRUE]]
  IN IF asked THEN CancelRequest(y) ELSE y

\* The observer came back: the request goes on where it was, whatever became of
\* it.  A wrapper that shut down lets the PendingRequest cancel it.
ObserverCreated(w) ==
  LET y == [w EXCEPT !.q = [@ EXCEPT !.hop = FALSE, !.tried = TRUE]]
  IN IF w.q.down THEN {CancelRequest(y)}
     ELSE IF w.q.life = "gone" THEN {Fails(y, "resource_request_handler_wrapper.cc:486")}
     ELSE OnBeforeRequest(y)

\* The answer of OnBeforeResourceLoad for a request that is only waiting for its
\* end: a handler is asked for and dropped.
AnswerTooLate(w) ==
  {w} \cup (IF Load(w).stage = "none" THEN {Put(w, [Load(w) EXCEPT !.life = "detached"])}
            ELSE {})

Continued(w) ==
  LET c == w.q.cont
      y == [w EXCEPT !.q.cont = Nobody]
  IN IF w.q.life # "live" THEN IF c.to = "resource" THEN AnswerTooLate(y) ELSE {y}
     ELSE CASE c.to = "cookies"  -> ShouldInterceptRequest(y)
            [] c.to = "resource" -> ContinueShouldInterceptRequest(y)
            [] OTHER             -> ContinueTo(y, c.to, c.url)

-----------------------------------------------------------------------------
(* Steps.  A failed check ends the program.                                  *)

Running == req.bad = {} /\ \A i \in DOMAIN loads : loads[i].bad = {}
Bound   == Running /\ req.via # "none"  \* to the loader's messages

Becomes(ws)  == \E w \in ws : req' = w.q /\ loads' = w.ls /\ told' = w.told
LoadTo(i, x) == loads' = [loads EXCEPT ![i] = x] /\ UNCHANGED <<req, told>>
Current      == loads[req.load]

CreateLoaderAndStart ==
  /\ Running /\ req.life = "none"
  /\ Becomes(Restart([State EXCEPT !.q.life = "live"]))

\* The wrapper's state arrives from the UI thread; the browser may be gone.
SetInitialized ==
  /\ Running /\ ~req.ready
  /\ \/ Becomes({Destroyed(State)})
     \/ LET w == [State EXCEPT !.q.ready = TRUE] IN
        Becomes(IF req.cont.to = "init" THEN OnBeforeRequest([w EXCEPT !.q.cont = Nobody])
                ELSE {w})

OnDestroyed == Running /\ req.ready /\ ~req.down /\ Becomes({Destroyed(State)})

ContinueCreateURLLoaderNetworkObserver == Running /\ req.hop /\ Becomes(ObserverCreated(State))

CookiesDone ==
  /\ Running /\ req.cont.to \in {"cookies", "headers", "response", "redirect"}
  /\ Becomes(Continued(State))

\* The handler runs or releases the callback of OnBeforeResourceLoad.
ResourceDecided == Running /\ req.cont.to = "resource" /\ Becomes(Continued(State))

\* A response filter of the handler fails.
OnFilterError ==
  /\ Running /\ req.state /\ req.handler = "handler" /\ told # <<>>
  /\ told[Len(told)] = "response"
  /\ Becomes({CancelRequest(State)})

Redirected == told # <<>> /\ told[Len(told)] = "redirect"

FollowRedirect ==
  /\ Running /\ Redirected /\ req.life = "live" /\ ~req.gotError /\ req.load < MaxLoads
  /\ Becomes(Restart(Tell(State, "follow")))

\* The client closes its own pipe, or the loader's.
OnURLLoaderClientError ==
  /\ Running /\ req.life = "live"
  /\ Becomes({CallOnComplete(State, "failure", TRUE)})

OnURLLoaderError ==
  LET w == [State EXCEPT !.q.gotError = TRUE] IN
  /\ Running /\ req.life \in {"live", "waiting"} /\ ~req.gotError
  /\ Becomes({IF req.client THEN w ELSE OnDestroy(w, "failure")})

\* A message of the loader is read.
Receive == Bound /\ ~req.paused /\ Current.out # <<>> /\ Becomes(OnMessage(State))

ReceiveHeaders ==
  /\ Bound /\ Current.stage = "answering" /\ req.curh # req.load
  /\ Becomes(OnHeadersReceived(State))

OnBeforeSendHeaders ==
  /\ Bound /\ Current.stage = "asking"
  /\ Becomes({[Put(State, ContinueWithRequestHeaders(Current)) EXCEPT !.q.paused = FALSE]})

ReadMoreBody ==
  /\ Bound /\ Current.stage = "ready"
  /\ \E x \in ReadMore(Current) : LoadTo(req.load, x)

\* The network answers: from its cache without asking the header client.
NetworkAnswers ==
  /\ Bound /\ Current.stage = "net"
  /\ \/ LoadTo(req.load, RequestComplete(Current, FALSE))
     \/ \E h \in {"ok", "redirect"} :
          \/ HeaderClient /\ LoadTo(req.load, [Current EXCEPT !.stage = "answering", !.hdr = h])
          \/ LoadTo(req.load, NetworkHeaders(Current, h = "redirect"))

NetworkCompletes ==
  /\ Bound /\ Current.stage = "netBody"
  /\ \E ok \in BOOLEAN : LoadTo(req.load, RequestComplete(Current, ok))

\* The loader of a request that only waits finds its pipe closed.
LoaderDisconnects ==
  /\ Running /\ req.life = "waiting" /\ req.load > 0
  /\ Current.stage \notin {"none", "done", "gone"}
  /\ LoadTo(req.load, CleanUp(Current))

StreamWork(i)   == Running /\ loads[i].work # <<>> /\ \E x \in Work(loads[i]) : LoadTo(i, x)
StreamAnswer(i) == Running /\ \E cb \in loads[i].held : \E x \in Answer(loads[i], cb) : LoadTo(i, x)

\* Cancel: the handler drops the callbacks it has.
HandlerCanceled(i) ==
  /\ Running /\ loads[i].life = "detached"
  /\ LoadTo(i, [loads[i] EXCEPT !.life = "canceled", !.held = {}])

\* InputStreamFailed, through the delegate's weak pointer.
OpenFails(i) ==
  /\ Running /\ loads[i].back # <<>>
  /\ Head(loads[i].back).op = "openFailed" /\ loads[i].cb /\ loads[i].stage = "opening"
  /\ LET w == Put(State, [loads[i] EXCEPT !.back = Tail(@), !.cb = FALSE]) IN
     IF req.life = "waiting" THEN Becomes({Fails(w, "proxy_url_loader_factory.cc:392")})
     ELSE IF req.only THEN Becomes({SendError(w)})
     ELSE \E x \in Back(loads[i]) : LoadTo(i, x)

StreamBack(i) ==
  /\ Running /\ loads[i].back # <<>>
  /\ Head(loads[i].back).op = "openFailed" => ~(loads[i].cb /\ loads[i].stage = "opening")
  /\ \E x \in Back(loads[i]) : LoadTo(i, x)

Streams == \E i \in DOMAIN loads :
  \/ StreamWork(i) \/ StreamBack(i) \/ OpenFails(i) \/ StreamAnswer(i) \/ HandlerCanceled(i)

\* What happens anyway: tasks and messages are run, the network and the handler
\* answer, and a client follows a redirect or leaves, and leaves at the end.
System ==
  \/ CreateLoaderAndStart \/ SetInitialized \/ ContinueCreateURLLoaderNetworkObserver
  \/ CookiesDone \/ ResourceDecided \/ Receive \/ ReceiveHeaders \/ OnBeforeSendHeaders
  \/ ReadMoreBody \/ NetworkAnswers \/ NetworkCompletes \/ LoaderDisconnects \/ Streams
  \/ FollowRedirect
  \/ Redirected /\ OnURLLoaderClientError
  \/ req.life = "waiting" /\ OnURLLoaderError

Next == System \/ OnDestroyed \/ OnFilterError \/ OnURLLoaderClientError \/ OnURLLoaderError

Spec == Init /\ [][Next]_vars /\ WF_vars(System)

-----------------------------------------------------------------------------
(* Properties.                                                               *)

Lives == {"none", "live", "waiting", "gone"}

\* The shape of a request and its loads: a loader's messages are received only
\* while the request lives, and headers kept are those of a load there was.
TypeOK ==
  /\ req.life \in Lives
  /\ req.load \in 0 .. MaxLoads
  /\ req.via \in {"none", "stream", "network"}
  /\ req.via # "none" => req.life = "live"
  /\ req.cont \in [to : Continuations, url : BOOLEAN]
  /\ req.limit \in 0 .. RedirectLimit
  /\ req.curh \in 0 .. req.load
  /\ \A i \in DOMAIN loads :
       /\ loads[i].stage \in Stages
       /\ loads[i].at \in 0 .. Size
       /\ loads[i].left \in 0 .. Size
       /\ loads[i].life \in {"none", "attached", "detached", "canceled"}

\* The DCHECKs of request, wrapper, loader and reader hold in every order of
\* tasks, messages and answers.  Two lines do fail: a stream that fails to open
\* when the client left is reported through a weak pointer that is invalid, and
\* an observer made on the UI thread comes back for a request that is gone.
AssertionsHold ==
  /\ req.bad \subseteq {"proxy_url_loader_factory.cc:392", "resource_request_handler_wrapper.cc:486"}
  /\ \A i \in DOMAIN loads : loads[i].bad = {}

Promised == INSTANCE LoaderClient

\* Whatever loader serves a request, restarted or canceled, its client hears what
\* a loader's client may: redirects one at a time, one response, success only
\* after it, and one end.
KeepsPromise == Promised!Spec

\* A handler's OnResourceLoadComplete runs exactly once for a request that it
\* was asked about last, however the request ends: "This method will be called
\* for all requests, including requests that are aborted due to CEF shutdown or
\* destruction of the associated browser" (cef_resource_request_handler.h:175).
CompleteOnce ==
  /\ req.completes <= 1
  /\ req.life = "gone" /\ req.handler = "handler" => req.completes = 1

\* While the loader's messages are held back, somebody has the continuation
\* that lets them through: no request stays paused.
PausedIsContinued ==
  req.life = "live" /\ req.paused => req.cont.to \in {"headers", "response", "redirect"}

\* Request, wrapper, loader and reader fit each other in every order of tasks,
\* messages and answers.
RequestCorrect ==
  TypeOK /\ AssertionsHold /\ CompleteOnce /\ PausedIsContinued

\* The client reads the bytes of the handler's response from the first one it
\* asked for, each once and in order, whichever of the ways to skip and read
\* the handler takes.
BodyInOrder ==
  \A i \in DOMAIN loads : \A k \in DOMAIN loads[i].body :
    loads[i].body[k] = k - 1 + (IF loads[i].first = NoRange THEN 0 ELSE loads[i].first)

\* A request that was started ends and its handlers are canceled, when tasks
\* run, the network and the handler answer what they are asked, and the client
\* follows a redirect or leaves.
RequestEnds ==
  req.life = "live" ~>
    \/ req.life = "gone" /\ \A i \in DOMAIN loads : loads[i].life \in {"none", "canceled"}
    \/ ~Running
=============================================================================
