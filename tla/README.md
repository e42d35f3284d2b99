# SpoutBrowser in TLA+

SpoutBrowser is the CEF sample browser `cefclient`, in Alloy style and with
off-screen rendering, whose frames go to Spout through a shared D3D11 texture.
The repository holds the whole of CEF (`libcef`, `libcef_dll`, `include`) plus
the client (`tests/cefclient`, `tests/shared`).  The modules here model the parts
of it whose correctness depends on the order in which processes, threads, tasks
and callbacks run.  All of them are written from the source; where a comment
promises something the code does not do, section 7 says so.

## 1. Inventory

| part | state it keeps | operations | interacts through | what makes it correct |
|---|---|---|---|---|
| Frame connection: `renderer/frame_impl.cc`, `browser/frame_host_impl.cc`, `browser/browser_frame.cc` | connection state, retry count and timer, a queue on each side, two Mojo pipes per attempt | connect, retry, attach, acknowledge, send, detach, disconnect | Mojo messages both ways; the back/forward cache; the RenderFrameHost's life | no CHECK fails, both sides agree on who is bound, queues are sent once and in order, a live frame ends up connected |
| Browser frames: `browser/browser_info.cc`, `frame_host_impl.cc`, `browser_contents_delegate.cc` | frame infos, the main frame, queued notifications, navigation lock | create, upgrade, cache, restore, remove, set main frame, close | content's WebContentsObserver calls; CefFrameHandler callbacks | there is a usable main frame and it is content's; callbacks come in an order the client can rely on |
| Message router: `libcef_dll/wrapper/cef_message_router.cc` | requests (renderer), queries, callbacks and handlers (browser) | query, cancel, success, failure, add and remove handlers, navigation, crash, close | process messages over the frame connection; posted tasks; client callbacks | a page that waits is answered, a handler that works is waited for, answers are in order, nothing is answered twice |
| Browser registry: `browser_info_manager.cc` | browsers, pending browser info requests, pending popups | look up, queue, time out, continue, create popups | a synchronous call of the renderer; IO and UI thread; two locks | every request is answered once and truly; a popup gets its own settings |
| Spout output: `osr_render_handler_win_d3d11.cc`, `osr_d3d11_win.cc`, `SpoutBrowser_TextureSender.cc` | layers, popup bounds, shared texture, swap chain, sender | popup show, size and hide, paint, render, send | CefRenderHandler callbacks | what is sent has the size and the layers of the page |
| Off-screen view: `osr/render_widget_host_view_osr.cc`, `osr/video_consumer_osr.cc` | resize hold, pending resize, visibility, popup widget, capture size | resize, paint, hide, show, popup open and close | renderer's metadata, capturer, client's GetViewRect, posted tasks | no resize is lost, the last size is reached, the popup ends once |
| Life cycle: `alloy_browser_host_impl.cc`, `browser_host_base.cc`, `root_window_*.cc`, `osr_window_win.cc` | destruction state, windows, page, root windows, the program's end | create, popup, close, force close, destroy, quit | window messages, unload handlers, client callbacks, two threads | window and browser are destroyed once, in either order; the program ends when all are |
| Requests: `net_service/*` | per-request stage, continuations, callbacks, stream position | intercept, start, redirect, restart, read, cancel, complete | IO, UI and work threads; two pipes of the loader's client | one response and one end per request; the handler hears of its end once; the body in order |
| Server: `server_impl.cc`, `server_test.cc`, `server.html` | connections, thread, handler; the page's server and callback | start, connect, answer, shut down; the page's start, stop and reload | UI thread, handler thread, background join, JavaScript queries | nothing is called after the end, the page is told the truth |
| External pump: `main_message_loop_external_pump*.cc`, `browser_message_loop.cc` | timer, activity, re-entrancy flag, posted requests | schedule, timer, do work, quit, drain | any thread posts; work dispatches messages inside work | no wake-up is lost; the pump comes to rest |
| Dialogs: `file_dialog_manager.cc`, `javascript_dialog_manager.cc` | active dialog, listeners, handler | run, answer, destroy | listeners that die on their own; client callbacks | every callback is answered once; no dead listener is called |

Left aside: generated C/C++ glue, Chrome style and views, printing, DevTools,
patches, tools and build files.  `PROJECT.json` names every part with its status
and lists the hazards, each at its line.

Hard behaviours: two processes joined by two pipes that are not ordered with each
other; timers and retries that race with late messages; queues that are flushed
on one event and dropped on another; callbacks that run after the lock is released
and may ask for the next operation; tasks posted from any thread that find the
world changed; objects that are destroyed from either of two ends; crash of a
renderer between any two steps.

## 2. Plan

Done: `FrameConnection`, `BrowserFrames`, `MessageRouter`, `BrowserRegistry`,
`SpoutOutput` and `OffscreenView`, `LifeCycle`, `StreamLoader` and `InterceptedRequest`,
`Server` and `ServerTest`, `ExternalPump`; proofs for `FrameConnection`,
`BrowserFrames`, `MessageRouter`, `BrowserRegistry`, `OffscreenView`, `ExternalPump`,
`InterceptedRequest` and `ServerTest`; the abstract specifications `OrderedChannel`,
`QueryPromise`, `LifeSpan`, `LoaderClient` and `ServerPromise`.

Left, in this order:

1. Theorems about `LifeCycle` (`EndsInOrder`) and its refinement of `LifeSpan`.
2. `FileDialogs` with the JavaScript dialogs: both answer a callback once.
3. The queries answered once by a client (permission, certificate, media access)
   as one module.

## 3. Modules and the code

### FrameConnection

One frame of one renderer process and its peer. Attempt `g` to connect makes the
pipes `bf[g]` (FrameAttached and messages to the browser) and `rf` (the
acknowledgement and commands to the renderer). The renderer's variables are the
members of `CefFrameImpl` (`state` is `browser_connection_state_`, `sendQ` is
`queued_browser_actions_`, `receiver` and `remote` its two ends); the browser's are
those of `CefFrameHostImpl` (`bound`, `info`, `cmdQ`) and the end of each pipe it
holds. Actions are the handlers: `OnDisconnect` is one operator used by each of
the disconnect handlers and by `OnDetached`, `FrameAttachedAck`, `Detach` with its
three reasons, `LeaveCache` for `MaybeAttach`, and so on. `DeclineInterface`,
`ConnectionError`, `RendererKilled` and the page lifecycle are external: content,
Mojo and Blink, modelled from what `frame_impl.cc` says of them (:666-681).

A pipe delivers in order and reports the closing of its peer after what was sent
before it; two pipes are not ordered. This is Mojo's contract.

`PromptTeardown` is the one assumption about time: no attempt starts before the
browser has seen the end of the previous one. The code relies on it, because the
retry delay is far longer than a disconnect takes, but nothing enforces it. The
untimed run has it FALSE: acknowledgements, bindings, notifications and commands
are right whatever the timing. With FALSE, `NoDoubleBind`, `MessagesInOrder` and
`EventuallyConnected` fail: that is why they are checked in the timed run only. The
assumption is about new attempts by timer and by commit. It says nothing of `OnWasShown`:
a page may be shown again before its renderer was told of the disconnect that put it into
the cache. `shownEarly` notes that, and `EventuallyConnected` excepts such a page
(`MissedItsPage`; section 7).

Left out: the actions that wait for the script context, draggable regions, the
editing commands that go to the WebContents.

`OrderedChannel` is the abstract specification of either direction: numbered
items are issued, and done in order, possibly skipping some, never twice.

### BrowserFrames

One browser, the hosts content creates for it and the frame objects CEF keeps for
them. Each host is used once. `entry` is `FrameInfo`, `obj` the members of the frame
object, `mainFrame` is `main_frame_`; `queue` is what the `NotificationStateLock`
collected. An event of content is one action which queues notifications; `Deliver`
runs them one at a time, and what the client does inside a callback (navigate,
send to a frame) comes between them. `check` records a CHECK or DCHECK that failed.

Assumed of content, from the tests and the calls: RenderFrameHostChanged comes
before the old host is cached, unloaded or deleted, in the same stack; a page that
is restored reports its main frame first and then its sub-frames; children are
deleted before their parent; a main frame without a live renderer frame is not
replaced; all live hosts are deleted before WebContentsDestroyed (the code's own
DCHECKs, :616-617); a client does not destroy the browser inside a callback.
OnFrameAttached and OnFrameDetached that come from a pipe run without the
navigation lock, as in the code.

Left out: temporary sub-frames, draggable regions, the ways a guest's host is
found to be excluded (`Excluded` says which are).

### MessageRouter

The renderer side of every process and the browser side of one process. `open` is
`browser_request_info_map_` of all processes, `pending` is `browser_query_info_map_`,
`callbacks` the `CallbackImpl` of each query id, `tasks` what was posted to the UI
thread, `up` and `down` the messages of a context's frame. `Success` and `Failure` are
what a handler may do from any thread: they post. `RunTask` is the posted part,
which finds the callback detached or not. `OnProcessMessageReceived` is the whole
handler, including the loop over the copy of the handler list: which handler takes
the query is a choice, since any may decline. `Close` is `OnBeforeClose` followed by
the removal of the frames; with `RouterToldOfClose` FALSE it does what
`BaseClientHandler` does. A navigation that was allowed is `nav`; it commits or ends
otherwise, and `dropped`, which is not in the code, keeps the requests it canceled without
telling their page. `PersistentArgs` are the kinds of query pages ask. When the process of a
main frame crashes, sub-frames of the page in other processes go too. Any contexts may share
a process or not: two of one browser that got the same id from two processes are `Twins`.

Messages of one frame are in order while its frame object is valid, and those on
the way to an object that was invalidated are lost: that is FrameConnection's
subject. A context has its own frame; that a frame is used by a later context is
covered by a sub-frame's `Release` while its frame stays valid. A context is
released before its frame is detached. A crash is an abnormal termination and
cuts the pipes in the same stack. Payloads are numbers: answer `n` of a query.

Left out: the ids' wrap-around; a handler that calls the router from
OnQueryCanceled, while FindAll iterates; the choice between shared memory and
list messages.

`QueryPromise` says what the page is promised: answers in order, none skipped or
repeated, one at most unless persistent, the failure last, nothing after the end.
`PromiseKept` maps `phase` to the renderer's request table, `given` and `failing` to
the callback object and `got` and `failed` to what JavaScript was called with.

### BrowserRegistry

`asked` is the state of each frame's synchronous `GetNewBrowserInfo` in its
renderer, which can do nothing else while it waits. `known` is the frame map of the
browser infos, under their own locks, `listed` the manager's list, `pending` its
`pending_new_browser_info_map_` with `timers` and `checks` for the posted tasks, `popups` its
`pending_popup_list_`. `OnGetNewBrowserInfo` runs on the IO thread, which holds
`browser_info_lock_` from there to the answer or to `Queue`: `io` is not `Free`, and no
action of the UI thread that takes this lock is enabled. Meanwhile it asks one browser after
the other (`LookUp`), each under its `lock_`. What the UI thread does in one stack
(`MaybeCreateFrame`, then `OnMainFrameCreated`; `CanCreateWindow` to `AddWebContents`) is a
step for every lock it takes, so that the IO thread comes between them: `ui` says where the
stack stands. Between `MaybeCreateFrame` of a main frame and `OnMainFrameCreated` it holds
the `lock_` of the frame's browser (`Locked`). So the two locks are taken in both orders,
as in the code, and the threads may be `Deadlocked` (section 7). Popups have one opener
and one URL, the hardest case for a list that is searched by step, opener and URL.

Left out: DestroyAllBrowsers, look-ups without a request (`MaybeAllowNavigation`,
`IsExcludedFrameHost`), the settings a client may change.

### SpoutOutput and OffscreenView

`SpoutOutput` has the composition, the layers and what the last sent back buffer
shows; its operators are the callbacks of `OsrRenderHandlerWinD3D11`, and `PopupX` is
`PopupLayer::set_bounds` for one axis. `OffscreenView` runs them from
`CefRenderWidgetHostViewOSR` and `CefVideoConsumerOSR`: `geometry` is what the view last
took over from the client's window, `hold` and `pendingResize` are the members of that
name, `posted` the `WasResized` tasks, `cancels` the posted `CancelWidget`s. The
renderer's `metadata` and the capturer's `frames` are two channels that are not
ordered with each other. One axis is modelled, in pixels, with a scale, so that
rounding to whole device-independent pixels happens as in the code.

Left out: full-screen children, guests, external begin frames, input, the software
output; recycled texture handles; the spinning scene. Popups are opened on a page
that was painted (see section 7).

### LifeCycle and LifeSpan

Browsers of windows the program opens and of popups their pages open. `config` is
how the program was started: off-screen or not, one thread or two
(`multi_threaded_message_loop`), default popups, and whether a window may be closed before
its browser exists. `dstate` is `destruction_state_`, `contents` and `page` are
content's, `win` is `RootWindowWin` with its `BrowserWindow`, `host` the browser's own
window, `listed` and `others` belong to `RootWindowManager`. A function that calls
another one on the same thread leaves the rest of its work in `calls`, which run
first; posted work is in `msgs` and `ui`. `check` records a DCHECK that failed or a
null pointer that was used.

`phase` is the last notification a browser's client heard; a DoClose that comes when
OnBeforeClose has been heard makes it "late".

`LifeSpan` is the promise of `cef_life_span_handler.h`: OnAfterCreated first and once,
DoClose, once or again, only to a live browser, OnBeforeClose once, a popup only of a live
browser, the program's end last. `DoCloseTooLate` is the one exception: a popup that ended
with its opener (section 7).

Left out: a client that refuses in DoClose, Views and Chrome style, windows of the
client on a thread of their own without off-screen rendering, several root windows.

### StreamLoader, InterceptedRequest and LoaderClient

`StreamLoader` is a load answered by a client's `CefResourceHandler`: a record with
the members of `StreamReaderURLLoader`, `OpenInputStreamWrapper` and
`InputStreamReader`; `work` and `back` are the tasks of the work sequence and of the IO
thread, `held` the callbacks the client may run at any time, late, twice or never.
`InterceptedRequest` owns the loads of one request; `req` has the members of
`InterceptedRequest` and of the entry in `InterceptedRequestHandlerWrapper`. Its
operators give the states a function may leave, one for each answer of the client;
`cont` is the continuation that somebody else holds. A load the network makes has the
stages `net` and `netBody`.

`LoaderClient` is what the client of a URL loader is told; `KeepsPromise` shows
that whatever restarts, overrides and cancellations do, `told` is one of its
behaviours.

Left out: the last byte of a range and ranges counted from the end, external schemes,
upload progress, early hints, CORS preflights, the factory's own life, several requests
in one wrapper, `browser_urlrequest_impl.cc`. A handler asks for more time once per
read; tasks of a deleted load are dropped, as its weak pointers do.

### Server, ServerTest and ServerPromise

`Server` is `CefServerImpl` as a record with operators: `ht` and `toUI` are its task
queues, `now` what the running task of the handler thread has still to do, so that
the other threads run in between, `told` what the handler was called with.
`ServerTest` composes servers with the client's `ServerHandler`s (`tests`), the page
(`page`), which may be loaded again or closed, and its `Handler`. `ServerPromise` is
the order of calls `cef_server.h` gives.

A thread may fail to start (`StartOnUIThread`); then nobody is called, and
`PageIsAnswered` excepts the page that waits for such a server, by name (`Threadless`).

Left out: a handler that answers an HTTP request later.

### ExternalPump

`messages` are the `kMsgHaveWork` posted to the client's window, `timer` and `timeout`
the system's timer and its message, `active`, `reentered` the members of
`MainMessageLoopExternalPump`; `work` is `MessagePumpExternal::Run`, whose slice may end
with tasks left. `owed` is what makes the pump delicate: Chromium's scheduler asks
nothing of a pump that owes it a call. A task may let the system dispatch messages,
which is the only way into a second `DoWork`. `discarded` is not in the code: it says
that a request was dropped and no work began since.

Left out: the Linux and macOS loops; messages dispatched while the loop drains.

## 4. Runs

| run | question and bounds |
|---|---|
| fc_untimed | Is the connection right in every order, without any assumption on time? 4 attempts, 1 retry, 1 message, 2 commands, 3 events of the surroundings. `EndsAgree`: type, acknowledgement, binding, notifications, flush, exclusion; commands refine the ordered channel |
| fc_timed | With retries that outlast the teardown: no double binding, messages refine the ordered channel, a frame left alone connects and then its queues are empty (`EventuallyConnected`); the proofs' invariant `ConnectionInv`. 2 retries (3 in the code), so that the 3 events of the surroundings reach the limit; 10 attempts are more than the other bounds allow to be used |
| bf_safe | Three main frame hosts, one sub-frame, two navigations, in every order of creating, swapping, caching, restoring, crashing and closing: the main frame and what the client was told of it (`MainFrameCorrect`), frames, links and commands (`FramesCorrect`), the order of callbacks, and that navigations asked for inside callbacks stay out of them and the last is not lost (`NavigationsAreKept`) |
| mr_frames | A page whose sub-frame is in the process of another browser's page, all with the same ids, used as cefclient uses the router: cancellations, navigations that do not commit, crashes, closes the router is not told of, a handler that leaves inside OnQuery. One query per process, no answers. No orphan request, no ghost query, and messages end only queries of their own context, with the two exceptions of section 7 |
| mr_answers | One query of a page or its sub-frame, persistent or not, with two answers and a failure, a handler that comes and goes, CancelPending posted and direct: the promise, `QueriesHaveOwners` (callbacks match queries; a removed handler and a closed browser own none), and that queries end |
| registry | Two main frames, an excluded sub-frame in a process of its own, an Alloy and a Chrome popup: requests are answered once and truly, with a timer while they wait (`AnswersCorrect`), and always, unless the threads are deadlocked; main frames are not missed by a look-up; popups get their own settings. One stack of the UI thread makes one popup at a time, so two are never in the list together; what could go wrong is that one is left behind in it and taken for the next |
| registry_locks | One browser, one main frame, a sub-frame: the comment at `browser_info_manager.cc:388`, that a renderer does not hang for ever, is violated by the order of the two locks |
| osr | Windows of two widths and two scales, two popups asked for over the left edge and inside, three changes by user or system, one frame and one metadata on the way: hold and resizes (`ResizesAreKept`), layers, clamping and output (`PopupIsShown`), and that the last size is reached |
| lifecycle | One window, a popup of its page, three closes asked for by users, scripts or clients, in every configuration: promise, assertions and order of destruction (`EndsInOrder`), every close ends, the program ends |
| intercept | One request, two loads, three bytes, with and without a Range header, two redirects, a header client: promise, assertions and one completion (`RequestCorrect`), the body in order, every request ends |
| server | Two servers, one after the other, a client each with a request or a WebSocket answered in every way, a page that is loaded again or closed: promise, assertions and release after the last call (`ServersCorrect`), truthful and certain answers, every server ends |
| pump | Three tasks, at once or delayed, two calls after the loop: never asleep on work, every task runs, the pump comes to rest (that discarded requests come back is proved) |

The bounds are small because the interesting cases are. Two attempts in flight, a retry
after each kind of end, and a command or message queued before and after the flush in
FrameConnection. A page that replaces, one that is cached and one that is new in
BrowserFrames. One query racing one cancellation, two answers and any navigations in the
router, and equal ids in one browser and in two. A request that comes before and after
its frame, and a second popup after one that was made or aborted, in the registry. A
resize during a resize during a resize (three changes) in the view; a popup replaced by
another. A browser and a popup that takes part of its state; a third close to overtake
two that are pending. A restart (two loads), a redirect that reaches the limit, a body
read in pieces that are neither first nor last (three bytes). A server that is still
ending while the next one starts. A task that runs, one that comes inside it and one
that is left when the slice ends. Every action fires in the passing runs. The
`intercept` run was also made with `HeaderClient` FALSE.

Deadlock is not checked: a frame that is connected and left alone, a browser that
is gone, a page without queries, a request that ended and a program that quit have
nothing more to do.

## 5. Fairness

FrameConnection: weak fairness of the retry timer (a running timer fires), of the
delivery on each pipe and of its disconnect handler (Mojo delivers), of the
browser's handling of a binding request, and of the page lifecycle updates sent to
Blink. Nothing is assumed of navigations, errors, the cache or the client: the
properties say what holds once they stop.

BrowserFrames: none; its properties are safety. That a posted navigation runs in the
end is left to the message loop.

MessageRouter: weak fairness of posted tasks, of messages in both directions, of
the release of a page that was replaced, and of the handler's completing the
queries it took, which `cef_message_router.h` asks of it. No navigation has to end.
`QueriesEnd` excepts the queries `NoOrphanRequest` excepts (`Lost`).

BrowserRegistry: the renderer's and the IO thread's part of each request, its timer,
and the rest of a stack of the UI thread, each as far as the locks let it: an action that
waits for a lock is not enabled. Nothing of content or the client.

OffscreenView: the renderer draws what was asked, metadata and frames arrive, the
capturer captures, posted resizes run, a view is made for a new renderer.

LifeCycle: both threads run, creation ends, an unloading page closes, and the user
answers a beforeunload question.

InterceptedRequest and ServerTest: weak fairness of all that the system, the network, the
handler and the loader's client do in answer to something (`System`); none of what
users, pages and browsers may do on their own. A client that was told of a redirect
follows it or leaves; threads run and are joined.

ExternalPump: the client's loop, the timer, the first task of a slice (a slice may end
after it), the return of tasks, and the end of delays.

## 6. What is proved

`FrameConnectionProofs` proves, for every value of the bounds and either value of
`PromptTeardown`, under `ConstantsAssumption` only (the bounds are natural numbers):

- `TypeCorrect`: `TypeOK`;
- `ConnectionCorrect`: `ConnectionInv`, the inductive invariant;
- `AcksAreExpected`, `AcksMeanBound`, `NotificationsAreTrue`, `BoundFramesAreFlushed`,
  `ExcludedFramesAreIsolated`: the parts of `EndsAgree`, and `EndsStayInAgreement`
  all of it together: the state property of the untimed run.

None of the five is inductive. That FrameAttachedAck finds the renderer waiting
depends on the acknowledgement being the first message of the latest pipe
(`AckAnswersAttached`), which depends on FrameAttached being first in, and read from,
that attempt's other pipe (`AttachedComesFirst`), which depends on the renderer
holding exactly the pipes of the latest attempt while it is connecting or connected
(`PipesFollowState`): every message on an older pipe finds its receiver gone.
`PeerHoldsPipe` adds that whoever answered on a pipe still holds it or has closed
it, which is what `AckedMeansBound` needs. `ExcludedIsRefused` carries exclusion through
the acknowledgement. The proof shows type correctness first, sorts the steps of
Next by what they do to the pipes (`StepKinds`), and then preserves one conjunct at a
time, one step per action that can disturb it; lemmas on reading, writing and losing
a pipe are stated once.

`CommandsRunInOrder` is the refinement of `OrderedChannel` by the commands, a property of the
untimed run. It rests on `BoundMeansFlushed` and the invariant `CommandInv`: numbers increase
from what ran last through the pipe to the browser's queue. Every step loses commands,
refuses the frame, flushes the queue behind an acknowledgement, runs the first command or
issues one (`CommandStepKinds`); each kind keeps the order, whatever attempts and
disconnections there were.

Two properties of the timed run need `PromptTeardown`, and have it as their hypothesis:

- `NothingIsBoundTwice`: `NoDoubleBind`, by `BindingsFit`: the pipes of all attempts but the
  latest are closed in the browser (`OldPipesAreClosed`), and a frame host that is bound, or may
  be, has its RenderFrameHost (`BoundIsAttached`);
- `MessagesArriveInOrder`: `MessagesInOrder`, the refinement of `OrderedChannel` by the
  messages to the browser, by `MessagesStayOrdered`: numbers increase from what arrived last
  through the one pipe that is open to the renderer's queue (`MessageInv`), a closed pipe is
  empty (`ClosedIsEmpty`), and the queue of a connected renderer is flushed (`AckedIsFlushed`).

Without it, as section 3 says, an attempt may start while messages of the one before
are on their way, and both properties fail.

`BrowserFramesProofs` proves, for all main frames, sub-frames and bounds, under the
assumptions of `BrowserFrames`:

- `FramesInvariant`: the inductive invariant `FramesInv`;
- `FramesAreCorrect`: `FramesCorrect`; `MainFrameIsCorrect`: `MainFrameCorrect`;
  `CallbacksComeInOrder`: the action property `CallbacksInOrder`, the three safety
  properties of the run.

What the client knows is inductive only together with what is about to be delivered. So
the invariant has four parts. `ContentInv` says what content's frames, the table and
`main_frame_` have to do with each other; `ObjectInv` which frame objects are valid and
bound; neither mentions the client. `NoteInv` ties the batch that waits to both: its
notifications come in the order created, attached, detached, destroyed, main frame changed,
each kind once (`InOrder`, by `Rank`), and a frame the client does not know, or knows and
should not, has a notification in the batch (`FramesAreTold`); so has a change of the main
frame (`MainIsTold`). A handler that was cleared hears nothing, but the batch that was
collected before it goes on: hence `Hears`. The proof first says what each
helper announces (`MainBatch`, `DetachNotesAre`, `SetMainAnnounces`), then that a batch which
announces exactly what a step changed keeps `NoteInv` (`BatchKeepsNotes`), a step that
changes nothing of it too (`QuietKeepsNotes`), and a delivery removes the one it makes true
(`FrameNoteKeeps`, `MainNoteKeeps`). The order in the callbacks follows from the order in the
batch: when `OnMainFrameChanged` is first, nothing of the old or new frame waits.

`BrowserRegistryProofs` proves, for all sets of frames, processes, browsers and popups,
under `RegistryAssumption` (frames belong to one browser and one process, a popup
begins with no excluded content):

- `RegistryCorrect`, the inductive invariant, and `TypeCorrect`;
- `CallbacksRunOnce`, `WaitersHaveTimers`, `RenderersAreToldTheTruth`, together
  `AnswersStayCorrect`; `MainFramesAreAnswered`, `ClientsHearOfPopups`: the safety
  properties of the run.

`MainFrameIsAnswered` is the one the two locks make hard. The invariant says that a
request that is queued for a main frame which is known belongs to a stack of the UI
thread that stands between taking `lock_` and taking `browser_info_lock_` and will call
`OnMainFrameCreated`; and that a look-up in progress for a known main frame has its
browser still to ask, or such a stack is there (`LookUpFits`). The rest ties every stage
of the stack to what is known, listed and pending, and each pending popup to the step it
was listed for, one per popup.

`ExternalPumpProofs` proves, for every set of tasks, under `PumpAssumption`:

- `PumpCorrect`, the inductive invariant, and `TypeCorrect`;
- `LoopNeverSleepsOnWork`: `NeverAsleep`; `DiscardedRequestsComeBack`: `DiscardedIsReposted`.

`NeverAsleep` speaks of tasks, but a step that asks nothing of the pump is right only
because an earlier one did: `DebtsWake` strengthens it to the scheduler's debt.
`DiscardIsNoted` carries what was discarded inside the work to its end, and three lemmas
on the queue of messages say that other messages do not hide the repeated one.

`OffscreenViewProofs` proves, for all sizes, scales and popups, under
`OffscreenAssumption` and `SizesAssumption`:

- `ViewCorrect`: the inductive invariant `ViewInv`;
- `ResizesStayKept`: `ResizesAreKept`; `PopupStaysShown`: `PopupIsShown`.

A hold is released by a frame of the size it waits for, so the invariant says where that
frame is: not drawn yet, reported by metadata, being captured or captured.
`LastDrawIsHeld` is the heart of it: what was drawn since the resize is reported last, so
that an older frame which is still on its way does not end the hold without a
successor.

`MessageRouterProofs` proves, for all contexts, browsers, processes and handlers and any
number of queries, under `RouterAssumption`:

- `RouterCorrect`: the inductive invariant `RouterInv`;
- `CallbacksMatchQueries`: `CallbackMatchesQuery`, for clients of every kind;
- `RemovedHandlersAreFree`: `RemovedHandlerOwnsNothing`, if no handler removes itself inside
  OnQuery;
- `QueriesStayOwned`: `QueriesHaveOwners`, if besides the router is told of closed browsers.

The hypotheses are the documented rules; the client of the `mr_frames` run keeps
neither. Ids are given out once and a posted answer names a callback that exists
(`IdsAreOwn`, `AnswersHaveCallbacks`), so that an answer which runs after a cancellation
finds neither query nor router. A closed browser stays quiet (`ClosedIsQuiet`) because
no frame of it sends, which is why its queries cannot come back. That a cancellation
tells the frames in the order of the ids needs an enumeration of a finite set of
numbers: `IncreasingExists` finds one by the smallest counterexample.

Its second part adds the renderers, for the same constants, clients of every kind and
any distribution of frames over processes:

- `RequestsFit`: the inductive invariant `RequestInv`;
- `NoRequestIsForgotten`: `NoOrphanRequest`;
- `HandlersWorkForPages`: `NoGhostQuery`.

Both properties have the exceptions section 7 tells, in their formulas and no wider: a
cancellation finds a query of a context's twin (`HasTwin`), and a page is not told of the
queries an allowed navigation cost it that did not commit (`dropped`). A context keeps its
id as long as it may have a query, so a twin stays one (`TwinsStay`).
The invariant orders what the two sides know of a query. Ids belong to one
context (`ContextsAreNumbered`, `Names`) and to one request, message and query (`Unique`).
A query that did not arrive has no answer yet (`SentIsNew`); only answers that do not end a
query precede its end (`AnswersEndQueries`); the page withdraws a query that did not arrive
only with a cancellation behind it (`SentIsAskedOrCanceled`), and what it withdrew it does
not ask for again (`CancelsAreFinal`). The steps fall into six kinds: a page asks,
withdraws, or hears an answer; a query or a cancellation arrives; everything else `Settles`:
it removes queries, frames and requests, and tells every page that stays what it loses.

Its third part follows an answer from the handler to the page:

- `CancelsStayOwn`: `CancelsAreOwn`, which excepts twins;
- `AnswersStayOrdered`: the inductive invariant `AnswerInv`;
- `RouterKeepsPromise`: `PromiseKept`, the refinement of `QueryPromise`.

A query has one callback (`CallbacksAreApart`), so the callback's `given` and `failing` are what
its handler promised, and they stay when the query is gone (`HeardIsGiven`,
`QueriesFitCallbacks`). Behind what the page heard, the answers are in the messages to its renderer
and then in the posted tasks: each is larger than all before it and none is missing between them
(`SentInOrder` for the messages; `PostedInOrder` for the tasks, which must continue where the
messages stop and run only while the page can be told). A failure has every answer in front
of it, and a task gives no more than its callback gave (`TasksAreGiven`). This says more than the
promise, because the next answer the page hears must be the next one given.
Every step of the router is of a few kinds: queries and requests are lost (`Loses`), a query is
taken by a handler (`Takes`), a callback gives an answer (`Gives`), a task sends its answer
(`Completing`), the page hears a message; each maps to Ask, Answer, Fail, Deliver, DeliverFailure
or Cancel of the promise, for one query at most unless it only cancels, or to a stutter.

`ServerTestProofs` proves, for any number of servers and connections, without any
assumption on the constants:

- `ServersFit`: the inductive invariant `Fits`;
- `ServersAreCorrect`: `ServersCorrect`; `PageToldTheTruth`: `AnswersAreTrue`;
- `HandlersHearThePromise`: `KeepsPromise`, the refinement of `ServerPromise`.

The invariant looks at one server at a time: `OneFits` takes the server, its
ServerHandler, the page's handler_, the page and the UI thread's queue as arguments. What the
handler heard last of a connection says what `connection_info_map_` holds, and what it has
not heard yet is in the rest of the running task (`ConnectionsFit`, `TaskFits`); a WebSocket
has one answer at most on its way (`AnswersFit`). Two results come back over the same queue:
a start is completed by the first task of its server that completes something, with
the result the handler heard first, and a stop by the task posted when the server was
destroyed (`CompletesFit`); so a page that believes its server runs has the very server
that handler_ points to (`PageFits`), with the exceptions of a stop that comes early. The
proof says of each function of a server which call it makes, if any, and that it was
promised (`Tells`); the handler's answer to a call (`HearsIs`), the tasks it posts (`PostsAre`) and the
tasks the UI thread takes (`QueueMoves`) keep each part of the invariant, and the steps
of the page the rest. The refinement follows from `Tells` alone.

`InterceptedRequestProofs` proves, for any number of loads, bytes, ranges and redirects, with
and without a header client, under `LoaderAssumption` and `RequestAssumption`:

- `RequestFits`: the inductive invariant `Fits`;
- `RequestIsCorrect`: `RequestCorrect`; `BodyIsInOrder`: `BodyInOrder`;
- `PromiseIsKept`: `KeepsPromise`, the refinement of `LoaderClient`.

The invariant is in two layers. `LoadFits` looks at one load. A skip or read of a handler is
somewhere exactly once at most: a task of the work sequence, a task on its way back, or a
callback in the client's hands (`OneWay`); the number it carries tells whether it is still
the one that is waited for, which is what a second or late answer lacks. Task, answer and
callback each say where the handler's stream stands (`WorkFits`, `BackFits`, `HandFits`): how
much is left to skip, or that the stream is right behind the last byte the client got. So a read that
is answered late or twice puts no byte in the body, and `BodyFits` follows step by step. `LifeFits`
and `WrapperFits` are about the request. A live request either has no loader whose messages it
receives (`FreeFits`), or it has one, and then `BoundFits` says, for each thing its client may have
heard last, how far the loader is, what is still in its pipe and who holds the continuation;
`UrlFits` keeps the URL of a header client to one redirect. All loads but the last are deleted
(`LoadsFit`). Tasks that are dropped, answers that are kept back and callbacks that come too
late leave the layer above alone, so that the proof treats a load's steps first (`WorkKeeps` and
`BackKeeps` for tasks, `AnswerKeeps` for callbacks) and then, function by function, what a request
does with its load, down to Restart and the redirects, which may run each other. Each function
tells the client one word at most; `Starts` and `Says` are those words, and the refinement
follows from them.

Not proved, only model-checked: the properties of `LifeCycle`, its refinement of `LifeSpan`
among them, and all liveness properties, which depend on fairness and ENABLED and stay with TLC.
`EndsInOrder` and the steps of `LifeSpan` also held when TLC explored `LifeCycle` beyond its run,
under `Spec` alone: two popups of one window or two windows and a popup, with three closes
(7.5 and 7.8 million states), and a popup of a popup with two closes. Their
inductive invariant has to follow every notice through the call stack and both queues, in
all configurations, and is left.

## 7. Where comments and code differ, and what fails

Frames and queries:

- `cef_frame_handler.h:130`: a frame that was reported destroyed may come back from the
  back/forward cache. `browser_info.h:95` says the main frame object stays valid until
  the browser is destroyed, but a new object replaces it with every cross-origin
  navigation; the order of callbacks that `cef_frame_handler.h` gives for a
  cross-origin navigation differs from the one `frame_handler_unittest.cc` expects.
- A navigation parked inside callbacks is posted as a task and may run after one that
  the client asked for later, and only the last parked one is kept.
- `cef_message_router.h:111` ("Message routing occurs on a per-browser and per-context
  basis"): every renderer process numbers contexts and requests from 1, and the browser
  looks queries up without the process. When a page's frames are in two processes, the
  cancellation of one frame's query cancels the other's, whose page is not told. The
  properties of the router except such contexts by name (`Twins`).
- `cef_message_router.h:419`: after an allowed navigation that does not commit, the
  queries OnBeforeBrowse dropped are never answered (`dropped`). `:400`: the queries of a closed
  popup stay pending, because cefclient does not forward OnBeforeClose.
- A handler that removes itself inside OnQuery and then takes the query owns a query
  nobody will cancel (`ReentrantRemove`); the crash of an out-of-process sub-frame's process
  cancels no query.

- `frame_impl.cc:322` ("Reconnect a frame that has exited the bfcache"): `OnWasShown` connects
  only a frame that is disconnected. A page that is shown again before its renderer
  processed the disconnect that put it into the cache is still connected then; the disconnect
  has a reason that is not retried, so the frame stays without a connection although
  `MaybeAttach` expects a reconnect (`shownEarly`, `MissedItsPage`).

Registry and output:

- `browser_info.cc:150-211` holds `lock_` while `OnMainFrameCreated` (:205) takes
  `browser_info_lock_` (`browser_info_manager.cc:450`); `OnGetNewBrowserInfo` holds
  `browser_info_lock_` (:364) while it takes `lock_` (`browser_info.cc:388`). The UI thread and the
  IO thread can wait for each other for ever, and the timer that `:388` of the manager says
  keeps a renderer from hanging runs on the UI thread. The run `registry_locks` shows it;
  `RequestsAreAnswered` excepts it alone (`Deadlocked`).
- `browser_info_manager.cc:838` lists when a request may time out; a sub-frame that asks
  before its host is created is a case it does not name: `browser_info.cc:205` continues
  main frames only.
- `cef_render_handler.h:161-167` says a shared texture is to be used only during
  OnAcceleratedPaint; the client keeps the last one and draws it later.
- `osr_render_handler_win_d3d11.cc:220` reads the texture of the view, which is missing when
  a popup is shown before the first paint.

Life cycle:

- Releasing the RootWindow of a popup that was aborted fails
  `root_window_win.cc:281-282`; closing a popup whose page its opener still owns fails
  `browser_platform_delegate.cc:156` (excluded from the model), and DoClose comes after
  OnBeforeClose for a popup that is destroyed with its opener in between
  (`cef_life_span_handler.h:200`; `browser_host_base.cc:295` says the notification at :297
  is the last): `LifeSpan` lets it through as `DoCloseTooLate`, in every configuration.
- A window closed before its browser exists leaves the program running without
  windows; with the multi-threaded loop, a popup that closes before its window is shown uses
  a null browser (`osr_window_win.cc:941`), and so does, with one thread, a browser without a
  window that is closed before its window is shown. `ExcusedLines` states the case of each line
  that fails; `AssertionsHold` excuses nothing else, in any configuration.
- The quit may come before CEF's own window of a default popup, which ended with its
  opener, is closed.

Requests:

- `proxy_url_loader_factory.cc:392`: a stream that fails to open when the client has left is
  reported through a weak pointer that is no longer valid.
- `resource_request_handler_wrapper.cc:486`: an observer made on the UI thread comes back for
  a request that is gone. `AssertionsHold` names both lines.
- The headers kept for a response that is restarted (`current_headers_`) are still there when
  the restarted request is answered from the cache, although the comments at :630 and :658
  say they are null then. Nothing watches the disconnection of the loader that serves the
  request (`proxied_client_receiver_`).

Server:

- A server whose thread cannot be started (`server_impl.cc:554`) calls nobody, although
  `cef_server.h:70` says that OnServerCreated reports failure: the page waits for ever
  (`Threadless`), and a stop or a close of the browser then finds no `server_`.
- A WebSocket that closes before its answer fails the DCHECK at `server_impl.cc:376`; the code
  then returns.
- A page that stops, after a reload, while a start is under way finds no `server_` at
  `server_test.cc:59`, and so does a browser that closes then, although `server.html` says the
  server is stopped with its browser. A stop that overtakes the start is reported complete
  by the start's completion (:56 says after completion of the stop). The page accepts ports from
  1025, the handler refuses those under 8000 and leaves the buttons disabled.

Pump:

- `main_message_loop_external_pump.cc:21` calls `kMaxTimerDelay` the longest wait between calls to
  DoWork. Every delayed request kills the timer and sets it anew, so a series of them
  can extend the wait. The calls after WM_QUIT run without `is_active_`, so that work inside
  work would not be noticed there.

Parts that are not modelled:

- `file_dialog_manager.cc:450`: the destruction of any listener, also that of a second dialog
  that was refused, cancels the active dialog, whose own listener is then not answered.
- `google_auth_handler.cc` is not built. If it were, a sign-in that is abandoned or repeated would
  forget its server while it runs, and keep the port.

## 8. Not modelled

File and JavaScript dialogs, permission, certificate and media access queries, the
resource manager, the global context's start and end: `PROJECT.json` says why of each. What
the modelled parts leave out is named with each module in section 3. Painting,
encodings, parsing and platform windows are left out where they keep no state that
other parts depend on; generated code, Chrome style, Views, printing and DevTools are
adapters to code outside this repository.
