--------------------------- MODULE BrowserFrames ---------------------------
(***************************************************************************)
(* The frames of one browser (CefBrowserInfo): the frame objects it keeps   *)
(* for the RenderFrameHosts content creates, swaps, caches and deletes, the *)
(* main frame it hands out, and the CefFrameHandler notifications it queues *)
(* while it holds its locks and delivers, in order, once it released them.  *)
(*                                                                         *)
(* Everything here runs on the browser's UI thread.  An event of content    *)
(* is one action; the notifications it queued are then delivered one by     *)
(* one, and what the client does inside them comes in between, before the   *)
(* next event.  The two pipes of a frame are the subject of FrameConnection; *)
(* here a frame host is bound or it is not.                                 *)
(***************************************************************************)
EXTENDS Integers, Sequences

CONSTANTS
  Mains,     \* RenderFrameHosts of main frames, each used once
  Subs,      \* RenderFrameHosts of sub-frames, each used once
  Excluded,  \* sub-frames of an excluded type
  None,      \* nullptr
  MaxNav     \* bound: navigations the client asks for

Frames == Mains \cup Subs

ASSUME FramesAssumption ==
  /\ Mains \cap Subs = {}
  /\ None \notin Frames
  /\ Excluded \subseteq Subs
  /\ MaxNav \in Nat

VARIABLES
  \* content
  rfh,        \* life of every RenderFrameHost
  parent,     \* main frame a sub-frame belongs to
  tearing,    \* the WebContents is being destroyed
  \* CefBrowserInfo
  browser,    \* "none", "open", "closing" (is_closing_), "gone"
  handler,    \* frame_handler_ is not null
  entry,      \* FrameInfo of every RenderFrameHost
  mainFrame,  \* main_frame_
  queue,      \* notifications the last NotificationStateLock collected
  check,      \* a CHECK or DCHECK failed
  \* CefFrameHostImpl
  obj,        \* the frame object of every RenderFrameHost
  \* NavigationLock
  parked,     \* pending_action_: a navigation, 0 for none
  tasks,      \* navigations posted to the UI thread
  asked,      \* navigations asked for so far
  ran,        \* the navigations that were started
  \* the client
  told,       \* what it was told of every frame
  toldMain    \* the main frame it was last told of

contentVars == <<rfh, parent, tearing>>
infoVars    == <<browser, handler, entry, mainFrame, check>>
navVars     == <<parked, tasks, asked, ran>>
clientVars  == <<told, toldMain>>
vars == <<contentVars, infoVars, queue, obj, navVars, clientVars>>

\* "unborn" is current without a live renderer frame yet, "dead" is current
\* after its renderer frame was deleted, "swapped" was just replaced as current
\* and content has not decided its fate, "leaving" runs its unload handlers.
Lives == {"none", "unborn", "speculative", "active", "swapped", "cached",
          "leaving", "dead", "deleted"}

FrameInfo == [known : BOOLEAN, spec : BOOLEAN, cached : BOOLEAN]
FrameHost == [host : BOOLEAN, info : BOOLEAN, bound : BOOLEAN,
              queued : BOOLEAN]
\* How often the client got OnFrameCreated and, up to 2, OnFrameDestroyed, and
\* how many more OnFrameAttached than OnFrameDetached.
View == [created : 0 .. 2, gone : 0 .. 2, links : Int]

Note(type, f)      == [type |-> type, frame |-> f]
MainNote(old, new) == [type |-> "MainFrameChanged", old |-> old, new |-> new]
FrameNotes == {"FrameCreated", "FrameAttached", "FrameDetached",
               "FrameDestroyed"}
Notes == [type : FrameNotes, frame : Frames]
           \cup [type : {"MainFrameChanged"}, old : Mains \cup {None},
                 new : Mains \cup {None}]

Unmade == [known |-> FALSE, spec |-> FALSE, cached |-> FALSE]

TypeOK ==
  /\ rfh \in [Frames -> Lives]
  /\ parent \in [Subs -> Mains \cup {None}]
  /\ tearing \in BOOLEAN
  /\ browser \in {"none", "open", "closing", "gone"}
  /\ handler \in BOOLEAN
  /\ entry \in [Frames -> FrameInfo]
  /\ mainFrame \in Mains \cup {None}
  /\ queue \in Seq(Notes)
  /\ check \in BOOLEAN
  /\ obj \in [Frames -> FrameHost]
  /\ parked \in 0 .. MaxNav
  /\ tasks \in Seq(1 .. MaxNav)
  /\ asked \in 0 .. MaxNav
  /\ ran \subseteq 1 .. MaxNav
  /\ told \in [Frames -> View]
  /\ toldMain \in Mains \cup {None}

Init ==
  /\ rfh = [f \in Frames |-> "none"]
  /\ parent = [s \in Subs |-> None]
  /\ tearing = FALSE
  /\ browser = "none"
  /\ handler = FALSE
  /\ entry = [f \in Frames |-> Unmade]
  /\ mainFrame = None
  /\ queue = <<>>
  /\ check = FALSE
  /\ obj = [f \in Frames |-> [host |-> FALSE, info |-> FALSE, bound |-> FALSE,
                              queued |-> FALSE]]
  /\ parked = 0
  /\ tasks = <<>>
  /\ asked = 0
  /\ ran = {}
  /\ told = [f \in Frames |-> [created |-> 0, gone |-> 0, links |-> 0]]
  /\ toldMain = None

-----------------------------------------------------------------------------
(* What the UI thread is in the middle of.                                 *)

Children(m) == {s \in Subs : parent[s] = m /\ rfh[s] # "deleted"}

\* Content replaces, caches and restores a page in one stack.
Swapping  == \E m \in Mains : rfh[m] = "swapped"
Restoring == \E s \in Subs : parent[s] # None /\ rfh[s] = "cached"
                              /\ rfh[parent[s]] = "active"
InCallbacks == queue # <<>>
Idle == ~InCallbacks /\ ~Swapping /\ ~Restoring

Current == {"unborn", "active", "dead"}
IsCurrent(m) == m \in Mains /\ rfh[m] \in Current

-----------------------------------------------------------------------------
(* The client's notifications.                                             *)

\* What a client that knew view knows after a notification.
Learn(view, type) ==
  CASE type = "FrameCreated"   -> [view EXCEPT !.created = @ + 1]
    [] type = "FrameAttached"  -> [view EXCEPT !.links = @ + 1]
    [] type = "FrameDetached"  -> [view EXCEPT !.links = @ - 1]
    [] type = "FrameDestroyed" -> [view EXCEPT !.gone = IF @ = 2 THEN 2
                                                         ELSE @ + 1]

Tell(note) ==
  IF note.type = "MainFrameChanged"
  THEN toldMain' = note.new /\ UNCHANGED told
  ELSE /\ told' = [told EXCEPT ![note.frame] = Learn(@, note.type)]
       /\ UNCHANGED toldMain

\* MaybeExecuteFrameNotification while the NotificationStateLock is held.
Collect(notes) == queue' = IF handler THEN queue \o notes ELSE queue

\* MaybeExecuteFrameNotification without the lock.
Notify(note) == IF handler THEN Tell(note) ELSE UNCHANGED clientVars

If(cond, notes) == IF cond THEN notes ELSE <<>>

\* Mutant: the parked navigation goes with the lock.
ReleaseNavigationLock_Drops ==
  /\ tasks' = tasks
  /\ parked' = 0

\* NavigationLock::~NavigationLock.
ReleaseNavigationLock ==
  /\ tasks' = tasks \o If(parked # 0, <<parked>>)
  /\ parked' = 0

\* NotificationStateLock::~NotificationStateLock: one turn of its loop.
Deliver ==
  /\ InCallbacks
  /\ Tell(Head(queue))
  /\ queue' = Tail(queue)
  /\ IF Len(queue) = 1 THEN ReleaseNavigationLock ELSE UNCHANGED <<tasks, parked>>
  /\ UNCHANGED <<contentVars, infoVars, obj, asked, ran>>

-----------------------------------------------------------------------------
(* Frame objects.                                                          *)

\* Mutant: render_frame_ stays bound.
Detached_KeepsRemote(h, isCurrentMain) ==
  [host |-> FALSE, bound |-> h.bound, info |-> isCurrentMain /\ h.info,
   queued |-> isCurrentMain /\ h.queued]

\* Mutant: queued_renderer_actions_ is not cleared.
Detached_KeepsQueue(h, isCurrentMain) ==
  [host |-> FALSE, bound |-> FALSE, info |-> isCurrentMain /\ h.info,
   queued |-> h.queued]

\* CefFrameHostImpl::Detach.
Detached(h, isCurrentMain) ==
  [host |-> FALSE, bound |-> FALSE, info |-> isCurrentMain /\ h.info,
   queued |-> isCurrentMain /\ h.queued]

\* Mutant: the loss of the connection is not announced.
DetachNotes_Quiet(f, h, isCurrentMain) ==
  If(~isCurrentMain /\ h.info, <<Note("FrameDestroyed", f)>>)

\* What its two results make the caller announce.
DetachNotes(f, h, isCurrentMain) ==
  If(h.bound, <<Note("FrameDetached", f)>>)
    \o If(~isCurrentMain /\ h.info, <<Note("FrameDestroyed", f)>>)

\* CefFrameHostImpl::MaybeAttach.
Attached(h) == IF h.host THEN h ELSE [h EXCEPT !.host = TRUE, !.info = TRUE]
AttachFails(h) == ~h.host /\ h.bound

\* FrameInfo::IsCurrentMainFrame.
IsCurrentMainFrame(f) == f \in Mains /\ ~entry[f].spec /\ ~entry[f].cached

-----------------------------------------------------------------------------
(* CefBrowserInfo.  An operator that takes objs works on the frame objects  *)
(* its caller already changed; before are the notifications so far.         *)

\* Mutant: the end of the last main frame is not announced.
SetMainFrame_Quiet(objs, f, before) ==
  /\ mainFrame' = f
  /\ IF f = mainFrame
     THEN obj' = objs /\ Collect(before)
     ELSE LET old == mainFrame IN
       /\ obj' = IF old = None THEN objs
                 ELSE [objs EXCEPT ![old] = Detached(@, FALSE)]
       /\ Collect(before
                   \o (IF old = None THEN <<>>
                       ELSE DetachNotes(old, objs[old], FALSE))
                   \o If(f # None, <<MainNote(old, f)>>))

\* Mutant: the change is announced before the end of the old main frame.
SetMainFrame_ChangeFirst(objs, f, before) ==
  /\ mainFrame' = f
  /\ IF f = mainFrame
     THEN obj' = objs /\ Collect(before)
     ELSE LET old == mainFrame IN
       /\ obj' = IF old = None THEN objs
                 ELSE [objs EXCEPT ![old] = Detached(@, FALSE)]
       /\ Collect(before \o <<MainNote(old, f)>>
                   \o (IF old = None THEN <<>>
                       ELSE DetachNotes(old, objs[old], FALSE)))

SetMainFrame(objs, f, before) ==
  /\ mainFrame' = f
  /\ IF f = mainFrame
     THEN obj' = objs /\ Collect(before)
     ELSE LET old == mainFrame IN
       /\ obj' = IF old = None THEN objs
                 ELSE [objs EXCEPT ![old] = Detached(@, FALSE)]
       /\ Collect(before
                   \o (IF old = None THEN <<>>
                       ELSE DetachNotes(old, objs[old], FALSE))
                   \o <<MainNote(old, f)>>)

KeepMainFrame(objs, notes) ==
  obj' = objs /\ Collect(notes) /\ UNCHANGED mainFrame

\* Mutant: any upgraded frame becomes the main frame.
UpgradeFrame_AnyFrame(f, spec) ==
  LET upgraded == entry[f].spec /\ ~spec
  IN /\ IF upgraded THEN SetMainFrame(obj, f, <<>>) ELSE KeepMainFrame(obj, <<>>)
     /\ entry' = [entry EXCEPT ![f].spec = @ /\ ~upgraded]
     /\ UNCHANGED check

\* MaybeCreateFrame for a host that has a frame object: a speculative one that
\* content made current is upgraded.
UpgradeFrame(f, spec) ==
  LET objs     == [obj EXCEPT ![f] = Attached(@)]
      upgraded == entry[f].spec /\ ~spec
  IN /\ check' = (check \/ AttachFails(obj[f]))
     /\ IF upgraded /\ f \in Mains
        THEN SetMainFrame(objs, f, <<>>)
        ELSE KeepMainFrame(objs, <<>>)
     /\ entry' = [entry EXCEPT ![f].spec = @ /\ ~upgraded]

\* MaybeCreateFrame for a new host.
NewFrame(f, spec) ==
  LET objs == [obj EXCEPT ![f] = [host |-> TRUE, info |-> TRUE, bound |-> FALSE,
                                  queued |-> FALSE]]
      note == <<Note("FrameCreated", f)>>
  IN /\ IF f \in Mains /\ ~spec
        THEN SetMainFrame(objs, f, note)
        ELSE KeepMainFrame(objs, note)
     /\ entry' = [entry EXCEPT ![f] = [known |-> TRUE, spec |-> spec,
                                       cached |-> FALSE]]
     /\ UNCHANGED check

MaybeCreateFrame(f, spec) ==
  /\ IF f \in Excluded
     THEN UNCHANGED <<obj, queue, mainFrame, entry, check>>
     ELSE IF entry[f].known THEN UpgradeFrame(f, spec) ELSE NewFrame(f, spec)
  /\ UNCHANGED <<browser, handler, navVars, clientVars>>

\* FrameHostStateChanged of hosts that enter the back/forward cache.
EnterCache(hosts) ==
  LET known == {f \in hosts : entry[f].known} IN
  /\ entry' = [f \in Frames |-> IF f \in known
                                THEN [entry[f] EXCEPT !.cached = TRUE]
                                ELSE entry[f]]
  /\ check' = (check \/ \E f \in known : entry[f].cached)
  /\ UNCHANGED <<browser, handler, mainFrame, queue, obj, navVars, clientVars>>

\* Mutant: the restored main frame is not made main_frame_.
LeaveCache_NotMain(f) ==
  /\ IF entry[f].known
     THEN /\ entry' = [entry EXCEPT ![f].cached = FALSE]
          /\ KeepMainFrame([obj EXCEPT ![f] = Attached(@)], <<>>)
     ELSE UNCHANGED <<obj, queue, mainFrame, entry>>
  /\ UNCHANGED <<browser, handler, check, navVars, clientVars>>

\* FrameHostStateChanged of a host that leaves the back/forward cache.
LeaveCache(f) ==
  LET objs == [obj EXCEPT ![f] = Attached(@)] IN
  /\ IF entry[f].known
     THEN /\ check' = (check \/ AttachFails(obj[f]) \/ ~entry[f].cached)
          /\ entry' = [entry EXCEPT ![f].cached = FALSE]
          /\ IF f \in Mains THEN SetMainFrame(objs, f, <<>>)
                            ELSE KeepMainFrame(objs, <<>>)
     ELSE UNCHANGED <<obj, queue, mainFrame, entry, check>>
  /\ UNCHANGED <<browser, handler, navVars, clientVars>>

\* Mutant: the current main frame is detached like any other.
RemoveFrame_Completely(f) ==
  /\ IF entry[f].known
     THEN /\ entry' = [entry EXCEPT ![f] = Unmade]
          /\ KeepMainFrame([obj EXCEPT ![f] = Detached(@, FALSE)],
                           DetachNotes(f, obj[f], FALSE))
     ELSE UNCHANGED <<obj, queue, mainFrame, entry>>
  /\ UNCHANGED <<browser, handler, check, navVars, clientVars>>

\* Mutant: only a frame that was connected is announced.
RemoveFrame_BoundOnly(f) ==
  /\ IF entry[f].known
     THEN /\ entry' = [entry EXCEPT ![f] = Unmade]
          /\ KeepMainFrame([obj EXCEPT ![f] = Detached(@, IsCurrentMainFrame(f))],
                           IF ~obj[f].bound THEN <<>>
                           ELSE DetachNotes(f, obj[f], IsCurrentMainFrame(f)))
     ELSE UNCHANGED <<obj, queue, mainFrame, entry>>
  /\ UNCHANGED <<browser, handler, check, navVars, clientVars>>

\* Mutant: the frame object is forgotten but not detached.
RemoveFrame_NoDetach(f) ==
  /\ entry' = [entry EXCEPT ![f] = Unmade]
  /\ KeepMainFrame(obj, <<>>)
  /\ UNCHANGED <<browser, handler, check, navVars, clientVars>>

RemoveFrame(f) ==
  LET current == IsCurrentMainFrame(f) IN
  /\ IF entry[f].known
     THEN /\ entry' = [entry EXCEPT ![f] = Unmade]
          /\ KeepMainFrame([obj EXCEPT ![f] = Detached(@, current)],
                           DetachNotes(f, obj[f], current))
     ELSE UNCHANGED <<obj, queue, mainFrame, entry>>
  /\ UNCHANGED <<browser, handler, check, navVars, clientVars>>

\* RemoveAllFrames: nothing is to be announced but the end of the main frame.
RemoveAllFrames ==
  LET known == {f \in Frames : entry[f].known}
      objs  == [f \in Frames |-> IF f \in known
                  THEN Detached(obj[f], IsCurrentMainFrame(f)) ELSE obj[f]]
  IN /\ check' = (check \/ \E f \in known :
                     DetachNotes(f, obj[f], IsCurrentMainFrame(f)) # <<>>)
     /\ entry' = [f \in Frames |-> Unmade]
     /\ SetMainFrame(objs, None, <<>>)

-----------------------------------------------------------------------------
(* The life of the browser.                                                *)

SetBrowser ==
  /\ browser = "none"
  /\ browser' = "open"
  /\ handler' \in BOOLEAN
  /\ UNCHANGED <<contentVars, entry, mainFrame, check, queue, obj, navVars,
                 clientVars>>

\* CefBrowserContentsDelegate::ObserveWebContents.
ObserveWebContents(m) ==
  /\ browser = "open" /\ mainFrame = None
  /\ rfh' = [rfh EXCEPT ![m] = "unborn"]
  /\ MaybeCreateFrame(m, FALSE)
  /\ UNCHANGED <<parent, tearing>>

\* OnBeforeClose, SetClosing and WebContentsDestroyed.
DestroyWebContents ==
  /\ Idle /\ tearing /\ browser = "open"
  /\ \A f \in Frames : rfh[f] \in {"none", "unborn", "dead", "deleted"}
  /\ browser' = "closing"
  /\ RemoveAllFrames
  /\ handler' = FALSE
  /\ UNCHANGED <<contentVars, navVars, clientVars>>

BrowserDestroyed ==
  /\ Idle /\ browser = "closing"
  /\ browser' = "gone"
  /\ check' = (check \/ \E f \in Frames : entry[f].known)
  /\ UNCHANGED <<contentVars, handler, entry, mainFrame, queue, obj, navVars,
                 clientVars>>

-----------------------------------------------------------------------------
(* Events of content, each reported to CefBrowserContentsDelegate.          *)

Content == Idle /\ browser = "open" /\ ~tearing

Turn(f, life) == rfh' = [rfh EXCEPT ![f] = life]

\* The current main frame's renderer frame comes to life.
RendererReady(m) ==
  /\ Content /\ rfh[m] = "unborn"
  /\ Turn(m, "active")
  /\ MaybeCreateFrame(m, FALSE)
  /\ UNCHANGED <<parent, tearing>>

\* A navigation that needs another host starts.
SpeculativeCreated(m) ==
  /\ Content /\ rfh[m] = "none"
  /\ \E o \in Mains : rfh[o] \in {"active", "dead"}
  /\ \A o \in Mains : rfh[o] # "speculative"
  /\ Turn(m, "speculative")
  /\ MaybeCreateFrame(m, TRUE)
  /\ UNCHANGED <<parent, tearing>>

SubFrameCreated(s) ==
  /\ Content /\ rfh[s] = "none"
  /\ \E m \in Mains, spec \in BOOLEAN :
       /\ rfh[m] = "active"
       /\ parent' = [parent EXCEPT ![s] = m]
       /\ Turn(s, IF spec THEN "speculative" ELSE "active")
       /\ MaybeCreateFrame(s, spec)
  /\ UNCHANGED tearing

\* The lives of the hosts once m is current.
Replaced(m) ==
  [f \in Frames |-> CASE f = m -> "active"
                      [] f # m /\ IsCurrent(f) ->
                           IF rfh[f] = "dead" THEN "deleted" ELSE "swapped"
                      [] OTHER -> rfh[f]]

\* The navigation to f commits.
RenderFrameHostChanged(f) ==
  /\ Content /\ rfh[f] = "speculative"
  /\ IF f \in Mains THEN rfh' = Replaced(f) ELSE Turn(f, "active")
  /\ MaybeCreateFrame(f, FALSE)
  /\ UNCHANGED <<parent, tearing>>

\* What becomes of the page that was replaced, in the same stack.
CachePage(m) ==
  /\ ~InCallbacks /\ ~Restoring /\ rfh[m] = "swapped"
  /\ \A s \in Children(m) : rfh[s] = "active"
  /\ LET page == {m} \cup Children(m) IN
       /\ rfh' = [f \in Frames |-> IF f \in page THEN "cached" ELSE rfh[f]]
       /\ EnterCache(page)
  /\ UNCHANGED <<parent, tearing>>

UnloadPage(m) ==
  /\ ~InCallbacks /\ ~Restoring /\ rfh[m] = "swapped"
  /\ Turn(m, "leaving")
  /\ UNCHANGED <<parent, tearing, infoVars, queue, obj, navVars, clientVars>>

\* The user goes back to a cached page: first its main frame is told, then,
\* in the same stack, its sub-frames.
RestorePage(m) ==
  /\ Content /\ m \in Mains /\ rfh[m] = "cached"
  /\ \E o \in Mains : rfh[o] \in {"active", "dead"}
  /\ \A o \in Mains : rfh[o] # "speculative"
  /\ rfh' = Replaced(m)
  /\ LeaveCache(m)
  /\ UNCHANGED <<parent, tearing>>

RestoreSubFrame(s) ==
  /\ ~InCallbacks /\ rfh[s] = "cached"
  /\ parent[s] # None /\ rfh[parent[s]] = "active"
  /\ Turn(s, "active")
  /\ LeaveCache(s)
  /\ UNCHANGED <<parent, tearing>>

\* A navigation is given up, a sub-frame is removed, a page has unloaded or is
\* evicted, a renderer process dies, or the WebContents goes: sub-frames first.
RenderFrameDeleted(f) ==
  /\ Idle /\ browser = "open"
  /\ rfh[f] \in {"speculative", "active", "leaving", "cached"}
  /\ f \in Mains => Children(f) = {}
  /\ rfh' = [g \in Frames |->
        CASE g = f -> IF IsCurrent(f) THEN "dead" ELSE "deleted"
          [] f \in Subs /\ rfh[f] = "cached" /\ g = parent[f] -> "leaving"
          [] OTHER -> rfh[g]]
  /\ RemoveFrame(f)
  /\ UNCHANGED <<parent, tearing>>

CloseContents ==
  /\ Content /\ mainFrame # None
  /\ tearing' = TRUE
  /\ UNCHANGED <<rfh, parent, infoVars, queue, obj, navVars, clientVars>>

-----------------------------------------------------------------------------
(* The renderer connects and disconnects a frame (see FrameConnection).      *)

HasRenderer(f) == rfh[f] \in {"speculative", "active", "leaving"}

FrameAttached(f) ==
  /\ Idle /\ HasRenderer(f)
  /\ entry[f].known /\ obj[f].info /\ ~obj[f].bound
  /\ obj' = [obj EXCEPT ![f].bound = TRUE, ![f].queued = FALSE]
  /\ Notify(Note("FrameAttached", f))
  /\ UNCHANGED <<contentVars, infoVars, queue, navVars>>

OnRenderFrameDisconnect(f) ==
  /\ Idle /\ obj[f].bound
  /\ IF obj[f].info /\ browser # "gone"
     THEN Notify(Note("FrameDetached", f)) ELSE UNCHANGED clientVars
  /\ obj' = [obj EXCEPT ![f].bound = FALSE]
  /\ UNCHANGED <<contentVars, infoVars, queue, navVars>>

-----------------------------------------------------------------------------
(* The client, inside its callbacks and outside of them.                    *)

ClientRuns == InCallbacks \/ Idle

\* SendToRenderFrame of a frame that is not connected.
SendToRenderFrame(f) ==
  /\ ClientRuns
  /\ obj[f].host /\ ~obj[f].bound /\ ~obj[f].queued
  /\ obj' = [obj EXCEPT ![f].queued = TRUE]
  /\ UNCHANGED <<contentVars, infoVars, queue, navVars, clientVars>>

\* LoadMainFrameURL, Reload, GoBack, ...: IsNavigationLocked parks it.
Navigate(n) ==
  IF InCallbacks
  THEN parked' = n /\ UNCHANGED ran
  ELSE ran' = ran \cup {n} /\ UNCHANGED parked

LoadMainFrameURL ==
  /\ ClientRuns /\ browser # "none"
  /\ asked < MaxNav
  /\ asked' = asked + 1
  /\ Navigate(asked')
  /\ UNCHANGED <<contentVars, infoVars, queue, obj, tasks, clientVars>>

\* The posted navigation runs.
RunTask ==
  /\ Idle /\ tasks # <<>>
  /\ tasks' = Tail(tasks)
  /\ Navigate(Head(tasks))
  /\ UNCHANGED <<contentVars, infoVars, queue, obj, asked, clientVars>>

-----------------------------------------------------------------------------

ContentNext ==
  \/ \E m \in Mains : \/ ObserveWebContents(m) \/ RendererReady(m)
                       \/ SpeculativeCreated(m) \/ CachePage(m)
                       \/ UnloadPage(m) \/ RestorePage(m)
  \/ \E s \in Subs : SubFrameCreated(s) \/ RestoreSubFrame(s)
  \/ \E f \in Frames : RenderFrameHostChanged(f) \/ RenderFrameDeleted(f)
  \/ CloseContents

BrowserNext == SetBrowser \/ DestroyWebContents \/ BrowserDestroyed

ClientNext == (\E f \in Frames : SendToRenderFrame(f)) \/ LoadMainFrameURL

Next ==
  \/ ContentNext \/ BrowserNext \/ ClientNext \/ Deliver \/ RunTask
  \/ \E f \in Frames : FrameAttached(f) \/ OnRenderFrameDisconnect(f)

Spec == Init /\ [][Next]_vars

-----------------------------------------------------------------------------
(* Safety.                                                                 *)

\* No CHECK or DCHECK of CefBrowserInfo or MaybeAttach fails: a host is never
\* attached over a bound remote, cache flags only toggle, and when the browser
\* is destroyed no frame is left to be announced (browser_info.cc:618-619).
AssertionsHold == ~check

\* GetMainFrame always returns a frame that can be used, in every callback and
\* between them, from the first frame to the end of the browser.
MainFrameIsUsable ==
  browser = "open" /\ (\E m \in Mains : rfh[m] # "none")
    => mainFrame # None /\ obj[mainFrame].info

\* Whatever was created, swapped, cached, restored, deleted or crashed, the main
\* frame CEF hands out is the one content shows.
MainFrameFollowsContent ==
  browser = "open" /\ mainFrame # None => IsCurrent(mainFrame)

\* OnMainFrameChanged calls link up: at most one is undelivered, it replaces the
\* frame the client was told last, and when none is the client knows main_frame_.
MainFrameIsTold ==
  handler \/ InCallbacks \/ toldMain # None =>
    LET news == {i \in DOMAIN queue : queue[i].type = "MainFrameChanged"} IN
      IF news = {} THEN toldMain = mainFrame
      ELSE \E i \in news : /\ news = {i}
                          /\ queue[i].old = toldMain
                          /\ queue[i].new = mainFrame

\* The main frame can be used, is content's, and the client was told of it.
MainFrameCorrect == MainFrameIsUsable /\ MainFrameFollowsContent /\ MainFrameIsTold

\* OnFrameAttached and OnFrameDetached of a frame alternate, starting with the
\* former, whichever of the pipes, SetMainFrame and RemoveFrame ends the
\* connection; the client counts the connections the browser has.
LinksAlternate ==
  \A f \in Frames :
    /\ told[f].links \in {0, 1}
    /\ ~InCallbacks /\ handler => (told[f].links = 1) = obj[f].bound

\* Commands the client sent early wait in a frame that is valid and not bound:
\* they were sent before OnFrameAttached or discarded before OnFrameDestroyed.
CommandsWaitForAttach ==
  \A f \in Frames : obj[f].queued => obj[f].info /\ ~obj[f].bound

\* A frame object that believes in its browser is one the browser can find or
\* its main frame, and is current, speculative, or leaving with its page.
ValidFramesAreTracked ==
  \A f \in Frames : obj[f].info =>
    /\ entry[f].known \/ f = mainFrame
    /\ f \in Mains => f = mainFrame \/ rfh[f] = "speculative"

\* Once its callbacks returned, the client was told of the end of every frame
\* object that lost its browser.
InvalidFramesAreTold ==
  handler /\ ~InCallbacks =>
    \A f \in Frames : told[f].created = 1 /\ ~obj[f].info => told[f].gone > 0

\* Frame objects, the browser's table of them, their remotes and what the client
\* was told of them agree, and no CHECK on them fails.
FramesCorrect ==
  /\ TypeOK
  /\ AssertionsHold
  /\ LinksAlternate
  /\ CommandsWaitForAttach
  /\ ValidFramesAreTracked
  /\ InvalidFramesAreTold

\* What the client may rely on in a callback: OnFrameCreated comes first and
\* once; OnFrameDestroyed comes after OnFrameDetached with a frame that is not
\* valid; OnMainFrameChanged comes after OnFrameDestroyed of the old main frame
\* and after OnFrameCreated of the new one, which is valid.
CallbacksInOrder == [][
  /\ \A f \in Frames : told'[f] # told[f] =>
       /\ told'[f].created = 1
       /\ told'[f].gone > told[f].gone => told[f].links = 0 /\ ~obj'[f].info
  /\ toldMain' # toldMain =>
       /\ toldMain # None => told[toldMain].gone > 0 /\ ~obj[toldMain].info
       /\ toldMain' # None =>
            told[toldMain'].created = 1 /\ obj[toldMain'].info
  ]_vars

\* Navigations asked for inside callbacks run outside of them: the last one that
\* was asked for in a batch is parked until the batch ends, then posted, then run,
\* whatever is asked for, announced or destroyed meanwhile.
NavigationsAreKept ==
  /\ [](/\ parked # 0 => InCallbacks
        /\ asked # 0 => parked = asked \/ asked \in ran
                         \/ \E k \in DOMAIN tasks : tasks[k] = asked)
  /\ [][ran' # ran => ~InCallbacks]_vars
=============================================================================
