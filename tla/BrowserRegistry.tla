--------------------------- MODULE BrowserRegistry ---------------------------
(***************************************************************************)
(* CefBrowserInfoManager: which browser a renderer's view belongs to, and   *)
(* the popups in creation.                                                  *)
(*                                                                         *)
(* A renderer process that is given the first frame of a page asks which    *)
(* browser the page is of, and waits: the call is synchronous.  The IO      *)
(* thread holds browser_info_lock_ while it looks the frame up in one       *)
(* browser after the other, under each browser's lock_, and while it queues *)
(* the request when no browser knows the frame.  The request is answered    *)
(* when the UI thread creates the frame or the popup's browser, when the    *)
(* frame turns out to be excluded, when the process ends, or by a timer.    *)
(* The UI thread takes the locks in the other order for a main frame: it    *)
(* holds lock_ while it reports the frame under browser_info_lock_.         *)
(*                                                                         *)
(* Popups are made in one stack of the UI thread, which the IO thread runs  *)
(* beside; a step of the stack finds the popup by step, opener and URL.     *)
(* All popups here have one opener and one URL.                             *)
(***************************************************************************)
EXTENDS Naturals, Sequences, SequencesExt

CONSTANTS
  Mains, Subs,        \* main frames and sub-frames (RenderFrameHosts)
  Excluded,           \* frames of PDF viewers, guests and print preview
  Browsers,           \* CefBrowserInfo objects
  Popups,             \* browsers made by window.open
  AlloyPopups,        \* those of them with Alloy style
  BrowserOf, ProcOf,  \* of a frame: CefBrowserInfo and renderer process
  None

Frames   == Mains \cup Subs
Procs    == {ProcOf[f] : f \in Frames}

ASSUME RegistryAssumption ==
  /\ Mains \cap Subs = {}
  /\ Excluded \subseteq Frames
  /\ BrowserOf \in [Frames -> Browsers]
  /\ DOMAIN ProcOf = Frames
  /\ Popups \subseteq Browsers
  /\ AlloyPopups \subseteq Popups
  \* the main frame a popup begins with shows no excluded content
  /\ \A f \in Excluded \cap Mains : BrowserOf[f] \notin Popups
  /\ None \notin Browsers \cup Frames \cup [browser : Browsers \cup {None}, excluded : BOOLEAN]

VARIABLES
  \* renderer processes
  alive,     \* processes that run
  asked,     \* of a frame: "no", "sent", "waiting", "told"
  \* content
  host,      \* of a frame: "none", "live", "gone"
  \* CefBrowserInfoManager and CefBrowserInfo
  listed,    \* browser_info_list_
  known,     \* frames in the maps of their browsers
  pending,   \* frames in pending_new_browser_info_map_
  timers,    \* posted TimeoutNewBrowserInfoResponse tasks of queued requests
  checks,    \* CheckExcludedNewBrowserInfoOnUIThread tasks of queued requests
  reply,     \* of a frame: the answer its callback was run with, or None
  ran,       \* times the callback of a frame's request was run
  io,        \* what the IO thread looks up while it holds browser_info_lock_:
             \* a frame and the browsers it did not ask yet
  \* popups
  popups,    \* pending_popup_list_
  creating,  \* pending_create_popup_
  outcome,   \* what the client was told of a popup
  ui         \* what the UI thread's stack has to do next; at "main" it holds
             \* the lock_ of the main frame's browser

rendererVars == <<alive, asked>>
requestVars  == <<pending, timers, checks, reply, ran>>
popupVars    == <<popups, creating, outcome>>
browserVars  == <<host, listed, known>>
vars == <<rendererVars, browserVars, requestVars, popupVars, io, ui>>

Answers      == [browser : Browsers \cup {None}, excluded : BOOLEAN]
PendingPopup == [step : {"CanCreateWindow", "GetCustomWebContentsView",
                         "WebContentsCreated"}, popup : Popups]
Stack == [at : {"idle"}, of : {None}]
           \cup [at : {"main"}, of : Mains]
           \cup [at : {"allowed", "view", "contents", "listed", "after", "add"},
                 of : Popups]

TypeOK ==
  /\ alive \subseteq Procs
  /\ asked \in [Frames -> {"no", "sent", "waiting", "told"}]
  /\ host \in [Frames -> {"none", "live", "gone"}]
  /\ listed \subseteq Browsers
  /\ known \subseteq Frames \ Excluded
  /\ pending \subseteq Frames
  /\ timers \subseteq Frames
  /\ checks \subseteq Frames
  /\ reply \in [Frames -> Answers \cup {None}]
  /\ ran \in [Frames -> Nat]
  /\ popups \in Seq(PendingPopup)
  /\ creating \in Popups \cup {None}
  /\ outcome \in [Popups -> {"none", "allowed", "created", "aborted", "wrong"}]
  /\ io \in [of : Frames \cup {None}, left : SUBSET Browsers]
  /\ ui \in Stack

Idle == [at |-> "idle", of |-> None]
Free == [of |-> None, left |-> {}]

Init ==
  /\ alive = Procs
  /\ asked = [f \in Frames |-> "no"]
  /\ host = [f \in Frames |-> "none"]
  /\ listed = {}
  /\ known = {}
  /\ pending = {}
  /\ timers = {}
  /\ checks = {}
  /\ reply = [f \in Frames |-> None]
  /\ ran = [f \in Frames |-> 0]
  /\ popups = <<>>
  /\ creating = None
  /\ outcome = [b \in Popups |-> "none"]
  /\ io = Free
  /\ ui = Idle

-----------------------------------------------------------------------------
(* The renderer: CefRenderManager::MaybeCreateBrowser.                       *)

\* The process is in the synchronous call of another frame.
Blocked(p) == \E f \in Frames : ProcOf[f] = p /\ asked[f] \in {"sent", "waiting"}

\* The first frame of a view was made in the process, which asks about a view
\* only once: an answer without a browser makes it an excluded view.  Content
\* tells the process before the browser's RenderFrameCreated runs.
AskForBrowser(f) ==
  /\ host[f] # "none" /\ asked[f] = "no"
  /\ ProcOf[f] \in alive /\ ~Blocked(ProcOf[f])
  /\ asked' = [asked EXCEPT ![f] = "sent"]
  /\ UNCHANGED <<alive, browserVars, requestVars, popupVars, io, ui>>

\* The answer arrives.
MaybeCreateBrowser(f) ==
  /\ asked[f] = "waiting" /\ reply[f] # None
  /\ ProcOf[f] \in alive
  /\ asked' = [asked EXCEPT ![f] = "told"]
  /\ UNCHANGED <<alive, browserVars, requestVars, popupVars, io, ui>>

-----------------------------------------------------------------------------
(* Requests, on the IO thread and on the UI thread. *)

InfoFor(b)    == [browser |-> b, excluded |-> FALSE]
ExcludedOf(b) == [browser |-> b, excluded |-> TRUE]
NoInfo        == [browser |-> None, excluded |-> FALSE]

Found(f) == f \in known /\ BrowserOf[f] \in listed

\* The IO thread takes browser_info_lock_, which no step of the UI thread keeps.
OnGetNewBrowserInfo(f) ==
  /\ asked[f] = "sent" /\ io = Free
  /\ asked' = [asked EXCEPT ![f] = "waiting"]
  /\ io' = [of |-> f, left |-> listed]
  /\ UNCHANGED <<alive, browserVars, requestVars, popupVars, ui>>

\* The UI thread holds the lock_ of browser b.
Locked(b) == ui.at = "main" /\ BrowserOf[ui.of] = b

\* GetBrowserInfoInternal asks one browser more, which needs its lock_; the order
\* of the list is left open.  The answer and the end of the loop are below.
LookUp(b) ==
  /\ b \in io.left /\ ~Locked(b)
  /\ LET f == io.of IN
     \/ /\ f \in known /\ BrowserOf[f] = b
        /\ reply' = [reply EXCEPT ![f] = InfoFor(b)]
        /\ ran' = [ran EXCEPT ![f] = @ + 1]
        /\ io' = Free
     \/ /\ ~(f \in known /\ BrowserOf[f] = b)
        /\ io' = [io EXCEPT !.left = @ \ {b}]
        /\ UNCHANGED <<reply, ran>>
  /\ UNCHANGED <<rendererVars, browserVars, pending, timers, checks, popupVars, ui>>

\* No browser knows the frame: the request waits, with a timer and a check for
\* excluded content, and the lock is released.
Queue ==
  /\ io # Free /\ io.left = {}
  /\ pending' = pending \cup {io.of}
  /\ timers' = timers \cup {io.of}
  /\ checks' = checks \cup {io.of}
  /\ io' = Free
  /\ UNCHANGED <<rendererVars, browserVars, reply, ran, popupVars, ui>>

Respond_KeepsQueued(F, info) ==
  /\ UNCHANGED <<pending, timers, checks>>
  /\ reply' = [f \in Frames |-> IF f \in F THEN info ELSE reply[f]]
  /\ ran' = [f \in Frames |-> IF f \in F THEN ran[f] + 1 ELSE ran[f]]

\* SendNewBrowserInfoResponse for pending requests, which are erased.  Their
\* tasks find nothing any more and are left out.
Respond(F, info) ==
  /\ pending' = pending \ F
  /\ timers' = timers \ F
  /\ checks' = checks \ F
  /\ reply' = [f \in Frames |-> IF f \in F THEN info ELSE reply[f]]
  /\ ran' = [f \in Frames |-> IF f \in F THEN ran[f] + 1 ELSE ran[f]]

\* Under browser_info_lock_.
ContinueNewBrowserInfo(f, info) ==
  io = Free /\ Respond({f} \cap pending, info)

CheckExcluded_AnyFrame(f) ==
  /\ f \in checks /\ ui = Idle
  /\ IF host[f] = "live" /\ BrowserOf[f] \in listed
     THEN ContinueNewBrowserInfo(f, ExcludedOf(BrowserOf[f]))
     ELSE checks' = checks \ {f} /\ UNCHANGED <<pending, timers, reply, ran>>
  /\ UNCHANGED <<rendererVars, browserVars, popupVars, io, ui>>

\* CheckExcludedNewBrowserInfoOnUIThread
CheckExcluded(f) ==
  /\ f \in checks /\ ui = Idle
  /\ IF host[f] = "live" /\ f \in Excluded /\ BrowserOf[f] \in listed
     THEN ContinueNewBrowserInfo(f, ExcludedOf(BrowserOf[f]))
     ELSE checks' = checks \ {f} /\ UNCHANGED <<pending, timers, reply, ran>>
  /\ UNCHANGED <<rendererVars, browserVars, popupVars, io, ui>>

Timeout_Quiet(f) ==
  /\ f \in timers /\ ui = Idle /\ io = Free
  /\ timers' = timers \ {f}
  /\ UNCHANGED <<rendererVars, browserVars, pending, checks, reply, ran, popupVars, io, ui>>

\* TimeoutNewBrowserInfoResponse.  A frame asks once, so the request with the
\* timer's timeout_id is the frame's.
Timeout(f) ==
  /\ f \in timers /\ ui = Idle /\ io = Free
  /\ Respond({f} \cap pending, NoInfo)
  /\ UNCHANGED <<rendererVars, browserVars, popupVars, io, ui>>

\* The process crashes.  Its frames are deleted, but the process's host is not.
ProcessGone(p) ==
  /\ ui = Idle
  /\ p \in alive
  /\ alive' = alive \ {p}
  /\ host' = [f \in Frames |-> IF ProcOf[f] = p /\ host[f] = "live" THEN "gone" ELSE host[f]]
  /\ known' = {f \in known : ProcOf[f] # p}
  /\ UNCHANGED <<asked, listed, requestVars, popupVars, io, ui>>

AbortOf(b) == IF outcome[b] = "allowed" THEN "aborted" ELSE "wrong"

\* The popups here have an opener of the process p.
RenderProcessHostDestroyed(p) ==
  /\ ui = Idle /\ io = Free
  /\ p \notin alive
  /\ \E f \in pending : ProcOf[f] = p
  /\ Respond({f \in pending : ProcOf[f] = p}, NoInfo)
  /\ UNCHANGED <<rendererVars, browserVars, popupVars, io, ui>>

-----------------------------------------------------------------------------
(* Browsers and frames, on the UI thread. *)

OfBrowser(b) == {f \in Frames : BrowserOf[f] = b}

\* CreateBrowserInfo, before content makes the contents.
CreateBrowserInfo(b) ==
  /\ ui = Idle /\ io = Free
  /\ b \notin Popups \cup listed
  /\ \A f \in OfBrowser(b) : host[f] = "none"
  /\ listed' = listed \cup {b}
  /\ UNCHANGED <<rendererVars, host, known, requestVars, popupVars, io, ui>>

\* Content makes a host; those of a popup's first page come with its contents.
HostCreated(f) ==
  /\ ui = Idle
  /\ host[f] = "none"
  /\ ProcOf[f] \in alive
  /\ f \in Mains => BrowserOf[f] \in listed \ Popups
  /\ f \in Subs => \E m \in Mains : BrowserOf[m] = BrowserOf[f] /\ host[m] = "live"
  /\ host' = [host EXCEPT ![f] = "live"]
  /\ UNCHANGED <<rendererVars, listed, known, requestVars, popupVars, io, ui>>

MaybeCreateFrame_Unreported(f) ==
  /\ ui = Idle
  /\ host[f] = "live" /\ f \notin known \cup Excluded
  /\ BrowserOf[f] \in listed
  /\ known' = known \cup {f}
  /\ UNCHANGED <<rendererVars, host, listed, requestVars, popupVars, io, ui>>

\* RenderFrameCreated: the frame enters the maps under its browser's lock_, which
\* a main frame keeps until the manager has heard of it.
MaybeCreateFrame(f) ==
  /\ ui = Idle
  /\ host[f] = "live" /\ f \notin known \cup Excluded
  /\ BrowserOf[f] \in listed
  /\ known' = known \cup {f}
  /\ ui' = IF f \in Mains THEN [at |-> "main", of |-> f] ELSE Idle
  /\ UNCHANGED <<rendererVars, host, listed, requestVars, popupVars, io>>

\* It takes browser_info_lock_; then both are released.
OnMainFrameCreated(f) ==
  /\ ui = [at |-> "main", of |-> f]
  /\ ui' = Idle
  /\ ContinueNewBrowserInfo(f, InfoFor(BrowserOf[f]))
  /\ UNCHANGED <<rendererVars, browserVars, popupVars, io>>

FrameDeleted(f) ==
  /\ ui = Idle
  /\ host[f] = "live"
  /\ host' = [host EXCEPT ![f] = "gone"]
  /\ known' = known \ {f}
  /\ UNCHANGED <<rendererVars, listed, requestVars, popupVars, io, ui>>

\* DestroyBrowser: its contents and frames are gone.
RemoveBrowserInfo(b) ==
  /\ ui = Idle /\ io = Free
  /\ b \in listed
  /\ \A f \in OfBrowser(b) : host[f] # "live"
  /\ \E f \in OfBrowser(b) : host[f] = "gone"
  /\ listed' = listed \ {b}
  /\ UNCHANGED <<rendererVars, host, known, requestVars, popupVars, io, ui>>

-----------------------------------------------------------------------------
(* Popups: the steps of one stack of the UI thread. *)

\* PopPendingPopup: the first of the list at that step.
IsNext(i, step) ==
  /\ i \in DOMAIN popups
  /\ popups[i].step = step
  /\ \A j \in 1 .. i - 1 : popups[j].step # step

Push(list, step, b) == Append(list, [step |-> step, popup |-> b])

\* The client allowed the popup in OnBeforePopup.
CanCreateWindow(b) ==
  /\ ui = Idle
  /\ b \in Popups /\ outcome[b] = "none"
  /\ popups' = Push(popups, "CanCreateWindow", b)
  /\ creating' = b
  /\ outcome' = [outcome EXCEPT ![b] = "allowed"]
  /\ ui' = [at |-> "allowed", of |-> b]
  /\ UNCHANGED <<rendererVars, browserVars, requestVars, io>>

CreateWindowResult_Forgets(b) ==
  /\ ui \in {[at |-> "allowed", of |-> b], [at |-> "view", of |-> b]}
  /\ creating' = None
  /\ outcome' = [outcome EXCEPT ![b] = AbortOf(b)]
  /\ ui' = Idle
  /\ UNCHANGED <<rendererVars, browserVars, requestVars, popups, io>>

\* CreateWindowResult(false) before there are contents.
CreateWindowResult(b) ==
  /\ ui \in {[at |-> "allowed", of |-> b], [at |-> "view", of |-> b]}
  /\ creating' = None
  /\ \E i \in DOMAIN popups : popups[i].popup = creating /\ popups' = RemoveAt(popups, i)
  /\ outcome' = [outcome EXCEPT ![creating] = AbortOf(creating)]
  /\ ui' = Idle
  /\ UNCHANGED <<rendererVars, browserVars, requestVars, io>>

\* Alloy style only.
GetCustomWebContentsView(b) ==
  /\ ui = [at |-> "allowed", of |-> b]
  /\ b \in AlloyPopups
  /\ \E i \in DOMAIN popups :
       /\ IsNext(i, "CanCreateWindow")
       /\ popups' = Push(RemoveAt(popups, i), "GetCustomWebContentsView",
                         popups[i].popup)
  /\ ui' = [at |-> "view", of |-> b]
  /\ UNCHANGED <<rendererVars, browserVars, requestVars, creating, outcome, io>>

\* The contents and their main frame exist; they get the settings of the popup
\* found.  A Chrome style popup stays in the list until AddWebContents.
WebContentsCreated(b) ==
  LET step == IF b \in AlloyPopups
              THEN "GetCustomWebContentsView" ELSE "CanCreateWindow"
  IN  /\ ui \in {[at |-> "allowed", of |-> b], [at |-> "view", of |-> b]}
      /\ ui.at = "view" <=> b \in AlloyPopups
      /\ creating' = None
      /\ \E i \in DOMAIN popups :
           /\ IsNext(i, step)
           /\ popups' = IF b \in AlloyPopups THEN RemoveAt(popups, i)
                        ELSE Push(RemoveAt(popups, i), "WebContentsCreated",
                                  popups[i].popup)
           /\ outcome' = IF popups[i].popup = b THEN outcome
                         ELSE [outcome EXCEPT ![b] = "wrong"]
      /\ host' = [f \in Frames |-> IF f \in Mains \cap OfBrowser(b)
                                   THEN "live" ELSE host[f]]
      /\ ui' = [at |-> "contents", of |-> b]
      /\ UNCHANGED <<rendererVars, listed, known, requestVars, io>>

\* CreatePopupBrowserInfo lists the browser, and then continues the request.
ListPopup(b) ==
  /\ ui = [at |-> "contents", of |-> b] /\ io = Free
  /\ listed' = listed \cup {b}
  /\ ui' = [at |-> "listed", of |-> b]
  /\ UNCHANGED <<rendererVars, host, known, requestVars, popupVars, io>>

ContinuePopup(b) ==
  /\ ui = [at |-> "listed", of |-> b] /\ io = Free
  /\ Respond(Mains \cap OfBrowser(b) \cap pending, InfoFor(b))
  /\ ui' = [at |-> "after", of |-> b]
  /\ UNCHANGED <<rendererVars, browserVars, popupVars, io>>

OnAfterCreated(b) ==
  /\ ui = [at |-> "after", of |-> b]
  /\ outcome' = [outcome EXCEPT ![b] = IF @ = "allowed" THEN "created" ELSE "wrong"]
  /\ ui' = IF b \in AlloyPopups THEN Idle ELSE [at |-> "add", of |-> b]
  /\ UNCHANGED <<rendererVars, browserVars, requestVars, popups, creating, io>>

\* Chrome style only.
AddWebContents(b) ==
  /\ ui = [at |-> "add", of |-> b]
  /\ \E i \in DOMAIN popups :
       IsNext(i, "WebContentsCreated") /\ popups' = RemoveAt(popups, i)
  /\ ui' = Idle
  /\ UNCHANGED <<rendererVars, browserVars, requestVars, creating, outcome, io>>

-----------------------------------------------------------------------------

Renderer == \E f \in Frames : AskForBrowser(f) \/ MaybeCreateBrowser(f)

Tasks == \E f \in Frames : CheckExcluded(f) \/ Timeout(f)

Content ==
  \/ \E b \in Browsers : CreateBrowserInfo(b) \/ RemoveBrowserInfo(b)
  \/ \E f \in Frames : HostCreated(f) \/ MaybeCreateFrame(f) \/ FrameDeleted(f)
  \/ \E p \in Procs : ProcessGone(p) \/ RenderProcessHostDestroyed(p)
  \/ \E b \in Popups : CanCreateWindow(b)

\* The rest of a stack of the UI thread.
Continue ==
  \/ \E f \in Mains : OnMainFrameCreated(f)
  \/ \E b \in Popups :
       \/ CreateWindowResult(b) \/ GetCustomWebContentsView(b)
       \/ WebContentsCreated(b) \/ ListPopup(b) \/ ContinuePopup(b)
       \/ OnAfterCreated(b) \/ AddWebContents(b)

IOThread ==
  \/ \E f \in Frames : OnGetNewBrowserInfo(f)
  \/ \E b \in Browsers : LookUp(b)
  \/ Queue

Next == Renderer \/ Tasks \/ Content \/ Continue \/ IOThread

Spec == Init /\ [][Next]_vars

\* Threads run, as far as the locks let them, and timers expire.
Fairness ==
  /\ WF_vars(Continue)
  /\ WF_vars(IOThread)
  /\ \A f \in Frames :
       /\ WF_vars(MaybeCreateBrowser(f))
       /\ WF_vars(Timeout(f))

FairSpec == Spec /\ Fairness

-----------------------------------------------------------------------------
(* Safety *)

\* The callback of a request runs once at most, and while it is queued it has
\* not run: erasing and answering are one step under the lock, whichever of
\* frame creation, exclusion, process end and timer comes first.
AnsweredOnce ==
  \A f \in Frames : ran[f] <= 1 /\ (f \in pending => ran[f] = 0)

\* No process is stuck: a request that was received was answered, is looked up,
\* or is queued with a timer that will answer it.
WaitingHasTimer ==
  \A f \in Frames : asked[f] = "waiting" /\ reply[f] = None =>
    f \in pending \cap timers \/ io.of = f

\* The look-up and the creation of a main frame cannot miss each other, although
\* the frame may be created when its browser was asked already: a request that is
\* queued for a frame that is found is answered by the stack that is running.
MainFrameIsAnswered ==
  \A f \in Mains : f \in pending /\ Found(f) =>
    ui \in {[at |-> "main", of |-> f]} \cup [at : {"listed"}, of : {BrowserOf[f]}]

\* A renderer's browser is the one its frame is of, and excluded content, and
\* nothing else, is told to be excluded.
AnswersAreTrue ==
  \A f \in Frames : reply[f] # None =>
    \/ reply[f] = NoInfo
    \/ reply[f] = IF f \in Excluded THEN ExcludedOf(BrowserOf[f])
                                    ELSE InfoFor(BrowserOf[f])

\* A renderer's synchronous call gets one answer, and a true one: it is never
\* answered twice and never left without the timer that answers in the end.
AnswersCorrect == AnsweredOnce /\ WaitingHasTimer /\ AnswersAreTrue

\* Every popup the client allowed is reported once, as created with its own
\* settings or as aborted, when the stack that makes it returns.
PopupsAreTold ==
  \A b \in Popups : /\ outcome[b] # "wrong"
                    /\ outcome[b] = "allowed" => ui.of = b

-----------------------------------------------------------------------------
(* Liveness *)

Hangs(f) == asked[f] \in {"sent", "waiting"} /\ ProcOf[f] \in alive

\* The UI thread holds the lock_ of the only browser the IO thread has to ask, and
\* waits for browser_info_lock_, which the IO thread holds.
Deadlocked == ui.at = "main" /\ io.left = {BrowserOf[ui.of]}

\* No renderer hangs for ever in its synchronous call, unless the IO thread and
\* the UI thread wait for each other's lock.
RequestsAreAnswered ==
  (\E f \in Frames : Hangs(f)) ~> (\A f \in Frames : ~Hangs(f)) \/ Deadlocked

\* What browser_info_manager.cc:388 says the timer is for: a renderer does not hang
\* for ever.  The code breaks it: the two threads may be deadlocked.
NoRendererHangs == (\E f \in Frames : Hangs(f)) ~> \A f \in Frames : ~Hangs(f)

=============================================================================
