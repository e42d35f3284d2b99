----------------------- MODULE BrowserRegistryProofs ------------------------
(***************************************************************************)
(* What holds of the requests of renderers and of the popups in creation    *)
(* for every set of frames, browsers and processes.                         *)
(***************************************************************************)
EXTENDS BrowserRegistry, TLAPS

\* A list of one pending popup.
Only(step, b) == <<[step |-> step, popup |-> b]>>

\* What a stack of the UI thread has left in the list of pending popups, for
\* each place at which another thread may run.
StackInv ==
  /\ ui.at \in {"idle", "main"} => popups = <<>>
  /\ ui.at = "allowed" =>
       popups = Only("CanCreateWindow", ui.of) /\ creating = ui.of
  /\ ui.at = "view" =>
       popups = Only("GetCustomWebContentsView", ui.of) /\ creating = ui.of
  /\ ui.at = "view" => ui.of \in AlloyPopups
  /\ ui.at = "add" => ui.of \notin AlloyPopups
  /\ ui.at \in {"idle", "main", "add"} => \A b \in Popups : outcome[b] # "allowed"
  /\ ui.at \in {"contents", "listed", "after", "add"} =>
       popups = IF ui.of \in AlloyPopups THEN <<>>
                ELSE Only("WebContentsCreated", ui.of)
  /\ ui.at \in {"allowed", "view", "contents", "listed", "after"} =>
       outcome[ui.of] = "allowed"

PopupInv == StackInv /\ PopupsAreTold

\* A request that did not reach the IO thread has left no trace.
UnheardIsUntouched ==
  \A f \in Frames : asked[f] \in {"no", "sent"} =>
    ran[f] = 0 /\ f \notin pending /\ reply[f] = None

\* Only a live host is in the maps of its browser.
KnownIsLive == \A f \in known : host[f] = "live"

\* The stack of a main frame's creation is not that of an excluded frame's.
MainIsNotExcluded == ui.at = "main" => ui.of \notin Excluded

\* The request the IO thread holds was not answered and is not queued, and its
\* main frame is not in a browser that was asked already, unless the stack that
\* put it there waits for browser_info_lock_.
LookUpFits == io # Free =>
  /\ io.of \in Frames /\ asked[io.of] = "waiting"
  /\ ran[io.of] = 0 /\ reply[io.of] = None /\ io.of \notin pending
  /\ io.of \in Mains /\ Found(io.of) /\ BrowserOf[io.of] \notin io.left =>
       ui = [at |-> "main", of |-> io.of]

RequestInv ==
  /\ UnheardIsUntouched
  /\ AnsweredOnce
  /\ WaitingHasTimer
  /\ KnownIsLive
  /\ MainIsNotExcluded
  /\ MainFrameIsAnswered
  /\ LookUpFits
  /\ AnswersAreTrue

RegistryInv == TypeOK /\ PopupInv /\ RequestInv

-----------------------------------------------------------------------------
(* Lists of one element *)

LEMMA OneElement ==
  ASSUME NEW x
  PROVE  /\ Len(<<x>>) = 1 /\ <<x>>[1] = x /\ DOMAIN <<x>> = {1}
         /\ RemoveAt(<<x>>, 1) = <<>>
         /\ Append(<<>>, x) = <<x>>
<1>1. Len(<<x>>) = 1 /\ <<x>>[1] = x /\ DOMAIN <<x>> = {1}
  OBVIOUS
<1>2. RemoveAt(<<x>>, 1) = <<>>
  BY DEF RemoveAt
<1>3. Append(<<>>, x) = <<x>>
  OBVIOUS
<1> QED
  BY <1>1, <1>2, <1>3

\* The list of one popup has the type of a list of popups.
LEMMA OnlyType ==
  ASSUME NEW step \in {"CanCreateWindow", "GetCustomWebContentsView",
                       "WebContentsCreated"},
         NEW b \in Popups
  PROVE  Only(step, b) \in Seq(PendingPopup)
<1>1. [step |-> step, popup |-> b] \in PendingPopup
  BY DEF PendingPopup
<1> QED
  BY <1>1 DEF Only

\* Pushing to the empty list, and removing from a list of one.
LEMMA PushAndPop ==
  ASSUME NEW step, NEW b
  PROVE  /\ Push(<<>>, step, b) = Only(step, b)
         /\ RemoveAt(Only(step, b), 1) = <<>>
         /\ DOMAIN Only(step, b) = {1}
         /\ Only(step, b)[1].step = step
         /\ Only(step, b)[1].popup = b
BY OneElement DEF Push, Only

-----------------------------------------------------------------------------
(* Popups in creation *)

\* A step that leaves the popups and the place of the UI thread alone.
LEMMA PopupsUnchanged ==
  ASSUME PopupInv, UNCHANGED <<popupVars, ui>>
  PROVE  PopupInv'
BY DEF PopupInv, StackInv, PopupsAreTold, popupVars

\* A step that moves the UI thread between its idle place and a main frame.
LEMMA NoPopupInStack ==
  ASSUME PopupInv, UNCHANGED popupVars,
         ui.at \in {"idle", "main"}, ui'.at \in {"idle", "main"}
  PROVE  PopupInv'
BY DEF PopupInv, StackInv, PopupsAreTold, popupVars

\* Each step of the stack that makes a popup finds that popup in the list.
LEMMA PopupStep ==
  ASSUME TypeOK, PopupInv, NEW b \in Popups,
         \/ CanCreateWindow(b) \/ CreateWindowResult(b)
         \/ GetCustomWebContentsView(b) \/ WebContentsCreated(b)
         \/ ListPopup(b) \/ ContinuePopup(b)
         \/ OnAfterCreated(b) \/ AddWebContents(b)
  PROVE  /\ PopupInv'
         /\ popups' \in Seq(PendingPopup)
         /\ creating' \in Popups \cup {None}
         /\ outcome' \in [Popups -> {"none", "allowed", "created", "aborted", "wrong"}]
         /\ ui' \in Stack
<1> USE PushAndPop, OnlyType DEF PopupInv, StackInv, PopupsAreTold
<1>n. b # None /\ b \in Browsers /\ <<>> \in Seq(PendingPopup)
  BY RegistryAssumption
<1>0. /\ popups \in Seq(PendingPopup)
      /\ creating \in Popups \cup {None}
      /\ outcome \in [Popups -> {"none", "allowed", "created", "aborted", "wrong"}]
      /\ AlloyPopups \subseteq Popups
  BY RegistryAssumption DEF TypeOK
<1>s. \A at \in {"allowed", "view", "contents", "listed", "after", "add"} :
        [at |-> at, of |-> b] \in Stack /\ Idle \in Stack
  BY DEF Stack, Idle
<1>1. CASE CanCreateWindow(b)
  <2>1. /\ popups' = Only("CanCreateWindow", b) /\ creating' = b
        /\ ui' = [at |-> "allowed", of |-> b] /\ ui = Idle
        /\ outcome' = [outcome EXCEPT ![b] = "allowed"]
    BY <1>1 DEF CanCreateWindow, Idle
  <2>2. \A c \in Popups : c # None /\ outcome[c] \notin {"wrong", "allowed"}
    BY <2>1, RegistryAssumption DEF Idle
  <2>3. outcome' \in [Popups -> {"none", "allowed", "created", "aborted", "wrong"}]
    BY <2>1, <1>0
  <2>4. PopupsAreTold' /\ outcome'[b] = "allowed"
    BY <2>1, <2>2, <1>0
  <2>5. StackInv'
    BY <2>1, <2>4
  <2> QED
    BY <2>1, <2>3, <2>4, <2>5, <1>n, <1>s
<1>2. CASE CreateWindowResult(b)
  <2>1. /\ ui.of = b /\ creating = b /\ outcome[b] = "allowed"
        /\ popups \in {Only("CanCreateWindow", b), Only("GetCustomWebContentsView", b)}
    BY <1>2 DEF CreateWindowResult
  <2>2. /\ popups' = <<>> /\ creating' = None /\ ui' = Idle
        /\ outcome' = [outcome EXCEPT ![b] = "aborted"]
    BY <1>2, <2>1 DEF CreateWindowResult, AbortOf
  <2> QED
    BY <2>1, <2>2, <1>n, <1>0, <1>s DEF Idle
<1>3. CASE GetCustomWebContentsView(b)
  <2>1. /\ ui = [at |-> "allowed", of |-> b] /\ b \in AlloyPopups
        /\ popups = Only("CanCreateWindow", b) /\ creating = b
    BY <1>3 DEF GetCustomWebContentsView
  <2>2. /\ popups' = Only("GetCustomWebContentsView", b)
        /\ ui' = [at |-> "view", of |-> b] /\ UNCHANGED <<creating, outcome>>
    BY <1>3, <2>1 DEF GetCustomWebContentsView, IsNext
  <2> QED
    BY <2>1, <2>2, <1>n, <1>0, <1>s
<1>4. CASE WebContentsCreated(b)
  <2>1. /\ ui.of = b /\ outcome[b] = "allowed" /\ (ui.at = "view" <=> b \in AlloyPopups)
        /\ popups = IF b \in AlloyPopups THEN Only("GetCustomWebContentsView", b)
                                         ELSE Only("CanCreateWindow", b)
    BY <1>4 DEF WebContentsCreated
  <2>2. /\ popups' = IF b \in AlloyPopups THEN <<>> ELSE Only("WebContentsCreated", b)
        /\ outcome' = outcome /\ creating' = None
        /\ ui' = [at |-> "contents", of |-> b]
    BY <1>4, <2>1 DEF WebContentsCreated, IsNext
  <2> QED
    BY <2>1, <2>2, <1>n, <1>0, <1>s
<1>5. CASE ListPopup(b)
  BY <1>5, <1>n, <1>0, <1>s DEF ListPopup, popupVars
<1>6. CASE ContinuePopup(b)
  BY <1>6, <1>n, <1>0, <1>s DEF ContinuePopup, popupVars
<1>7. CASE OnAfterCreated(b)
  <2>1. ui = [at |-> "after", of |-> b] /\ outcome[b] = "allowed"
    BY <1>7 DEF OnAfterCreated
  <2>2. /\ outcome' = [outcome EXCEPT ![b] = "created"]
        /\ ui' = IF b \in AlloyPopups THEN Idle ELSE [at |-> "add", of |-> b]
        /\ UNCHANGED <<popups, creating>>
    BY <1>7, <2>1, <1>0 DEF OnAfterCreated
  <2>3. outcome' \in [Popups -> {"none", "allowed", "created", "aborted", "wrong"}]
    BY <2>2, <1>0
  <2>4. PopupsAreTold' /\ outcome'[b] = "created"
    BY <2>1, <2>2, <1>0
  <2>5. StackInv'
    BY <2>1, <2>2, <2>4 DEF Idle
  <2>6. ui' \in Stack
    BY <2>2 DEF Stack, Idle
  <2>7. popups' \in Seq(PendingPopup) /\ creating' \in Popups \cup {None}
    BY <2>2, <1>0
  <2> QED
    BY <2>3, <2>4, <2>5, <2>6, <2>7
<1>8. CASE AddWebContents(b)
  <2>1. /\ ui = [at |-> "add", of |-> b] /\ popups = Only("WebContentsCreated", b)
        /\ b \notin AlloyPopups
    BY <1>8 DEF AddWebContents
  <2>2. popups' = <<>> /\ ui' = Idle /\ UNCHANGED <<creating, outcome>>
    BY <1>8, <2>1 DEF AddWebContents, IsNext
  <2> QED
    BY <2>1, <2>2, <1>n, <1>0, <1>s DEF Idle
<1> QED
  BY <1>1, <1>2, <1>3, <1>4, <1>5, <1>6, <1>7, <1>8

-----------------------------------------------------------------------------
(* Requests *)

\* A step that answers no request, reports no frame and lists no browser.
LEMMA RequestsUnchanged ==
  ASSUME RequestInv, UNCHANGED <<asked, requestVars, host, io>>,
         known' = known, listed' = listed, ui.at \notin {"main", "listed"},
         MainIsNotExcluded'
  PROVE  RequestInv'
BY DEF RequestInv, UnheardIsUntouched, AnsweredOnce, WaitingHasTimer,
       KnownIsLive, MainFrameIsAnswered, LookUpFits, AnswersAreTrue, Found, requestVars

\* The types of a request's variables, and of the rest.
RequestType ==
  /\ pending \subseteq Frames
  /\ timers \subseteq Frames
  /\ checks \subseteq Frames
  /\ reply \in [Frames -> Answers \cup {None}]
  /\ ran \in [Frames -> Nat]

BrowserType ==
  /\ alive \subseteq Procs
  /\ asked \in [Frames -> {"no", "sent", "waiting", "told"}]
  /\ host \in [Frames -> {"none", "live", "gone"}]
  /\ listed \subseteq Browsers
  /\ known \subseteq Frames \ Excluded
  /\ io \in [of : Frames \cup {None}, left : SUBSET Browsers]

PopupType ==
  /\ popups \in Seq(PendingPopup)
  /\ creating \in Popups \cup {None}
  /\ outcome \in [Popups -> {"none", "allowed", "created", "aborted", "wrong"}]
  /\ ui \in Stack

LEMMA TypeParts == TypeOK <=> RequestType /\ BrowserType /\ PopupType
BY DEF TypeOK, RequestType, BrowserType, PopupType

LEMMA AnswerTypes ==
  /\ NoInfo \in Answers
  /\ \A b \in Browsers : InfoFor(b) \in Answers /\ ExcludedOf(b) \in Answers
  /\ None \notin Answers
BY RegistryAssumption DEF Answers, NoInfo, InfoFor, ExcludedOf

\* The answer tells what is true of the frame.
IsTrueOf(info, f) ==
  \/ info = NoInfo
  \/ info = IF f \in Excluded THEN ExcludedOf(BrowserOf[f]) ELSE InfoFor(BrowserOf[f])

\* Erasing queued requests and running their callbacks answers each once.
LEMMA RespondAnswers ==
  ASSUME TypeOK, RequestInv, NEW F \in SUBSET pending, NEW info \in Answers,
         \A f \in F : IsTrueOf(info, f),
         Respond(F, info), asked' = asked, io = Free, io' = Free
  PROVE  /\ RequestType' /\ LookUpFits'
         /\ UnheardIsUntouched' /\ AnsweredOnce' /\ WaitingHasTimer' /\ AnswersAreTrue'
         /\ pending' = pending \ F
<1>0. /\ pending' = pending \ F /\ timers' = timers \ F /\ checks' = checks \ F
      /\ reply' = [f \in Frames |-> IF f \in F THEN info ELSE reply[f]]
      /\ ran' = [f \in Frames |-> IF f \in F THEN ran[f] + 1 ELSE ran[f]]
  BY DEF Respond
<1>1. RequestType /\ F \subseteq Frames /\ info # None
  BY AnswerTypes, TypeParts DEF RequestType
<1>2. /\ \A f \in F : reply'[f] = info /\ ran'[f] = ran[f] + 1
      /\ \A f \in Frames \ F : reply'[f] = reply[f] /\ ran'[f] = ran[f]
  BY <1>0, <1>1
<1>3. RequestType'
  <2>1. ran' \in [Frames -> Nat]
    BY <1>0, <1>1 DEF RequestType
  <2>2. reply' \in [Frames -> Answers \cup {None}]
    BY <1>0, <1>1 DEF RequestType
  <2> QED
    BY <1>0, <1>1, <2>1, <2>2 DEF RequestType
<1>4. UnheardIsUntouched'
  BY <1>0, <1>1, <1>2 DEF RequestInv, UnheardIsUntouched
<1>5. AnsweredOnce'
  BY <1>0, <1>1, <1>2 DEF RequestInv, AnsweredOnce, RequestType
<1>6. WaitingHasTimer'
  BY <1>0, <1>1, <1>2 DEF RequestInv, WaitingHasTimer
<1>7. AnswersAreTrue'
  BY <1>0, <1>1, <1>2 DEF RequestInv, AnswersAreTrue, IsTrueOf
<1> QED
  BY <1>0, <1>3, <1>4, <1>5, <1>6, <1>7 DEF LookUpFits

\* MainFrameIsAnswered after an answer outside of a popup's stack: what stays
\* queued was queued before, and the maps did not change.
LEMMA AnswerKeepsMainFrames ==
  ASSUME RequestInv, UNCHANGED <<browserVars, ui>>, pending' \subseteq pending
  PROVE  KnownIsLive' /\ MainIsNotExcluded' /\ MainFrameIsAnswered'
BY DEF RequestInv, KnownIsLive, MainIsNotExcluded, MainFrameIsAnswered, Found, browserVars

\* A renderer asks, or hears its answer.
LEMMA RendererStep ==
  ASSUME RegistryInv, NEW f \in Frames, AskForBrowser(f) \/ MaybeCreateBrowser(f)
  PROVE  RegistryInv'
<1>1. /\ asked' \in [Frames -> {"no", "sent", "waiting", "told"}]
      /\ UNCHANGED <<alive, browserVars, requestVars, popupVars, io, ui>>
      /\ \A g \in Frames \ {f} : asked'[g] = asked[g]
      /\ \/ asked[f] = "no" /\ asked'[f] = "sent"
         \/ asked'[f] = "told" /\ reply[f] # None
  BY DEF RegistryInv, TypeOK, AskForBrowser, MaybeCreateBrowser
<1>2. TypeOK'
  BY <1>1 DEF RegistryInv, TypeOK, browserVars, requestVars, popupVars
<1>3. PopupInv'
  BY <1>1, PopupsUnchanged DEF RegistryInv
<1>4. UnheardIsUntouched' /\ WaitingHasTimer'
  BY <1>1 DEF RegistryInv, RequestInv, UnheardIsUntouched, WaitingHasTimer, requestVars
<1>5. AnsweredOnce' /\ AnswersAreTrue'
  BY <1>1 DEF RegistryInv, RequestInv, AnsweredOnce, AnswersAreTrue, requestVars
<1>6. KnownIsLive' /\ MainIsNotExcluded' /\ MainFrameIsAnswered'
  BY <1>1, AnswerKeepsMainFrames DEF RegistryInv, requestVars
<1>7. LookUpFits'
  BY <1>1 DEF RegistryInv, RequestInv, LookUpFits, Found, browserVars, requestVars
<1> QED
  BY <1>2, <1>3, <1>4, <1>5, <1>6, <1>7 DEF RegistryInv, RequestInv

\* A step of the IO thread leaves the browsers and the UI thread alone.
LEMMA IOSteps ==
  ASSUME RegistryInv, UNCHANGED <<alive, browserVars, popupVars, ui>>
  PROVE  PopupType' /\ PopupInv' /\ KnownIsLive' /\ MainIsNotExcluded'
<1>1. PopupType' /\ PopupInv'
  BY TypeParts, PopupsUnchanged DEF RegistryInv, PopupType, popupVars
<1> QED
  BY <1>1 DEF RegistryInv, RequestInv, KnownIsLive, MainIsNotExcluded, browserVars

\* The IO thread receives a request and takes the lock.
LEMMA ReceiveStep ==
  ASSUME RegistryInv, NEW f \in Frames, OnGetNewBrowserInfo(f)
  PROVE  RegistryInv'
<1> USE DEF RegistryInv
<1>0. /\ asked[f] = "sent" /\ asked' = [asked EXCEPT ![f] = "waiting"]
      /\ io = Free /\ io' = [of |-> f, left |-> listed]
      /\ UNCHANGED <<alive, browserVars, requestVars, popupVars, ui>>
  BY DEF OnGetNewBrowserInfo
<1>1. ran[f] = 0 /\ f \notin pending /\ reply[f] = None
  BY <1>0 DEF RequestInv, UnheardIsUntouched
<1>2. BrowserType /\ RequestType
  BY TypeParts
<1>3. asked'[f] = "waiting" /\ \A g \in Frames \ {f} : asked'[g] = asked[g]
  BY <1>0, <1>2 DEF BrowserType
<1>4. BrowserType' /\ RequestType'
  BY <1>0, <1>2 DEF BrowserType, RequestType, browserVars, requestVars
<1>5. PopupType' /\ PopupInv' /\ KnownIsLive' /\ MainIsNotExcluded'
  BY <1>0, IOSteps
<1>6. UnheardIsUntouched' /\ AnsweredOnce' /\ AnswersAreTrue'
  BY <1>0, <1>3 DEF RequestInv, UnheardIsUntouched, AnsweredOnce, AnswersAreTrue, requestVars
<1>7. WaitingHasTimer'
  <2> SUFFICES ASSUME NEW g \in Frames, asked'[g] = "waiting", reply[g] = None
               PROVE  g \in pending \cap timers \/ g = f
    BY <1>0 DEF WaitingHasTimer, requestVars
  <2>1. io.of \notin Frames
    BY <1>0, RegistryAssumption DEF Free
  <2> QED
    BY <1>3, <2>1 DEF RequestInv, WaitingHasTimer
<1>8. LookUpFits'
  BY <1>0, <1>1, <1>3 DEF LookUpFits, Found, browserVars, requestVars
<1>9. MainFrameIsAnswered'
  BY <1>0 DEF RequestInv, MainFrameIsAnswered, Found, browserVars, requestVars
<1> QED
  BY <1>4, <1>5, <1>6, <1>7, <1>8, <1>9, TypeParts DEF RequestInv, TypeOK, RequestType,
     BrowserType, PopupType

\* One browser more is asked; the answer of one that knows the frame is true.
LEMMA LookUpStep ==
  ASSUME RegistryInv, NEW b \in Browsers, LookUp(b)
  PROVE  RegistryInv'
<1> USE DEF RegistryInv
<1> DEFINE f == io.of
<1>0. /\ b \in io.left /\ ~Locked(b) /\ io # Free
      /\ UNCHANGED <<alive, asked, browserVars, pending, timers, checks, popupVars, ui>>
  BY DEF LookUp, Free, rendererVars
<1>1. /\ f \in Frames /\ asked[f] = "waiting" /\ ran[f] = 0 /\ reply[f] = None
      /\ f \notin pending
      /\ f \in Mains /\ Found(f) /\ BrowserOf[f] \notin io.left => ui = [at |-> "main", of |-> f]
  BY <1>0 DEF RequestInv, LookUpFits
<1>2. BrowserType /\ RequestType
  BY TypeParts
<1>3. PopupType' /\ PopupInv' /\ KnownIsLive' /\ MainIsNotExcluded'
  BY <1>0, IOSteps
<1>4. MainFrameIsAnswered'
  BY <1>0 DEF RequestInv, MainFrameIsAnswered, Found, browserVars
<1>5. CASE f \in known /\ BrowserOf[f] = b /\ io' = Free
           /\ reply' = [reply EXCEPT ![f] = InfoFor(b)] /\ ran' = [ran EXCEPT ![f] = @ + 1]
  <2>1. /\ reply'[f] = InfoFor(b) /\ ran'[f] = 1
        /\ \A g \in Frames \ {f} : reply'[g] = reply[g] /\ ran'[g] = ran[g]
    BY <1>1, <1>2, <1>5 DEF RequestType
  <2>2. f \notin Excluded /\ InfoFor(b) \in Answers /\ InfoFor(b) # None
    BY <1>2, <1>5, AnswerTypes DEF BrowserType
  <2>3. RequestType'
    BY <1>0, <1>1, <1>2, <1>5, <2>2 DEF RequestType
  <2>4. BrowserType'
    BY <1>0, <1>2, <1>5 DEF BrowserType, browserVars, Free
  <2>5. UnheardIsUntouched' /\ AnsweredOnce'
    BY <1>0, <1>1, <2>1 DEF RequestInv, UnheardIsUntouched, AnsweredOnce
  <2>6. WaitingHasTimer' /\ AnswersAreTrue' /\ LookUpFits'
    BY <1>0, <1>5, <2>1, <2>2 DEF RequestInv, WaitingHasTimer, AnswersAreTrue, LookUpFits
  <2> QED
    BY <1>3, <1>4, <2>3, <2>4, <2>5, <2>6, TypeParts DEF RequestInv, TypeOK, RequestType,
       BrowserType, PopupType
<1>6. CASE ~(f \in known /\ BrowserOf[f] = b) /\ io' = [io EXCEPT !.left = @ \ {b}]
           /\ UNCHANGED <<reply, ran>>
  <2>1. io'.of = f /\ io'.left = io.left \ {b}
    BY <1>2, <1>6 DEF BrowserType
  <2>2. RequestType' /\ BrowserType'
    BY <1>0, <1>2, <1>6 DEF RequestType, BrowserType, browserVars
  <2>3. UnheardIsUntouched' /\ AnsweredOnce' /\ WaitingHasTimer' /\ AnswersAreTrue'
    BY <1>0, <1>6, <2>1 DEF RequestInv, UnheardIsUntouched, AnsweredOnce, WaitingHasTimer,
       AnswersAreTrue
  <2>4. LookUpFits'
    BY <1>0, <1>1, <1>6, <2>1 DEF LookUpFits, Found, browserVars
  <2> QED
    BY <1>3, <1>4, <2>2, <2>3, <2>4, TypeParts DEF RequestInv, TypeOK, RequestType,
       BrowserType, PopupType
<1> QED
  BY <1>5, <1>6 DEF LookUp

\* No browser knew the frame: one that was asked too early reports it yet.
LEMMA QueueStep ==
  ASSUME RegistryInv, Queue
  PROVE  RegistryInv'
<1> USE DEF RegistryInv
<1> DEFINE f == io.of
<1>0. /\ io # Free /\ io.left = {} /\ io' = Free
      /\ pending' = pending \cup {f} /\ timers' = timers \cup {f} /\ checks' = checks \cup {f}
      /\ UNCHANGED <<alive, asked, browserVars, reply, ran, popupVars, ui>>
  BY DEF Queue, rendererVars
<1>1. /\ f \in Frames /\ asked[f] = "waiting" /\ ran[f] = 0 /\ reply[f] = None
      /\ f \in Mains /\ Found(f) => ui = [at |-> "main", of |-> f]
  BY <1>0 DEF RequestInv, LookUpFits
<1>2. BrowserType /\ RequestType
  BY TypeParts
<1>3. PopupType' /\ PopupInv' /\ KnownIsLive' /\ MainIsNotExcluded'
  BY <1>0, IOSteps
<1>4. BrowserType' /\ RequestType'
  BY <1>0, <1>1, <1>2 DEF BrowserType, RequestType, browserVars, Free
<1>5. UnheardIsUntouched' /\ AnsweredOnce' /\ AnswersAreTrue' /\ LookUpFits'
  BY <1>0, <1>1 DEF RequestInv, UnheardIsUntouched, AnsweredOnce, AnswersAreTrue, LookUpFits
<1>6. WaitingHasTimer'
  BY <1>0 DEF RequestInv, WaitingHasTimer
<1>7. MainFrameIsAnswered'
  BY <1>0, <1>1 DEF RequestInv, MainFrameIsAnswered, Found, browserVars
<1> QED
  BY <1>3, <1>4, <1>5, <1>6, <1>7, TypeParts DEF RequestInv, TypeOK, RequestType,
     BrowserType, PopupType

\* An answer outside of a popup's stack keeps the invariant.
LEMMA AnswerStep ==
  ASSUME RegistryInv, NEW F \in SUBSET pending, NEW info \in Answers,
         \A f \in F : IsTrueOf(info, f),
         Respond(F, info), UNCHANGED <<rendererVars, browserVars, popupVars, io, ui>>,
         io = Free
  PROVE  RegistryInv'
<1>1. /\ RequestType' /\ pending' = pending \ F /\ LookUpFits'
      /\ UnheardIsUntouched' /\ AnsweredOnce' /\ WaitingHasTimer' /\ AnswersAreTrue'
  BY RespondAnswers DEF RegistryInv, rendererVars
<1>2. BrowserType' /\ PopupType'
  BY TypeParts DEF RegistryInv, BrowserType, PopupType, rendererVars, browserVars, popupVars
<1>3. PopupInv'
  BY PopupsUnchanged DEF RegistryInv
<1>4. KnownIsLive' /\ MainIsNotExcluded' /\ MainFrameIsAnswered'
  BY <1>1, AnswerKeepsMainFrames DEF RegistryInv
<1> QED
  BY <1>1, <1>2, <1>3, <1>4 DEF RegistryInv, RequestInv,
     TypeOK, RequestType, BrowserType, PopupType

\* The timer, the check for excluded content, and the end of a process.
LEMMA TaskStep ==
  ASSUME RegistryInv, NEW f \in Frames, CheckExcluded(f) \/ Timeout(f)
  PROVE  RegistryInv'
<1>1. BrowserOf[f] \in Browsers
  BY RegistryAssumption
<1>2. CASE Timeout(f)
  <2>1. \A g \in {f} \cap pending : IsTrueOf(NoInfo, g)
    BY DEF IsTrueOf
  <2> QED
    BY <1>2, <2>1, AnswerTypes, AnswerStep DEF Timeout
<1>3. CASE CheckExcluded(f) /\ ContinueNewBrowserInfo(f, ExcludedOf(BrowserOf[f]))
           /\ f \in Excluded
  <2>1. \A g \in {f} \cap pending : IsTrueOf(ExcludedOf(BrowserOf[f]), g)
    BY <1>3 DEF IsTrueOf
  <2> QED
    BY <1>1, <1>3, <2>1, AnswerTypes, AnswerStep DEF CheckExcluded, ContinueNewBrowserInfo
<1>4. CASE CheckExcluded(f) /\ checks' = checks \ {f}
           /\ UNCHANGED <<pending, timers, reply, ran>>
  <2>1. UNCHANGED <<rendererVars, browserVars, popupVars, io, ui>>
    BY <1>4 DEF CheckExcluded
  <2>2. TypeOK'
    BY <1>4, <2>1 DEF RegistryInv, TypeOK, rendererVars, browserVars, popupVars
  <2>3. PopupInv'
    BY <2>1, PopupsUnchanged DEF RegistryInv
  <2>4. /\ UnheardIsUntouched' /\ AnsweredOnce' /\ WaitingHasTimer' /\ AnswersAreTrue'
        /\ LookUpFits'
    BY <1>4, <2>1 DEF RegistryInv, RequestInv, UnheardIsUntouched, AnsweredOnce,
       WaitingHasTimer, AnswersAreTrue, LookUpFits, Found, rendererVars, browserVars
  <2>5. KnownIsLive' /\ MainIsNotExcluded' /\ MainFrameIsAnswered'
    BY <1>4, <2>1, AnswerKeepsMainFrames DEF RegistryInv
  <2> QED
    BY <2>2, <2>3, <2>4, <2>5 DEF RegistryInv, RequestInv
<1> QED
  BY <1>2, <1>3, <1>4 DEF CheckExcluded

LEMMA ProcessEndStep ==
  ASSUME RegistryInv, NEW p \in Procs, RenderProcessHostDestroyed(p)
  PROVE  RegistryInv'
<1>1. \A g \in {f \in pending : ProcOf[f] = p} : IsTrueOf(NoInfo, g)
  BY DEF IsTrueOf
<1> QED
  BY <1>1, AnswerTypes, AnswerStep DEF RenderProcessHostDestroyed

-----------------------------------------------------------------------------
(* Browsers, frames and stacks of the UI thread *)

\* Content changes hosts, frames and the list of browsers while no stack runs.
LEMMA ContentStep ==
  ASSUME RegistryInv, ui = Idle,
         \/ \E b \in Browsers : CreateBrowserInfo(b) \/ RemoveBrowserInfo(b)
         \/ \E f \in Frames : HostCreated(f) \/ MaybeCreateFrame(f) \/ FrameDeleted(f)
         \/ \E p \in Procs : ProcessGone(p)
  PROVE  RegistryInv'
<1> USE DEF RegistryInv
<1>1. UNCHANGED <<asked, requestVars, popupVars, io>>
  BY DEF CreateBrowserInfo, RemoveBrowserInfo, HostCreated, MaybeCreateFrame,
     FrameDeleted, ProcessGone, rendererVars
<1>2. \/ ui' = Idle
      \/ \E f \in Mains \ Excluded : MaybeCreateFrame(f) /\ ui' = [at |-> "main", of |-> f]
  BY DEF CreateBrowserInfo, RemoveBrowserInfo, HostCreated, MaybeCreateFrame,
     FrameDeleted, ProcessGone
<1>3. PopupInv'
  BY <1>1, <1>2, NoPopupInStack DEF Idle
<1>4. RequestType'
  BY <1>1, TypeParts DEF RequestType, requestVars
<1>5. PopupType'
  BY <1>1, <1>2, TypeParts DEF PopupType, popupVars, Stack, Idle
<1>6. BrowserType'
  <2>0. BrowserType /\ Mains \subseteq Frames
    BY TypeParts DEF Frames
  <2>1. ASSUME NEW b \in Browsers, CreateBrowserInfo(b) \/ RemoveBrowserInfo(b)
        PROVE  BrowserType'
    BY <2>0, <2>1 DEF BrowserType, CreateBrowserInfo, RemoveBrowserInfo, rendererVars
  <2>2. ASSUME NEW f \in Frames, HostCreated(f) \/ MaybeCreateFrame(f) \/ FrameDeleted(f)
        PROVE  BrowserType'
    BY <2>0, <2>2 DEF BrowserType, HostCreated, MaybeCreateFrame, FrameDeleted, rendererVars
  <2>3. ASSUME NEW p \in Procs, ProcessGone(p)
        PROVE  BrowserType'
    BY <2>0, <2>3 DEF BrowserType, ProcessGone
  <2> QED
    BY <2>1, <2>2, <2>3
<1>7. UnheardIsUntouched' /\ AnsweredOnce' /\ WaitingHasTimer' /\ AnswersAreTrue'
  BY <1>1 DEF RequestInv, UnheardIsUntouched, AnsweredOnce, WaitingHasTimer,
     AnswersAreTrue, requestVars
<1>m. MainIsNotExcluded'
  BY <1>2 DEF MainIsNotExcluded, Idle
<1>l. LookUpFits'
  <2>1. CASE io = Free
    BY <1>1, <2>1 DEF LookUpFits
  <2>2. ASSUME io # Free PROVE LookUpFits'
    <3>1. listed' = listed /\ io.of \in Frames
      BY <2>2 DEF RequestInv, LookUpFits, CreateBrowserInfo, RemoveBrowserInfo, HostCreated,
         MaybeCreateFrame, FrameDeleted, ProcessGone
    <3>2. \/ known' \subseteq known
          \/ \E f \in Frames : known' = known \cup {f}
                /\ (f \in Mains => ui' = [at |-> "main", of |-> f])
      BY <2>2 DEF CreateBrowserInfo, RemoveBrowserInfo, HostCreated, MaybeCreateFrame,
         FrameDeleted, ProcessGone
    <3>3. ~(io.of \in Mains /\ Found(io.of) /\ BrowserOf[io.of] \notin io.left)
      BY <2>2 DEF RequestInv, LookUpFits, Idle
    <3>4. io.of \in Mains /\ Found(io.of)' /\ BrowserOf[io.of] \notin io.left =>
            ui' = [at |-> "main", of |-> io.of]
      BY <1>1, <3>1, <3>2, <3>3 DEF Found
    <3> QED
      BY <1>1, <2>2, <3>4 DEF RequestInv, LookUpFits, requestVars
  <2> QED
    BY <2>1, <2>2
<1>8. KnownIsLive'
  BY TypeParts DEF RequestInv, KnownIsLive, BrowserType, CreateBrowserInfo,
     RemoveBrowserInfo, HostCreated, MaybeCreateFrame, FrameDeleted, ProcessGone
<1>9. MainFrameIsAnswered'
  <2>0. \A f \in Mains : f \in pending => ~Found(f)
    BY DEF RequestInv, MainFrameIsAnswered, Idle
  <2>1. pending' = pending
    BY <1>1 DEF requestVars
  <2>2. ASSUME NEW b \in Browsers, CreateBrowserInfo(b), NEW f \in Mains, f \in pending
        PROVE  ~Found(f)'
    <3>1. f \in known => BrowserOf[f] # b
      BY <2>2 DEF CreateBrowserInfo, OfBrowser, RequestInv, KnownIsLive, Frames
    <3> QED
      BY <2>0, <2>2, <3>1 DEF CreateBrowserInfo, Found
  <2>3. ASSUME NEW f \in Frames, MaybeCreateFrame(f), NEW g \in Mains, g \in pending, Found(g)'
        PROVE  ui' = [at |-> "main", of |-> g]
    BY <2>0, <2>3 DEF MaybeCreateFrame, Found
  <2>4. CASE listed' \subseteq listed /\ known' \subseteq known
    BY <2>0, <2>1, <2>4 DEF MainFrameIsAnswered, Found
  <2> QED
    BY <2>1, <2>2, <2>3, <2>4 DEF CreateBrowserInfo, RemoveBrowserInfo, HostCreated,
       MaybeCreateFrame, FrameDeleted, ProcessGone, MainFrameIsAnswered
<1> QED
  BY <1>3, <1>4, <1>5, <1>6, <1>7, <1>m, <1>l, <1>8, <1>9 DEF RequestInv,
     TypeOK, RequestType, BrowserType, PopupType

\* The rest of a stack of the UI thread.
LEMMA MainFrameStep ==
  ASSUME RegistryInv, NEW f \in Mains, OnMainFrameCreated(f)
  PROVE  RegistryInv'
<1> USE DEF RegistryInv
<1>0. /\ ui = [at |-> "main", of |-> f] /\ ui' = Idle
      /\ Respond({f} \cap pending, InfoFor(BrowserOf[f]))
      /\ io = Free
      /\ UNCHANGED <<rendererVars, browserVars, popupVars, io>>
  BY DEF OnMainFrameCreated, ContinueNewBrowserInfo
<1>1. f \in Frames /\ BrowserOf[f] \in Browsers
  BY RegistryAssumption DEF Frames
<1>2. PopupInv'
  BY <1>0, NoPopupInStack DEF Idle
<1>3. f \notin Excluded
  BY <1>0 DEF RequestInv, MainIsNotExcluded
<1>4. \A g \in {f} \cap pending : IsTrueOf(InfoFor(BrowserOf[f]), g)
  BY <1>3 DEF IsTrueOf
<1>5. /\ RequestType' /\ pending' = pending \ {f} /\ LookUpFits'
      /\ UnheardIsUntouched' /\ AnsweredOnce' /\ WaitingHasTimer' /\ AnswersAreTrue'
  BY <1>0, <1>1, <1>4, AnswerTypes, RespondAnswers DEF rendererVars
<1>6. BrowserType' /\ PopupType'
  BY <1>0, TypeParts DEF BrowserType, PopupType, rendererVars, browserVars,
     popupVars, Stack, Idle
<1>7. KnownIsLive' /\ MainIsNotExcluded'
  BY <1>0 DEF RequestInv, KnownIsLive, MainIsNotExcluded, browserVars, Idle
<1>8. MainFrameIsAnswered'
  BY <1>0, <1>5 DEF RequestInv, MainFrameIsAnswered, Found, browserVars
<1> QED
  BY <1>2, <1>5, <1>6, <1>7, <1>8 DEF RequestInv, TypeOK, RequestType, BrowserType, PopupType

LEMMA PopupRequests ==
  ASSUME RegistryInv, NEW b \in Popups,
         \/ CanCreateWindow(b) \/ CreateWindowResult(b)
         \/ GetCustomWebContentsView(b) \/ WebContentsCreated(b)
         \/ ListPopup(b) \/ ContinuePopup(b)
         \/ OnAfterCreated(b) \/ AddWebContents(b)
  PROVE  RequestType' /\ BrowserType' /\ RequestInv'
<1> USE DEF RegistryInv
<1>0. RequestType /\ BrowserType /\ Popups \subseteq Browsers
  BY TypeParts, RegistryAssumption
<1>m. MainIsNotExcluded'
  BY DEF MainIsNotExcluded, Idle, CanCreateWindow, CreateWindowResult,
     GetCustomWebContentsView, WebContentsCreated, ListPopup, ContinuePopup,
     OnAfterCreated, AddWebContents
<1>1. CASE \/ CanCreateWindow(b) \/ CreateWindowResult(b)
           \/ GetCustomWebContentsView(b) \/ OnAfterCreated(b) \/ AddWebContents(b)
  <2>1. /\ UNCHANGED <<rendererVars, browserVars, requestVars, io>>
        /\ ui.at \notin {"main", "listed"}
    BY <1>1 DEF CanCreateWindow, CreateWindowResult, GetCustomWebContentsView,
       OnAfterCreated, AddWebContents, Idle
  <2>2. RequestType' /\ BrowserType'
    BY <1>0, <2>1 DEF RequestType, BrowserType, rendererVars, browserVars, requestVars
  <2> QED
    BY <1>m, <2>1, <2>2, RequestsUnchanged DEF rendererVars, browserVars
<1>2. CASE WebContentsCreated(b)
  <2>1. /\ UNCHANGED <<rendererVars, listed, known, requestVars, io>>
        /\ ui.at \notin {"main", "listed"}
        /\ host' = [f \in Frames |-> IF f \in Mains \cap OfBrowser(b)
                                     THEN "live" ELSE host[f]]
    BY <1>2 DEF WebContentsCreated
  <2>2. RequestType' /\ BrowserType'
    BY <1>0, <2>1 DEF RequestType, BrowserType, rendererVars, requestVars
  <2>3. KnownIsLive'
    BY <1>0, <2>1 DEF RequestInv, KnownIsLive, BrowserType
  <2>4. MainFrameIsAnswered'
    BY <2>1 DEF RequestInv, MainFrameIsAnswered, Found, requestVars
  <2>5. /\ UnheardIsUntouched' /\ AnsweredOnce' /\ WaitingHasTimer' /\ AnswersAreTrue'
        /\ LookUpFits'
    BY <2>1 DEF RequestInv, UnheardIsUntouched, AnsweredOnce, WaitingHasTimer,
       AnswersAreTrue, LookUpFits, Found, requestVars, rendererVars
  <2> QED
    BY <1>m, <2>2, <2>3, <2>4, <2>5 DEF RequestInv
<1>3. CASE ListPopup(b)
  <2>1. /\ UNCHANGED <<rendererVars, host, known, requestVars, io>> /\ io = Free
        /\ ui.at = "contents" /\ listed' = listed \cup {b}
        /\ ui' = [at |-> "listed", of |-> b]
    BY <1>3 DEF ListPopup
  <2>2. RequestType' /\ BrowserType'
    BY <1>0, <2>1 DEF RequestType, BrowserType, rendererVars, requestVars
  <2>3. /\ UnheardIsUntouched' /\ AnsweredOnce' /\ WaitingHasTimer' /\ AnswersAreTrue'
        /\ LookUpFits'
    BY <2>1 DEF RequestInv, UnheardIsUntouched, AnsweredOnce, WaitingHasTimer,
       AnswersAreTrue, LookUpFits, requestVars, rendererVars
  <2>4. KnownIsLive'
    BY <2>1 DEF RequestInv, KnownIsLive
  <2>5. MainFrameIsAnswered'
    BY <2>1 DEF RequestInv, MainFrameIsAnswered, Found, requestVars
  <2> QED
    BY <1>m, <2>2, <2>3, <2>4, <2>5 DEF RequestInv
<1>4. CASE ContinuePopup(b)
  <2> DEFINE F == Mains \cap OfBrowser(b) \cap pending
  <2>1. /\ Respond(F, InfoFor(b)) /\ UNCHANGED <<rendererVars, browserVars, io>>
        /\ io = Free
        /\ ui = [at |-> "listed", of |-> b] /\ ui' = [at |-> "after", of |-> b]
    BY <1>4 DEF ContinuePopup
  <2>2. \A f \in F : IsTrueOf(InfoFor(b), f)
    BY RegistryAssumption DEF IsTrueOf, OfBrowser
  <2>3. /\ RequestType' /\ pending' = pending \ F /\ LookUpFits'
        /\ UnheardIsUntouched' /\ AnsweredOnce' /\ WaitingHasTimer' /\ AnswersAreTrue'
    BY <1>0, <2>1, <2>2, AnswerTypes, RespondAnswers DEF rendererVars
  <2>4. BrowserType' /\ KnownIsLive'
    BY <1>0, <2>1 DEF BrowserType, RequestInv, KnownIsLive, rendererVars, browserVars
  <2>5. MainFrameIsAnswered'
    BY <2>1, <2>3 DEF RequestInv, MainFrameIsAnswered, Found, browserVars, OfBrowser, Frames
  <2> QED
    BY <1>m, <2>3, <2>4, <2>5 DEF RequestInv
<1> QED
  BY <1>1, <1>2, <1>3, <1>4

-----------------------------------------------------------------------------
(* Theorems *)

LEMMA InitEstablishes == Init => RegistryInv
<1> SUFFICES ASSUME Init PROVE RegistryInv
  OBVIOUS
<1> USE DEF Init
<1>1. RequestType /\ BrowserType
  BY DEF RequestType, BrowserType, Procs, Free
<1>2. PopupType
  BY DEF PopupType, Stack, Idle
<1>3. PopupInv
  BY RegistryAssumption DEF PopupInv, StackInv, PopupsAreTold, Idle
<1>4. RequestInv
  BY DEF RequestInv, UnheardIsUntouched, AnsweredOnce, WaitingHasTimer, KnownIsLive,
     MainIsNotExcluded, MainFrameIsAnswered, LookUpFits, AnswersAreTrue, Idle
<1> QED
  BY <1>1, <1>2, <1>3, <1>4, TypeParts DEF RegistryInv

LEMMA StepPreserves == RegistryInv /\ [Next]_vars => RegistryInv'
<1> SUFFICES ASSUME RegistryInv, [Next]_vars PROVE RegistryInv'
  OBVIOUS
<1>0. Mains \subseteq Frames
  BY DEF Frames
<1>1. CASE Renderer
  BY <1>1, RendererStep DEF Renderer
<1>2. CASE Tasks
  BY <1>2, TaskStep DEF Tasks
<1>3. CASE IOThread
  BY <1>3, ReceiveStep, LookUpStep, QueueStep DEF IOThread
<1>4. ASSUME NEW b \in Popups,
             \/ CanCreateWindow(b) \/ CreateWindowResult(b)
             \/ GetCustomWebContentsView(b) \/ WebContentsCreated(b)
             \/ ListPopup(b) \/ ContinuePopup(b)
             \/ OnAfterCreated(b) \/ AddWebContents(b)
      PROVE  RegistryInv'
  <2>1. TypeOK /\ PopupInv
    BY DEF RegistryInv
  <2>2. PopupInv' /\ PopupType'
    BY <1>4, <2>1, PopupStep DEF PopupType
  <2>3. RequestType' /\ BrowserType' /\ RequestInv'
    BY <1>4, PopupRequests
  <2> QED
    BY <2>2, <2>3 DEF RegistryInv, TypeOK, RequestType, BrowserType, PopupType
<1>5. CASE Content
  <2>1. ASSUME NEW p \in Procs, RenderProcessHostDestroyed(p)
        PROVE  RegistryInv'
    BY <2>1, ProcessEndStep
  <2>2. ASSUME \/ \E b \in Browsers : CreateBrowserInfo(b) \/ RemoveBrowserInfo(b)
               \/ \E f \in Frames : HostCreated(f) \/ MaybeCreateFrame(f) \/ FrameDeleted(f)
               \/ \E p \in Procs : ProcessGone(p)
        PROVE  RegistryInv'
    <3>1. ui = Idle
      BY <2>2 DEF CreateBrowserInfo, RemoveBrowserInfo, HostCreated, MaybeCreateFrame,
         FrameDeleted, ProcessGone
    <3> QED
      BY <2>2, <3>1, ContentStep
  <2> QED
    BY <1>4, <1>5, <2>1, <2>2 DEF Content
<1>6. CASE Continue
  BY <1>4, <1>6, MainFrameStep DEF Continue
<1>7. CASE UNCHANGED vars
  <2>1. UNCHANGED <<rendererVars, browserVars, requestVars, popupVars, io, ui>>
    BY <1>7 DEF vars
  <2>2. TypeOK'
    BY <2>1 DEF RegistryInv, TypeOK, rendererVars, browserVars, requestVars, popupVars
  <2>3. PopupInv'
    BY <2>1, PopupsUnchanged DEF RegistryInv
  <2>4. RequestInv'
    BY <2>1 DEF RegistryInv, RequestInv, UnheardIsUntouched, AnsweredOnce,
       WaitingHasTimer, KnownIsLive, MainIsNotExcluded, MainFrameIsAnswered,
       LookUpFits, AnswersAreTrue, Found, rendererVars, browserVars, requestVars
  <2> QED
    BY <2>2, <2>3, <2>4 DEF RegistryInv
<1> QED
  BY <1>1, <1>2, <1>3, <1>5, <1>6, <1>7 DEF Next

\* The inductive invariant of CefBrowserInfoManager holds in every reachable
\* state, for every set of frames, processes, browsers and popups.
THEOREM RegistryCorrect == Spec => []RegistryInv
<1>1. Init => RegistryInv
  BY InitEstablishes
<1>2. RegistryInv /\ [Next]_vars => RegistryInv'
  BY StepPreserves
<1> QED
  BY <1>1, <1>2, PTL DEF Spec

\* Every variable of the registry keeps its type.
THEOREM TypeCorrect == Spec => []TypeOK
<1>1. RegistryInv => TypeOK
  BY DEF RegistryInv
<1> QED
  BY <1>1, RegistryCorrect, PTL

\* The callback of a GetNewBrowserInfo request is run once at most, and never
\* while the request is queued.
THEOREM CallbacksRunOnce == Spec => []AnsweredOnce
<1>1. RegistryInv => AnsweredOnce
  BY DEF RegistryInv, RequestInv
<1> QED
  BY <1>1, RegistryCorrect, PTL

\* A renderer in its synchronous call was answered or is queued with a timer.
THEOREM WaitersHaveTimers == Spec => []WaitingHasTimer
<1>1. RegistryInv => WaitingHasTimer
  BY DEF RegistryInv, RequestInv
<1> QED
  BY <1>1, RegistryCorrect, PTL

\* The look-up on the IO thread, which holds browser_info_lock_ and takes one
\* lock_ after the other, and the creation of a main frame on the UI thread, which
\* holds lock_ and then takes browser_info_lock_, do not miss each other.
THEOREM MainFramesAreAnswered == Spec => []MainFrameIsAnswered
<1>1. RegistryInv => MainFrameIsAnswered
  BY DEF RegistryInv, RequestInv
<1> QED
  BY <1>1, RegistryCorrect, PTL

\* A renderer is told of the browser its frame is of, and that it is excluded
\* when, and only when, the frame is.
THEOREM RenderersAreToldTheTruth == Spec => []AnswersAreTrue
<1>1. RegistryInv => AnswersAreTrue
  BY DEF RegistryInv, RequestInv
<1> QED
  BY <1>1, RegistryCorrect, PTL

\* Every popup a client allowed gets its own settings, and is reported as
\* created or as aborted, once, before its stack of the UI thread returns.
THEOREM ClientsHearOfPopups == Spec => []PopupsAreTold
<1>1. RegistryInv => PopupsAreTold
  BY DEF RegistryInv, PopupInv
<1> QED
  BY <1>1, RegistryCorrect, PTL

\* Every request of a renderer is answered once at most, truthfully, and never
\* left to wait without a timer.
THEOREM AnswersStayCorrect == Spec => []AnswersCorrect
<1>1. AnsweredOnce /\ WaitingHasTimer /\ AnswersAreTrue => AnswersCorrect
  BY DEF AnswersCorrect
<1> QED
  BY <1>1, CallbacksRunOnce, WaitersHaveTimers, RenderersAreToldTheTruth, PTL
=============================================================================
