------------------------------ MODULE LifeCycle ------------------------------
(***************************************************************************)
(* The life of Alloy style browsers and of the client's windows on Windows: *)
(* creation, the close handshake between window, browser and page, popups   *)
(* that end with their opener, and the end of the program.                  *)
(*                                                                         *)
(* A window asked to close asks its browser; the browser asks its page      *)
(* (beforeunload), then the client (DoClose); a windowless browser is then  *)
(* destroyed, another one has its window closed once more, and is destroyed *)
(* with it.  Each step may come from elsewhere: a script closes the page, a *)
(* window is destroyed, an opener takes with it a popup whose page it still *)
(* owns.  The client's windows live on the main thread, which is the UI     *)
(* thread or, with multi_threaded_message_loop, another one.                *)
(***************************************************************************)
EXTENDS Integers, Sequences, FiniteSets, SequencesExt

CONSTANTS
  Mains,      \* browsers of windows the program opens
  Popups,     \* browsers of windows a page opens
  Opener,     \* of a popup: the browser whose page opens it
  MaxCloses   \* bound: closes asked for by users, clients and scripts

Browsers == Mains \cup Popups

ASSUME LifeCycleAssumption ==
  /\ Mains \cap Popups = {}
  /\ Opener \in [Popups -> Browsers]
  /\ MaxCloses \in Nat

VARIABLES
  config,    \* how the program was started
  \* content
  contents,  \* WebContents: "none", "lent" to its opener, "owned", "gone"
  page,      \* "idle", "asked" (beforeunload), "unloading"
  \* CefBrowserHost
  birth,     \* "none", "asked", "done", "failed"
  dstate,    \* destruction_state_
  hostGone,  \* window_destroyed_
  phase,     \* what the client's CefLifeSpanHandler was told last
  \* the client
  host,      \* the browser's own window: of OsrWindowWin, of CEF otherwise
  win,       \* RootWindowWin and its BrowserWindow
  listed,    \* root_windows_
  others,    \* browsers without a RootWindow (other_browser_ct_)
  quit,      \* the message loop was told to quit
  check,     \* those of Lines that failed
  \* threads
  calls,     \* what the call stack of the client has to do next
  msgs,      \* messages and tasks of the main thread
  ui,        \* tasks of the UI thread
  closes     \* closes asked for so far

contentVars == <<contents, page>>
hostVars    == <<birth, dstate, hostGone, phase>>
clientVars  == <<win, listed, others, quit>>
threadVars  == <<calls, msgs, ui>>
vars == <<config, contentVars, hostVars, host, clientVars, check, threadVars,
          closes>>

\* early: windows may be asked to close before they know their browser.
Configs == [osr : BOOLEAN, threaded : BOOLEAN, defaultPopup : BOOLEAN,
            early : BOOLEAN]
Window  == [hwnd : {"none", "open", "dying", "destroyed"},
            browser : {"none", "known", "closed", "aborted"},
            closing : BOOLEAN]
\* The DCHECKs, the uses of a null or deleted object, and the comment on the last
\* notification, that the model knows.
Lines == {"browser_host_base.cc:295", "browser_platform_delegate.cc:156",
          "browser_window.cc:38", "browser_window.cc:46", "client_handler.cc:1441",
          "osr_window_win.cc:146", "osr_window_win.cc:941",
          "root_window_manager.cc:247", "root_window_manager.cc:422",
          "root_window_win.cc:281"}

Task(op, b) == [op |-> op, of |-> b]
Calls == [op : {"created", "closing", "closed", "abort", "abortOne", "listed",
                "otherCreated", "otherClosed", "close", "destroyed"},
          of : Browsers]
Messages == Calls \cup [op : {"wmClose", "force", "init"}, of : Browsers]
UITasks  == [op : {"close", "forceClose", "showPopup", "force", "wmClose",
                   "quit", "createOsr", "init"}, of : Browsers]

TypeOK ==
  /\ config \in Configs
  /\ contents \in [Browsers -> {"none", "lent", "owned", "gone"}]
  /\ page \in [Browsers -> {"idle", "asked", "unloading"}]
  /\ birth \in [Browsers -> {"none", "asked", "done", "failed"}]
  /\ dstate \in [Browsers -> {"none", "pending", "accepted", "completed"}]
  /\ hostGone \in [Browsers -> BOOLEAN]
  /\ phase \in [Browsers -> {"none", "open", "closing", "closed", "late"}]
  /\ host \in [Browsers -> BOOLEAN]
  /\ win \in [Browsers -> Window]
  /\ listed \subseteq Browsers
  /\ others \subseteq Popups
  /\ quit \in BOOLEAN
  /\ check \subseteq Lines
  /\ calls \in Seq(Calls)
  /\ msgs \in Seq(Messages)
  /\ ui \in Seq(UITasks)
  /\ closes \in 0 .. MaxCloses

Init ==
  /\ config \in Configs
  /\ config.threaded => config.osr
  /\ contents = [b \in Browsers |-> "none"]
  /\ page = [b \in Browsers |-> "idle"]
  /\ birth = [b \in Browsers |-> "none"]
  /\ dstate = [b \in Browsers |-> "none"]
  /\ hostGone = [b \in Browsers |-> FALSE]
  /\ phase = [b \in Browsers |-> "none"]
  /\ host = [b \in Browsers |-> FALSE]
  /\ win = [b \in Browsers |->
              [hwnd |-> "none", browser |-> "none", closing |-> FALSE]]
  /\ listed = {}
  /\ others = {}
  /\ quit = FALSE
  /\ check = {}
  /\ calls = <<>>
  /\ msgs = <<>>
  /\ ui = <<>>
  /\ closes = 0

\* A popup in a top-level window of CEF's own (UseDefaultPopup).
Default(b)    == config.defaultPopup /\ b \in Popups
Windowless(b) == config.osr /\ ~Default(b)
Tasks(op, bs) == [i \in 1 .. Cardinality(bs) |-> Task(op, SetToSeq(bs)[i])]
FailedIf(failed, line) == IF failed THEN {line} ELSE {}

\* The client hands a notification to the main thread: it runs now, before
\* what the caller does next, or is posted (MAIN_POST_CLOSURE always posts).
RunOnMain(ts, restCalls, restMsgs) ==
  /\ calls' = IF config.threaded THEN restCalls ELSE ts \o restCalls
  /\ msgs' = IF config.threaded THEN restMsgs \o ts ELSE restMsgs

-----------------------------------------------------------------------------
(* AlloyBrowserHostImpl, on the UI thread.  The last arguments are what is   *)
(* left of the three queues after the caller took its task.                  *)

\* The WebContents that end with b's: its own, and the popups it still owns.
Dying(b) ==
  IF contents[b] = "owned"
  THEN {b} \cup {p \in Popups : Opener[p] = b /\ contents[p] = "lent"}
  ELSE {}

BeforeClose_TwiceClosed(b) ==
  <<Task("otherClosed", b), Task(IF Default(b) THEN "otherClosed" ELSE "closed", b)>>

\* ClientHandler::OnBeforeClose.
BeforeClose(b) ==
  <<Task("abort", b), Task(IF Default(b) THEN "otherClosed" ELSE "closed", b)>>

\* The client was told of the end of b, by OnBeforeClose.
Told(b) == phase[b] \in {"closed", "late"}

\* DoClose is called for every CloseContents that finds the browser undestroyed
\* and a window to ask about, again if need be, and "late" when the browser
\* ended with its opener (OnBeforeClose, OnBrowserDestroyed) before it could.
AfterDoClose(b) == IF Told(b) THEN "late" ELSE "closing"

\* DestroyBrowser.  The popups that end with their opener were not destroyed
\* by their own browser and ask it to close.
DestroyBrowser(b, told, restCalls, restMsgs, restUi) ==
  LET popups == Dying(b) \ {b}
      order  == IF Dying(b) = {} THEN <<>> ELSE <<b>> \o SetToSeq(popups)
  IN
  /\ dstate' = [dstate EXCEPT ![b] = "completed"]
  /\ contents' = [x \in Browsers |-> IF x \in Dying(b) THEN "gone" ELSE contents[x]]
  /\ page' = [x \in Browsers |-> IF x \in Dying(b) \cup {b} THEN "idle" ELSE page[x]]
  /\ phase' = [x \in Browsers |-> IF x \in Dying(b) THEN "closed"
                                   ELSE IF x = b /\ Windowless(b) THEN AfterDoClose(b)
                                   ELSE phase[x]]
  /\ check' = check
       \cup FailedIf(Windowless(b) /\ Told(b), "browser_host_base.cc:295")
       \cup FailedIf(contents[b] = "lent", "browser_platform_delegate.cc:156")
       \cup FailedIf(\E x \in Dying(b) : Windowless(x) /\ ~host[x],
                     "osr_window_win.cc:941")
  /\ ui' = restUi \o Tasks("forceClose",
                           {p \in popups : dstate[p] # "completed"})
  /\ RunOnMain(told \o FlattenSeq([i \in 1 .. Len(order) |-> BeforeClose(order[i])]),
               restCalls, restMsgs)

\* OsrWindowWin::OnBeforeClose destroys its window.
HostAfter(gone) ==
  [x \in Browsers |-> host[x] /\ ~(Windowless(x) /\ x \in gone)]

\* d and gone are destruction_state_ and window_destroyed_ by now.
CloseContents(b, d, gone, restCalls, restMsgs, restUi) ==
  LET asks == Windowless(b) \/ ~gone
      told == IF asks /\ ~Default(b) THEN <<Task("closing", b)>> ELSE <<>>
  IN
  \/ /\ d = "completed"
     /\ dstate' = [dstate EXCEPT ![b] = d]
     /\ calls' = restCalls /\ msgs' = restMsgs /\ ui' = restUi
     /\ page' = [page EXCEPT ![b] = "idle"]
     /\ UNCHANGED <<contents, phase, check>>
  \/ /\ d # "completed"
     /\ ~Windowless(b) /\ ~gone
     /\ dstate' = [dstate EXCEPT ![b] = "accepted"]
     /\ phase' = [phase EXCEPT ![b] = AfterDoClose(b)]
     /\ IF Default(b)
        THEN /\ calls' = restCalls /\ msgs' = restMsgs
             /\ ui' = Append(restUi, Task("wmClose", b))
        ELSE /\ calls' = IF config.threaded THEN restCalls ELSE told \o restCalls
             /\ msgs' = (IF config.threaded THEN restMsgs \o told ELSE restMsgs)
                          \o <<Task("wmClose", b)>>
             /\ ui' = restUi
     /\ page' = [page EXCEPT ![b] = "idle"]
     /\ check' = check \cup FailedIf(Told(b), "browser_host_base.cc:295")
     /\ UNCHANGED contents
  \/ /\ d # "completed"
     /\ Windowless(b) \/ gone
     /\ DestroyBrowser(b, told, restCalls, restMsgs, restUi)

\* An early return when a close is under way, unless the window is gone.  A
\* page with a beforeunload handler is asked, once.
CloseBrowser(b, force, gone, restCalls, restMsgs, restUi) ==
  LET d == IF dstate[b] \in {"accepted", "completed"} THEN dstate[b]
           ELSE IF force THEN "accepted" ELSE "pending"
  IN
  \/ /\ dstate[b] # "none" /\ (Windowless(b) \/ ~gone)
     /\ dstate' = [dstate EXCEPT ![b] = IF force /\ @ = "pending"
                                       THEN "accepted" ELSE @]
     /\ calls' = restCalls /\ msgs' = restMsgs /\ ui' = restUi
     /\ UNCHANGED <<contentVars, phase, check>>
  \/ /\ dstate[b] = "none" \/ ~(Windowless(b) \/ ~gone)
     /\ contents[b] = "owned"
     /\ dstate' = [dstate EXCEPT ![b] = d]
     /\ page' = [page EXCEPT ![b] = IF @ = "idle" THEN "asked" ELSE @]
     /\ calls' = restCalls /\ msgs' = restMsgs /\ ui' = restUi
     /\ UNCHANGED <<contents, phase, check>>
  \/ /\ dstate[b] = "none" \/ ~(Windowless(b) \/ ~gone)
     /\ page[b] = "idle"
     /\ CloseContents(b, d, gone, restCalls, restMsgs, restUi)

\* HostAfter follows contents', which every close sets.
HostFollows == host' = HostAfter({x \in Browsers : contents[x] # "gone"
                                                    /\ contents'[x] = "gone"})
-----------------------------------------------------------------------------
(* The client's windows, on the main thread.                                 *)

Forget_RootsOnly(roots, browsers, restUi) ==
  /\ listed' = listed \ roots
  /\ others' = others \ browsers
  /\ ui' = IF roots # {} /\ listed' = {}
           THEN Append(restUi, Task("quit", CHOOSE b \in roots : TRUE)) ELSE restUi

\* OnRootWindowDestroyed and MaybeCleanup, after some windows or browsers went.
Forget(roots, browsers, restUi) ==
  /\ listed' = listed \ roots
  /\ others' = others \ browsers
  /\ ui' = IF roots \cup browsers # {} /\ listed' = {} /\ others' = {}
           THEN Append(restUi, Task("quit", CHOOSE b \in roots \cup browsers : TRUE))
           ELSE restUi

\* DestroyWindow: a window of CEF inside it goes first and takes its browser
\* with it (WindowDestroyed); then the window itself (WM_NCDESTROY).
DestroyRoot(b, restCalls, restMsgs, restUi) ==
  LET rest == <<Task("destroyed", b)>> \o restCalls IN
  /\ win[b].hwnd = "open"
  /\ win' = [win EXCEPT ![b].hwnd = "dying"]
  /\ \/ /\ ~Windowless(b) /\ host[b]
        /\ hostGone' = [hostGone EXCEPT ![b] = TRUE]
        /\ CloseBrowser(b, TRUE, TRUE, rest, restMsgs, restUi)
     \/ /\ Windowless(b) \/ ~host[b]
        /\ calls' = rest /\ msgs' = restMsgs /\ ui' = restUi
        /\ UNCHANGED <<contentVars, dstate, hostGone, phase, check>>
  /\ host' = [host EXCEPT ![b] = FALSE]
  /\ UNCHANGED <<birth, listed, others, quit>>

\* RootWindowWin::Close(true).
ForceWindow(b, restMsgs, restUi) ==
  \/ DestroyRoot(b, <<>>, restMsgs, restUi)
  \/ /\ win[b].hwnd # "open"
     /\ msgs' = restMsgs /\ ui' = restUi
     /\ UNCHANGED <<contentVars, hostVars, host, clientVars, check, calls>>

OnClose_NotAsking(b, restMsgs) ==
  \/ DestroyRoot(b, <<>>, restMsgs, ui)
  \/ /\ win[b].hwnd # "open"
     /\ msgs' = restMsgs
     /\ UNCHANGED <<contentVars, hostVars, host, clientVars, check, calls, ui>>

\* WM_CLOSE: ask the browser, or let the window go.
OnClose(b, restMsgs) ==
  \/ /\ win[b].hwnd = "open" /\ win[b].browser = "known" /\ ~win[b].closing
     /\ IF config.threaded
        THEN ui' = Append(ui, Task("close", b)) /\ UNCHANGED calls
        ELSE calls' = <<Task("close", b)>> /\ UNCHANGED ui
     /\ msgs' = restMsgs
     /\ UNCHANGED <<contentVars, hostVars, host, clientVars, check>>
  \/ /\ win[b].browser # "known" \/ win[b].closing
     /\ DestroyRoot(b, <<>>, restMsgs, ui)
  \/ /\ win[b].hwnd # "open"
     /\ msgs' = restMsgs
     /\ UNCHANGED <<contentVars, hostVars, host, clientVars, check, calls, ui>>

\* BrowserWindow::OnBrowserCreated; the window of a popup is made now.
OnBrowserCreated(b, restCalls, restMsgs) ==
  /\ check' = check \cup FailedIf(win[b].browser = "known", "browser_window.cc:38")
                    \cup FailedIf(win[b].browser = "aborted", "client_handler.cc:1441")
  /\ win' = [win EXCEPT ![b].browser = IF @ = "none" THEN "known" ELSE @,
                        ![b].hwnd = IF b \in Popups /\ @ = "none" THEN "open" ELSE @]
  /\ host' = [host EXCEPT ![b] = @ \/ (b \in Popups /\ ~config.threaded)]
  /\ ui' = IF b \in Popups /\ config.threaded
           THEN Append(ui, Task("showPopup", b)) ELSE ui
  /\ calls' = restCalls /\ msgs' = restMsgs
  /\ UNCHANGED <<contentVars, hostVars, listed, others, quit>>

\* The handler's delegate is detached once the browser closed.
OnBrowserClosing(b, restCalls, restMsgs) ==
  /\ win' = [win EXCEPT ![b].closing = @ \/ win[b].browser = "known"]
  /\ check' = check \cup FailedIf(win[b].browser = "none", "browser_window.cc:46")
  /\ calls' = restCalls /\ msgs' = restMsgs
  /\ UNCHANGED <<contentVars, hostVars, host, listed, others, quit, ui>>

OnBrowserClosed_KeepsWindow(b, restCalls, restMsgs) ==
  LET gone == win[b].hwnd = "destroyed" IN
  /\ win' = [win EXCEPT ![b].browser = "closed"]
  /\ calls' = restCalls /\ msgs' = restMsgs
  /\ Forget(IF gone THEN {b} ELSE {}, {}, ui)
  /\ UNCHANGED <<contentVars, hostVars, host, quit, check>>

OnBrowserClosed(b, restCalls, restMsgs) ==
  LET gone  == win[b].hwnd = "destroyed"
      close == IF gone THEN <<>> ELSE <<Task("force", b)>>
  IN
  /\ win' = [win EXCEPT ![b].browser = "closed"]
  /\ calls' = restCalls
  /\ msgs' = IF config.threaded THEN restMsgs \o close ELSE restMsgs
  /\ Forget(IF gone THEN {b} ELSE {}, {}, IF config.threaded THEN ui ELSE ui \o close)
  /\ check' = check \cup FailedIf(gone /\ b \notin listed, "root_window_manager.cc:422")
  /\ UNCHANGED <<contentVars, hostVars, host, quit>>

OnDestroyed(b, restCalls, restMsgs) ==
  LET done == win[b].browser = "closed" IN
  /\ Forget(IF done THEN {b} ELSE {}, {}, ui)
  /\ check' = check \cup FailedIf(done /\ b \notin listed, "root_window_manager.cc:422")
  /\ win' = [win EXCEPT ![b].hwnd = "destroyed"]
  /\ calls' = restCalls /\ msgs' = restMsgs
  /\ UNCHANGED <<contentVars, hostVars, host, quit>>

\* OnAbortOrClosePopup: some root windows, and with the opener's end the
\* browsers without one.  A window not made yet is destroyed on the spot.
OnAbortOrClosePopup(roots, browsers, restCalls, restMsgs) ==
  LET unmade == {r \in roots : win[r].hwnd = "none"}
      open   == {r \in roots : win[r].hwnd = "open"}
      asks   == Tasks("close", browsers)
  IN
  /\ win' = [b \in Browsers |-> IF b \in unmade
                                THEN [win[b] EXCEPT !.browser = "aborted"] ELSE win[b]]
  /\ check' = check \cup FailedIf(unmade # {}, "root_window_win.cc:281")
  /\ calls' = IF config.threaded THEN restCalls ELSE asks \o restCalls
  /\ msgs' = restMsgs \o Tasks("wmClose", open)
  /\ Forget(unmade, {}, IF config.threaded THEN ui \o asks ELSE ui)
  /\ UNCHANGED <<contentVars, hostVars, host, quit>>

PopupRoots(o) == {r \in listed \cap Popups : Opener[r] = o}

OtherBrowserCreated_Opener(b, restCalls, restMsgs) ==
  /\ others' = others \cup {Opener[b]}
  /\ calls' = restCalls /\ msgs' = restMsgs
  /\ UNCHANGED <<contentVars, hostVars, host, win, listed, quit, check, ui>>

OtherBrowserCreated(b, restCalls, restMsgs) ==
  /\ others' = others \cup {b}
  /\ calls' = restCalls /\ msgs' = restMsgs
  /\ UNCHANGED <<contentVars, hostVars, host, win, listed, quit, check, ui>>

OtherBrowserClosed(b, restCalls, restMsgs) ==
  /\ Forget({}, {b}, ui)
  /\ check' = check \cup FailedIf(b \notin others, "root_window_manager.cc:247")
  /\ calls' = restCalls /\ msgs' = restMsgs
  /\ UNCHANGED <<contentVars, hostVars, host, win, quit>>

OnRootWindowCreated(b, restCalls, restMsgs) ==
  /\ listed' = listed \cup {b}
  /\ calls' = restCalls /\ msgs' = restMsgs
  /\ UNCHANGED <<contentVars, hostVars, host, win, others, quit, check, ui>>

\* A task of the client on the main thread.
Run(t, restCalls, restMsgs) ==
  \/ t.op = "created" /\ OnBrowserCreated(t.of, restCalls, restMsgs)
  \/ t.op = "closing" /\ OnBrowserClosing(t.of, restCalls, restMsgs)
  \/ t.op = "closed" /\ OnBrowserClosed(t.of, restCalls, restMsgs)
  \/ t.op = "destroyed" /\ OnDestroyed(t.of, restCalls, restMsgs)
  \/ t.op = "abort" /\ OnAbortOrClosePopup(PopupRoots(t.of),
                         {p \in others : Opener[p] = t.of}, restCalls, restMsgs)
  \/ t.op = "abortOne" /\ OnAbortOrClosePopup(listed \cap {t.of}, {},
                                              restCalls, restMsgs)
  \/ t.op = "otherCreated" /\ OtherBrowserCreated(t.of, restCalls, restMsgs)
  \/ t.op = "otherClosed" /\ OtherBrowserClosed(t.of, restCalls, restMsgs)
  \/ t.op = "listed" /\ OnRootWindowCreated(t.of, restCalls, restMsgs)
  \/ /\ t.op = "close"
     /\ CloseBrowser(t.of, FALSE, hostGone[t.of], restCalls, restMsgs, ui)
     /\ HostFollows
     /\ UNCHANGED <<birth, hostGone, clientVars>>

\* RootWindowWin::ContinueInitOnMainThread; CreateBrowser needs the UI thread.
ContinueInit(m, restMsgs) ==
  /\ win' = [win EXCEPT ![m].hwnd = "open"]
  /\ ui' = Append(ui, Task("createOsr", m))
  /\ msgs' = restMsgs
  /\ UNCHANGED <<contentVars, hostVars, host, listed, others, quit, check, calls>>

-----------------------------------------------------------------------------
(* The threads.                                                              *)

\* OsrWindowWin::OnBeforeClose uses the render handler it never made.
Crashed == "osr_window_win.cc:941" \in check
Running == ~quit /\ ~Crashed
Idle    == calls = <<>> /\ Running

\* The rest of the call stack comes before anything else.
Call ==
  /\ calls # <<>> /\ Running
  /\ Run(Head(calls), Tail(calls), msgs)
  /\ UNCHANGED <<config, closes>>

MainThread ==
  /\ Idle /\ msgs # <<>>
  /\ LET t == Head(msgs) IN
     \/ Run(t, calls, Tail(msgs))
     \/ t.op = "wmClose" /\ OnClose(t.of, Tail(msgs))
     \/ t.op = "force" /\ ForceWindow(t.of, Tail(msgs), ui)
     \/ t.op = "init" /\ ContinueInit(t.of, Tail(msgs))
  /\ UNCHANGED <<config, closes>>

\* WM_CLOSE of a window of CEF's own: TryCloseBrowser.
OnHostClose(b) ==
  \/ /\ host[b] /\ dstate[b] = "none"
     /\ CloseBrowser(b, FALSE, FALSE, calls, msgs, Tail(ui))
     /\ UNCHANGED <<hostGone, host>>
  \/ /\ ~host[b] \/ dstate[b] = "pending"
     /\ ui' = Tail(ui)
     /\ UNCHANGED <<contentVars, dstate, hostGone, phase, host, check, calls, msgs>>
  \/ /\ host[b] /\ dstate[b] \in {"accepted", "completed"}
     /\ host' = [host EXCEPT ![b] = FALSE]
     /\ hostGone' = [hostGone EXCEPT ![b] = TRUE]
     /\ CloseBrowser(b, TRUE, TRUE, calls, msgs, Tail(ui))

UIThread ==
  /\ Idle /\ ui # <<>>
  /\ LET t == Head(ui) IN
     \/ /\ t.op \in {"close", "forceClose"}
        /\ CloseBrowser(t.of, t.op = "forceClose", hostGone[t.of], calls, msgs, Tail(ui))
        /\ HostFollows
        /\ UNCHANGED <<birth, hostGone, clientVars>>
     \/ /\ t.op = "wmClose"
        /\ OnHostClose(t.of)
        /\ UNCHANGED <<birth, clientVars>>
     \/ t.op = "force" /\ ForceWindow(t.of, msgs, Tail(ui))
     \/ /\ t.op = "init"
        /\ ui' = Tail(ui) /\ msgs' = Append(msgs, t)
        /\ UNCHANGED <<contentVars, hostVars, host, clientVars, check, calls>>
     \/ /\ t.op = "createOsr"
        /\ host' = [host EXCEPT ![t.of] = TRUE]
        /\ birth' = [birth EXCEPT ![t.of] = "asked"]
        /\ ui' = Tail(ui)
        /\ UNCHANGED <<contentVars, dstate, hostGone, phase, clientVars, check,
                       calls, msgs>>
     \/ /\ t.op = "showPopup"
        /\ check' = check \cup FailedIf(contents[t.of] = "gone", "osr_window_win.cc:146")
        /\ host' = [host EXCEPT ![t.of] = TRUE]
        /\ ui' = Tail(ui)
        /\ UNCHANGED <<contentVars, hostVars, clientVars, calls, msgs>>
     \/ /\ t.op = "quit"
        /\ quit' = TRUE
        /\ ui' = Tail(ui)
        /\ UNCHANGED <<contentVars, hostVars, host, win, listed, others, check,
                       calls, msgs>>
  /\ UNCHANGED <<config, closes>>
-----------------------------------------------------------------------------
(* Windows and browsers come into being.                                     *)

\* RootWindowManager::CreateRootWindow.
OpenWindow(m) ==
  /\ Idle /\ m \in Mains \ listed
  /\ birth[m] = "none" /\ win[m].hwnd = "none"
  /\ listed # {} \/ \A b \in Browsers : birth[b] = "none"
  /\ listed' = listed \cup {m}
  /\ IF config.threaded
     THEN ui' = Append(ui, Task("init", m)) /\ UNCHANGED <<win, host, birth>>
     ELSE /\ win' = [win EXCEPT ![m].hwnd = "open"]
          /\ host' = [host EXCEPT ![m] = config.osr]
          /\ birth' = [birth EXCEPT ![m] = "asked"]
          /\ UNCHANGED ui
  /\ UNCHANGED <<config, contentVars, dstate, hostGone, phase, others, quit, check,
                 calls, msgs, closes>>

\* CreateInternal for a window's browser.  The window CEF makes fails when the
\* one it is to be put in is gone.
CreateBrowser(m) ==
  /\ Idle /\ birth[m] = "asked" /\ m \in Mains
  /\ \/ /\ ~config.osr /\ win[m].hwnd # "open"
        /\ birth' = [birth EXCEPT ![m] = "failed"]
        /\ UNCHANGED <<contents, phase, host, calls, msgs>>
     \/ /\ config.osr \/ win[m].hwnd = "open"
        /\ birth' = [birth EXCEPT ![m] = "done"]
        /\ contents' = [contents EXCEPT ![m] = "owned"]
        /\ phase' = [phase EXCEPT ![m] = "open"]
        /\ host' = [host EXCEPT ![m] = @ \/ ~config.osr]
        /\ RunOnMain(<<Task("created", m)>>, calls, msgs)
  /\ UNCHANGED <<config, page, dstate, hostGone, clientVars, check, ui, closes>>

\* OnBeforePopup: the client makes a window for the popup, unless the popup
\* is to have one of CEF's own.
OnBeforePopup(p) ==
  /\ Idle /\ birth[p] = "none"
  /\ contents[Opener[p]] = "owned"
  /\ birth' = [birth EXCEPT ![p] = "asked"]
  /\ IF Default(p) THEN UNCHANGED <<calls, msgs>>
                   ELSE RunOnMain(<<Task("listed", p)>>, calls, msgs)
  /\ UNCHANGED <<config, contentVars, dstate, hostGone, phase, host, clientVars,
                 check, ui, closes>>

\* The popup is never made: its opener is gone, or content refuses it.  The
\* client is told as long as the opener is registered.
AbortPopup(p) ==
  /\ Idle /\ birth[p] = "asked" /\ p \in Popups
  /\ birth' = [birth EXCEPT ![p] = "failed"]
  /\ IF dstate[Opener[p]] = "completed"
     THEN UNCHANGED <<calls, msgs>>
     ELSE RunOnMain(<<Task("abortOne", p)>>, calls, msgs)
  /\ UNCHANGED <<config, contentVars, dstate, hostGone, phase, host, clientVars,
                 check, ui, closes>>

CreatePopup_AnyOpener(p) ==
  /\ Idle /\ birth[p] = "asked" /\ p \in Popups
  /\ birth' = [birth EXCEPT ![p] = "done"]
  /\ contents' = [contents EXCEPT ![p] = "lent"]
  /\ phase' = [phase EXCEPT ![p] = "open"]
  /\ host' = [host EXCEPT ![p] = ~Windowless(p)]
  /\ RunOnMain(<<Task(IF Default(p) THEN "otherCreated" ELSE "created", p)>>,
               calls, msgs)
  /\ UNCHANGED <<config, page, dstate, hostGone, clientVars, check, ui, closes>>

\* WebContentsCreated and CreateInternal: the opener still owns the contents.
CreatePopup(p) ==
  /\ Idle /\ birth[p] = "asked" /\ p \in Popups
  /\ contents[Opener[p]] = "owned"
  /\ birth' = [birth EXCEPT ![p] = "done"]
  /\ contents' = [contents EXCEPT ![p] = "lent"]
  /\ phase' = [phase EXCEPT ![p] = "open"]
  /\ host' = [host EXCEPT ![p] = ~Windowless(p)]
  /\ RunOnMain(<<Task(IF Default(p) THEN "otherCreated" ELSE "created", p)>>,
               calls, msgs)
  /\ UNCHANGED <<config, page, dstate, hostGone, clientVars, check, ui, closes>>

AddNewContents(p) ==
  /\ Idle /\ contents[p] = "lent"
  /\ contents' = [contents EXCEPT ![p] = "owned"]
  /\ UNCHANGED <<config, page, hostVars, host, clientVars, check, threadVars, closes>>

-----------------------------------------------------------------------------
(* Pages, users and clients.                                                 *)

BeforeUnloadFired_NoReset(b, proceed) ==
  /\ Idle /\ page[b] = "asked"
  /\ page' = [page EXCEPT ![b] = IF dstate[b] = "accepted" \/ proceed
                                 THEN "unloading" ELSE "idle"]
  /\ UNCHANGED <<config, contents, hostVars, host, clientVars, check, threadVars,
                 closes>>

BeforeUnloadFired(b, proceed) ==
  /\ Idle /\ page[b] = "asked"
  /\ IF dstate[b] = "accepted" \/ proceed
     THEN page' = [page EXCEPT ![b] = "unloading"] /\ UNCHANGED dstate
     ELSE /\ page' = [page EXCEPT ![b] = "idle"]
          /\ dstate' = [dstate EXCEPT ![b] = "none"]
  /\ UNCHANGED <<config, contents, birth, hostGone, phase, host, clientVars, check,
                 threadVars, closes>>

\* The page ran its unload handlers, or a script closes it (window.close).
PageCloses(b) ==
  /\ Idle /\ contents[b] = "owned" /\ page[b] # "asked"
  /\ page[b] = "unloading" \/ closes < MaxCloses
  /\ closes' = IF page[b] = "unloading" THEN closes ELSE closes + 1
  /\ CloseContents(b, dstate[b], hostGone[b], calls, msgs, ui)
  /\ HostFollows
  /\ UNCHANGED <<config, birth, hostGone, clientVars>>

Ask == Idle /\ closes < MaxCloses /\ closes' = closes + 1

\* Nobody closes a browser whose contents its opener still owns, or, unless
\* config.early, whose window does not know it yet.
Complete(b) ==
  contents[b] # "lent" /\ (config.early \/ win[b].browser # "none" \/ Default(b))

\* CefBrowserHost::CloseBrowser, called from any thread.
ClientCloses(b, force) ==
  /\ Ask /\ phase[b] \in {"open", "closing"} /\ Complete(b)
  /\ ui' = Append(ui, Task(IF force THEN "forceClose" ELSE "close", b))
  /\ UNCHANGED <<config, contentVars, hostVars, host, clientVars, check, calls, msgs>>

\* A user closes a window.
UserCloses(b) ==
  /\ Ask
  /\ \/ /\ win[b].hwnd = "open" /\ Complete(b)
        /\ msgs' = Append(msgs, Task("wmClose", b)) /\ UNCHANGED ui
     \/ /\ Default(b) /\ host[b] /\ Complete(b)
        /\ ui' = Append(ui, Task("wmClose", b)) /\ UNCHANGED msgs
  /\ UNCHANGED <<config, contentVars, hostVars, host, clientVars, check, calls>>

CloseAllWindows ==
  /\ Ask /\ listed # {} /\ \A b \in listed : Complete(b)
  /\ msgs' = msgs \o Tasks("wmClose", {b \in listed : win[b].hwnd = "open"})
  /\ UNCHANGED <<config, contentVars, hostVars, host, clientVars, check, calls, ui>>

-----------------------------------------------------------------------------
Creation ==
  \/ \E m \in Mains : CreateBrowser(m)
  \/ \E p \in Popups : AbortPopup(p) \/ CreatePopup(p)
Page(b) == PageCloses(b) \/ \E proceed \in BOOLEAN : BeforeUnloadFired(b, proceed)

Next ==
  \/ Call \/ MainThread \/ UIThread \/ Creation \/ CloseAllWindows
  \/ \E m \in Mains : OpenWindow(m)
  \/ \E p \in Popups : OnBeforePopup(p) \/ AddNewContents(p)
  \/ \E b \in Browsers :
       \/ Page(b) \/ UserCloses(b)
       \/ \E force \in BOOLEAN : ClientCloses(b, force)

Spec == Init /\ [][Next]_vars

\* Threads run, content finishes what it began, a page and its user answer.
FairSpec ==
  /\ Spec
  /\ WF_vars(Call) /\ WF_vars(MainThread) /\ WF_vars(UIThread) /\ WF_vars(Creation)
  /\ \A b \in Browsers :
       /\ WF_vars(page[b] = "unloading" /\ PageCloses(b))
       /\ WF_vars(\E proceed \in BOOLEAN : BeforeUnloadFired(b, proceed))

-----------------------------------------------------------------------------
Promise == INSTANCE LifeSpan WITH ended <- quit
KeepsPromise == Promise!Spec

\* The lines that do fail, in any configuration unless it says otherwise:
\* - DoClose after the "last notification" (browser_host_base.cc:295), of a popup
\*   that ended with its opener;
\* - a popup's RootWindow released without its browser ever closing, when the
\*   popup was aborted (root_window_win.cc:281);
\* - the null render handler of a windowless browser that ends before its window
\*   was shown (osr_window_win.cc:941): of a popup shown by a task, with two
\*   threads, or of any browser when windows may be closed early.
ExcusedLines ==
  {l \in Lines :
     \/ l = "browser_host_base.cc:295" /\ \E p \in Popups : phase[p] = "late"
     \/ l = "root_window_win.cc:281"
        /\ \E p \in Popups : win[p].browser = "aborted" /\ ~Default(p)
     \/ l = "osr_window_win.cc:941"
        /\ (config.threaded \/ config.early)
        /\ \E b \in Browsers : Windowless(b) /\ contents[b] = "gone" /\ ~host[b]}

\* No other DCHECK fails and nothing else is used when null or deleted, in every
\* configuration.
AssertionsHold == check \subseteq ExcusedLines

\* A client's window never goes away from under a browser that did not agree:
\* it was accepted to close, or it never came to be.  A window that is closed
\* before it knows its browser (config.early) does not ask it, and is excepted.
WindowOutlivesBrowser ==
  \A b \in Browsers : win[b].hwnd = "destroyed" /\ ~config.early =>
    dstate[b] \in {"accepted", "completed"} \/ contents[b] = "gone" \/ birth[b] = "failed"

\* When the loop is told to quit no browser and no window of the client is
\* left (only a window of CEF's own whose popup ended with its opener may be).
QuitMeansDone ==
  quit => \A b \in Browsers :
            /\ contents[b] \in {"none", "gone"}
            /\ win[b].hwnd # "open"
            /\ Default(b) \/ ~host[b]

\* Windows, browsers and program end in their order, without a failed DCHECK or
\* a use of what was deleted but for ExcusedLines.
EndsInOrder == TypeOK /\ AssertionsHold /\ WindowOutlivesBrowser /\ QuitMeansDone

\* Every close ends: refused by the page, or with the end of the browser, or of
\* the program (by the quit, or by the null of osr_window_win.cc:941).
ClosesEnd ==
  \A b \in Browsers : dstate[b] \in {"pending", "accepted"} ~>
                        dstate[b] \in {"none", "completed"} \/ ~Running

\* When the last browser is gone the program ends (or crashed at that line).
ProgramEnds ==
  (/\ \E b \in Browsers : contents[b] = "gone"
   /\ \A b \in Browsers : contents[b] # "lent" /\ contents[b] # "owned"
                           /\ birth[b] # "asked") ~> ~Running
=============================================================================
