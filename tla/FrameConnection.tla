-------------------------- MODULE FrameConnection --------------------------
(***************************************************************************)
(* The connection between one frame object of a renderer process           *)
(* (CefFrameImpl) and its peer in the browser process (CefFrameHostImpl,    *)
(* reached through a CefBrowserFrame).                                      *)
(*                                                                         *)
(* Every attempt to connect makes two Mojo pipes and is numbered: attempt g *)
(* has the BrowserFrame pipe bf[g], which carries FrameAttached and the     *)
(* renderer's messages, and the RenderFrame pipe, which carries the         *)
(* acknowledgement and the browser's commands.  A pipe delivers in order    *)
(* and reports that its peer closed after what was sent before; two pipes   *)
(* are not ordered with respect to each other.                              *)
(***************************************************************************)
EXTENDS Naturals, Sequences

CONSTANTS
  ConnectionRetryMax,\* kConnectionRetryMaxCt
  MaxConn,           \* bound: attempts to connect
  MaxMsg,            \* bound: messages the renderer sends
  MaxCmd,            \* bound: commands the browser sends
  MaxDisturb,        \* bound: events of the surroundings (navigation, errors)
  PromptTeardown     \* no attempt starts before the browser has seen the end
                     \* of the previous one (the retry delay covers it)

ASSUME ConstantsAssumption ==
  /\ PromptTeardown \in BOOLEAN
  /\ ConnectionRetryMax \in Nat
  /\ MaxConn \in Nat
  /\ MaxMsg \in Nat
  /\ MaxCmd \in Nat
  /\ MaxDisturb \in Nat

VARIABLES
  \* CefFrameImpl and the renderer process
  rproc,      \* "alive", "killed", "fatal" (LOG(FATAL)), "check" (CHECK)
  state,      \* browser_connection_state_
  frame,      \* frame_ is not null
  committed,  \* did_commit_provisional_load_
  rcached,    \* blink: the frame is in the back/forward cache
  denied,     \* attach_denied_
  retryCt,    \* browser_connect_retry_ct_
  timer,      \* browser_connect_timer_ is running
  ever,       \* ever_connected_
  sendQ,      \* queued_browser_actions_
  sent,       \* messages sent so far: message n is the n-th
  lastExec,   \* the last command executed
  receiver,   \* the attempt receiver_ is bound to, 0 for none
  remote,     \* the attempt browser_frame_ is bound to, 0 for none
  \* the pipes
  gen,        \* number of the latest attempt
  svc,        \* attempt -> browser end of the BrowserFrame pipe
  bf,         \* attempt -> what is in flight to the browser
  rfEnd,      \* attempt -> browser end of the RenderFrame pipe
  rf,         \* what is in flight to the renderer on the latest attempt
  \* CefFrameHostImpl and the browser process
  rfh,        \* "live", "cached" or "deleted": the RenderFrameHost
  pageQ,      \* page lifecycle updates in flight to blink
  shownEarly, \* the page was last shown before the renderer knew of the end
              \* of its connection
  isMain,     \* is_main_frame_, IsOutermostMainFrame()
  excluded,   \* the RenderFrameHost is of an excluded type
  found,      \* frame_id_map_ holds the frame host
  attached,   \* render_frame_host_ is not null
  info,       \* browser_info_ is not null
  bound,      \* attempt render_frame_ is bound to, 0 for none
  cmdQ,       \* queued_renderer_actions_
  cmdSent,    \* commands issued so far
  lastRecv,   \* the last message handed to CefClient
  notified,   \* the last of OnFrameAttached / OnFrameDetached was the former
  bcheck,     \* a CHECK or DCHECK of the browser process failed
  disturb     \* events of the surroundings so far

frameVars == <<frame, committed, rcached>>
retryVars == <<denied, retryCt, ever>>
connVars == <<retryVars, state, timer, gen, receiver, remote>>
sendVars == <<sendQ, sent>>
rendererVars == <<rproc, frameVars, connVars, sendVars>>
bfVars   == <<svc, bf>>
rfVars   == <<rfEnd, rf>>
hostVars == <<isMain, excluded, found, attached, info, bound, notified,
              bcheck>>
pageVars == <<rfh, pageQ, shownEarly>>
cmdVars  == <<cmdQ, cmdSent>>
seenVars == <<lastExec, lastRecv>>
vars == <<rendererVars, bfVars, rfVars, hostVars, cmdVars, seenVars, pageVars,
          disturb>>

Attempts == 1 .. MaxConn

ConnectionState ==
  {"DISCONNECTED", "CONNECTION_PENDING", "CONNECTION_ACKED",
   "RECONNECT_PENDING"}

\* BrowserFrame pipe: not made, GetInterface in flight, CefBrowserFrame bound,
\* closed without a reason, closed with kDeleted.
SvcState == {"none", "requested", "bound", "gone", "deleted"}

\* RenderFrame pipe: not made, inside FrameAttached, held by render_frame_,
\* closed without a reason, closed with kDetached or kExcluded.
RemoteState == {"none", "transit", "held", "gone", "detached", "excluded"}

AttachedMsg(re) == [type |-> "FrameAttached", reattached |-> re]
Message(n)      == [type |-> "SendMessage", n |-> n]
Ack(allow)      == [type |-> "FrameAttachedAck", allow |-> allow]
Command(n)      == [type |-> "SendCommand", n |-> n]

Messages(q) == [i \in DOMAIN q |-> Message(q[i])]
Commands(q) == [i \in DOMAIN q |-> Command(q[i])]

\* The renderer's ends of attempt g.
ReceiverOpen(g) == rproc = "alive" /\ receiver = g
RemoteOpen(g)   == rproc = "alive" /\ remote = g

BrowserFrameClosed(g) == svc[g] \in {"gone", "deleted"}
RenderFrameClosed(g)  == rfEnd[g] \in {"gone", "detached", "excluded"}

\* What the renderer writes is lost when the browser's end is closed.
Write(msgs) == IF BrowserFrameClosed(remote) THEN bf
               ELSE [bf EXCEPT ![remote] = @ \o msgs]

\* Nothing of attempt g is left for the browser to see.
TornDown(g) == g \in Attempts => BrowserFrameClosed(g) /\ bound # g

Disturb == /\ disturb < MaxDisturb
           /\ disturb' = disturb + 1

Init ==
  /\ rproc = "alive"
  /\ state = "DISCONNECTED"
  /\ frame = TRUE
  /\ committed = FALSE
  /\ rcached = FALSE
  /\ denied = FALSE
  /\ retryCt = 0
  /\ timer = FALSE
  /\ ever = FALSE
  /\ sendQ = <<>>
  /\ sent = 0
  /\ lastExec = 0
  /\ receiver = 0
  /\ remote = 0
  /\ gen = 0
  /\ svc = [g \in Attempts |-> "none"]
  /\ bf = [g \in Attempts |-> <<>>]
  /\ rfEnd = [g \in Attempts |-> "none"]
  /\ rf = <<>>
  /\ rfh = "live"
  /\ pageQ = <<>>
  /\ shownEarly = FALSE
  /\ isMain \in BOOLEAN
  /\ excluded \in BOOLEAN
  /\ found = ~excluded
  /\ attached = ~excluded
  /\ info = ~excluded
  /\ bound = 0
  /\ cmdQ = <<>>
  /\ cmdSent = 0
  /\ lastRecv = 0
  /\ notified = FALSE
  /\ bcheck = FALSE
  /\ disturb = 0

-----------------------------------------------------------------------------
(***************************************************************************)
(* Renderer process                                                        *)
(***************************************************************************)

\* ConnectBrowserFrame: give up when the frame is gone, denied or cached,
\* otherwise bind both pipes and send FrameAttached on the first.  Binding a
\* receiver that is bound already fails a check.
ConnectBrowserFrame(shown, cached) ==
  /\ timer' = FALSE
  /\ \/ /\ ~frame \/ denied \/ cached
        /\ state' = "DISCONNECTED"
        /\ UNCHANGED <<rproc, gen, receiver, remote, svc, bf, rfEnd, rf>>
     \/ /\ frame /\ ~denied /\ ~cached
        /\ gen < MaxConn
        /\ PromptTeardown => TornDown(gen)
        /\ rproc' = IF receiver = 0 /\ remote = 0 THEN rproc ELSE "check"
        /\ state' = "CONNECTION_PENDING"
        /\ gen' = gen + 1
        /\ receiver' = gen + 1
        /\ remote' = gen + 1
        /\ svc' = [svc EXCEPT ![gen + 1] = "requested"]
        /\ bf' = [bf EXCEPT ![gen + 1] =
                             <<AttachedMsg(retryCt > 0 \/ shown)>>]
        /\ rfEnd' = [rfEnd EXCEPT ![gen + 1] = "transit"]
        /\ rf' = <<>>

NoConnect ==
  UNCHANGED <<timer, rproc, state, gen, receiver, remote, svc, bf, rfEnd, rf>>

\* Mutant: receiver_.reset() is forgotten.
ResetPipes_KeepsReceiver == remote' = 0 /\ UNCHANGED <<receiver, rf>>

\* browser_frame_.reset() and receiver_.reset(): what has arrived and was not
\* dispatched is lost.
ResetPipes == receiver' = 0 /\ remote' = 0 /\ rf' = <<>>

\* OnDisconnect: f is frame_ at the time of the call, custom says that the
\* peer gave a reason, declined that error_result is FAILED_PRECONDITION.
OnDisconnect(f, custom, declined) ==
  LET ignored == (f /\ state = "RECONNECT_PENDING") \/ state = "DISCONNECTED"
      final   == ~f \/ denied \/ custom
      retries == ~final /\ retryCt < ConnectionRetryMax
      gaveUp  == ~final /\ ~retries
  IN  IF ignored
      THEN UNCHANGED <<rproc, state, retryCt, timer, receiver, remote, rf>>
      ELSE /\ ResetPipes
           /\ state' = IF retries THEN "RECONNECT_PENDING" ELSE "DISCONNECTED"
           /\ timer' = (timer \/ retries)
           /\ retryCt' = IF final THEN retryCt ELSE retryCt + 1
           /\ rproc' = IF gaveUp /\ isMain /\ (ever \/ ~declined)
                       THEN "fatal" ELSE rproc

OnDidCommitProvisionalLoad ==
  /\ rproc = "alive" /\ frame /\ ~rcached
  /\ committed' = TRUE
  /\ IF committed THEN Disturb ELSE UNCHANGED disturb
  /\ IF state = "DISCONNECTED" THEN ConnectBrowserFrame(FALSE, rcached)
                               ELSE NoConnect
  /\ UNCHANGED <<frame, rcached, retryVars, sendVars, hostVars, cmdVars,
                 seenVars, pageVars>>

\* Mutant: nothing reconnects a frame that leaves the cache.
OnWasShown_Ignored(cached) == NoConnect /\ shownEarly' = FALSE

\* A frame that is not disconnected, or does not know of it yet, does nothing.
OnWasShown(cached) ==
  /\ IF state = "DISCONNECTED" /\ committed THEN ConnectBrowserFrame(TRUE, cached)
                                            ELSE NoConnect
  /\ shownEarly' = (receiver # 0 /\ RenderFrameClosed(receiver))

\* The page is shown again without having been cached.
PageShown ==
  /\ rproc = "alive" /\ frame /\ ~rcached
  /\ Disturb
  /\ OnWasShown(rcached)
  /\ UNCHANGED <<frameVars, retryVars, sendVars, hostVars, cmdVars, seenVars,
                 rfh, pageQ>>

RetryTimer ==
  /\ rproc = "alive" /\ timer
  /\ ConnectBrowserFrame(FALSE, rcached)
  /\ UNCHANGED <<frameVars, retryVars, sendVars, hostVars, cmdVars, seenVars,
                 pageVars, disturb>>

OnBrowserFrameDisconnect(declined) ==
  /\ rproc = "alive" /\ remote # 0
  /\ BrowserFrameClosed(remote)
  /\ OnDisconnect(frame, svc[remote] = "deleted", declined)
  /\ UNCHANGED <<frameVars, denied, ever, gen, sendVars, bfVars, rfEnd,
                 hostVars, cmdVars, seenVars, pageVars, disturb>>

OnRenderFrameDisconnect(declined) ==
  /\ rproc = "alive" /\ receiver # 0
  /\ RenderFrameClosed(receiver)
  /\ rf = <<>>
  /\ OnDisconnect(frame, rfEnd[receiver] # "gone", declined)
  /\ UNCHANGED <<frameVars, denied, ever, gen, sendVars, bfVars, rfEnd,
                 hostVars, cmdVars, seenVars, pageVars, disturb>>

\* The frame is removed from the page: by a script, a navigation, or because
\* the browser deleted its RenderFrameHost.
OnDetached ==
  /\ rproc = "alive" /\ frame
  /\ rfh = "deleted" \/ ~isMain \/ ~info
  /\ frame' = FALSE
  /\ OnDisconnect(FALSE, FALSE, FALSE)
  /\ sendQ' = <<>>
  /\ UNCHANGED <<committed, rcached, denied, ever, gen, sent, bfVars, rfEnd,
                 hostVars, cmdVars, seenVars, pageVars, disturb>>

\* Mutants: the queue is sent but kept; it is not sent; it is sent as the
\* other interface's message.
FlushMessages_Keeps == /\ bf' = Write(Messages(sendQ))
                       /\ UNCHANGED sendQ
FlushMessages_Skipped == UNCHANGED <<bf, sendQ>>
FlushMessages_Swapped == /\ bf' = Write(Commands(sendQ))
                         /\ sendQ' = <<>>

\* FrameAttachedAck(true): send what was queued.
FlushMessages == /\ bf' = Write(Messages(sendQ))
                 /\ sendQ' = <<>>

FrameAttachedAck ==
  /\ rproc = "alive" /\ receiver # 0
  /\ rf # <<>> /\ Head(rf).type = "FrameAttachedAck"
  /\ rf' = Tail(rf)
  /\ rproc' = IF state = "CONNECTION_PENDING" THEN rproc ELSE "check"
  /\ state' = "CONNECTION_ACKED"
  /\ retryCt' = 0
  /\ \/ /\ ~Head(rf).allow
        /\ denied' = TRUE
        /\ sendQ' = <<>>
        /\ UNCHANGED <<ever, bf>>
     \/ /\ Head(rf).allow
        /\ ever' = TRUE
        /\ FlushMessages
        /\ UNCHANGED denied
  /\ UNCHANGED <<frameVars, timer, gen, receiver, remote, sent, svc, rfEnd,
                 hostVars, cmdVars, seenVars, pageVars, disturb>>

\* SendCommand, SendMessage, ... : a call of the browser is carried out.
ExecuteCommand ==
  /\ rproc = "alive" /\ receiver # 0
  /\ rf # <<>> /\ Head(rf).type = "SendCommand"
  /\ rf' = Tail(rf)
  /\ lastExec' = Head(rf).n
  /\ UNCHANGED <<rendererVars, bfVars, rfEnd, hostVars, cmdVars, lastRecv,
                 pageVars, disturb>>

\* SendProcessMessage(PID_BROWSER): dropped, queued, or written to the pipe.
SendToBrowserFrame ==
  /\ rproc = "alive"
  /\ sent < MaxMsg
  /\ sent' = sent + 1
  /\ \/ /\ ~frame \/ denied
        /\ UNCHANGED <<sendQ, bf>>
     \/ /\ frame /\ ~denied /\ state # "CONNECTION_ACKED"
        /\ sendQ' = Append(sendQ, sent + 1)
        /\ UNCHANGED bf
     \/ /\ frame /\ ~denied /\ state = "CONNECTION_ACKED"
        /\ bf' = Write(<<Message(sent + 1)>>)
        /\ UNCHANGED sendQ
  /\ UNCHANGED <<rproc, frameVars, connVars, svc, rfVars, hostVars, cmdVars,
                 seenVars, pageVars, disturb>>

\* blink learns that the page entered the back/forward cache.
RendererEntersCache ==
  /\ rproc = "alive" /\ frame
  /\ pageQ # <<>> /\ Head(pageQ) = "cached"
  /\ pageQ' = Tail(pageQ)
  /\ rcached' = TRUE
  /\ UNCHANGED <<rproc, frame, committed, connVars, sendVars, bfVars, rfVars,
                 hostVars, cmdVars, seenVars, rfh, shownEarly, disturb>>

\* blink learns that the page left the cache, and shows it.
RendererLeavesCache ==
  /\ rproc = "alive" /\ frame
  /\ pageQ # <<>> /\ Head(pageQ) = "live"
  /\ pageQ' = Tail(pageQ)
  /\ rcached' = FALSE
  /\ OnWasShown(FALSE)
  /\ UNCHANGED <<frame, committed, retryVars, sendVars, hostVars, cmdVars,
                 seenVars, rfh, disturb>>

\* The process dies, and with it all it held.
RendererKilled ==
  /\ rproc = "alive"
  /\ Disturb
  /\ rproc' = "killed"
  /\ rf' = <<>>
  /\ UNCHANGED <<frameVars, connVars, sendVars, bfVars, rfEnd, hostVars,
                 cmdVars, seenVars, pageVars>>

-----------------------------------------------------------------------------
(***************************************************************************)
(* Browser process                                                         *)
(***************************************************************************)

\* BrowserInterfaceBroker::GetInterface arrives in time: CefBrowserFrame.
BindInterface(g) ==
  /\ svc[g] = "requested"
  /\ rfh # "deleted"
  /\ svc' = [svc EXCEPT ![g] = "bound"]
  /\ UNCHANGED <<rendererVars, bf, rfVars, hostVars, cmdVars, seenVars,
                 pageVars, disturb>>

\* The end of attempt g that a dropped FrameAttached carries closes with it.
DropRemote(g) ==
  rfEnd' = [rfEnd EXCEPT ![g] = IF @ = "transit" THEN "gone" ELSE @]

\* DidCommitNavigation reset the broker before GetInterface was read, or the
\* RenderFrameHost is gone.
DeclineInterface(g) ==
  /\ svc[g] = "requested"
  /\ IF rfh = "deleted" THEN UNCHANGED disturb ELSE Disturb
  /\ svc' = [svc EXCEPT ![g] = "gone"]
  /\ bf' = [bf EXCEPT ![g] = <<>>]
  /\ DropRemote(g)
  /\ UNCHANGED <<rendererVars, rf, hostVars, cmdVars, seenVars, pageVars>>

\* The pipe fails under a bound CefBrowserFrame.
ConnectionError(g) ==
  /\ svc[g] = "bound"
  /\ Disturb
  /\ svc' = [svc EXCEPT ![g] = "gone"]
  /\ bf' = [bf EXCEPT ![g] = <<>>]
  /\ DropRemote(g)
  /\ UNCHANGED <<rendererVars, rf, hostVars, cmdVars, seenVars, pageVars>>

\* Mutant: the queue is sent but kept.
AckAndFlush_Keeps(g) ==
  /\ rf' = IF ReceiverOpen(g) THEN <<Ack(TRUE)>> \o Commands(cmdQ) ELSE rf
  /\ UNCHANGED cmdQ

\* CefFrameHostImpl::FrameAttached: acknowledge, then send what was queued.
AckAndFlush(g) ==
  /\ rf' = IF ReceiverOpen(g) THEN <<Ack(TRUE)>> \o Commands(cmdQ) ELSE rf
  /\ cmdQ' = <<>>

\* Mutant: the refusal says allow=true.
DenyAttach_Allows(g) ==
  /\ rfEnd' = [rfEnd EXCEPT ![g] = "excluded"]
  /\ rf' = IF ReceiverOpen(g) THEN <<Ack(TRUE)>> ELSE rf

\* CefBrowserFrame::FrameAttached of an excluded frame: refuse and close.
DenyAttach(g) ==
  /\ rfEnd' = [rfEnd EXCEPT ![g] = "excluded"]
  /\ rf' = IF ReceiverOpen(g) THEN <<Ack(FALSE)>> ELSE rf

\* CefBrowserFrame::FrameAttached and CefFrameHostImpl::FrameAttached.
FrameAttached(g) ==
  /\ svc[g] = "bound"
  /\ bf[g] # <<>> /\ Head(bf[g]).type = "FrameAttached"
  /\ bf' = [bf EXCEPT ![g] = Tail(@)]
  /\ \/ /\ found /\ info
        /\ bcheck' = (bcheck \/ bound # 0)      \* Remote::Bind while bound
        /\ bound' = g
        /\ rfEnd' = [h \in Attempts |-> IF h = g THEN "held"
                                        ELSE IF h = bound THEN "gone"
                                        ELSE rfEnd[h]]
        /\ AckAndFlush(g)
        /\ notified' = TRUE
     \/ /\ ~found /\ excluded
        /\ DenyAttach(g)
        /\ UNCHANGED <<bound, cmdQ, notified, bcheck>>
     \/ /\ IF found THEN ~info ELSE ~excluded
        /\ DropRemote(g)
        /\ UNCHANGED <<bound, rf, cmdQ, notified, bcheck>>
  /\ UNCHANGED <<rendererVars, svc, isMain, excluded, found, attached, info,
                 cmdSent, seenVars, pageVars, disturb>>

\* CefBrowserFrame::SendMessage, up to CefClient::OnProcessMessageReceived.
ReceiveMessage(g) ==
  /\ svc[g] = "bound"
  /\ bf[g] # <<>> /\ Head(bf[g]).type = "SendMessage"
  /\ bf' = [bf EXCEPT ![g] = Tail(@)]
  /\ lastRecv' = IF found /\ info THEN Head(bf[g]).n ELSE lastRecv
  /\ UNCHANGED <<rendererVars, svc, rfVars, hostVars, cmdVars, lastExec,
                 pageVars, disturb>>

\* CefFrameServiceBase::Close on the renderer's end closing.
CloseBrowserFrame(g) ==
  /\ svc[g] = "bound"
  /\ bf[g] = <<>> /\ ~RemoteOpen(g)
  /\ svc' = [svc EXCEPT ![g] = "gone"]
  /\ UNCHANGED <<rendererVars, bf, rfVars, hostVars, cmdVars, seenVars,
                 pageVars, disturb>>

\* CefFrameHostImpl::OnRenderFrameDisconnect.
HostDisconnect ==
  /\ bound # 0 /\ ~ReceiverOpen(bound)
  /\ notified' = IF info THEN FALSE ELSE notified
  /\ rfEnd' = [rfEnd EXCEPT ![bound] = "gone"]
  /\ bound' = 0
  /\ UNCHANGED <<rendererVars, bfVars, rf, isMain, excluded, found, attached,
                 info, bcheck, cmdVars, seenVars, pageVars, disturb>>

\* CefFrameHostImpl::SendToRenderFrame: dropped, queued, or written.
SendToRenderFrame ==
  /\ cmdSent < MaxCmd
  /\ cmdSent' = cmdSent + 1
  /\ \/ /\ ~attached
        /\ UNCHANGED <<cmdQ, rf>>
     \/ /\ attached /\ bound = 0
        /\ cmdQ' = Append(cmdQ, cmdSent + 1)
        /\ UNCHANGED rf
     \/ /\ attached /\ bound # 0
        /\ rf' = IF ReceiverOpen(bound) THEN Append(rf, Command(cmdSent + 1))
                                         ELSE rf
        /\ UNCHANGED cmdQ
  /\ UNCHANGED <<rendererVars, bfVars, rfEnd, hostVars, seenVars, pageVars,
                 disturb>>

\* Mutant: the remote is forgotten without being closed.
DetachRenderFrame_Leaks(ends) == ends

\* DetachRenderFrame, on the ends left by the rest of the step.
DetachRenderFrame(ends) ==
  [g \in Attempts |-> IF g = bound THEN "detached" ELSE ends[g]]

\* Mutant: is_bound is read after the reset, and is always false.
NotifyDetached_Never == UNCHANGED notified

\* The callers of Detach send OnFrameDetached when the frame was bound.
NotifyDetached == notified' = IF bound # 0 THEN FALSE ELSE notified

\* Mutant: render_frame_ is not reset.
Detach_KeepsRemote(isCurrentMain) ==
  /\ UNCHANGED <<bound, notified>>
  /\ attached' = FALSE
  /\ info' = (info /\ isCurrentMain)
  /\ cmdQ' = IF isCurrentMain THEN cmdQ ELSE <<>>

\* CefFrameHostImpl::Detach and the OnFrameDetached its callers send.
Detach(isCurrentMain) ==
  /\ bound' = 0
  /\ NotifyDetached
  /\ attached' = FALSE
  /\ info' = (info /\ isCurrentMain)
  /\ cmdQ' = IF isCurrentMain THEN cmdQ ELSE <<>>

\* Another RenderFrameHost becomes the main frame (SetMainFrame); this one is
\* cached, or waits for its deletion.
NewMainFrame ==
  /\ isMain /\ info /\ rfh # "cached"
  /\ Disturb
  /\ Detach(FALSE)
  /\ rfEnd' = DetachRenderFrame(rfEnd)
  /\ \/ UNCHANGED pageVars
     \/ /\ rfh = "live"
        /\ rfh' = "cached"
        /\ pageQ' = Append(pageQ, "cached")
        /\ UNCHANGED shownEarly
  /\ UNCHANGED <<rendererVars, bfVars, rf, isMain, excluded, found, bcheck,
                 cmdSent, seenVars>>

\* The main frame takes its sub-frames into the cache: no Detach.
CachedWithParent ==
  /\ ~isMain /\ rfh = "live"
  /\ Disturb
  /\ rfh' = "cached"
  /\ pageQ' = Append(pageQ, "cached")
  /\ UNCHANGED <<rendererVars, bfVars, rfVars, isMain, excluded, found,
                 attached, info, bound, notified, bcheck, cmdVars, seenVars,
                 shownEarly>>

\* FrameHostStateChanged to kActive: MaybeAttach.
LeaveCache ==
  /\ rfh = "cached"
  /\ Disturb
  /\ rfh' = "live"
  /\ pageQ' = Append(pageQ, "live")
  /\ \/ /\ found /\ ~attached
        /\ bcheck' = (bcheck \/ bound # 0)
        /\ attached' = TRUE
        /\ info' = TRUE
     \/ /\ ~found \/ attached
        /\ UNCHANGED <<bcheck, attached, info>>
  /\ UNCHANGED <<rendererVars, bfVars, rfVars, isMain, excluded, found, bound,
                 notified, cmdVars, seenVars, shownEarly>>

\* RenderFrameDeleted: every CefBrowserFrame closes with kDeleted, and
\* CefBrowserInfo::RemoveFrame detaches the frame host.
RenderFrameDeleted ==
  /\ rfh # "deleted"
  /\ Disturb
  /\ rfh' = "deleted"
  /\ svc' = [g \in Attempts |-> IF svc[g] = "bound" THEN "deleted" ELSE svc[g]]
  /\ bf' = [g \in Attempts |-> IF svc[g] = "bound" THEN <<>> ELSE bf[g]]
  /\ rfEnd' = DetachRenderFrame(
                [g \in Attempts |->
                   IF svc[g] = "bound" /\ rfEnd[g] = "transit" THEN "gone"
                                                              ELSE rfEnd[g]])
  /\ found' = FALSE
  /\ IF found THEN Detach(isMain /\ rfh # "cached")
              ELSE UNCHANGED <<bound, notified, attached, info, cmdQ>>
  /\ UNCHANGED <<rendererVars, rf, isMain, excluded, bcheck, cmdSent, seenVars,
                 pageQ, shownEarly>>

-----------------------------------------------------------------------------
RendererNext ==
  \/ OnDidCommitProvisionalLoad
  \/ PageShown
  \/ RetryTimer
  \/ \E declined \in BOOLEAN : OnBrowserFrameDisconnect(declined)
  \/ \E declined \in BOOLEAN : OnRenderFrameDisconnect(declined)
  \/ OnDetached
  \/ FrameAttachedAck
  \/ ExecuteCommand
  \/ SendToBrowserFrame
  \/ RendererEntersCache
  \/ RendererLeavesCache
  \/ RendererKilled

BrowserNext ==
  \/ \E g \in Attempts :
        \/ BindInterface(g)
        \/ DeclineInterface(g)
        \/ ConnectionError(g)
        \/ FrameAttached(g)
        \/ ReceiveMessage(g)
        \/ CloseBrowserFrame(g)
  \/ HostDisconnect
  \/ SendToRenderFrame
  \/ NewMainFrame
  \/ CachedWithParent
  \/ LeaveCache
  \/ RenderFrameDeleted

Next == RendererNext \/ BrowserNext

Spec == Init /\ [][Next]_vars

\* What each process does with what it has received, and the retry timer,
\* happens in the end; the surroundings and the senders owe nothing.
Fairness ==
  /\ WF_vars(RetryTimer)
  /\ WF_vars(\E declined \in BOOLEAN : OnBrowserFrameDisconnect(declined))
  /\ WF_vars(\E declined \in BOOLEAN : OnRenderFrameDisconnect(declined))
  /\ WF_vars(FrameAttachedAck \/ ExecuteCommand)
  /\ WF_vars(RendererEntersCache \/ RendererLeavesCache)
  /\ \A g \in Attempts :
        /\ WF_vars(BindInterface(g) \/ DeclineInterface(g))
        /\ WF_vars(FrameAttached(g) \/ ReceiveMessage(g))
        /\ WF_vars(CloseBrowserFrame(g))
  /\ WF_vars(HostDisconnect)

FairSpec == Spec /\ Fairness

-----------------------------------------------------------------------------
(***************************************************************************)
(* Properties                                                              *)
(***************************************************************************)

BfMsg == [type : {"FrameAttached"}, reattached : BOOLEAN]
           \union [type : {"SendMessage"}, n : Nat]
RfMsg == [type : {"FrameAttachedAck"}, allow : BOOLEAN]
           \union [type : {"SendCommand"}, n : Nat]

\* Every variable has its type.
TypeOK ==
  /\ rproc \in {"alive", "killed", "fatal", "check"}
  /\ state \in ConnectionState
  /\ frame \in BOOLEAN
  /\ committed \in BOOLEAN
  /\ rcached \in BOOLEAN
  /\ denied \in BOOLEAN
  /\ retryCt \in Nat
  /\ timer \in BOOLEAN
  /\ ever \in BOOLEAN
  /\ sendQ \in Seq(Nat)
  /\ sent \in Nat
  /\ lastExec \in Nat
  /\ receiver \in 0 .. MaxConn
  /\ remote \in 0 .. MaxConn
  /\ gen \in 0 .. MaxConn
  /\ svc \in [Attempts -> SvcState]
  /\ bf \in [Attempts -> Seq(BfMsg)]
  /\ rfEnd \in [Attempts -> RemoteState]
  /\ rf \in Seq(RfMsg)
  /\ rfh \in {"live", "cached", "deleted"}
  /\ pageQ \in Seq({"live", "cached"})
  /\ shownEarly \in BOOLEAN
  /\ isMain \in BOOLEAN
  /\ excluded \in BOOLEAN
  /\ found \in BOOLEAN
  /\ attached \in BOOLEAN
  /\ info \in BOOLEAN
  /\ bound \in 0 .. MaxConn
  /\ cmdQ \in Seq(Nat)
  /\ cmdSent \in Nat
  /\ lastRecv \in Nat
  /\ notified \in BOOLEAN
  /\ bcheck \in BOOLEAN
  /\ disturb \in Nat

\* FrameAttachedAck never finds the renderer in a state other than
\* CONNECTION_PENDING, whatever was disconnected, retried or detached before:
\* its CHECK_EQ never fails.
AckIsExpected == rproc # "check"

\* CefFrameHostImpl never binds a second RenderFrame remote over the first
\* and MaybeAttach never finds one bound.
NoDoubleBind == ~bcheck

\* A renderer that holds an acknowledged connection has a peer that holds the
\* other end, or is about to learn that it does not: it never writes for ever
\* to a pipe nobody reads.
AckedMeansBound ==
  rproc = "alive" /\ state = "CONNECTION_ACKED" =>
    receiver # 0 /\ (bound = receiver \/ RenderFrameClosed(receiver))

\* The client's OnFrameAttached and OnFrameDetached alternate and tell the
\* truth: the last one was OnFrameAttached exactly while the remote is bound.
NotificationsTellBinding == notified <=> bound # 0

\* Nothing waits in the browser's queue while the frame is bound, so no
\* command can overtake one that was queued before the frame attached.
BoundMeansFlushed == bound # 0 => cmdQ = <<>>

\* An excluded frame never sees a command and never reaches the client.
ExcludedIsIsolated ==
  excluded => bound = 0 /\ lastExec = 0 /\ lastRecv = 0 /\ ~ever

\* The renderer, the browser and the client agree on whether the frame is
\* connected, and on what may pass between them, in any order of the pipes.
EndsAgree ==
  /\ TypeOK
  /\ AckIsExpected
  /\ AckedMeansBound
  /\ NotificationsTellBinding
  /\ BoundMeansFlushed
  /\ ExcludedIsIsolated

-----------------------------------------------------------------------------
(***************************************************************************)
(* The inductive invariant behind them                                     *)
(***************************************************************************)

\* Both pipes are those of the latest attempt, they are open exactly while the
\* renderer takes itself for connecting or connected, and no retry is due then.
PipesFollowState ==
  /\ receiver = remote
  /\ receiver # 0 => receiver = gen
  /\ receiver # 0 <=> state \in {"CONNECTION_PENDING", "CONNECTION_ACKED"}
  /\ timer => receiver = 0

AttachInFlight(g) ==
  \E i \in 1 .. Len(bf[g]) : bf[g][i].type = "FrameAttached"

\* FrameAttached is only ever the first message of its pipe, and the browser
\* has read it when it holds the other one.
AttachedComesFirst ==
  /\ \A g \in Attempts : g > gen => bf[g] = <<>>
  /\ \A g \in Attempts : \A i \in 2 .. Len(bf[g]) :
        bf[g][i].type # "FrameAttached"
  /\ bound <= gen
  /\ bound # 0 => ~AttachInFlight(bound)

\* The acknowledgement is the first message of its pipe, follows FrameAttached
\* and finds the renderer waiting.
AckAnswersAttached ==
  /\ receiver # 0 /\ AttachInFlight(receiver) =>
        rf = <<>> /\ state = "CONNECTION_PENDING"
  /\ \A i \in 1 .. Len(rf) : rf[i].type = "FrameAttachedAck" =>
        i = 1 /\ state = "CONNECTION_PENDING"

\* Who has sent on, or has acknowledged, the latest pipe still holds it or has
\* closed it; while it is held the frame has its browser.
PeerHoldsPipe ==
  /\ receiver # 0 /\ (rf # <<>> \/ state = "CONNECTION_ACKED") =>
        bound = receiver \/ RenderFrameClosed(receiver)
  /\ bound # 0 => info

\* An excluded frame is never registered and is only ever refused.
ExcludedIsRefused ==
  excluded => ~found /\ \A i \in 1 .. Len(rf) : rf[i] = Ack(FALSE)

\* Everything the two processes assume of each other about the pipes.
ConnectionInv ==
  /\ AckIsExpected
  /\ NotificationsTellBinding
  /\ BoundMeansFlushed
  /\ ExcludedIsIsolated
  /\ PipesFollowState
  /\ AttachedComesFirst
  /\ AckAnswersAttached
  /\ PeerHoldsPipe
  /\ ExcludedIsRefused

-----------------------------------------------------------------------------
\* Commands run in the order they were issued and none runs twice, across
\* queueing, flushing and any number of reconnections.
CommandChannel == INSTANCE OrderedChannel WITH issued <- cmdSent,
                                               done <- lastExec
CommandsInOrder == CommandChannel!Spec

\* The renderer's messages reach the client in the order they were sent, none
\* twice, when every attempt starts after the end of the previous one.
MessageChannel == INSTANCE OrderedChannel WITH issued <- sent,
                                               done <- lastRecv
MessagesInOrder == MessageChannel!Spec

\* The frame can and should be connected.
Routable ==
  /\ rproc = "alive" /\ frame /\ committed /\ ~rcached /\ ~denied
  /\ rfh = "live" /\ found /\ info
  /\ retryCt <= ConnectionRetryMax

\* The renderer was told that the page left the back/forward cache before the
\* disconnect that put it there: OnWasShown found it connected, and the
\* intentional disconnect that followed is not retried.
MissedItsPage == shownEarly /\ state = "DISCONNECTED"

\* Once the surroundings leave a live frame alone, it connects and stays so,
\* and what either side queued for it is sent; but for a page that comes out of
\* the cache before the renderer knows that it was disconnected.
EventuallyConnected ==
  <>[](Routable /\ ~MissedItsPage =>
         /\ state = "CONNECTION_ACKED" /\ bound = receiver
         /\ sendQ = <<>> /\ cmdQ = <<>>)
=============================================================================
