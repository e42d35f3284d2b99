----------------------- MODULE FrameConnectionProofs -----------------------
(***************************************************************************)
(* What holds of a frame's connection for every bound on the attempts, the  *)
(* messages, the commands and the events of the surroundings.               *)
(***************************************************************************)
EXTENDS FrameConnection, SequenceTheorems, TLAPS

\* Wrapping a queue of numbers keeps its length and its order.
LEMMA WrappedMessages ==
  ASSUME NEW q \in Seq(Nat)
  PROVE  /\ Messages(q) \in Seq(BfMsg)
         /\ Len(Messages(q)) = Len(q)
         /\ \A i \in 1 .. Len(q) : Messages(q)[i] = Message(q[i])
<1>1. \A i \in 1 .. Len(q) : Message(q[i]) \in BfMsg
  BY DEF Message, BfMsg
<1>2. Messages(q) \in [1 .. Len(q) -> BfMsg]
  BY <1>1 DEF Messages
<1> QED
  BY <1>2 DEF Messages

\* Wrapping a queue of commands does too.
LEMMA WrappedCommands ==
  ASSUME NEW q \in Seq(Nat)
  PROVE  /\ Commands(q) \in Seq(RfMsg)
         /\ Len(Commands(q)) = Len(q)
         /\ \A i \in 1 .. Len(q) : Commands(q)[i] = Command(q[i])
<1>1. \A i \in 1 .. Len(q) : Command(q[i]) \in RfMsg
  BY DEF Command, RfMsg
<1>2. Commands(q) \in [1 .. Len(q) -> RfMsg]
  BY <1>1 DEF Commands
<1> QED
  BY <1>2 DEF Commands

\* What the renderer writes leaves every pipe a sequence of messages.
LEMMA WriteType ==
  ASSUME TypeOK, NEW msgs \in Seq(BfMsg)
  PROVE  Write(msgs) \in [Attempts -> Seq(BfMsg)]
<1>1. CASE BrowserFrameClosed(remote) \/ remote \notin Attempts
  BY <1>1 DEF TypeOK, Write
<1>2. CASE ~BrowserFrameClosed(remote) /\ remote \in Attempts
  <2>1. bf[remote] \in Seq(BfMsg)
    BY <1>2 DEF TypeOK
  <2>2. bf[remote] \o msgs \in Seq(BfMsg)
    BY <2>1, ConcatProperties
  <2> QED
    BY <1>2, <2>2 DEF TypeOK, Write
<1> QED
  BY <1>1, <1>2

\* A call of ConnectBrowserFrame keeps the types of what it changes.
LEMMA ConnectType ==
  ASSUME TypeOK, NEW shown \in BOOLEAN, NEW cached \in BOOLEAN,
         ConnectBrowserFrame(shown, cached) \/ NoConnect
  PROVE  /\ rproc' \in {"alive", "killed", "fatal", "check"}
         /\ state' \in ConnectionState
         /\ timer' \in BOOLEAN
         /\ gen' \in 0 .. MaxConn
         /\ receiver' \in 0 .. MaxConn
         /\ remote' \in 0 .. MaxConn
         /\ svc' \in [Attempts -> SvcState]
         /\ bf' \in [Attempts -> Seq(BfMsg)]
         /\ rfEnd' \in [Attempts -> RemoteState]
         /\ rf' \in Seq(RfMsg)
<1>1. CASE NoConnect
  BY <1>1 DEF NoConnect, TypeOK
<1>2. CASE ConnectBrowserFrame(shown, cached)
  <2>1. CASE UNCHANGED <<rproc, gen, receiver, remote, svc, bf, rfEnd, rf>>
    BY <1>2, <2>1 DEF ConnectBrowserFrame, TypeOK, ConnectionState
  <2>2. CASE gen < MaxConn /\ gen' = gen + 1 /\ rf' = <<>>
    <3>1. gen + 1 \in Attempts
      BY <2>2, ConstantsAssumption DEF TypeOK, Attempts
    <3>2. <<AttachedMsg(retryCt > 0 \/ shown)>> \in Seq(BfMsg)
      BY DEF AttachedMsg, BfMsg
    <3>3. /\ svc' = [svc EXCEPT ![gen + 1] = "requested"]
          /\ rfEnd' = [rfEnd EXCEPT ![gen + 1] = "transit"]
          /\ bf' = [bf EXCEPT ![gen + 1] = <<AttachedMsg(retryCt > 0 \/ shown)>>]
          /\ receiver' = gen + 1 /\ remote' = gen + 1
          /\ state' = "CONNECTION_PENDING" /\ timer' = FALSE
          /\ rproc' \in {rproc, "check"}
      BY <1>2, <2>2 DEF ConnectBrowserFrame, TypeOK
    <3>4. /\ svc' \in [Attempts -> SvcState]
          /\ rfEnd' \in [Attempts -> RemoteState]
          /\ bf' \in [Attempts -> Seq(BfMsg)]
      BY <3>2, <3>3 DEF TypeOK, SvcState, RemoteState
    <3>5. /\ gen' \in 0 .. MaxConn
          /\ receiver' \in 0 .. MaxConn
          /\ remote' \in 0 .. MaxConn
      BY <2>2, <3>1, <3>3, ConstantsAssumption DEF Attempts
    <3>6. rproc' \in {"alive", "killed", "fatal", "check"}
      BY <3>3 DEF TypeOK
    <3>7. state' \in ConnectionState
      BY <3>3 DEF ConnectionState
    <3>8. rf' \in Seq(RfMsg)
      BY <2>2
    <3>9. timer' \in BOOLEAN
      BY <3>3
    <3> QED
      BY <3>4, <3>5, <3>6, <3>7, <3>8, <3>9
  <2> QED
    BY <1>2, <2>1, <2>2 DEF ConnectBrowserFrame
<1> QED
  BY <1>1, <1>2

\* A call of OnDisconnect keeps the types of what it changes.
LEMMA DisconnectType ==
  ASSUME TypeOK, NEW f \in BOOLEAN, NEW custom \in BOOLEAN,
         NEW declined \in BOOLEAN, OnDisconnect(f, custom, declined)
  PROVE  /\ rproc' \in {"alive", "killed", "fatal", "check"}
         /\ state' \in ConnectionState
         /\ timer' \in BOOLEAN
         /\ retryCt' \in Nat
         /\ receiver' \in 0 .. MaxConn
         /\ remote' \in 0 .. MaxConn
         /\ rf' \in Seq(RfMsg)
<1>1. timer' \in BOOLEAN
  BY DEF OnDisconnect, TypeOK
<1>2. retryCt' \in Nat /\ state' \in ConnectionState
  BY DEF OnDisconnect, TypeOK, ConnectionState
<1>3. /\ receiver' \in 0 .. MaxConn
      /\ remote' \in 0 .. MaxConn
      /\ rf' \in Seq(RfMsg)
  <2>1. CASE UNCHANGED <<receiver, remote, rf>>
    BY <2>1 DEF TypeOK
  <2>2. CASE ResetPipes
    BY <2>2, ConstantsAssumption DEF ResetPipes
  <2> QED
    BY <2>1, <2>2 DEF OnDisconnect
<1>4. rproc' \in {"alive", "killed", "fatal", "check"}
  BY DEF OnDisconnect, TypeOK
<1> QED
  BY <1>1, <1>2, <1>3, <1>4

\* Initially every variable has its type.
LEMMA InitType == Init => TypeOK
<1> SUFFICES ASSUME Init PROVE TypeOK
  OBVIOUS
<1>1. /\ rproc \in {"alive", "killed", "fatal", "check"}
      /\ state \in ConnectionState
      /\ rfh \in {"live", "cached", "deleted"}
  BY DEF Init, ConnectionState
<1>2. /\ retryCt \in Nat
      /\ sent \in Nat
      /\ lastExec \in Nat
      /\ receiver \in 0 .. MaxConn
      /\ remote \in 0 .. MaxConn
      /\ gen \in 0 .. MaxConn
      /\ bound \in 0 .. MaxConn
      /\ cmdSent \in Nat
      /\ lastRecv \in Nat
      /\ disturb \in Nat
  BY ConstantsAssumption DEF Init
<1>3. /\ svc \in [Attempts -> SvcState]
      /\ bf \in [Attempts -> Seq(BfMsg)]
      /\ rfEnd \in [Attempts -> RemoteState]
  BY DEF Init, SvcState, RemoteState
<1>4. /\ sendQ \in Seq(Nat)
      /\ rf \in Seq(RfMsg)
      /\ pageQ \in Seq({"live", "cached"})
      /\ cmdQ \in Seq(Nat)
  BY DEF Init
<1>5. /\ frame \in BOOLEAN
      /\ committed \in BOOLEAN
      /\ rcached \in BOOLEAN
      /\ denied \in BOOLEAN
      /\ timer \in BOOLEAN
      /\ ever \in BOOLEAN
      /\ isMain \in BOOLEAN
      /\ excluded \in BOOLEAN
      /\ notified \in BOOLEAN
      /\ bcheck \in BOOLEAN
  BY DEF Init
<1>6. /\ found \in BOOLEAN
      /\ attached \in BOOLEAN
      /\ info \in BOOLEAN
      /\ shownEarly \in BOOLEAN
  BY DEF Init
<1> QED
  BY <1>1, <1>2, <1>3, <1>4, <1>5, <1>6 DEF TypeOK

\* Every step keeps the types.
LEMMA TypePreserved == TypeOK /\ [Next]_vars => TypeOK'
<1> SUFFICES ASSUME TypeOK, [Next]_vars PROVE TypeOK'
  OBVIOUS
<1>1. CASE OnDidCommitProvisionalLoad
  <2>1. UNCHANGED <<frame, rcached, retryVars, sendVars, hostVars, cmdVars,
        seenVars, pageVars>>
    BY <1>1 DEF OnDidCommitProvisionalLoad
  <2>2. committed' \in BOOLEAN
    BY <1>1 DEF OnDidCommitProvisionalLoad
  <2>3. disturb' \in Nat
    BY <1>1 DEF OnDidCommitProvisionalLoad, Disturb, TypeOK
  <2>4. /\ rproc' \in {"alive", "killed", "fatal", "check"}
        /\ state' \in ConnectionState
        /\ timer' \in BOOLEAN
        /\ gen' \in 0 .. MaxConn
        /\ receiver' \in 0 .. MaxConn
        /\ remote' \in 0 .. MaxConn
        /\ svc' \in [Attempts -> SvcState]
        /\ bf' \in [Attempts -> Seq(BfMsg)]
        /\ rfEnd' \in [Attempts -> RemoteState]
        /\ rf' \in Seq(RfMsg)
    <3>1. rcached \in BOOLEAN
      BY DEF TypeOK
    <3> QED
      BY <1>1, <3>1, ConnectType DEF OnDidCommitProvisionalLoad
  <2> QED
    BY <2>1, <2>2, <2>3, <2>4 DEF TypeOK, retryVars, sendVars, hostVars,
      cmdVars, seenVars, pageVars
<1>2. CASE PageShown
  <2>1. UNCHANGED <<frameVars, retryVars, sendVars, hostVars, cmdVars,
        seenVars, rfh, pageQ>>
    BY <1>2 DEF PageShown
  <2>2. disturb' \in Nat /\ shownEarly' \in BOOLEAN
    BY <1>2 DEF PageShown, OnWasShown, Disturb, TypeOK
  <2>3. /\ rproc' \in {"alive", "killed", "fatal", "check"}
        /\ state' \in ConnectionState
        /\ timer' \in BOOLEAN
        /\ gen' \in 0 .. MaxConn
        /\ receiver' \in 0 .. MaxConn
        /\ remote' \in 0 .. MaxConn
        /\ svc' \in [Attempts -> SvcState]
        /\ bf' \in [Attempts -> Seq(BfMsg)]
        /\ rfEnd' \in [Attempts -> RemoteState]
        /\ rf' \in Seq(RfMsg)
    <3>1. rcached \in BOOLEAN
      BY DEF TypeOK
    <3> QED
      BY <1>2, <3>1, ConnectType DEF PageShown, OnWasShown
  <2> QED
    BY <2>1, <2>2, <2>3 DEF TypeOK, frameVars, retryVars, sendVars, hostVars,
      cmdVars, seenVars, pageVars
<1>3. CASE RetryTimer
  <2>1. UNCHANGED <<frameVars, retryVars, sendVars, hostVars, cmdVars,
        seenVars, pageVars, disturb>>
    BY <1>3 DEF RetryTimer
  <2>2. /\ rproc' \in {"alive", "killed", "fatal", "check"}
        /\ state' \in ConnectionState
        /\ timer' \in BOOLEAN
        /\ gen' \in 0 .. MaxConn
        /\ receiver' \in 0 .. MaxConn
        /\ remote' \in 0 .. MaxConn
        /\ svc' \in [Attempts -> SvcState]
        /\ bf' \in [Attempts -> Seq(BfMsg)]
        /\ rfEnd' \in [Attempts -> RemoteState]
        /\ rf' \in Seq(RfMsg)
    <3>1. rcached \in BOOLEAN
      BY DEF TypeOK
    <3> QED
      BY <1>3, <3>1, ConnectType DEF RetryTimer
  <2> QED
    BY <2>1, <2>2 DEF TypeOK, frameVars, retryVars, sendVars, hostVars,
      cmdVars, seenVars, pageVars
<1>4. ASSUME NEW declined \in BOOLEAN, OnBrowserFrameDisconnect(declined)
      PROVE  TypeOK'
  <2>1. UNCHANGED <<frameVars, denied, ever, gen, sendVars, bfVars, rfEnd,
        hostVars, cmdVars, seenVars, pageVars, disturb>>
    BY <1>4 DEF OnBrowserFrameDisconnect
  <2>2. /\ rproc' \in {"alive", "killed", "fatal", "check"}
        /\ state' \in ConnectionState
        /\ timer' \in BOOLEAN
        /\ retryCt' \in Nat
        /\ receiver' \in 0 .. MaxConn
        /\ remote' \in 0 .. MaxConn
        /\ rf' \in Seq(RfMsg)
    <3>1. frame \in BOOLEAN /\ (svc[remote] = "deleted") \in BOOLEAN
      BY DEF TypeOK
    <3> QED
      BY <1>4, <3>1, DisconnectType DEF OnBrowserFrameDisconnect
  <2> QED
    BY <2>1, <2>2 DEF TypeOK, frameVars, sendVars, bfVars, hostVars, cmdVars,
      seenVars, pageVars
<1>5. ASSUME NEW declined \in BOOLEAN, OnRenderFrameDisconnect(declined)
      PROVE  TypeOK'
  <2>1. UNCHANGED <<frameVars, denied, ever, gen, sendVars, bfVars, rfEnd,
        hostVars, cmdVars, seenVars, pageVars, disturb>>
    BY <1>5 DEF OnRenderFrameDisconnect
  <2>2. /\ rproc' \in {"alive", "killed", "fatal", "check"}
        /\ state' \in ConnectionState
        /\ timer' \in BOOLEAN
        /\ retryCt' \in Nat
        /\ receiver' \in 0 .. MaxConn
        /\ remote' \in 0 .. MaxConn
        /\ rf' \in Seq(RfMsg)
    <3>1. frame \in BOOLEAN /\ (rfEnd[receiver] # "gone") \in BOOLEAN
      BY DEF TypeOK
    <3> QED
      BY <1>5, <3>1, DisconnectType DEF OnRenderFrameDisconnect
  <2> QED
    BY <2>1, <2>2 DEF TypeOK, frameVars, sendVars, bfVars, hostVars, cmdVars,
      seenVars, pageVars
<1>6. CASE OnDetached
  <2>1. UNCHANGED <<committed, rcached, denied, ever, gen, sent, bfVars, rfEnd,
        hostVars, cmdVars, seenVars, pageVars, disturb>>
    BY <1>6 DEF OnDetached
  <2>2. frame' \in BOOLEAN
    BY <1>6 DEF OnDetached
  <2>3. sendQ' \in Seq(Nat)
    BY <1>6 DEF OnDetached
  <2>4. /\ rproc' \in {"alive", "killed", "fatal", "check"}
        /\ state' \in ConnectionState
        /\ timer' \in BOOLEAN
        /\ retryCt' \in Nat
        /\ receiver' \in 0 .. MaxConn
        /\ remote' \in 0 .. MaxConn
        /\ rf' \in Seq(RfMsg)
    BY <1>6, DisconnectType DEF OnDetached
  <2> QED
    BY <2>1, <2>2, <2>3, <2>4 DEF TypeOK, bfVars, hostVars, cmdVars, seenVars,
      pageVars
<1>7. CASE FrameAttachedAck
  <2>1. UNCHANGED <<frameVars, timer, gen, receiver, remote, sent, svc, rfEnd,
        hostVars, cmdVars, seenVars, pageVars, disturb>>
    BY <1>7 DEF FrameAttachedAck
  <2>2. rproc' \in {"alive", "killed", "fatal", "check"}
    BY <1>7 DEF FrameAttachedAck, TypeOK
  <2>3. state' \in ConnectionState
    BY <1>7 DEF FrameAttachedAck, ConnectionState
  <2>4. retryCt' \in Nat
    BY <1>7 DEF FrameAttachedAck
  <2>5. rf' \in Seq(RfMsg)
    BY <1>7, HeadTailProperties DEF FrameAttachedAck, TypeOK
  <2>6. denied' \in BOOLEAN
    BY <1>7 DEF FrameAttachedAck, TypeOK
  <2>7. ever' \in BOOLEAN
    BY <1>7 DEF FrameAttachedAck, TypeOK
  <2>8. sendQ' \in Seq(Nat)
    <3>1. sendQ \in Seq(Nat)
      BY DEF TypeOK
    <3>2. sendQ' = <<>> \/ sendQ' = sendQ
      BY <1>7 DEF FrameAttachedAck, FlushMessages
    <3> QED
      BY <3>1, <3>2, EmptySeq
  <2>9. bf' \in [Attempts -> Seq(BfMsg)]
    <3>1. Messages(sendQ) \in Seq(BfMsg)
      BY WrappedMessages DEF TypeOK
    <3> QED
      BY <1>7, <3>1, WriteType DEF FrameAttachedAck, FlushMessages, TypeOK
  <2> QED
    BY <2>1, <2>2, <2>3, <2>4, <2>5, <2>6, <2>7, <2>8, <2>9 DEF TypeOK,
      frameVars, hostVars, cmdVars, seenVars, pageVars
<1>8. CASE ExecuteCommand
  <2>1. UNCHANGED <<rendererVars, bfVars, rfEnd, hostVars, cmdVars, lastRecv,
        pageVars, disturb>>
    BY <1>8 DEF ExecuteCommand
  <2>2. rf' \in Seq(RfMsg)
    BY <1>8, HeadTailProperties DEF ExecuteCommand, TypeOK
  <2>3. lastExec' \in Nat
    <3>1. Head(rf) \in RfMsg
      BY <1>8, HeadTailProperties DEF ExecuteCommand, TypeOK
    <3> QED
      BY <1>8, <3>1 DEF ExecuteCommand, RfMsg
  <2> QED
    BY <2>1, <2>2, <2>3 DEF TypeOK, rendererVars, frameVars, connVars,
      retryVars, sendVars, bfVars, hostVars, cmdVars, pageVars
<1>9. CASE SendToBrowserFrame
  <2>1. UNCHANGED <<rproc, frameVars, connVars, svc, rfVars, hostVars, cmdVars,
        seenVars, pageVars, disturb>>
    BY <1>9 DEF SendToBrowserFrame
  <2>2. sent' \in Nat
    BY <1>9 DEF SendToBrowserFrame, TypeOK
  <2>3. sendQ' \in Seq(Nat)
    <3>1. sendQ \in Seq(Nat) /\ sent + 1 \in Nat
      BY DEF TypeOK
    <3> QED
      BY <1>9, <3>1, AppendProperties, SMTT(30) DEF SendToBrowserFrame
  <2>4. bf' \in [Attempts -> Seq(BfMsg)]
    <3>1. <<Message(sent + 1)>> \in Seq(BfMsg)
      BY DEF TypeOK, Message, BfMsg
    <3>2. bf \in [Attempts -> Seq(BfMsg)]
      BY DEF TypeOK
    <3> QED
      BY <1>9, <3>1, <3>2, WriteType DEF SendToBrowserFrame
  <2> QED
    BY <2>1, <2>2, <2>3, <2>4 DEF TypeOK, frameVars, connVars, retryVars,
      rfVars, hostVars, cmdVars, seenVars, pageVars
<1>10. CASE RendererEntersCache
  <2>1. UNCHANGED <<rproc, frame, committed, connVars, sendVars, bfVars,
        rfVars, hostVars, cmdVars, seenVars, rfh, shownEarly, disturb>>
    BY <1>10 DEF RendererEntersCache
  <2>2. rcached' \in BOOLEAN
    BY <1>10 DEF RendererEntersCache
  <2>3. pageQ' \in Seq({"live", "cached"})
    BY <1>10, HeadTailProperties DEF RendererEntersCache, TypeOK
  <2> QED
    BY <2>1, <2>2, <2>3 DEF TypeOK, connVars, retryVars, sendVars, bfVars,
      rfVars, hostVars, cmdVars, seenVars
<1>11. CASE RendererLeavesCache
  <2>1. UNCHANGED <<frame, committed, retryVars, sendVars, hostVars, cmdVars,
        seenVars, rfh, disturb>>
    BY <1>11 DEF RendererLeavesCache
  <2>2. rcached' \in BOOLEAN /\ shownEarly' \in BOOLEAN
    BY <1>11 DEF RendererLeavesCache, OnWasShown
  <2>3. pageQ' \in Seq({"live", "cached"})
    BY <1>11, HeadTailProperties DEF RendererLeavesCache, TypeOK
  <2>4. /\ rproc' \in {"alive", "killed", "fatal", "check"}
        /\ state' \in ConnectionState
        /\ timer' \in BOOLEAN
        /\ gen' \in 0 .. MaxConn
        /\ receiver' \in 0 .. MaxConn
        /\ remote' \in 0 .. MaxConn
        /\ svc' \in [Attempts -> SvcState]
        /\ bf' \in [Attempts -> Seq(BfMsg)]
        /\ rfEnd' \in [Attempts -> RemoteState]
        /\ rf' \in Seq(RfMsg)
    BY <1>11, ConnectType DEF RendererLeavesCache, OnWasShown
  <2> QED
    BY <2>1, <2>2, <2>3, <2>4 DEF TypeOK, retryVars, sendVars, hostVars,
      cmdVars, seenVars
<1>12. CASE RendererKilled
  <2>1. UNCHANGED <<frameVars, connVars, sendVars, bfVars, rfEnd, hostVars,
        cmdVars, seenVars, pageVars>>
    BY <1>12 DEF RendererKilled
  <2>2. rproc' \in {"alive", "killed", "fatal", "check"}
    BY <1>12 DEF RendererKilled
  <2>3. rf' \in Seq(RfMsg)
    BY <1>12 DEF RendererKilled
  <2>4. disturb' \in Nat
    BY <1>12 DEF RendererKilled, Disturb, TypeOK
  <2> QED
    BY <2>1, <2>2, <2>3, <2>4 DEF TypeOK, frameVars, connVars, retryVars,
      sendVars, bfVars, hostVars, cmdVars, seenVars, pageVars
<1>13. ASSUME NEW g \in Attempts, BindInterface(g)
       PROVE  TypeOK'
  <2>1. UNCHANGED <<rendererVars, bf, rfVars, hostVars, cmdVars, seenVars,
        pageVars, disturb>>
    BY <1>13 DEF BindInterface
  <2>2. svc' \in [Attempts -> SvcState]
    BY <1>13 DEF BindInterface, TypeOK, SvcState
  <2> QED
    BY <2>1, <2>2 DEF TypeOK, rendererVars, frameVars, connVars, retryVars,
      sendVars, rfVars, hostVars, cmdVars, seenVars, pageVars
<1>14. ASSUME NEW g \in Attempts, DeclineInterface(g)
       PROVE  TypeOK'
  <2>1. UNCHANGED <<rendererVars, rf, hostVars, cmdVars, seenVars, pageVars>>
    BY <1>14 DEF DeclineInterface
  <2>2. svc' \in [Attempts -> SvcState]
    BY <1>14 DEF DeclineInterface, TypeOK, SvcState
  <2>3. bf' \in [Attempts -> Seq(BfMsg)]
    BY <1>14 DEF DeclineInterface, TypeOK
  <2>4. rfEnd' \in [Attempts -> RemoteState]
    BY <1>14 DEF DeclineInterface, DropRemote, TypeOK, RemoteState
  <2>5. disturb' \in Nat
    BY <1>14 DEF DeclineInterface, Disturb, TypeOK
  <2> QED
    BY <2>1, <2>2, <2>3, <2>4, <2>5 DEF TypeOK, rendererVars, frameVars,
      connVars, retryVars, sendVars, hostVars, cmdVars, seenVars, pageVars
<1>15. ASSUME NEW g \in Attempts, ConnectionError(g)
       PROVE  TypeOK'
  <2>1. UNCHANGED <<rendererVars, rf, hostVars, cmdVars, seenVars, pageVars>>
    BY <1>15 DEF ConnectionError
  <2>2. svc' \in [Attempts -> SvcState]
    BY <1>15 DEF ConnectionError, TypeOK, SvcState
  <2>3. bf' \in [Attempts -> Seq(BfMsg)]
    BY <1>15 DEF ConnectionError, TypeOK
  <2>4. rfEnd' \in [Attempts -> RemoteState]
    BY <1>15 DEF ConnectionError, DropRemote, TypeOK, RemoteState
  <2>5. disturb' \in Nat
    BY <1>15 DEF ConnectionError, Disturb, TypeOK
  <2> QED
    BY <2>1, <2>2, <2>3, <2>4, <2>5 DEF TypeOK, rendererVars, frameVars,
      connVars, retryVars, sendVars, hostVars, cmdVars, seenVars, pageVars
<1>16. ASSUME NEW g \in Attempts, FrameAttached(g)
       PROVE  TypeOK'
  <2>1. UNCHANGED <<rendererVars, svc, isMain, excluded, found, attached, info,
        cmdSent, seenVars, pageVars, disturb>>
    BY <1>16 DEF FrameAttached
  <2>2. bf' \in [Attempts -> Seq(BfMsg)]
    <3>1. Tail(bf[g]) \in Seq(BfMsg)
      BY <1>16, HeadTailProperties DEF FrameAttached, TypeOK
    <3> QED
      BY <1>16, <3>1 DEF FrameAttached, TypeOK
  <2>3. rfEnd' \in [Attempts -> RemoteState]
    BY <1>16 DEF FrameAttached, DropRemote, DenyAttach, TypeOK, RemoteState
  <2>4. bound' \in 0 .. MaxConn
    BY <1>16, ConstantsAssumption DEF FrameAttached, TypeOK, Attempts
  <2>5. cmdQ' \in Seq(Nat)
    <3>1. cmdQ \in Seq(Nat)
      BY DEF TypeOK
    <3>2. cmdQ' = <<>> \/ cmdQ' = cmdQ
      BY <1>16 DEF FrameAttached, AckAndFlush
    <3> QED
      BY <3>1, <3>2, EmptySeq
  <2>6. notified' \in BOOLEAN
    BY <1>16 DEF FrameAttached, TypeOK
  <2>7. bcheck' \in BOOLEAN
    BY <1>16 DEF FrameAttached, TypeOK
  <2>8. rf' \in Seq(RfMsg)
    <3>1. <<Ack(FALSE)>> \in Seq(RfMsg) /\ <<Ack(TRUE)>> \in Seq(RfMsg)
      BY DEF Ack, RfMsg
    <3>2. Commands(cmdQ) \in Seq(RfMsg)
      BY WrappedCommands DEF TypeOK
    <3>3. <<Ack(TRUE)>> \o Commands(cmdQ) \in Seq(RfMsg)
      BY <3>1, <3>2, ConcatProperties
    <3>4. rf \in Seq(RfMsg)
      BY DEF TypeOK
    <3> QED
      BY <1>16, <3>1, <3>3, <3>4 DEF FrameAttached, AckAndFlush, DenyAttach
  <2> QED
    BY <2>1, <2>2, <2>3, <2>4, <2>5, <2>6, <2>7, <2>8 DEF TypeOK, rendererVars,
      frameVars, connVars, retryVars, sendVars, seenVars, pageVars
<1>17. ASSUME NEW g \in Attempts, ReceiveMessage(g)
       PROVE  TypeOK'
  <2>1. UNCHANGED <<rendererVars, svc, rfVars, hostVars, cmdVars, lastExec,
        pageVars, disturb>>
    BY <1>17 DEF ReceiveMessage
  <2>2. bf' \in [Attempts -> Seq(BfMsg)]
    <3>1. Tail(bf[g]) \in Seq(BfMsg)
      BY <1>17, HeadTailProperties DEF ReceiveMessage, TypeOK
    <3> QED
      BY <1>17, <3>1 DEF ReceiveMessage, TypeOK
  <2>3. lastRecv' \in Nat
    <3>1. Head(bf[g]) \in BfMsg
      BY <1>17, HeadTailProperties DEF ReceiveMessage, TypeOK
    <3> QED
      BY <1>17, <3>1 DEF ReceiveMessage, TypeOK, BfMsg
  <2> QED
    BY <2>1, <2>2, <2>3 DEF TypeOK, rendererVars, frameVars, connVars,
      retryVars, sendVars, rfVars, hostVars, cmdVars, pageVars
<1>18. ASSUME NEW g \in Attempts, CloseBrowserFrame(g)
       PROVE  TypeOK'
  <2>1. UNCHANGED <<rendererVars, bf, rfVars, hostVars, cmdVars, seenVars,
        pageVars, disturb>>
    BY <1>18 DEF CloseBrowserFrame
  <2>2. svc' \in [Attempts -> SvcState]
    BY <1>18 DEF CloseBrowserFrame, TypeOK, SvcState
  <2> QED
    BY <2>1, <2>2 DEF TypeOK, rendererVars, frameVars, connVars, retryVars,
      sendVars, rfVars, hostVars, cmdVars, seenVars, pageVars
<1>19. CASE HostDisconnect
  <2>1. UNCHANGED <<rendererVars, bfVars, rf, isMain, excluded, found,
        attached, info, bcheck, cmdVars, seenVars, pageVars, disturb>>
    BY <1>19 DEF HostDisconnect
  <2>2. rfEnd' \in [Attempts -> RemoteState]
    BY <1>19 DEF HostDisconnect, TypeOK, RemoteState
  <2>3. bound' \in 0 .. MaxConn
    BY <1>19, ConstantsAssumption DEF HostDisconnect
  <2>4. notified' \in BOOLEAN
    BY <1>19 DEF HostDisconnect, TypeOK
  <2> QED
    BY <2>1, <2>2, <2>3, <2>4 DEF TypeOK, rendererVars, frameVars, connVars,
      retryVars, sendVars, bfVars, cmdVars, seenVars, pageVars
<1>20. CASE SendToRenderFrame
  <2>1. UNCHANGED <<rendererVars, bfVars, rfEnd, hostVars, seenVars, pageVars,
        disturb>>
    BY <1>20 DEF SendToRenderFrame
  <2>2. cmdSent' \in Nat
    BY <1>20 DEF SendToRenderFrame, TypeOK
  <2>3. cmdQ' \in Seq(Nat)
    <3>1. cmdQ \in Seq(Nat) /\ cmdSent + 1 \in Nat
      BY DEF TypeOK
    <3> QED
      BY <1>20, <3>1, AppendProperties, SMTT(30) DEF SendToRenderFrame
  <2>4. rf' \in Seq(RfMsg)
    <3>1. rf \in Seq(RfMsg) /\ Command(cmdSent + 1) \in RfMsg
      BY DEF TypeOK, Command, RfMsg
    <3> QED
      BY <1>20, <3>1, AppendProperties DEF SendToRenderFrame
  <2> QED
    BY <2>1, <2>2, <2>3, <2>4 DEF TypeOK, rendererVars, frameVars, connVars,
      retryVars, sendVars, bfVars, hostVars, seenVars, pageVars
<1>21. CASE NewMainFrame
  <2>1. UNCHANGED <<rendererVars, bfVars, rf, isMain, excluded, found, bcheck,
        cmdSent, seenVars>>
    BY <1>21 DEF NewMainFrame
  <2>2. rfEnd' \in [Attempts -> RemoteState]
    BY <1>21 DEF NewMainFrame, DetachRenderFrame, TypeOK, RemoteState
  <2>3. bound' \in 0 .. MaxConn
    BY <1>21, ConstantsAssumption DEF NewMainFrame, Detach
  <2>4. notified' \in BOOLEAN
    BY <1>21 DEF NewMainFrame, Detach, NotifyDetached, TypeOK
  <2>5. attached' \in BOOLEAN
    BY <1>21 DEF NewMainFrame, Detach
  <2>6. info' \in BOOLEAN
    BY <1>21 DEF NewMainFrame, Detach
  <2>7. cmdQ' \in Seq(Nat)
    BY <1>21 DEF NewMainFrame, Detach
  <2>8. rfh' \in {"live", "cached", "deleted"} /\ shownEarly' \in BOOLEAN
    BY <1>21 DEF NewMainFrame, pageVars, TypeOK
  <2>9. pageQ' \in Seq({"live", "cached"})
    BY <1>21, AppendProperties, ZenonT(60) DEF NewMainFrame, pageVars, TypeOK
  <2>10. disturb' \in Nat
    BY <1>21 DEF NewMainFrame, Disturb, TypeOK
  <2> QED
    BY <2>1, <2>2, <2>3, <2>4, <2>5, <2>6, <2>7, <2>8, <2>9, <2>10 DEF TypeOK,
      rendererVars, frameVars, connVars, retryVars, sendVars, bfVars, seenVars
<1>22. CASE CachedWithParent
  <2>1. UNCHANGED <<rendererVars, bfVars, rfVars, isMain, excluded, found,
        attached, info, bound, notified, bcheck, cmdVars, seenVars,
        shownEarly>>
    BY <1>22 DEF CachedWithParent
  <2>2. rfh' \in {"live", "cached", "deleted"}
    BY <1>22 DEF CachedWithParent
  <2>3. pageQ' \in Seq({"live", "cached"})
    BY <1>22, AppendProperties DEF CachedWithParent, TypeOK
  <2>4. disturb' \in Nat
    BY <1>22 DEF CachedWithParent, Disturb, TypeOK
  <2> QED
    BY <2>1, <2>2, <2>3, <2>4 DEF TypeOK, rendererVars, frameVars, connVars,
      retryVars, sendVars, bfVars, rfVars, cmdVars, seenVars
<1>23. CASE LeaveCache
  <2>1. UNCHANGED <<rendererVars, bfVars, rfVars, isMain, excluded, found,
        bound, notified, cmdVars, seenVars, shownEarly>>
    BY <1>23 DEF LeaveCache
  <2>2. rfh' \in {"live", "cached", "deleted"}
    BY <1>23 DEF LeaveCache
  <2>3. pageQ' \in Seq({"live", "cached"})
    BY <1>23, AppendProperties DEF LeaveCache, TypeOK
  <2>4. attached' \in BOOLEAN
    BY <1>23 DEF LeaveCache, TypeOK
  <2>5. info' \in BOOLEAN
    BY <1>23 DEF LeaveCache, TypeOK
  <2>6. bcheck' \in BOOLEAN
    BY <1>23 DEF LeaveCache, TypeOK
  <2>7. disturb' \in Nat
    BY <1>23 DEF LeaveCache, Disturb, TypeOK
  <2> QED
    BY <2>1, <2>2, <2>3, <2>4, <2>5, <2>6, <2>7 DEF TypeOK, rendererVars,
      frameVars, connVars, retryVars, sendVars, bfVars, rfVars, cmdVars,
      seenVars
<1>24. CASE RenderFrameDeleted
  <2>1. UNCHANGED <<rendererVars, rf, isMain, excluded, bcheck, cmdSent,
        seenVars, pageQ, shownEarly>>
    BY <1>24 DEF RenderFrameDeleted
  <2>2. rfh' \in {"live", "cached", "deleted"}
    BY <1>24 DEF RenderFrameDeleted
  <2>3. svc' \in [Attempts -> SvcState]
    BY <1>24 DEF RenderFrameDeleted, TypeOK, SvcState
  <2>4. bf' \in [Attempts -> Seq(BfMsg)]
    BY <1>24 DEF RenderFrameDeleted, TypeOK
  <2>5. rfEnd' \in [Attempts -> RemoteState]
    BY <1>24 DEF RenderFrameDeleted, DetachRenderFrame, TypeOK, RemoteState
  <2>6. found' \in BOOLEAN
    BY <1>24 DEF RenderFrameDeleted
  <2>7. bound' \in 0 .. MaxConn
    BY <1>24, ConstantsAssumption DEF RenderFrameDeleted, Detach, TypeOK
  <2>8. notified' \in BOOLEAN
    BY <1>24 DEF RenderFrameDeleted, Detach, NotifyDetached, TypeOK
  <2>9. attached' \in BOOLEAN
    BY <1>24 DEF RenderFrameDeleted, Detach, TypeOK
  <2>10. info' \in BOOLEAN
    BY <1>24 DEF RenderFrameDeleted, Detach, TypeOK
  <2>11. cmdQ' \in Seq(Nat)
    <3>1. cmdQ \in Seq(Nat)
      BY DEF TypeOK
    <3>2. cmdQ' = <<>> \/ cmdQ' = cmdQ
      BY <1>24 DEF RenderFrameDeleted, Detach
    <3> QED
      BY <3>1, <3>2, EmptySeq
  <2>12. disturb' \in Nat
    BY <1>24 DEF RenderFrameDeleted, Disturb, TypeOK
  <2> QED
    BY <2>1, <2>2, <2>3, <2>4, <2>5, <2>6, <2>7, <2>8, <2>9, <2>10, <2>11,
      <2>12 DEF TypeOK, rendererVars, frameVars, connVars, retryVars, sendVars,
      seenVars
<1>25. CASE UNCHANGED vars
  BY <1>25 DEF TypeOK, vars, rendererVars, frameVars, retryVars, connVars,
    sendVars, bfVars, rfVars, hostVars, pageVars, cmdVars, seenVars
<1> QED
  BY <1>1, <1>2, <1>3, <1>4, <1>5, <1>6, <1>7, <1>8, <1>9, <1>10, <1>11, <1>12,
    <1>13, <1>14, <1>15, <1>16, <1>17, <1>18, <1>19, <1>20, <1>21, <1>22,
    <1>23, <1>24, <1>25 DEF Next, RendererNext, BrowserNext

\* Every variable keeps its type, whatever the bounds.
THEOREM TypeCorrect == Spec => []TypeOK
  BY InitType, TypePreserved, PTL DEF Spec

-----------------------------------------------------------------------------
(***************************************************************************)
(* What a step does to the variables of ConnectionInv                      *)
(***************************************************************************)

connectionVars == <<rproc, state, timer, gen, receiver, remote, bf, rfEnd, rf,
                    excluded, found, info, bound, notified, cmdQ, ever,
                    seenVars>>

BrowserUnchanged == UNCHANGED <<excluded, found, info, bound, notified, cmdQ>>

Unconnected == state \in {"DISCONNECTED", "RECONNECT_PENDING"}

GivesUp ==
  /\ state' = "DISCONNECTED"
  /\ timer' = FALSE
  /\ UNCHANGED <<rproc, gen, receiver, remote, bf, rfEnd, rf>>

StartsAttempt ==
  /\ gen + 1 \in Attempts
  /\ rproc' = IF receiver = 0 /\ remote = 0 THEN rproc ELSE "check"
  /\ state' = "CONNECTION_PENDING"
  /\ timer' = FALSE
  /\ gen' = gen + 1
  /\ receiver' = gen + 1
  /\ remote' = gen + 1
  /\ \E re \in BOOLEAN : bf' = [bf EXCEPT ![gen + 1] = <<AttachedMsg(re)>>]
  /\ rfEnd' = [rfEnd EXCEPT ![gen + 1] = "transit"]
  /\ rf' = <<>>

Connects ==
  /\ Unconnected
  /\ GivesUp \/ StartsAttempt
  /\ BrowserUnchanged
  /\ UNCHANGED <<ever, seenVars>>

Disconnects ==
  /\ rproc' \in {rproc, "fatal"}
  /\ state' \in {"DISCONNECTED", "RECONNECT_PENDING"}
  /\ ResetPipes
  /\ BrowserUnchanged
  /\ UNCHANGED <<gen, bf, rfEnd, ever, seenVars>>

LosesPipe(g) ==
  /\ bf' = [bf EXCEPT ![g] = <<>>]
  /\ DropRemote(g)
  /\ BrowserUnchanged
  /\ UNCHANGED <<rproc, state, timer, gen, receiver, remote, rf, ever,
                 seenVars>>

\* ConnectBrowserFrame gives up or starts an attempt.
LEMMA ConnectKind ==
  ASSUME TypeOK, NEW shown \in BOOLEAN, NEW cached \in BOOLEAN,
         ConnectBrowserFrame(shown, cached)
  PROVE  GivesUp \/ StartsAttempt
<1>1. CASE ~frame \/ denied \/ cached
  BY <1>1 DEF ConnectBrowserFrame, GivesUp
<1>2. CASE frame /\ ~denied /\ ~cached
  <2>1. gen + 1 \in Attempts
    BY <1>2, ConstantsAssumption DEF ConnectBrowserFrame, TypeOK, Attempts
  <2>2. bf' = [bf EXCEPT ![gen + 1] = <<AttachedMsg(retryCt > 0 \/ shown)>>]
    BY <1>2 DEF ConnectBrowserFrame
  <2>3. (retryCt > 0 \/ shown) \in BOOLEAN
    OBVIOUS
  <2> QED
    BY <1>2, <2>1, <2>2, <2>3 DEF ConnectBrowserFrame, StartsAttempt
<1> QED
  BY <1>1, <1>2 DEF TypeOK

\* OnDisconnect is ignored or resets both pipes.
LEMMA DisconnectKind ==
  ASSUME NEW f, NEW custom, NEW declined, OnDisconnect(f, custom, declined),
         BrowserUnchanged, UNCHANGED <<gen, bf, rfEnd, ever, seenVars>>
  PROVE  Disconnects \/ UNCHANGED connectionVars
  BY DEF OnDisconnect, Disconnects, BrowserUnchanged, connectionVars

\* Every step is one of few kinds as far as ConnectionInv can see.
LEMMA StepKinds ==
  ASSUME TypeOK, PipesFollowState, [Next]_vars
  PROVE  \/ UNCHANGED connectionVars
         \/ Connects
         \/ Disconnects
         \/ FrameAttachedAck
         \/ ExecuteCommand
         \/ SendToBrowserFrame
         \/ RendererKilled
         \/ \E g \in Attempts : LosesPipe(g) \/ FrameAttached(g)
                                             \/ ReceiveMessage(g)
         \/ HostDisconnect
         \/ SendToRenderFrame
         \/ NewMainFrame
         \/ LeaveCache
         \/ RenderFrameDeleted
<1> USE DEF hostVars, cmdVars
<1>1. CASE \/ OnDidCommitProvisionalLoad
           \/ PageShown
           \/ RetryTimer
           \/ RendererLeavesCache
  <2>1. BrowserUnchanged /\ UNCHANGED <<ever, seenVars>>
    BY <1>1 DEF OnDidCommitProvisionalLoad, PageShown, RetryTimer,
      RendererLeavesCache, BrowserUnchanged, retryVars
  <2>2. NoConnect \/ (Unconnected /\ (GivesUp \/ StartsAttempt))
    <3>1. rcached \in BOOLEAN
      BY DEF TypeOK
    <3>2. CASE RetryTimer
      <4>1. Unconnected
        BY <3>2 DEF RetryTimer, PipesFollowState, TypeOK, ConnectionState,
          Unconnected
      <4> QED
        BY <3>1, <3>2, <4>1, ConnectKind DEF RetryTimer
    <3>3. CASE OnDidCommitProvisionalLoad
      <4>1. CASE state = "DISCONNECTED"
        <5>1. ConnectBrowserFrame(FALSE, rcached)
          BY <3>3, <4>1 DEF OnDidCommitProvisionalLoad
        <5>2. GivesUp \/ StartsAttempt
          BY <3>1, <5>1, ConnectKind
        <5> QED
          BY <4>1, <5>2 DEF Unconnected
      <4>2. CASE ~(state = "DISCONNECTED")
        BY <3>3, <4>2 DEF OnDidCommitProvisionalLoad, NoConnect
      <4> QED
        BY <4>1, <4>2
    <3>4. CASE PageShown
      <4>1. CASE state = "DISCONNECTED" /\ committed
        <5>1. ConnectBrowserFrame(TRUE, rcached)
          BY <3>4, <4>1 DEF PageShown, OnWasShown
        <5>2. GivesUp \/ StartsAttempt
          BY <3>1, <5>1, ConnectKind
        <5> QED
          BY <4>1, <5>2 DEF Unconnected
      <4>2. CASE ~(state = "DISCONNECTED" /\ committed)
        BY <3>4, <4>2 DEF PageShown, OnWasShown, NoConnect
      <4> QED
        BY <4>1, <4>2
    <3>5. CASE RendererLeavesCache
      <4>1. CASE state = "DISCONNECTED" /\ committed
        <5>1. ConnectBrowserFrame(TRUE, FALSE)
          BY <3>5, <4>1 DEF RendererLeavesCache, OnWasShown
        <5>2. GivesUp \/ StartsAttempt
          BY <5>1, ConnectKind
        <5> QED
          BY <4>1, <5>2 DEF Unconnected
      <4>2. CASE ~(state = "DISCONNECTED" /\ committed)
        BY <3>5, <4>2 DEF RendererLeavesCache, OnWasShown, NoConnect
      <4> QED
        BY <4>1, <4>2
    <3> QED
      BY <1>1, <3>2, <3>3, <3>4, <3>5
  <2> QED
    BY <2>1, <2>2 DEF Connects, NoConnect, connectionVars, BrowserUnchanged
<1>2. ASSUME NEW declined \in BOOLEAN,
             OnBrowserFrameDisconnect(declined) \/
               OnRenderFrameDisconnect(declined)
      PROVE  Disconnects \/ UNCHANGED connectionVars
  <2>1. BrowserUnchanged /\ UNCHANGED <<gen, bf, rfEnd, ever, seenVars>>
    BY <1>2 DEF OnBrowserFrameDisconnect, OnRenderFrameDisconnect,
      BrowserUnchanged, bfVars
  <2> QED
    BY <1>2, <2>1, DisconnectKind
      DEF OnBrowserFrameDisconnect, OnRenderFrameDisconnect
<1>3. CASE OnDetached
  <2>1. BrowserUnchanged /\ UNCHANGED <<gen, bf, rfEnd, ever, seenVars>>
    BY <1>3 DEF OnDetached, BrowserUnchanged, bfVars
  <2> QED
    BY <1>3, <2>1, DisconnectKind DEF OnDetached
<1>4. ASSUME NEW g \in Attempts, DeclineInterface(g) \/ ConnectionError(g)
      PROVE  LosesPipe(g)
  BY <1>4 DEF DeclineInterface, ConnectionError, LosesPipe, BrowserUnchanged,
    rendererVars, connVars, retryVars
<1>5. CASE RendererEntersCache
  BY <1>5 DEF RendererEntersCache, connectionVars, connVars, retryVars, bfVars,
    rfVars
<1>6. ASSUME NEW g \in Attempts, BindInterface(g) \/ CloseBrowserFrame(g)
      PROVE  UNCHANGED connectionVars
  BY <1>6 DEF BindInterface, CloseBrowserFrame, connectionVars, rendererVars,
    connVars, retryVars, rfVars
<1>7. CASE CachedWithParent
  BY <1>7 DEF CachedWithParent, connectionVars, rendererVars, connVars,
    retryVars, bfVars, rfVars
<1>8. CASE UNCHANGED vars
  BY <1>8 DEF vars, connectionVars, rendererVars, connVars, retryVars, bfVars,
    rfVars
<1> QED
  BY <1>1, <1>2, <1>3, <1>4, <1>5, <1>6, <1>7, <1>8
    DEF Next, RendererNext, BrowserNext

-----------------------------------------------------------------------------
(***************************************************************************)
(* Each part of ConnectionInv is kept by every step                        *)
(***************************************************************************)

\* The renderer's ends of the pipes follow its state.
LEMMA PipesFollowStateKept ==
  ASSUME TypeOK, PipesFollowState, [Next]_vars
  PROVE  PipesFollowState'
<1>1. CASE UNCHANGED connectionVars
  BY <1>1 DEF connectionVars, PipesFollowState
<1>2. CASE Connects
  BY <1>2, ConstantsAssumption DEF Connects, Unconnected, GivesUp,
    StartsAttempt, PipesFollowState, TypeOK, Attempts
<1>3. CASE Disconnects
  BY <1>3 DEF Disconnects, ResetPipes, PipesFollowState
<1>4. CASE FrameAttachedAck
  BY <1>4 DEF FrameAttachedAck, PipesFollowState
<1>5. CASE \/ ExecuteCommand
          \/ SendToBrowserFrame
          \/ RendererKilled
          \/ HostDisconnect
          \/ SendToRenderFrame
          \/ NewMainFrame
          \/ LeaveCache
          \/ RenderFrameDeleted
  <2>1. UNCHANGED <<receiver, remote, gen, state, timer>>
    BY <1>5 DEF ExecuteCommand, SendToBrowserFrame, RendererKilled,
      HostDisconnect, SendToRenderFrame, NewMainFrame, LeaveCache,
      RenderFrameDeleted, BrowserUnchanged, rendererVars, connVars, retryVars,
      bfVars, rfVars, hostVars, cmdVars, seenVars
  <2> QED
    BY <2>1 DEF PipesFollowState
<1>6. ASSUME NEW g \in Attempts,
             \/ LosesPipe(g)
             \/ FrameAttached(g)
             \/ ReceiveMessage(g)
      PROVE  PipesFollowState'
  <2>1. UNCHANGED <<receiver, remote, gen, state, timer>>
    BY <1>6 DEF LosesPipe, FrameAttached, ReceiveMessage, BrowserUnchanged,
      rendererVars, connVars, retryVars, bfVars, rfVars, hostVars, cmdVars,
      seenVars
  <2> QED
    BY <2>1 DEF PipesFollowState
<1> QED
  BY <1>1, <1>2, <1>3, <1>4, <1>5, <1>6, StepKinds

\* No CHECK of the renderer fails.
LEMMA AckIsExpectedKept ==
  ASSUME TypeOK, PipesFollowState, AckAnswersAttached, AckIsExpected,
         [Next]_vars
  PROVE  AckIsExpected'
<1>1. CASE UNCHANGED connectionVars
  BY <1>1 DEF connectionVars, AckIsExpected
<1>2. CASE Connects
  BY <1>2 DEF Connects, Unconnected, GivesUp, StartsAttempt, PipesFollowState,
    AckIsExpected
<1>3. CASE Disconnects
  BY <1>3 DEF Disconnects, AckIsExpected
<1>4. CASE FrameAttachedAck
  <2>1. rf # <<>> /\ rf[1].type = "FrameAttachedAck"
    BY <1>4, HeadTailProperties DEF FrameAttachedAck, TypeOK
  <2>2. 1 \in 1 .. Len(rf)
    BY <2>1, EmptySeq, LenProperties DEF TypeOK
  <2> QED
    BY <1>4, <2>1, <2>2 DEF FrameAttachedAck, AckIsExpected, AckAnswersAttached
<1>5. CASE RendererKilled
  BY <1>5 DEF RendererKilled, AckIsExpected
<1>6. CASE \/ ExecuteCommand
          \/ SendToBrowserFrame
          \/ HostDisconnect
          \/ SendToRenderFrame
          \/ NewMainFrame
          \/ LeaveCache
          \/ RenderFrameDeleted
  <2>1. UNCHANGED <<rproc>>
    BY <1>6 DEF ExecuteCommand, SendToBrowserFrame, HostDisconnect,
      SendToRenderFrame, NewMainFrame, LeaveCache, RenderFrameDeleted,
      BrowserUnchanged, rendererVars, connVars, retryVars, bfVars, rfVars,
      hostVars, cmdVars, seenVars
  <2> QED
    BY <2>1 DEF AckIsExpected
<1>7. ASSUME NEW g \in Attempts,
             \/ LosesPipe(g)
             \/ FrameAttached(g)
             \/ ReceiveMessage(g)
      PROVE  AckIsExpected'
  <2>1. UNCHANGED <<rproc>>
    BY <1>7 DEF LosesPipe, FrameAttached, ReceiveMessage, BrowserUnchanged,
      rendererVars, connVars, retryVars, bfVars, rfVars, hostVars, cmdVars,
      seenVars
  <2> QED
    BY <2>1 DEF AckIsExpected
<1> QED
  BY <1>1, <1>2, <1>3, <1>4, <1>5, <1>6, <1>7, StepKinds

\* Attached and detached notifications follow render_frame_.
LEMMA NotificationsTellBindingKept ==
  ASSUME TypeOK, PipesFollowState, PeerHoldsPipe, NotificationsTellBinding,
         [Next]_vars
  PROVE  NotificationsTellBinding'
<1>1. CASE UNCHANGED connectionVars
  BY <1>1 DEF connectionVars, NotificationsTellBinding
<1>2. ASSUME NEW g \in Attempts, FrameAttached(g)
      PROVE  NotificationsTellBinding'
  BY <1>2 DEF FrameAttached, NotificationsTellBinding, Attempts
<1>3. CASE HostDisconnect
  BY <1>3 DEF HostDisconnect, PeerHoldsPipe, NotificationsTellBinding
<1>4. CASE NewMainFrame
  BY <1>4 DEF NewMainFrame, Detach, NotifyDetached, NotificationsTellBinding
<1>5. CASE RenderFrameDeleted
  BY <1>5 DEF RenderFrameDeleted, Detach, NotifyDetached,
    NotificationsTellBinding
<1>6. CASE \/ Connects
          \/ Disconnects
          \/ FrameAttachedAck
          \/ ExecuteCommand
          \/ SendToBrowserFrame
          \/ RendererKilled
          \/ SendToRenderFrame
          \/ LeaveCache
  <2>1. UNCHANGED <<notified, bound>>
    BY <1>6 DEF Connects, Disconnects, FrameAttachedAck, ExecuteCommand,
      SendToBrowserFrame, RendererKilled, SendToRenderFrame, LeaveCache,
      BrowserUnchanged, rendererVars, connVars, retryVars, bfVars, rfVars,
      hostVars, cmdVars, seenVars
  <2> QED
    BY <2>1 DEF NotificationsTellBinding
<1>7. ASSUME NEW g \in Attempts,
             LosesPipe(g) \/ ReceiveMessage(g)
      PROVE  NotificationsTellBinding'
  <2>1. UNCHANGED <<notified, bound>>
    BY <1>7 DEF LosesPipe, ReceiveMessage, BrowserUnchanged, rendererVars,
      connVars, retryVars, bfVars, rfVars, hostVars, cmdVars, seenVars
  <2> QED
    BY <2>1 DEF NotificationsTellBinding
<1> QED
  BY <1>1, <1>2, <1>3, <1>4, <1>5, <1>6, <1>7, StepKinds

\* The queue is empty while render_frame_ is bound.
LEMMA BoundMeansFlushedKept ==
  ASSUME TypeOK, PipesFollowState, BoundMeansFlushed, [Next]_vars
  PROVE  BoundMeansFlushed'
<1>1. CASE UNCHANGED connectionVars
  BY <1>1 DEF connectionVars, BoundMeansFlushed
<1>2. ASSUME NEW g \in Attempts, FrameAttached(g)
      PROVE  BoundMeansFlushed'
  BY <1>2 DEF FrameAttached, AckAndFlush, BoundMeansFlushed
<1>3. CASE HostDisconnect
  BY <1>3 DEF HostDisconnect, BoundMeansFlushed
<1>4. CASE SendToRenderFrame
  BY <1>4 DEF SendToRenderFrame, hostVars, BoundMeansFlushed
<1>5. CASE NewMainFrame
  BY <1>5 DEF NewMainFrame, Detach, BoundMeansFlushed
<1>6. CASE RenderFrameDeleted
  BY <1>6 DEF RenderFrameDeleted, Detach, BoundMeansFlushed
<1>7. CASE \/ Connects
          \/ Disconnects
          \/ FrameAttachedAck
          \/ ExecuteCommand
          \/ SendToBrowserFrame
          \/ RendererKilled
          \/ LeaveCache
  <2>1. UNCHANGED <<bound, cmdQ>>
    BY <1>7 DEF Connects, Disconnects, FrameAttachedAck, ExecuteCommand,
      SendToBrowserFrame, RendererKilled, LeaveCache, BrowserUnchanged,
      rendererVars, connVars, retryVars, bfVars, rfVars, hostVars, cmdVars,
      seenVars
  <2> QED
    BY <2>1 DEF BoundMeansFlushed
<1>8. ASSUME NEW g \in Attempts,
             LosesPipe(g) \/ ReceiveMessage(g)
      PROVE  BoundMeansFlushed'
  <2>1. UNCHANGED <<bound, cmdQ>>
    BY <1>8 DEF LosesPipe, ReceiveMessage, BrowserUnchanged, rendererVars,
      connVars, retryVars, bfVars, rfVars, hostVars, cmdVars, seenVars
  <2> QED
    BY <2>1 DEF BoundMeansFlushed
<1> QED
  BY <1>1, <1>2, <1>3, <1>4, <1>5, <1>6, <1>7, <1>8, StepKinds

\* The head of a sequence and what follows it.
LEMMA HeadAndRest ==
  ASSUME NEW S, NEW s \in Seq(S), s # <<>>
  PROVE  /\ 1 \in 1 .. Len(s)
         /\ Head(s) = s[1]
         /\ Tail(s) \in Seq(S)
         /\ Len(Tail(s)) = Len(s) - 1
         /\ \A i \in 1 .. Len(Tail(s)) :
              i + 1 \in 2 .. Len(s) /\ Tail(s)[i] = s[i + 1]
<1>1. Len(s) \in Nat /\ Len(s) # 0
  BY EmptySeq, LenProperties
<1>2. /\ Len(Tail(s)) = Len(s) - 1
      /\ \A i \in 1 .. Len(Tail(s)) : Tail(s)[i] = s[i + 1]
      /\ Tail(s) \in Seq(S)
  BY HeadTailProperties
<1>3. Head(s) = s[1]
  OBVIOUS
<1> QED
  BY <1>1, <1>2, <1>3

\* A sequence of one element.
LEMMA Singleton ==
  ASSUME NEW x
  PROVE  \A i \in 1 .. Len(<<x>>) : i = 1 /\ <<x>>[i] = x
<1>1. Len(<<x>>) = 1
  OBVIOUS
<1>2. <<x>>[1] = x
  OBVIOUS
<1>3. \A i \in 1 .. 1 : i = 1
  OBVIOUS
<1> QED
  BY <1>1, <1>2, <1>3

\* What reading the head of a pipe leaves on it.
LEMMA ReadShape ==
  ASSUME TypeOK, NEW g \in Attempts, bf[g] # <<>>,
         bf' = [bf EXCEPT ![g] = Tail(@)]
  PROVE  /\ \A h \in Attempts \ {g} : bf'[h] = bf[h]
         /\ Len(bf'[g]) = Len(bf[g]) - 1
         /\ \A i \in 1 .. Len(bf'[g]) :
              i + 1 \in 2 .. Len(bf[g]) /\ bf'[g][i] = bf[g][i + 1]
<1>1. bf[g] \in Seq(BfMsg) /\ bf'[g] = Tail(bf[g])
  BY DEF TypeOK
<1>2. \A h \in Attempts \ {g} : bf'[h] = bf[h]
  BY DEF TypeOK
<1>3. /\ Len(Tail(bf[g])) = Len(bf[g]) - 1
      /\ \A i \in 1 .. Len(Tail(bf[g])) :
           i + 1 \in 2 .. Len(bf[g]) /\ Tail(bf[g])[i] = bf[g][i + 1]
  BY <1>1, HeadAndRest
<1> QED
  BY <1>1, <1>2, <1>3

\* What writing messages leaves on the pipes.
LEMMA WriteShape ==
  ASSUME TypeOK, NEW msgs \in Seq(BfMsg), bf' = Write(msgs),
         \A i \in 1 .. Len(msgs) : msgs[i].type = "SendMessage"
  PROVE  \A g \in Attempts :
           /\ g # remote => bf'[g] = bf[g]
           /\ \A i \in 1 .. Len(bf'[g]) :
                \/ i \in 1 .. Len(bf[g]) /\ bf'[g][i] = bf[g][i]
                \/ bf'[g][i].type = "SendMessage"
<1> SUFFICES ASSUME NEW g \in Attempts
             PROVE  /\ g # remote => bf'[g] = bf[g]
                    /\ \A i \in 1 .. Len(bf'[g]) :
                         \/ i \in 1 .. Len(bf[g]) /\ bf'[g][i] = bf[g][i]
                         \/ bf'[g][i].type = "SendMessage"
  OBVIOUS
<1>1. bf[g] \in Seq(BfMsg)
  BY DEF TypeOK
<1>2. CASE bf'[g] = bf[g]
  BY <1>2
<1>3. CASE g = remote /\ bf'[g] = bf[g] \o msgs
  BY <1>1, <1>3, ConcatProperties, LenProperties
<1> QED
  BY <1>2, <1>3 DEF TypeOK, Write

\* Excluded frames stay isolated.
LEMMA ExcludedIsIsolatedKept ==
  ASSUME TypeOK, PipesFollowState, ExcludedIsRefused, ExcludedIsIsolated,
         [Next]_vars
  PROVE  ExcludedIsIsolated'
<1>1. CASE UNCHANGED connectionVars
  BY <1>1 DEF connectionVars, seenVars, ExcludedIsIsolated
<1>2. CASE FrameAttachedAck
  <2>0. rf \in Seq(RfMsg) /\ rf # <<>>
    BY <1>2 DEF FrameAttachedAck, TypeOK
  <2>1. excluded => Head(rf) = Ack(FALSE)
    BY <2>0, HeadAndRest DEF ExcludedIsRefused
  <2>2. ~Ack(FALSE).allow
    BY DEF Ack
  <2> QED
    BY <1>2, <2>1, <2>2 DEF FrameAttachedAck, ExcludedIsIsolated, hostVars,
      seenVars
<1>3. CASE ExecuteCommand
  <2>0. rf \in Seq(RfMsg) /\ rf # <<>>
    BY <1>3 DEF ExecuteCommand, TypeOK
  <2>1. excluded => Head(rf) = Ack(FALSE)
    BY <2>0, HeadAndRest DEF ExcludedIsRefused
  <2>2. Ack(FALSE).type # "SendCommand"
    BY DEF Ack
  <2>3. ~excluded /\ ~excluded'
    BY <1>3, <2>1, <2>2 DEF ExecuteCommand, hostVars
  <2> QED
    BY <2>3 DEF ExcludedIsIsolated
<1>4. ASSUME NEW g \in Attempts, FrameAttached(g)
      PROVE  ExcludedIsIsolated'
  BY <1>4 DEF FrameAttached, ExcludedIsRefused, ExcludedIsIsolated, seenVars,
    rendererVars, connVars, retryVars
<1>5. ASSUME NEW g \in Attempts, ReceiveMessage(g)
      PROVE  ExcludedIsIsolated'
  BY <1>5 DEF ReceiveMessage, ExcludedIsRefused, ExcludedIsIsolated, hostVars,
    rendererVars, connVars, retryVars
<1>6. CASE HostDisconnect
  BY <1>6 DEF HostDisconnect, ExcludedIsIsolated, seenVars, rendererVars,
    connVars, retryVars
<1>7. CASE NewMainFrame
  BY <1>7 DEF NewMainFrame, Detach, ExcludedIsIsolated, seenVars, rendererVars,
    connVars, retryVars
<1>8. CASE RenderFrameDeleted
  BY <1>8 DEF RenderFrameDeleted, Detach, ExcludedIsIsolated, seenVars,
    rendererVars, connVars, retryVars
<1>9. CASE \/ Connects
          \/ Disconnects
          \/ SendToBrowserFrame
          \/ RendererKilled
          \/ SendToRenderFrame
          \/ LeaveCache
  <2>1. UNCHANGED <<excluded, bound, lastExec, lastRecv, ever>>
    BY <1>9 DEF Connects, Disconnects, SendToBrowserFrame, RendererKilled,
      SendToRenderFrame, LeaveCache, BrowserUnchanged, rendererVars, connVars,
      retryVars, bfVars, rfVars, hostVars, cmdVars, seenVars
  <2> QED
    BY <2>1 DEF ExcludedIsIsolated
<1>10. ASSUME NEW g \in Attempts,
             LosesPipe(g)
      PROVE  ExcludedIsIsolated'
  <2>1. UNCHANGED <<excluded, bound, lastExec, lastRecv, ever>>
    BY <1>10 DEF LosesPipe, BrowserUnchanged, rendererVars, connVars,
      retryVars, bfVars, rfVars, hostVars, cmdVars, seenVars
  <2> QED
    BY <2>1 DEF ExcludedIsIsolated
<1> QED
  BY <1>1, <1>2, <1>3, <1>4, <1>5, <1>6, <1>7, <1>8, <1>9, <1>10, StepKinds

\* Excluded frames are only refused.
LEMMA ExcludedIsRefusedKept ==
  ASSUME TypeOK, PipesFollowState, ExcludedIsIsolated, ExcludedIsRefused,
         [Next]_vars
  PROVE  ExcludedIsRefused'
<1>1. CASE UNCHANGED connectionVars
  BY <1>1 DEF connectionVars, seenVars, ExcludedIsRefused
<1>2. CASE Connects
  <2>1. rf' = rf \/ rf' = <<>>
    BY <1>2 DEF Connects, GivesUp, StartsAttempt
  <2>2. UNCHANGED <<excluded, found>>
    BY <1>2 DEF Connects, BrowserUnchanged
  <2>3. CASE rf' = rf
    BY <2>2, <2>3 DEF ExcludedIsRefused
  <2>4. CASE rf' = <<>>
    BY <2>2, <2>4 DEF ExcludedIsRefused
  <2> QED
    BY <2>1, <2>3, <2>4
<1>3. CASE Disconnects
  BY <1>3 DEF Disconnects, ResetPipes, BrowserUnchanged, ExcludedIsRefused
<1>4. CASE FrameAttachedAck
  <2>1. \A i \in 1 .. Len(rf') : rf'[i] = rf[i + 1] /\ i + 1 \in 1 .. Len(rf)
    BY <1>4, HeadTailProperties, LenProperties, EmptySeq DEF FrameAttachedAck,
      TypeOK
  <2>2. UNCHANGED <<excluded, found>>
    BY <1>4 DEF FrameAttachedAck, hostVars
  <2> QED
    BY <2>1, <2>2 DEF ExcludedIsRefused
<1>5. CASE ExecuteCommand
  <2>1. \A i \in 1 .. Len(rf') : rf'[i] = rf[i + 1] /\ i + 1 \in 1 .. Len(rf)
    BY <1>5, HeadTailProperties, LenProperties, EmptySeq DEF ExecuteCommand,
      TypeOK
  <2>2. UNCHANGED <<excluded, found>>
    BY <1>5 DEF ExecuteCommand, hostVars
  <2> QED
    BY <2>1, <2>2 DEF ExcludedIsRefused
<1>6. CASE RendererKilled
  BY <1>6 DEF RendererKilled, hostVars, ExcludedIsRefused
<1>7. ASSUME NEW g \in Attempts, FrameAttached(g)
      PROVE  ExcludedIsRefused'
  <2>1. UNCHANGED <<excluded, found>>
    BY <1>7 DEF FrameAttached
  <2>2. ASSUME excluded PROVE rf' = rf \/ rf' = <<Ack(FALSE)>>
    BY <1>7, <2>2 DEF FrameAttached, DenyAttach, ExcludedIsRefused
  <2>3. CASE rf' = rf
    BY <2>1, <2>3 DEF ExcludedIsRefused
  <2>4. CASE ~excluded
    BY <2>1, <2>4 DEF ExcludedIsRefused
  <2>5. CASE rf' = <<Ack(FALSE)>>
    <3>1. \A i \in 1 .. Len(rf') : rf'[i] = Ack(FALSE)
      BY <2>5, Singleton
    <3> QED
      BY <2>1, <3>1 DEF ExcludedIsRefused
  <2> QED
    BY <2>2, <2>3, <2>4, <2>5
<1>8. CASE SendToRenderFrame
  <2>1. UNCHANGED <<excluded, found>>
    BY <1>8 DEF SendToRenderFrame, hostVars
  <2>2. ASSUME excluded PROVE UNCHANGED rf
    BY <1>8, <2>2 DEF SendToRenderFrame, ExcludedIsIsolated
  <2> QED
    BY <2>1, <2>2 DEF ExcludedIsRefused
<1>9. CASE RenderFrameDeleted
  BY <1>9 DEF RenderFrameDeleted, ExcludedIsRefused
<1>10. CASE \/ SendToBrowserFrame
           \/ HostDisconnect
           \/ NewMainFrame
           \/ LeaveCache
  <2>1. UNCHANGED <<excluded, found, rf>>
    BY <1>10 DEF SendToBrowserFrame, HostDisconnect, NewMainFrame, LeaveCache,
      BrowserUnchanged, rendererVars, connVars, retryVars, bfVars, rfVars,
      hostVars, cmdVars, seenVars
  <2> QED
    BY <2>1 DEF ExcludedIsRefused
<1>11. ASSUME NEW g \in Attempts,
             LosesPipe(g) \/ ReceiveMessage(g)
      PROVE  ExcludedIsRefused'
  <2>1. UNCHANGED <<excluded, found, rf>>
    BY <1>11 DEF LosesPipe, ReceiveMessage, BrowserUnchanged, rendererVars,
      connVars, retryVars, bfVars, rfVars, hostVars, cmdVars, seenVars
  <2> QED
    BY <2>1 DEF ExcludedIsRefused
<1> QED
  BY <1>1, <1>2, <1>3, <1>4, <1>5, <1>6, <1>7, <1>8, <1>9, <1>10, <1>11,
    StepKinds

\* Reading a message keeps FrameAttached first, and leaves none behind.
LEMMA AttachedAfterRead ==
  ASSUME TypeOK, AttachedComesFirst, NEW g \in Attempts, bf[g] # <<>>,
         bf' = [bf EXCEPT ![g] = Tail(bf[g])], gen' = gen, bound' \in {bound, g}
  PROVE  AttachedComesFirst' /\ ~AttachInFlight(g)'
<1>1. /\ \A h \in Attempts \ {g} : bf'[h] = bf[h]
      /\ \A i \in 1 .. Len(bf'[g]) :
           i + 1 \in 2 .. Len(bf[g]) /\ bf'[g][i] = bf[g][i + 1]
  BY ReadShape
<1>2. g <= gen /\ gen \in Nat /\ g \in Nat /\ bound \in Nat
  BY DEF AttachedComesFirst, TypeOK, Attempts
<1>3. \A i \in 1 .. Len(bf'[g]) : bf'[g][i].type # "FrameAttached"
  BY <1>1 DEF AttachedComesFirst
<1>4. \A h \in Attempts : \A i \in 2 .. Len(bf'[h]) :
        bf'[h][i].type # "FrameAttached"
  <2>1. \A i \in 2 .. Len(bf'[g]) : i \in 1 .. Len(bf'[g])
    OBVIOUS
  <2> QED
    BY <1>1, <1>3, <2>1 DEF AttachedComesFirst
<1>5. \A h \in Attempts : h > gen => bf'[h] = <<>>
  BY <1>1, <1>2 DEF AttachedComesFirst
<1>6. ~AttachInFlight(g)'
  BY <1>3 DEF AttachInFlight
<1>7. (bound # 0 => ~AttachInFlight(bound))'
  <2>1. CASE bound' = g
    BY <1>6, <2>1 DEF AttachInFlight
  <2>2. CASE bound' # g
    <3>1. bound' = bound /\ (bound # 0 => bound \in Attempts)
      BY <2>2 DEF TypeOK, Attempts
    <3> QED
      BY <1>1, <2>2, <3>1 DEF AttachedComesFirst, AttachInFlight
  <2> QED
    BY <2>1, <2>2
<1>8. bound' <= gen'
  BY <1>2 DEF AttachedComesFirst
<1> QED
  BY <1>4, <1>5, <1>6, <1>7, <1>8 DEF AttachedComesFirst

\* Losing what is in flight keeps FrameAttached first.
LEMMA AttachedAfterLoss ==
  ASSUME TypeOK, AttachedComesFirst, gen' = gen, bound' \in {bound, 0},
         \A h \in Attempts : bf'[h] = bf[h] \/ bf'[h] = <<>>
  PROVE  AttachedComesFirst'
<1>1. \A h \in Attempts : h > gen => bf'[h] = <<>>
  BY DEF AttachedComesFirst
<1>2. \A h \in Attempts : \A i \in 1 .. Len(bf'[h]) :
        i \in 1 .. Len(bf[h]) /\ bf'[h][i] = bf[h][i]
  <2>1. Len(<<>>) = 0
    OBVIOUS
  <2> QED
    BY <2>1
<1>3. \A h \in Attempts : \A i \in 2 .. Len(bf'[h]) :
        bf'[h][i].type # "FrameAttached"
  <2> SUFFICES ASSUME NEW h \in Attempts, NEW i \in 2 .. Len(bf'[h])
               PROVE  bf'[h][i].type # "FrameAttached"
    OBVIOUS
  <2>1. i \in 1 .. Len(bf'[h])
    OBVIOUS
  <2>2. i \in 2 .. Len(bf[h]) /\ bf'[h][i] = bf[h][i]
    BY <1>2, <2>1
  <2> QED
    BY <2>2 DEF AttachedComesFirst
<1>4. (bound # 0 => ~AttachInFlight(bound))'
  <2>1. bound # 0 => bound \in Attempts
    BY DEF TypeOK, Attempts
  <2> QED
    BY <1>2, <2>1 DEF AttachedComesFirst, AttachInFlight
<1>5. bound' <= gen'
  BY DEF AttachedComesFirst, TypeOK
<1> QED
  BY <1>1, <1>3, <1>4, <1>5 DEF AttachedComesFirst

\* Writing messages keeps FrameAttached first.
LEMMA AttachedAfterWrite ==
  ASSUME TypeOK, PipesFollowState, AttachedComesFirst, receiver # 0,
         \A h \in Attempts :
           /\ h # remote => bf'[h] = bf[h]
           /\ \A i \in 1 .. Len(bf'[h]) :
                \/ i \in 1 .. Len(bf[h]) /\ bf'[h][i] = bf[h][i]
                \/ bf'[h][i].type = "SendMessage",
         UNCHANGED <<gen, bound>>
  PROVE  AttachedComesFirst'
<1>1. \A h \in Attempts : h > gen => bf'[h] = <<>>
  BY DEF AttachedComesFirst, PipesFollowState, TypeOK
<1>2. \A h \in Attempts : \A i \in 1 .. Len(bf'[h]) :
        bf'[h][i].type = "FrameAttached" =>
          i \in 1 .. Len(bf[h]) /\ bf[h][i].type = "FrameAttached"
  OBVIOUS
<1>3. \A h \in Attempts : \A i \in 2 .. Len(bf'[h]) :
        bf'[h][i].type # "FrameAttached"
  <2> SUFFICES ASSUME NEW h \in Attempts, NEW i \in 2 .. Len(bf'[h]),
                      bf'[h][i].type = "FrameAttached"
               PROVE  FALSE
    OBVIOUS
  <2>1. i \in 1 .. Len(bf'[h])
    OBVIOUS
  <2>2. i \in 1 .. Len(bf[h]) /\ bf[h][i].type = "FrameAttached"
    BY <1>2, <2>1
  <2> QED
    BY <2>2 DEF AttachedComesFirst
<1>4. (bound # 0 => ~AttachInFlight(bound))'
  <2>1. bound # 0 => bound \in Attempts
    BY DEF TypeOK, Attempts
  <2> QED
    BY <1>2, <2>1 DEF AttachedComesFirst, AttachInFlight
<1> QED
  BY <1>1, <1>3, <1>4 DEF AttachedComesFirst

\* FrameAttached stays the first message of its pipe.
LEMMA AttachedComesFirstKept ==
  ASSUME TypeOK, PipesFollowState, AttachedComesFirst, [Next]_vars
  PROVE  AttachedComesFirst'
<1>1. CASE UNCHANGED connectionVars
  BY <1>1 DEF connectionVars, seenVars, AttachedComesFirst, AttachInFlight
<1>2. CASE Connects
  <2>1. CASE GivesUp
    BY <1>2, <2>1 DEF Connects, GivesUp, BrowserUnchanged, AttachedComesFirst,
      AttachInFlight
  <2>2. CASE StartsAttempt
    <3>1. PICK re \in BOOLEAN : bf' = [bf EXCEPT ![gen + 1] = <<AttachedMsg(re)>>]
      BY <2>2 DEF StartsAttempt
    <3>2. /\ bf'[gen + 1] = <<AttachedMsg(re)>>
          /\ \A h \in Attempts \ {gen + 1} : bf'[h] = bf[h]
      BY <2>2, <3>1 DEF StartsAttempt, TypeOK
    <3>3. \A i \in 2 .. Len(bf'[gen + 1]) : FALSE
      BY <3>2, Singleton
    <3>4. gen' = gen + 1 /\ bound' = bound /\ gen \in Nat /\ bound \in Nat
      BY <1>2, <2>2 DEF Connects, StartsAttempt, BrowserUnchanged, TypeOK
    <3>5. \A h \in Attempts : h > gen' => bf'[h] = <<>>
      BY <3>2, <3>4 DEF AttachedComesFirst, Attempts
    <3>6. \A h \in Attempts : \A i \in 2 .. Len(bf'[h]) :
            bf'[h][i].type # "FrameAttached"
      BY <3>2, <3>3 DEF AttachedComesFirst
    <3>7. (bound # 0 => ~AttachInFlight(bound))'
      <4>1. bound # 0 => bound \in Attempts \ {gen + 1}
        BY <3>4 DEF AttachedComesFirst, TypeOK, Attempts
      <4> QED
        BY <3>2, <3>4, <4>1 DEF AttachedComesFirst, AttachInFlight
    <3> QED
      BY <3>4, <3>5, <3>6, <3>7 DEF AttachedComesFirst
  <2> QED
    BY <1>2, <2>1, <2>2 DEF Connects
<1>3. CASE FrameAttachedAck
  <2>1. CASE bf' = bf
    BY <1>3, <2>1 DEF FrameAttachedAck, hostVars, AttachedComesFirst,
      AttachInFlight
  <2>2. CASE FlushMessages
    <3>1. /\ Messages(sendQ) \in Seq(BfMsg)
          /\ \A i \in 1 .. Len(Messages(sendQ)) :
               Messages(sendQ)[i].type = "SendMessage"
      <4>1. sendQ \in Seq(Nat)
        BY DEF TypeOK
      <4>2. \A i \in 1 .. Len(sendQ) : Message(sendQ[i]).type = "SendMessage"
        BY DEF Message
      <4> QED
        BY <4>1, <4>2, WrappedMessages
    <3>2. \A h \in Attempts :
            /\ h # remote => bf'[h] = bf[h]
            /\ \A i \in 1 .. Len(bf'[h]) :
                 \/ i \in 1 .. Len(bf[h]) /\ bf'[h][i] = bf[h][i]
                 \/ bf'[h][i].type = "SendMessage"
      BY <2>2, <3>1, WriteShape DEF FlushMessages
    <3>3. receiver # 0 /\ UNCHANGED <<gen, bound>>
      BY <1>3 DEF FrameAttachedAck, hostVars
    <3> QED
      BY <3>2, <3>3, AttachedAfterWrite
  <2> QED
    BY <1>3, <2>1, <2>2 DEF FrameAttachedAck
<1>4. CASE SendToBrowserFrame
  <2>1. CASE bf' = bf
    BY <1>4, <2>1 DEF SendToBrowserFrame, connVars, hostVars,
      AttachedComesFirst, AttachInFlight
  <2>2. CASE state = "CONNECTION_ACKED" /\ bf' = Write(<<Message(sent + 1)>>)
    <3>1. /\ <<Message(sent + 1)>> \in Seq(BfMsg)
          /\ \A i \in 1 .. Len(<<Message(sent + 1)>>) :
               <<Message(sent + 1)>>[i].type = "SendMessage"
      BY Singleton DEF TypeOK, Message, BfMsg
    <3>2. \A h \in Attempts :
            /\ h # remote => bf'[h] = bf[h]
            /\ \A i \in 1 .. Len(bf'[h]) :
                 \/ i \in 1 .. Len(bf[h]) /\ bf'[h][i] = bf[h][i]
                 \/ bf'[h][i].type = "SendMessage"
      BY <2>2, <3>1, WriteShape
    <3>3. receiver # 0 /\ UNCHANGED <<gen, bound>>
      BY <1>4, <2>2 DEF SendToBrowserFrame, connVars, hostVars,
        PipesFollowState
    <3> QED
      BY <3>2, <3>3, AttachedAfterWrite
  <2> QED
    BY <1>4, <2>1, <2>2 DEF SendToBrowserFrame
<1>5. ASSUME NEW g \in Attempts, LosesPipe(g)
      PROVE  AttachedComesFirst'
  <2>1. gen' = gen /\ bound' \in {bound, 0}
    BY <1>5 DEF LosesPipe, BrowserUnchanged
  <2>2. \A h \in Attempts : bf'[h] = bf[h] \/ bf'[h] = <<>>
    BY <1>5 DEF LosesPipe, TypeOK
  <2> QED
    BY <2>1, <2>2, AttachedAfterLoss
<1>6. ASSUME NEW g \in Attempts, FrameAttached(g)
      PROVE  AttachedComesFirst'
  <2>1. bf[g] # <<>> /\ bf' = [bf EXCEPT ![g] = Tail(bf[g])]
    BY <1>6 DEF FrameAttached
  <2>2. gen' = gen /\ bound' \in {bound, g}
    BY <1>6 DEF FrameAttached, rendererVars, connVars
  <2> QED
    BY <2>1, <2>2, AttachedAfterRead
<1>7. ASSUME NEW g \in Attempts, ReceiveMessage(g)
      PROVE  AttachedComesFirst'
  <2>1. bf[g] # <<>> /\ bf' = [bf EXCEPT ![g] = Tail(bf[g])]
    BY <1>7 DEF ReceiveMessage
  <2>2. gen' = gen /\ bound' \in {bound, g}
    BY <1>7 DEF ReceiveMessage, rendererVars, connVars, hostVars
  <2> QED
    BY <2>1, <2>2, AttachedAfterRead
<1>8. CASE HostDisconnect
  <2>1. gen' = gen /\ bound' \in {bound, 0}
    BY <1>8 DEF HostDisconnect, rendererVars, connVars
  <2>2. \A h \in Attempts : bf'[h] = bf[h] \/ bf'[h] = <<>>
    BY <1>8 DEF HostDisconnect, bfVars, TypeOK
  <2> QED
    BY <2>1, <2>2, AttachedAfterLoss
<1>9. CASE NewMainFrame
  <2>1. gen' = gen /\ bound' \in {bound, 0}
    BY <1>9 DEF NewMainFrame, Detach, rendererVars, connVars
  <2>2. \A h \in Attempts : bf'[h] = bf[h] \/ bf'[h] = <<>>
    BY <1>9 DEF NewMainFrame, bfVars, TypeOK
  <2> QED
    BY <2>1, <2>2, AttachedAfterLoss
<1>10. CASE RenderFrameDeleted
  <2>1. gen' = gen /\ bound' \in {bound, 0}
    BY <1>10 DEF RenderFrameDeleted, Detach, rendererVars, connVars
  <2>2. \A h \in Attempts : bf'[h] = bf[h] \/ bf'[h] = <<>>
    BY <1>10 DEF RenderFrameDeleted, TypeOK
  <2> QED
    BY <2>1, <2>2, AttachedAfterLoss
<1>11. CASE \/ Disconnects
           \/ ExecuteCommand
           \/ RendererKilled
           \/ SendToRenderFrame
           \/ LeaveCache
  <2>1. UNCHANGED <<gen, bf, bound>>
    BY <1>11 DEF Disconnects, ExecuteCommand, RendererKilled,
      SendToRenderFrame, LeaveCache, BrowserUnchanged, rendererVars, connVars,
      retryVars, bfVars, rfVars, hostVars, cmdVars, seenVars
  <2> QED
    BY <2>1 DEF AttachedComesFirst, AttachInFlight
<1> QED
  BY <1>1, <1>2, <1>3, <1>4, <1>5, <1>6, <1>7, <1>8, <1>9, <1>10, <1>11,
    StepKinds

\* A step that adds no FrameAttached and leaves the other pipe alone.
LEMMA AckUndisturbed ==
  ASSUME TypeOK, AckAnswersAttached, UNCHANGED <<receiver, rf, state>>,
         \A h \in Attempts : AttachInFlight(h)' => AttachInFlight(h)
  PROVE  AckAnswersAttached'
<1>1. (receiver # 0 /\ AttachInFlight(receiver))'
        => receiver # 0 /\ AttachInFlight(receiver)
  <2>1. receiver # 0 => receiver \in Attempts
    BY DEF TypeOK, Attempts
  <2> QED
    BY <2>1 DEF AttachInFlight
<1> QED
  BY <1>1 DEF AckAnswersAttached

\* Reading the other pipe leaves no acknowledgement on it.
LEMMA AckAfterRead ==
  ASSUME TypeOK, AckAnswersAttached, rf # <<>>, rf' = Tail(rf),
         receiver' = receiver, receiver # 0,
         AttachInFlight(receiver)' => AttachInFlight(receiver)
  PROVE  AckAnswersAttached'
<1>1. \A i \in 1 .. Len(rf') : i + 1 \in 2 .. Len(rf) /\ rf'[i] = rf[i + 1]
  BY HeadAndRest DEF TypeOK
<1>2. \A i \in 1 .. Len(rf') : rf'[i].type # "FrameAttachedAck"
  <2> SUFFICES ASSUME NEW i \in 1 .. Len(rf')
               PROVE  rf'[i].type # "FrameAttachedAck"
    OBVIOUS
  <2>1. i + 1 \in 1 .. Len(rf) /\ i + 1 # 1 /\ rf'[i] = rf[i + 1]
    BY <1>1
  <2> QED
    BY <2>1 DEF AckAnswersAttached
<1>3. ~AttachInFlight(receiver)
  BY DEF AckAnswersAttached
<1>4. ~(AttachInFlight(receiver)')
  BY <1>3
<1>5. ~(receiver # 0 /\ AttachInFlight(receiver))'
  BY <1>4 DEF AttachInFlight
<1> QED
  BY <1>2, <1>5 DEF AckAnswersAttached

\* No FrameAttached comes from writing messages ...
LEMMA AttachInFlightAfterWrite ==
  ASSUME NEW h \in Attempts,
         \A i \in 1 .. Len(bf'[h]) :
           \/ i \in 1 .. Len(bf[h]) /\ bf'[h][i] = bf[h][i]
           \/ bf'[h][i].type = "SendMessage"
  PROVE  AttachInFlight(h)' => AttachInFlight(h)
  BY DEF AttachInFlight

\* ... from losing them ...
LEMMA AttachInFlightAfterLoss ==
  ASSUME NEW h \in Attempts, bf'[h] = bf[h] \/ bf'[h] = <<>>
  PROVE  AttachInFlight(h)' => AttachInFlight(h)
<1>1. CASE bf'[h] = bf[h]
  BY <1>1 DEF AttachInFlight
<1>2. CASE bf'[h] = <<>>
  <2>1. \A i \in 1 .. Len(bf'[h]) : FALSE
    BY <1>2
  <2> QED
    BY <2>1 DEF AttachInFlight
<1> QED
  BY <1>1, <1>2

\* ... or from reading one.
LEMMA AttachInFlightAfterRead ==
  ASSUME TypeOK, NEW g \in Attempts, bf[g] # <<>>,
         bf' = [bf EXCEPT ![g] = Tail(bf[g])]
  PROVE  \A h \in Attempts : AttachInFlight(h)' => AttachInFlight(h)
<1>1. /\ \A h \in Attempts \ {g} : bf'[h] = bf[h]
      /\ \A i \in 1 .. Len(bf'[g]) :
           i + 1 \in 2 .. Len(bf[g]) /\ bf'[g][i] = bf[g][i + 1]
  BY ReadShape
<1>2. AttachInFlight(g)' => AttachInFlight(g)
  <2> SUFFICES ASSUME NEW i \in 1 .. Len(bf'[g]),
                      bf'[g][i].type = "FrameAttached"
               PROVE  AttachInFlight(g)
    BY DEF AttachInFlight
  <2>1. i + 1 \in 1 .. Len(bf[g]) /\ bf[g][i + 1].type = "FrameAttached"
    BY <1>1
  <2> QED
    BY <2>1 DEF AttachInFlight
<1>3. \A h \in Attempts \ {g} : AttachInFlight(h)' => AttachInFlight(h)
  BY <1>1 DEF AttachInFlight
<1> QED
  BY <1>2, <1>3

\* What FrameAttached sends on the other pipe: one acknowledgement, first.
LEMMA AckComesFirst ==
  ASSUME NEW q \in Seq(Nat), NEW first \in RfMsg
  PROVE  \A i \in 1 .. Len(<<first>> \o Commands(q)) :
           (<<first>> \o Commands(q))[i].type = "FrameAttachedAck" => i = 1
<1>1. Commands(q) \in Seq(RfMsg) /\ <<first>> \in Seq(RfMsg)
  BY WrappedCommands
<1>2. \A i \in 1 .. Len(Commands(q)) : Commands(q)[i].type = "SendCommand"
  <2>1. \A i \in 1 .. Len(q) : Command(q[i]).type = "SendCommand"
    BY DEF Command
  <2> QED
    BY <2>1, WrappedCommands
<1>3. Len(<<first>>) = 1
  OBVIOUS
<1>4. \A i \in 1 .. Len(<<first>> \o Commands(q)) : i # 1 =>
        /\ i - 1 \in 1 .. Len(Commands(q))
        /\ (<<first>> \o Commands(q))[i] = Commands(q)[i - 1]
  BY <1>1, <1>3, ConcatProperties, LenProperties
<1> QED
  BY <1>2, <1>4

\* The acknowledgement always finds the renderer waiting.
LEMMA AckAnswersAttachedKept ==
  ASSUME TypeOK, PipesFollowState, AttachedComesFirst, AckAnswersAttached,
         [Next]_vars
  PROVE  AckAnswersAttached'
<1>1. CASE UNCHANGED connectionVars
  BY <1>1 DEF connectionVars, seenVars, AckAnswersAttached, AttachInFlight
<1>2. CASE Connects
  <2>1. CASE GivesUp
    <3>1. \A i \in 1 .. Len(rf) : rf[i].type # "FrameAttachedAck"
      BY <1>2 DEF Connects, Unconnected, AckAnswersAttached
    <3>2. receiver = 0
      BY <1>2 DEF Connects, Unconnected, PipesFollowState
    <3> QED
      BY <2>1, <3>1, <3>2 DEF GivesUp, AckAnswersAttached
  <2>2. CASE StartsAttempt
    BY <2>2 DEF StartsAttempt, AckAnswersAttached
  <2> QED
    BY <1>2, <2>1, <2>2 DEF Connects
<1>3. CASE Disconnects
  BY <1>3 DEF Disconnects, ResetPipes, AckAnswersAttached
<1>4. CASE FrameAttachedAck
  <2>1. /\ rf # <<>> /\ rf' = Tail(rf)
        /\ receiver' = receiver /\ receiver # 0
    BY <1>4 DEF FrameAttachedAck
  <2>2. receiver \in Attempts
    BY <2>1 DEF TypeOK, Attempts
  <2>3. CASE bf' = bf
    BY <2>1, <2>3, AckAfterRead DEF AttachInFlight
  <2>4. CASE FlushMessages
    <3>1. sendQ \in Seq(Nat) /\ bf' = Write(Messages(sendQ))
      BY <2>4 DEF TypeOK, FlushMessages
    <3>2. \A i \in 1 .. Len(sendQ) : Message(sendQ[i]).type = "SendMessage"
      BY DEF Message
    <3>3. /\ Messages(sendQ) \in Seq(BfMsg)
          /\ \A i \in 1 .. Len(Messages(sendQ)) :
               Messages(sendQ)[i].type = "SendMessage"
      BY <3>1, <3>2, WrappedMessages
    <3>4. AttachInFlight(receiver)' => AttachInFlight(receiver)
      <4>1. \A r \in Attempts : AttachInFlight(r)' => AttachInFlight(r)
        BY <3>1, <3>3, WriteShape, AttachInFlightAfterWrite
      <4> QED
        BY <2>1, <2>2, <4>1 DEF AttachInFlight
    <3> QED
      BY <2>1, <3>4, AckAfterRead
  <2> QED
    BY <1>4, <2>3, <2>4 DEF FrameAttachedAck
<1>5. CASE ExecuteCommand
  <2>1. /\ rf # <<>> /\ rf' = Tail(rf)
        /\ receiver' = receiver /\ receiver # 0 /\ bf' = bf
    BY <1>5 DEF ExecuteCommand, rendererVars, connVars, bfVars
  <2> QED
    BY <2>1, AckAfterRead DEF AttachInFlight
<1>6. CASE SendToBrowserFrame
  <2>1. UNCHANGED <<receiver, rf, state>>
    BY <1>6 DEF SendToBrowserFrame, connVars, rfVars
  <2>2. \A h \in Attempts : AttachInFlight(h)' => AttachInFlight(h)
    <3>1. CASE bf' = bf
      BY <3>1 DEF AttachInFlight
    <3>2. CASE bf' = Write(<<Message(sent + 1)>>)
      <4>1. /\ <<Message(sent + 1)>> \in Seq(BfMsg)
            /\ \A i \in 1 .. Len(<<Message(sent + 1)>>) :
                 <<Message(sent + 1)>>[i].type = "SendMessage"
        BY Singleton DEF TypeOK, Message, BfMsg
      <4> QED
        BY <3>2, <4>1, WriteShape, AttachInFlightAfterWrite
    <3> QED
      BY <1>6, <3>1, <3>2 DEF SendToBrowserFrame
  <2> QED
    BY <2>1, <2>2, AckUndisturbed
<1>7. CASE RendererKilled
  <2>1. bf' = bf /\ rf' = <<>> /\ UNCHANGED <<receiver, state>>
    BY <1>7 DEF RendererKilled, bfVars, connVars
  <2> QED
    BY <2>1 DEF AckAnswersAttached, AttachInFlight
<1>8. ASSUME NEW g \in Attempts, LosesPipe(g)
      PROVE  AckAnswersAttached'
  <2>1. UNCHANGED <<receiver, rf, state>>
    BY <1>8 DEF LosesPipe
  <2>2. \A h \in Attempts : AttachInFlight(h)' => AttachInFlight(h)
    <3>1. \A h \in Attempts : bf'[h] = bf[h] \/ bf'[h] = <<>>
      BY <1>8 DEF LosesPipe, TypeOK
    <3> QED
      BY <3>1, AttachInFlightAfterLoss
  <2> QED
    BY <2>1, <2>2, AckUndisturbed
<1>9. ASSUME NEW g \in Attempts, FrameAttached(g)
      PROVE  AckAnswersAttached'
  <2>1. bf[g] # <<>> /\ bf' = [bf EXCEPT ![g] = Tail(bf[g])]
    BY <1>9 DEF FrameAttached
  <2>2. \A h \in Attempts : AttachInFlight(h)' => AttachInFlight(h)
    BY <2>1, AttachInFlightAfterRead
  <2>3. UNCHANGED <<receiver, state>>
    BY <1>9 DEF FrameAttached, rendererVars, connVars
  <2>4. CASE rf' = rf
    BY <2>2, <2>3, <2>4, AckUndisturbed
  <2>5. CASE rf' # rf
    <3>1. receiver = g /\ receiver # 0
      <4>1. ReceiverOpen(g)
        BY <1>9, <2>5 DEF FrameAttached, AckAndFlush, DenyAttach
      <4> QED
        BY <4>1 DEF ReceiverOpen, Attempts
    <3>2. bf[g] \in Seq(BfMsg)
      BY DEF TypeOK
    <3>3. AttachInFlight(g)
      <4>1. 1 \in 1 .. Len(bf[g]) /\ Head(bf[g]) = bf[g][1]
        BY <2>1, <3>2, HeadAndRest
      <4> QED
        BY <1>9, <4>1 DEF FrameAttached, AttachInFlight
    <3>4. state = "CONNECTION_PENDING"
      BY <3>1, <3>3 DEF AckAnswersAttached
    <3>5. ~(AttachInFlight(g)')
      <4>1. gen' = gen /\ bound' \in {bound, g}
        BY <1>9 DEF FrameAttached, rendererVars, connVars
      <4> QED
        BY <2>1, <4>1, AttachedAfterRead
    <3>6. ~(receiver # 0 /\ AttachInFlight(receiver))'
      BY <2>3, <3>1, <3>5 DEF AttachInFlight
    <3>7. \A i \in 1 .. Len(rf') : rf'[i].type = "FrameAttachedAck" => i = 1
      <4>1. cmdQ \in Seq(Nat)
        BY DEF TypeOK
      <4>2. CASE rf' = <<Ack(TRUE)>> \o Commands(cmdQ)
        <5>1. Ack(TRUE) \in RfMsg
          BY DEF Ack, RfMsg
        <5> QED
          BY <4>1, <4>2, <5>1, AckComesFirst
      <4>3. CASE rf' = <<Ack(FALSE)>>
        BY <4>3, Singleton
      <4> QED
        BY <1>9, <2>5, <4>2, <4>3 DEF FrameAttached, AckAndFlush, DenyAttach
    <3> QED
      BY <2>3, <3>4, <3>6, <3>7 DEF AckAnswersAttached
  <2> QED
    BY <2>4, <2>5
<1>10. ASSUME NEW g \in Attempts, ReceiveMessage(g)
      PROVE  AckAnswersAttached'
  <2>1. UNCHANGED <<receiver, rf, state>>
    BY <1>10 DEF ReceiveMessage, rendererVars, connVars, rfVars
  <2>2. \A h \in Attempts : AttachInFlight(h)' => AttachInFlight(h)
    <3>1. bf[g] # <<>> /\ bf' = [bf EXCEPT ![g] = Tail(bf[g])]
      BY <1>10 DEF ReceiveMessage
    <3> QED
      BY <3>1, AttachInFlightAfterRead
  <2> QED
    BY <2>1, <2>2, AckUndisturbed
<1>11. CASE SendToRenderFrame
  <2>1. UNCHANGED <<receiver, state, bf>>
    BY <1>11 DEF SendToRenderFrame, rendererVars, connVars, bfVars
  <2>2. CASE rf' = rf
    BY <2>1, <2>2, AckUndisturbed DEF AttachInFlight
  <2>3. CASE /\ bound # 0 /\ bound = receiver
             /\ rf' = Append(rf, Command(cmdSent + 1))
    <3>1. ~AttachInFlight(receiver)
      BY <2>3 DEF AttachedComesFirst
    <3>2. rf \in Seq(RfMsg) /\ Command(cmdSent + 1) \in RfMsg
      BY DEF TypeOK, Command, RfMsg
    <3>3. \A i \in 1 .. Len(rf') :
            \/ i \in 1 .. Len(rf) /\ rf'[i] = rf[i]
            \/ rf'[i] = Command(cmdSent + 1)
      BY <2>3, <3>2, AppendProperties, LenProperties
    <3>4. Command(cmdSent + 1).type # "FrameAttachedAck"
      BY DEF Command
    <3>5. ~(receiver # 0 /\ AttachInFlight(receiver))'
      BY <2>1, <3>1 DEF AttachInFlight
    <3> QED
      BY <2>1, <3>3, <3>4, <3>5 DEF AckAnswersAttached
  <2> QED
    BY <1>11, <2>2, <2>3 DEF SendToRenderFrame, ReceiverOpen
<1>12. CASE RenderFrameDeleted
  <2>1. UNCHANGED <<receiver, rf, state>>
    BY <1>12 DEF RenderFrameDeleted, rendererVars, connVars
  <2>2. \A h \in Attempts : AttachInFlight(h)' => AttachInFlight(h)
    <3>1. \A h \in Attempts : bf'[h] = bf[h] \/ bf'[h] = <<>>
      BY <1>12 DEF RenderFrameDeleted, TypeOK
    <3> QED
      BY <3>1, AttachInFlightAfterLoss
  <2> QED
    BY <2>1, <2>2, AckUndisturbed
<1>13. CASE \/ HostDisconnect
           \/ NewMainFrame
           \/ LeaveCache
  <2>1. UNCHANGED <<receiver, bf, rf, state>>
    BY <1>13 DEF HostDisconnect, NewMainFrame, LeaveCache, BrowserUnchanged,
      rendererVars, connVars, retryVars, bfVars, rfVars, hostVars, cmdVars,
      seenVars
  <2> QED
    BY <2>1 DEF AckAnswersAttached, AttachInFlight
<1> QED
  BY <1>1, <1>2, <1>3, <1>4, <1>5, <1>6, <1>7, <1>8, <1>9, <1>10, <1>11, <1>12,
    <1>13, StepKinds

\* A step that opens no closed end and leaves the peer alone.
LEMMA PeerUndisturbed ==
  ASSUME TypeOK, PeerHoldsPipe, UNCHANGED <<receiver, state, bound, info>>,
         rf = <<>> => rf' = <<>>,
         \A h \in Attempts : RenderFrameClosed(h) => RenderFrameClosed(h)'
  PROVE  PeerHoldsPipe'
<1>1. receiver # 0 /\ RenderFrameClosed(receiver)
        => RenderFrameClosed(receiver)'
  <2>1. receiver # 0 => receiver \in Attempts
    BY DEF TypeOK, Attempts
  <2> QED
    BY <2>1 DEF RenderFrameClosed
<1> QED
  BY <1>1 DEF PeerHoldsPipe

\* When render_frame_ is reset, it is closed.
LEMMA PeerAfterReset ==
  ASSUME TypeOK, PeerHoldsPipe, UNCHANGED <<receiver, state, rf>>, bound' = 0,
         bound # 0 => rfEnd'[bound] \in {"gone", "detached", "excluded"},
         \A h \in Attempts : RenderFrameClosed(h) => RenderFrameClosed(h)'
  PROVE  PeerHoldsPipe'
<1>1. receiver # 0 /\ RenderFrameClosed(receiver)
        => RenderFrameClosed(receiver)'
  <2>1. receiver # 0 => receiver \in Attempts
    BY DEF TypeOK, Attempts
  <2> QED
    BY <2>1 DEF RenderFrameClosed
<1>2. receiver # 0 /\ bound = receiver => RenderFrameClosed(receiver)'
  BY DEF RenderFrameClosed
<1> QED
  BY <1>1, <1>2 DEF PeerHoldsPipe

\* The peer of a connected renderer holds the pipe or has closed it.
LEMMA PeerHoldsPipeKept ==
  ASSUME TypeOK, PipesFollowState, PeerHoldsPipe, [Next]_vars
  PROVE  PeerHoldsPipe'
<1>1. CASE UNCHANGED connectionVars
  BY <1>1 DEF connectionVars, seenVars, PeerHoldsPipe, RenderFrameClosed
<1>2. CASE Connects
  <2>1. receiver = 0
    BY <1>2 DEF Connects, Unconnected, PipesFollowState
  <2>2. UNCHANGED <<bound, info>>
    BY <1>2 DEF Connects, BrowserUnchanged
  <2>3. CASE GivesUp
    BY <2>1, <2>2, <2>3 DEF GivesUp, PeerHoldsPipe
  <2>4. CASE StartsAttempt
    BY <2>2, <2>4 DEF StartsAttempt, PeerHoldsPipe
  <2> QED
    BY <1>2, <2>3, <2>4 DEF Connects
<1>3. CASE Disconnects
  BY <1>3 DEF Disconnects, ResetPipes, BrowserUnchanged, PeerHoldsPipe
<1>4. CASE FrameAttachedAck
  <2>1. rf # <<>> /\ UNCHANGED <<receiver, bound, rfEnd, info>>
    BY <1>4 DEF FrameAttachedAck, hostVars
  <2> QED
    BY <2>1 DEF PeerHoldsPipe, RenderFrameClosed
<1>5. CASE ExecuteCommand
  <2>1. rf # <<>> /\ UNCHANGED <<receiver, bound, rfEnd, info>>
    BY <1>5 DEF ExecuteCommand, rendererVars, connVars, hostVars
  <2> QED
    BY <2>1 DEF PeerHoldsPipe, RenderFrameClosed
<1>6. CASE RendererKilled
  BY <1>6 DEF RendererKilled, connVars, hostVars, PeerHoldsPipe,
    RenderFrameClosed
<1>7. ASSUME NEW g \in Attempts, LosesPipe(g)
      PROVE  PeerHoldsPipe'
  <2>1. UNCHANGED <<receiver, state, bound, info, rf>>
    BY <1>7 DEF LosesPipe, BrowserUnchanged
  <2>2. \A h \in Attempts : RenderFrameClosed(h) => RenderFrameClosed(h)'
    BY <1>7 DEF LosesPipe, DropRemote, RenderFrameClosed, TypeOK
  <2> QED
    BY <2>1, <2>2, PeerUndisturbed
<1>8. ASSUME NEW g \in Attempts, FrameAttached(g)
      PROVE  PeerHoldsPipe'
  <2>1. UNCHANGED <<receiver, state, info>>
    BY <1>8 DEF FrameAttached, rendererVars, connVars
  <2>2. receiver # 0 => receiver \in Attempts
    BY DEF TypeOK, Attempts
  <2>3. rf' # rf => receiver = g
    <3>1. rf' # rf => ReceiverOpen(g)
      BY <1>8 DEF FrameAttached, AckAndFlush, DenyAttach
    <3> QED
      BY <3>1 DEF ReceiverOpen
  <2>4. CASE found /\ info /\ bound' = g /\ rfEnd' = [h \in Attempts |->
               IF h = g THEN "held" ELSE IF h = bound THEN "gone" ELSE rfEnd[h]]
    <3>1. receiver # 0 /\ receiver # g
            => (bound = receiver \/ RenderFrameClosed(receiver)
                  => RenderFrameClosed(receiver)')
      BY <2>1, <2>2, <2>4 DEF RenderFrameClosed
    <3> QED
      BY <2>1, <2>3, <2>4, <3>1 DEF PeerHoldsPipe
  <2>5. CASE DenyAttach(g) /\ bound' = bound
    <3>1. receiver = g => RenderFrameClosed(receiver)'
      BY <2>1, <2>5 DEF DenyAttach, RenderFrameClosed, TypeOK
    <3>2. receiver # 0 /\ RenderFrameClosed(receiver)
            => RenderFrameClosed(receiver)'
      BY <2>1, <2>2, <2>5 DEF DenyAttach, RenderFrameClosed, TypeOK
    <3> QED
      BY <2>1, <2>3, <2>5, <3>1, <3>2 DEF PeerHoldsPipe
  <2>6. CASE DropRemote(g) /\ UNCHANGED <<bound, rf>>
    <3>1. \A h \in Attempts : RenderFrameClosed(h) => RenderFrameClosed(h)'
      BY <2>6 DEF DropRemote, RenderFrameClosed, TypeOK
    <3> QED
      BY <2>1, <2>6, <3>1, PeerUndisturbed
  <2> QED
    BY <1>8, <2>4, <2>5, <2>6 DEF FrameAttached
<1>9. CASE HostDisconnect
  <2>1. UNCHANGED <<receiver, state, rf>>
    BY <1>9 DEF HostDisconnect, rendererVars, connVars
  <2>2. bound # 0 => bound \in Attempts
    BY DEF TypeOK, Attempts
  <2>3. bound # 0 => rfEnd'[bound] \in {"gone", "detached", "excluded"}
    BY <1>9, <2>2 DEF HostDisconnect, RenderFrameClosed, TypeOK
  <2>4. \A h \in Attempts : RenderFrameClosed(h) => RenderFrameClosed(h)'
    BY <1>9 DEF HostDisconnect, RenderFrameClosed, TypeOK
  <2>5. bound' = 0
    BY <1>9 DEF HostDisconnect
  <2> QED
    BY <2>1, <2>3, <2>4, <2>5, PeerAfterReset
<1>10. CASE SendToRenderFrame
  <2>1. UNCHANGED <<receiver, state, bound, info, rfEnd>>
    BY <1>10 DEF SendToRenderFrame, rendererVars, connVars, hostVars
  <2>2. rf' # rf => bound = receiver
    BY <1>10 DEF SendToRenderFrame, ReceiverOpen
  <2> QED
    BY <2>1, <2>2 DEF PeerHoldsPipe, RenderFrameClosed
<1>11. CASE NewMainFrame
  <2>1. UNCHANGED <<receiver, state, rf>>
    BY <1>11 DEF NewMainFrame, DetachRenderFrame, rendererVars, connVars
  <2>2. bound # 0 => bound \in Attempts
    BY DEF TypeOK, Attempts
  <2>3. bound # 0 => rfEnd'[bound] \in {"gone", "detached", "excluded"}
    BY <1>11, <2>2 DEF NewMainFrame, DetachRenderFrame, RenderFrameClosed,
      TypeOK
  <2>4. \A h \in Attempts : RenderFrameClosed(h) => RenderFrameClosed(h)'
    BY <1>11 DEF NewMainFrame, DetachRenderFrame, RenderFrameClosed, TypeOK
  <2>5. bound' = 0
    BY <1>11 DEF NewMainFrame, Detach
  <2> QED
    BY <2>1, <2>3, <2>4, <2>5, PeerAfterReset
<1>12. CASE LeaveCache
  <2>1. UNCHANGED <<receiver, state, bound, rfEnd, rf>> /\ (info => info')
    BY <1>12 DEF LeaveCache, rendererVars, connVars, rfVars
  <2> QED
    BY <2>1 DEF PeerHoldsPipe, RenderFrameClosed
<1>13. CASE RenderFrameDeleted
  <2>1. UNCHANGED <<receiver, state, rf>>
    BY <1>13 DEF RenderFrameDeleted, DetachRenderFrame, rendererVars, connVars
  <2>2. bound # 0 => bound \in Attempts
    BY DEF TypeOK, Attempts
  <2>3. bound # 0 => rfEnd'[bound] \in {"gone", "detached", "excluded"}
    BY <1>13, <2>2 DEF RenderFrameDeleted, DetachRenderFrame,
      RenderFrameClosed, TypeOK
  <2>4. \A h \in Attempts : RenderFrameClosed(h) => RenderFrameClosed(h)'
    BY <1>13 DEF RenderFrameDeleted, DetachRenderFrame, RenderFrameClosed,
      TypeOK
  <2>5. CASE found
    <3>1. bound' = 0
      BY <1>13, <2>5 DEF RenderFrameDeleted, Detach
    <3> QED
      BY <2>1, <2>3, <2>4, <3>1, PeerAfterReset
  <2>6. CASE ~found
    <3>1. UNCHANGED <<bound, info>>
      BY <1>13, <2>6 DEF RenderFrameDeleted
    <3> QED
      BY <2>1, <2>4, <3>1, PeerUndisturbed
  <2> QED
    BY <2>5, <2>6 DEF TypeOK
<1>14. CASE \/ SendToBrowserFrame
  <2>1. UNCHANGED <<receiver, rf, state, bound, rfEnd, info>>
    BY <1>14 DEF SendToBrowserFrame, BrowserUnchanged, rendererVars, connVars,
      retryVars, bfVars, rfVars, hostVars, cmdVars, seenVars
  <2> QED
    BY <2>1 DEF PeerHoldsPipe, RenderFrameClosed
<1>15. ASSUME NEW g \in Attempts,
             ReceiveMessage(g)
      PROVE  PeerHoldsPipe'
  <2>1. UNCHANGED <<receiver, rf, state, bound, rfEnd, info>>
    BY <1>15 DEF ReceiveMessage, BrowserUnchanged, rendererVars, connVars,
      retryVars, bfVars, rfVars, hostVars, cmdVars, seenVars
  <2> QED
    BY <2>1 DEF PeerHoldsPipe, RenderFrameClosed
<1> QED
  BY <1>1, <1>2, <1>3, <1>4, <1>5, <1>6, <1>7, <1>8, <1>9, <1>10, <1>11, <1>12,
    <1>13, <1>14, <1>15, StepKinds

-----------------------------------------------------------------------------
(***************************************************************************)
(* Theorems                                                                *)
(***************************************************************************)

\* ConnectionInv holds initially.
LEMMA InitConnectionInv == Init => ConnectionInv
<1> SUFFICES ASSUME Init PROVE ConnectionInv
  OBVIOUS
<1>1. AckIsExpected /\ NotificationsTellBinding /\ BoundMeansFlushed
  BY DEF Init, AckIsExpected, NotificationsTellBinding, BoundMeansFlushed
<1>2. ExcludedIsIsolated
  BY DEF Init, ExcludedIsIsolated
<1>3. PipesFollowState
  BY DEF Init, PipesFollowState
<1>4. AttachedComesFirst
  BY DEF Init, AttachedComesFirst, AttachInFlight
<1>5. AckAnswersAttached
  BY DEF Init, AckAnswersAttached
<1>6. PeerHoldsPipe
  BY DEF Init, PeerHoldsPipe
<1>7. ExcludedIsRefused
  <2>1. \A i \in 1 .. Len(rf) : FALSE
    BY DEF Init
  <2>2. found = ~excluded
    BY DEF Init
  <2> QED
    BY <2>1, <2>2 DEF ExcludedIsRefused
<1> QED
  BY <1>1, <1>2, <1>3, <1>4, <1>5, <1>6, <1>7 DEF ConnectionInv

\* Every step keeps ConnectionInv.
LEMMA ConnectionInvKept ==
  TypeOK /\ ConnectionInv /\ [Next]_vars => ConnectionInv'
<1> SUFFICES ASSUME TypeOK, ConnectionInv, [Next]_vars PROVE ConnectionInv'
  OBVIOUS
<1> USE DEF ConnectionInv
<1>1. PipesFollowState'
  BY PipesFollowStateKept
<1>2. AckIsExpected'
  BY AckIsExpectedKept
<1>3. NotificationsTellBinding'
  BY NotificationsTellBindingKept
<1>4. BoundMeansFlushed'
  BY BoundMeansFlushedKept
<1>5. ExcludedIsIsolated'
  BY ExcludedIsIsolatedKept
<1>6. AttachedComesFirst'
  BY AttachedComesFirstKept
<1>7. AckAnswersAttached'
  BY AckAnswersAttachedKept
<1>8. PeerHoldsPipe'
  BY PeerHoldsPipeKept
<1>9. ExcludedIsRefused'
  BY ExcludedIsRefusedKept
<1> QED
  BY <1>1, <1>2, <1>3, <1>4, <1>5, <1>6, <1>7, <1>8, <1>9

\* The two processes never disagree about the pipes: what ConnectionInv says
\* holds of any number of attempts, messages, commands and disturbances.
THEOREM ConnectionCorrect == Spec => []ConnectionInv
  BY InitType, TypePreserved, InitConnectionInv, ConnectionInvKept, PTL
    DEF Spec

\* The CHECKs of CefFrameImpl never fail: an acknowledgement finds the renderer
\* in CONNECTION_PENDING, a new attempt finds both pipes unbound.
THEOREM AcksAreExpected == Spec => []AckIsExpected
<1>1. ConnectionInv => AckIsExpected
  BY DEF ConnectionInv
<1> QED
  BY <1>1, ConnectionCorrect, PTL

\* A renderer that has been acknowledged is held by its peer or is about to
\* learn that it is not.
THEOREM AcksMeanBound == Spec => []AckedMeansBound
<1>1. ConnectionInv => AckedMeansBound
  BY DEF ConnectionInv, PeerHoldsPipe, PipesFollowState, AckedMeansBound
<1> QED
  BY <1>1, ConnectionCorrect, PTL

\* The client's last notification tells whether the frame is attached.
THEOREM NotificationsAreTrue == Spec => []NotificationsTellBinding
<1>1. ConnectionInv => NotificationsTellBinding
  BY DEF ConnectionInv
<1> QED
  BY <1>1, ConnectionCorrect, PTL

\* No command is queued while the frame is bound.
THEOREM BoundFramesAreFlushed == Spec => []BoundMeansFlushed
<1>1. ConnectionInv => BoundMeansFlushed
  BY DEF ConnectionInv
<1> QED
  BY <1>1, ConnectionCorrect, PTL

\* Nothing passes between the client and a frame of an excluded type.
THEOREM ExcludedFramesAreIsolated == Spec => []ExcludedIsIsolated
<1>1. ConnectionInv => ExcludedIsIsolated
  BY DEF ConnectionInv
<1> QED
  BY <1>1, ConnectionCorrect, PTL

\* Renderer, browser and client agree on the connection, whatever the bounds.
THEOREM EndsStayInAgreement == Spec => []EndsAgree
<1>1. TypeOK /\ ConnectionInv /\ AckedMeansBound => EndsAgree
  BY DEF ConnectionInv, EndsAgree
<1> QED
  BY <1>1, TypeCorrect, ConnectionCorrect, AcksMeanBound, PTL

-----------------------------------------------------------------------------
(* The commands to the renderer implement OrderedChannel: whatever is queued,   *)
(* flushed, dropped with a pipe or sent on the next one, they run in the order  *)
(* they were issued, none of them twice, without any assumption on time.        *)

\* Position i of the pipe to the renderer holds a command.
IsCommand(i) == rf[i].type = "SendCommand"

\* What waits in the browser is newer than what runs, in order.
QueueIsOrdered ==
  /\ \A i \in 1 .. Len(cmdQ) : cmdQ[i] \in lastExec + 1 .. cmdSent
  /\ \A i, j \in 1 .. Len(cmdQ) : i < j => cmdQ[i] < cmdQ[j]

\* So is what was written to the pipe.
PipeIsOrdered ==
  /\ \A i \in 1 .. Len(rf) : IsCommand(i) => rf[i].n \in lastExec + 1 .. cmdSent
  /\ \A i, j \in 1 .. Len(rf) :
       i < j /\ IsCommand(i) /\ IsCommand(j) => rf[i].n < rf[j].n

\* What is on its way was issued before what waits.
PipeBeforeQueue ==
  \A i \in 1 .. Len(rf), j \in 1 .. Len(cmdQ) : IsCommand(i) => rf[i].n < cmdQ[j]

CommandInv ==
  /\ lastExec <= cmdSent
  /\ QueueIsOrdered
  /\ PipeIsOrdered
  /\ PipeBeforeQueue

-----------------------------------------------------------------------------
(* What the steps do to commands. *)

\* Commands are lost, or something else is read from the pipe.
LosesCommands ==
  /\ UNCHANGED <<lastExec, cmdSent>>
  /\ cmdQ' \in {cmdQ, <<>>}
  /\ \/ rf' \in {rf, <<>>}
     \/ rf # <<>> /\ rf' = Tail(rf)

\* The frame is refused: the pipe holds nothing but the refusal.
RefusesFrame ==
  /\ UNCHANGED <<lastExec, cmdSent, cmdQ>>
  /\ rf' = <<Ack(FALSE)>>

\* The queue is moved to the new pipe, behind the acknowledgement.
FlushesCommands ==
  /\ UNCHANGED <<lastExec, cmdSent>>
  /\ cmdQ' = <<>>
  /\ rf' = <<Ack(TRUE)>> \o Commands(cmdQ)

RunsCommand ==
  /\ rf # <<>> /\ IsCommand(1)
  /\ rf' = Tail(rf)
  /\ lastExec' = rf[1].n
  /\ UNCHANGED <<cmdSent, cmdQ>>

\* A new command is dropped, queued, or written when nothing is queued.
IssuesCommand ==
  /\ cmdSent' = cmdSent + 1
  /\ UNCHANGED lastExec
  /\ \/ UNCHANGED <<cmdQ, rf>>
     \/ cmdQ' = Append(cmdQ, cmdSent + 1) /\ UNCHANGED rf
     \/ /\ cmdQ = <<>> /\ UNCHANGED cmdQ
        /\ rf' = Append(rf, Command(cmdSent + 1))

\* Attempts and disconnections empty the pipe, if they touch it.
LEMMA ConnectEmpties ==
  ASSUME NEW shown, NEW cached, ConnectBrowserFrame(shown, cached) \/ NoConnect
  PROVE  rf' \in {rf, <<>>}
  BY DEF ConnectBrowserFrame, NoConnect

LEMMA DisconnectEmpties ==
  ASSUME NEW f, NEW custom, NEW declined, OnDisconnect(f, custom, declined)
  PROVE  rf' \in {rf, <<>>}
  BY DEF OnDisconnect, ResetPipes

\* Every step is of one of these kinds as far as commands are concerned.
LEMMA CommandStepKinds ==
  ASSUME TypeOK, BoundMeansFlushed, [Next]_vars
  PROVE  \/ LosesCommands \/ RefusesFrame \/ FlushesCommands
         \/ RunsCommand \/ IssuesCommand
<1> USE DEF cmdVars, seenVars
<1>1. CASE \/ OnDidCommitProvisionalLoad \/ PageShown \/ RetryTimer \/ RendererLeavesCache
  <2>1. UNCHANGED <<lastExec, cmdSent, cmdQ>>
    BY <1>1 DEF OnDidCommitProvisionalLoad, PageShown, RetryTimer, RendererLeavesCache
  <2>2. rf' \in {rf, <<>>}
    BY <1>1, ConnectEmpties
      DEF OnDidCommitProvisionalLoad, PageShown, RetryTimer, RendererLeavesCache, OnWasShown
  <2> QED
    BY <2>1, <2>2 DEF LosesCommands
<1>2. ASSUME NEW declined \in BOOLEAN,
             OnBrowserFrameDisconnect(declined) \/ OnRenderFrameDisconnect(declined)
      PROVE  LosesCommands
  BY <1>2, DisconnectEmpties
    DEF OnBrowserFrameDisconnect, OnRenderFrameDisconnect, LosesCommands
<1>3. CASE OnDetached
  BY <1>3, DisconnectEmpties DEF OnDetached, LosesCommands
<1>4. CASE FrameAttachedAck
  BY <1>4 DEF FrameAttachedAck, LosesCommands
<1>5. CASE ExecuteCommand
  <2>1. rf # <<>> /\ Head(rf).type = "SendCommand" /\ rf' = Tail(rf) /\ lastExec' = Head(rf).n
    BY <1>5 DEF ExecuteCommand
  <2>2. Head(rf) = rf[1]
    BY <2>1, HeadAndRest DEF TypeOK
  <2>3. UNCHANGED <<cmdSent, cmdQ>>
    BY <1>5 DEF ExecuteCommand
  <2> QED
    BY <2>1, <2>2, <2>3 DEF RunsCommand, IsCommand
<1>6. CASE SendToBrowserFrame \/ RendererEntersCache
  BY <1>6 DEF SendToBrowserFrame, RendererEntersCache, LosesCommands, rfVars
<1>7. CASE RendererKilled
  BY <1>7 DEF RendererKilled, LosesCommands
<1>8. ASSUME NEW g \in Attempts,
             \/ BindInterface(g) \/ DeclineInterface(g) \/ ConnectionError(g)
             \/ ReceiveMessage(g) \/ CloseBrowserFrame(g)
      PROVE  LosesCommands
  BY <1>8 DEF BindInterface, DeclineInterface, ConnectionError, ReceiveMessage,
    CloseBrowserFrame, LosesCommands, rfVars
<1>9. ASSUME NEW g \in Attempts, FrameAttached(g)
      PROVE  LosesCommands \/ RefusesFrame \/ FlushesCommands
  <2>1. UNCHANGED <<lastExec, cmdSent>>
    BY <1>9 DEF FrameAttached
  <2>2. \/ AckAndFlush(g)
        \/ DenyAttach(g) /\ UNCHANGED cmdQ
        \/ UNCHANGED <<rf, cmdQ>>
    BY <1>9 DEF FrameAttached
  <2> QED
    BY <2>1, <2>2 DEF AckAndFlush, DenyAttach, LosesCommands, RefusesFrame, FlushesCommands
<1>10. CASE HostDisconnect \/ CachedWithParent \/ LeaveCache
  BY <1>10 DEF HostDisconnect, CachedWithParent, LeaveCache, LosesCommands, rfVars
<1>11. CASE SendToRenderFrame
  <2>1. cmdSent' = cmdSent + 1 /\ UNCHANGED lastExec
    BY <1>11 DEF SendToRenderFrame
  <2>2. \/ UNCHANGED <<cmdQ, rf>>
        \/ cmdQ' = Append(cmdQ, cmdSent + 1) /\ UNCHANGED rf
        \/ /\ bound # 0 /\ UNCHANGED cmdQ
           /\ rf' = Append(rf, Command(cmdSent + 1))
    BY <1>11 DEF SendToRenderFrame
  <2> QED
    BY <2>1, <2>2 DEF BoundMeansFlushed, IssuesCommand
<1>12. CASE NewMainFrame \/ RenderFrameDeleted
  BY <1>12 DEF NewMainFrame, RenderFrameDeleted, Detach, LosesCommands
<1>13. CASE UNCHANGED vars
  BY <1>13 DEF vars, rfVars, LosesCommands
<1> QED
  BY <1>1, <1>2, <1>3, <1>4, <1>5, <1>6, <1>7, <1>8, <1>9, <1>10, <1>11, <1>12, <1>13
    DEF Next, RendererNext, BrowserNext

-----------------------------------------------------------------------------
(* Each kind of step keeps the order. *)

LEMMA LosesCommandsKeeps ==
  ASSUME TypeOK, CommandInv, LosesCommands
  PROVE  CommandInv'
<1> USE DEF CommandInv
<1>1. UNCHANGED <<lastExec, cmdSent>> /\ cmdQ' \in {cmdQ, <<>>}
  BY DEF LosesCommands
<1>2. /\ Len(cmdQ') \in Nat /\ Len(cmdQ') <= Len(cmdQ) /\ Len(cmdQ) \in Nat
      /\ \A i \in 1 .. Len(cmdQ') : i \in 1 .. Len(cmdQ) /\ cmdQ'[i] = cmdQ[i]
  BY <1>1 DEF TypeOK
<1>3. \E d \in {0, 1} : \A i \in 1 .. Len(rf') :
        i + d \in 1 .. Len(rf) /\ rf'[i] = rf[i + d] /\ i \in Nat
  <2>1. CASE rf' = rf
    <3>1. \A i \in 1 .. Len(rf') : i + 0 \in 1 .. Len(rf) /\ rf'[i] = rf[i + 0] /\ i \in Nat
      BY <2>1 DEF TypeOK
    <3> QED
      BY <3>1
  <2>2. CASE rf' = <<>>
    BY <2>2
  <2>3. CASE rf # <<>> /\ rf' = Tail(rf)
    <3>1. \A i \in 1 .. Len(rf') : i + 1 \in 1 .. Len(rf) /\ rf'[i] = rf[i + 1]
      BY <2>3, HeadAndRest DEF TypeOK
    <3> QED
      BY <3>1
  <2> QED
    BY <2>1, <2>2, <2>3 DEF LosesCommands
<1>4. PICK d \in {0, 1} : \A i \in 1 .. Len(rf') :
        i + d \in 1 .. Len(rf) /\ rf'[i] = rf[i + d] /\ i \in Nat
  BY <1>3
<1>5. \A i \in 1 .. Len(rf') : IsCommand(i)' => IsCommand(i + d)
  BY <1>4 DEF IsCommand
<1>6. QueueIsOrdered'
  BY <1>1, <1>2 DEF QueueIsOrdered
<1>7. PipeIsOrdered'
  <2>1. \A i, j \in 1 .. Len(rf') : i < j => i + d < j + d
    BY <1>4
  <2> QED
    BY <1>1, <1>4, <1>5, <2>1 DEF PipeIsOrdered
<1>8. PipeBeforeQueue'
  BY <1>2, <1>4, <1>5 DEF PipeBeforeQueue
<1> QED
  BY <1>1, <1>6, <1>7, <1>8

LEMMA RefusesFrameKeeps ==
  ASSUME TypeOK, CommandInv, RefusesFrame
  PROVE  CommandInv'
<1> USE DEF CommandInv
<1>1. UNCHANGED <<lastExec, cmdSent, cmdQ>>
  BY DEF RefusesFrame
<1>2. \A i \in 1 .. Len(rf') : ~IsCommand(i)'
  BY Singleton DEF RefusesFrame, IsCommand, Ack
<1> QED
  BY <1>1, <1>2 DEF QueueIsOrdered, PipeIsOrdered, PipeBeforeQueue

LEMMA CommandNumber ==
  \A n : Command(n).n = n
  BY DEF Command

\* A flushed queue stands behind the message it is flushed with.
LEMMA QueueComesBehind ==
  ASSUME NEW q \in Seq(Nat), NEW first \in RfMsg
  PROVE  \A i \in 1 .. Len(<<first>> \o Commands(q)) :
           \/ (<<first>> \o Commands(q))[i] = first
           \/ /\ i - 1 \in 1 .. Len(q)
              /\ (<<first>> \o Commands(q))[i] = Command(q[i - 1])
<1>1. Commands(q) \in Seq(RfMsg) /\ <<first>> \in Seq(RfMsg)
  BY WrappedCommands
<1>2. Len(<<first>>) = 1 /\ <<first>>[1] = first
  OBVIOUS
<1>3. \A i \in 1 .. Len(<<first>> \o Commands(q)) : i # 1 =>
        /\ i - 1 \in 1 .. Len(Commands(q))
        /\ (<<first>> \o Commands(q))[i] = Commands(q)[i - 1]
  BY <1>1, <1>2, ConcatProperties, LenProperties
<1>4. (<<first>> \o Commands(q))[1] = first
  BY <1>1, <1>2, ConcatProperties, LenProperties
<1> QED
  BY <1>3, <1>4, WrappedCommands

\* The pipe behind the acknowledgement is the queue.
LEMMA FlushesCommandsKeeps ==
  ASSUME TypeOK, CommandInv, FlushesCommands
  PROVE  CommandInv'
<1> USE DEF CommandInv
<1>1. UNCHANGED <<lastExec, cmdSent>> /\ cmdQ' = <<>> /\ cmdQ \in Seq(Nat)
  BY DEF FlushesCommands, TypeOK
<1>2. \A i \in 1 .. Len(rf') : IsCommand(i)' =>
        i - 1 \in 1 .. Len(cmdQ) /\ rf'[i].n = cmdQ[i - 1]
  <2>1. Ack(TRUE) \in RfMsg /\ Ack(TRUE).type # "SendCommand"
    BY DEF Ack, RfMsg
  <2>2. \A i \in 1 .. Len(rf') :
          \/ rf'[i] = Ack(TRUE)
          \/ i - 1 \in 1 .. Len(cmdQ) /\ rf'[i] = Command(cmdQ[i - 1])
    BY <1>1, <2>1, QueueComesBehind DEF FlushesCommands
  <2>3. \A i \in 1 .. Len(rf') : IsCommand(i)' =>
          i - 1 \in 1 .. Len(cmdQ) /\ rf'[i] = Command(cmdQ[i - 1])
    BY <2>1, <2>2 DEF IsCommand
  <2> QED
    BY <2>3, CommandNumber
<1>3. \A i \in 1 .. Len(rf') : i \in Nat
  OBVIOUS
<1>4. PipeIsOrdered'
  <2>1. \A i, j \in 1 .. Len(rf') : i < j => i - 1 < j - 1
    BY <1>3
  <2> QED
    BY <1>1, <1>2, <2>1 DEF QueueIsOrdered, PipeIsOrdered
<1> QED
  BY <1>1, <1>4 DEF QueueIsOrdered, PipeBeforeQueue

\* The command that runs is the oldest there is.
LEMMA RunsCommandKeeps ==
  ASSUME TypeOK, CommandInv, RunsCommand
  PROVE  CommandInv' /\ lastExec' \in lastExec + 1 .. cmdSent
<1> USE DEF CommandInv
<1>1. UNCHANGED <<cmdSent, cmdQ>> /\ rf # <<>> /\ IsCommand(1) /\ lastExec' = rf[1].n
  BY DEF RunsCommand
<1>2. 1 \in 1 .. Len(rf)
  BY <1>1, HeadAndRest DEF TypeOK
<1>3. \A i \in 1 .. Len(rf') : i + 1 \in 1 .. Len(rf) /\ rf'[i] = rf[i + 1] /\ 1 < i + 1
  BY <1>1, HeadAndRest DEF RunsCommand, TypeOK
<1>4. \A i \in 1 .. Len(rf') : IsCommand(i)' => IsCommand(i + 1)
  BY <1>3 DEF IsCommand
<1>5. lastExec' \in lastExec + 1 .. cmdSent /\ lastExec \in Nat /\ cmdSent \in Nat
  BY <1>1, <1>2 DEF PipeIsOrdered, TypeOK
<1>6. QueueIsOrdered'
  <2>1. \A j \in 1 .. Len(cmdQ) : lastExec' < cmdQ[j]
    BY <1>1, <1>2 DEF PipeBeforeQueue
  <2>2. \A j \in 1 .. Len(cmdQ) : cmdQ[j] \in lastExec' + 1 .. cmdSent
    BY <1>5, <2>1 DEF QueueIsOrdered
  <2> QED
    BY <1>1, <2>2 DEF QueueIsOrdered
<1>7. PipeIsOrdered'
  <2>1. ASSUME NEW i \in 1 .. Len(rf'), IsCommand(i)'
        PROVE  rf'[i].n \in lastExec' + 1 .. cmdSent
    <3>1. rf[1].n < rf[i + 1].n /\ rf[i + 1].n \in lastExec + 1 .. cmdSent
      BY <1>1, <1>2, <1>3, <1>4, <2>1 DEF PipeIsOrdered
    <3> QED
      BY <1>1, <1>3, <1>5, <3>1
  <2>2. \A i, j \in 1 .. Len(rf') : i < j => i + 1 < j + 1
    OBVIOUS
  <2> QED
    BY <1>1, <1>3, <1>4, <2>1, <2>2 DEF PipeIsOrdered
<1>8. PipeBeforeQueue'
  BY <1>1, <1>3, <1>4 DEF PipeBeforeQueue
<1> QED
  BY <1>1, <1>5, <1>6, <1>7, <1>8

\* A new command is the newest, wherever it goes.
LEMMA IssuesCommandKeeps ==
  ASSUME TypeOK, CommandInv, IssuesCommand
  PROVE  CommandInv'
<1> USE DEF CommandInv
<1>1. /\ cmdSent' = cmdSent + 1 /\ lastExec' = lastExec
      /\ cmdSent \in Nat /\ lastExec \in Nat
      /\ cmdQ \in Seq(Nat) /\ rf \in Seq(RfMsg)
  BY DEF IssuesCommand, TypeOK
<1>2. \A n : n \in lastExec + 1 .. cmdSent =>
        n \in lastExec' + 1 .. cmdSent' /\ n < cmdSent + 1
  BY <1>1
<1>3. cmdSent + 1 \in lastExec' + 1 .. cmdSent'
  BY <1>1
<1>4. CASE UNCHANGED <<cmdQ, rf>>
  BY <1>1, <1>2, <1>4 DEF QueueIsOrdered, PipeIsOrdered, PipeBeforeQueue, IsCommand
<1>5. CASE cmdQ' = Append(cmdQ, cmdSent + 1) /\ UNCHANGED rf
  <2>1. /\ Len(cmdQ') = Len(cmdQ) + 1 /\ Len(cmdQ) \in Nat
        /\ \A i \in 1 .. Len(cmdQ') :
             \/ i \in 1 .. Len(cmdQ) /\ cmdQ'[i] = cmdQ[i]
             \/ i = Len(cmdQ) + 1 /\ cmdQ'[i] = cmdSent + 1
    BY <1>1, <1>5, AppendProperties
  <2>2. QueueIsOrdered'
    BY <1>2, <1>3, <2>1 DEF QueueIsOrdered
  <2>3. PipeIsOrdered'
    BY <1>2, <1>5 DEF PipeIsOrdered, IsCommand
  <2>4. PipeBeforeQueue'
    BY <1>2, <1>5, <2>1 DEF PipeBeforeQueue, PipeIsOrdered, IsCommand
  <2> QED
    BY <1>1, <2>2, <2>3, <2>4
<1>6. CASE cmdQ = <<>> /\ UNCHANGED cmdQ /\ rf' = Append(rf, Command(cmdSent + 1))
  <2>1. /\ Len(rf') = Len(rf) + 1 /\ Len(rf) \in Nat
        /\ \A i \in 1 .. Len(rf') :
             \/ i \in 1 .. Len(rf) /\ rf'[i] = rf[i]
             \/ i = Len(rf) + 1 /\ rf'[i].n = cmdSent + 1
    <3>1. Command(cmdSent + 1) \in RfMsg /\ Command(cmdSent + 1).n = cmdSent + 1
      BY <1>1 DEF Command, RfMsg
    <3> QED
      BY <1>1, <1>6, <3>1, AppendProperties
  <2>2. PipeIsOrdered'
    BY <1>2, <1>3, <2>1 DEF PipeIsOrdered, IsCommand
  <2>3. QueueIsOrdered' /\ PipeBeforeQueue'
    BY <1>6 DEF QueueIsOrdered, PipeBeforeQueue
  <2> QED
    BY <1>1, <2>2, <2>3
<1> QED
  BY <1>4, <1>5, <1>6 DEF IssuesCommand

-----------------------------------------------------------------------------
(* The refinement. *)

LEMMA InitCommandInv == Init => CommandInv
  BY DEF Init, CommandInv, QueueIsOrdered, PipeIsOrdered, PipeBeforeQueue

LEMMA CommandInvKept ==
  TypeOK /\ BoundMeansFlushed /\ CommandInv /\ [Next]_vars => CommandInv'
  BY CommandStepKinds, LosesCommandsKeeps, RefusesFrameKeeps, FlushesCommandsKeeps,
    RunsCommandKeeps, IssuesCommandKeeps

\* Commands are ordered in queue and pipe, and everything that has not run is
\* newer than what has.
THEOREM CommandsStayOrdered == Spec => []CommandInv
<1>1. ConnectionInv => BoundMeansFlushed
  BY DEF ConnectionInv
<1> QED
  BY <1>1, InitCommandInv, CommandInvKept, TypeCorrect, ConnectionCorrect, PTL DEF Spec

\* The connection implements the ordered channel: commands are carried out in
\* the order they were issued, and once.
THEOREM CommandsRunInOrder == Spec => CommandsInOrder
<1>1. Init => CommandChannel!Init
  BY DEF Init, CommandChannel!Init
<1>2. TypeOK /\ BoundMeansFlushed /\ CommandInv /\ [Next]_vars
        => [CommandChannel!Next]_<<cmdSent, lastExec>>
  <2> SUFFICES ASSUME TypeOK, BoundMeansFlushed, CommandInv, [Next]_vars
               PROVE  [CommandChannel!Next]_<<cmdSent, lastExec>>
    OBVIOUS
  <2>1. CASE LosesCommands \/ RefusesFrame \/ FlushesCommands
    BY <2>1 DEF LosesCommands, RefusesFrame, FlushesCommands
  <2>2. CASE RunsCommand
    BY <2>2, RunsCommandKeeps
      DEF RunsCommand, CommandChannel!Next, CommandChannel!Deliver
  <2>3. CASE IssuesCommand
    BY <2>3 DEF IssuesCommand, CommandChannel!Next, CommandChannel!Issue
  <2> QED
    BY <2>1, <2>2, <2>3, CommandStepKinds
<1>3. ConnectionInv => BoundMeansFlushed
  BY DEF ConnectionInv
<1> QED
  BY <1>1, <1>2, <1>3, TypeCorrect, ConnectionCorrect, CommandsStayOrdered, PTL
    DEF Spec, CommandsInOrder, CommandChannel!Spec

-----------------------------------------------------------------------------
(* No remote is bound over another, when every attempt starts after the end of  *)
(* the previous one (PromptTeardown).                                           *)

\* Nothing is left of the attempts before the latest, and nothing there is yet
\* of those to come.
OldPipesAreClosed == \A g \in Attempts :
  /\ g < gen => BrowserFrameClosed(g) /\ bound # g
  /\ g > gen => svc[g] = "none"

\* A frame host that can be bound, or is, has its RenderFrameHost.
BoundIsAttached ==
  /\ found /\ info => attached
  /\ bound # 0 => attached

BindingInv == NoDoubleBind /\ OldPipesAreClosed /\ BoundIsAttached

\* The next attempt starts, and of the latest nothing is left.
OpensPipe ==
  /\ TornDown(gen)
  /\ gen + 1 \in Attempts /\ gen' = gen + 1
  /\ svc' = [svc EXCEPT ![gen + 1] = "requested"]
  /\ UNCHANGED bound

\* What may become of a pipe, and of the remote.
SvcMoves(old, new) ==
  \/ new = old
  \/ old = "requested" /\ new = "bound"
  \/ old \in {"requested", "bound"} /\ new \in {"gone", "deleted"}

MovesPipes ==
  /\ UNCHANGED gen
  /\ \A g \in Attempts : SvcMoves(svc[g], svc'[g])
  /\ \/ bound' \in {bound, 0}
     \/ bound' \in Attempts /\ svc[bound'] = "bound"

LEMMA ConnectOpens ==
  ASSUME TypeOK, PromptTeardown, NEW shown, NEW cached,
         ConnectBrowserFrame(shown, cached) \/ NoConnect, UNCHANGED bound
  PROVE  OpensPipe \/ MovesPipes
<1>1. CASE gen' = gen /\ svc' = svc
  BY <1>1 DEF MovesPipes, SvcMoves
<1>2. CASE /\ gen < MaxConn /\ (PromptTeardown => TornDown(gen)) /\ gen' = gen + 1
           /\ svc' = [svc EXCEPT ![gen + 1] = "requested"]
  <2>1. gen + 1 \in Attempts
    BY <1>2, ConstantsAssumption DEF TypeOK, Attempts
  <2> QED
    BY <1>2, <2>1 DEF OpensPipe
<1> QED
  BY <1>1, <1>2 DEF ConnectBrowserFrame, NoConnect

\* Every step opens a pipe or moves some of those that are open.
LEMMA PipeStepKinds ==
  ASSUME TypeOK, PromptTeardown, [Next]_vars
  PROVE  OpensPipe \/ MovesPipes
<1>1. CASE \/ OnDidCommitProvisionalLoad \/ PageShown \/ RetryTimer \/ RendererLeavesCache
  <2>1. UNCHANGED bound
    BY <1>1 DEF OnDidCommitProvisionalLoad, PageShown, RetryTimer, RendererLeavesCache, hostVars
  <2>2. \E shown, cached \in BOOLEAN : ConnectBrowserFrame(shown, cached) \/ NoConnect
    BY <1>1 DEF OnDidCommitProvisionalLoad, PageShown, RetryTimer, RendererLeavesCache,
      OnWasShown, TypeOK
  <2> QED
    BY <2>1, <2>2, ConnectOpens
<1>2. CASE /\ UNCHANGED <<gen, svc>>
           /\ bound' \in {bound, 0}
  BY <1>2 DEF MovesPipes, SvcMoves
<1>3. ASSUME NEW g \in Attempts, UNCHANGED <<gen, bound>>,
             NEW s, svc' = [svc EXCEPT ![g] = s], SvcMoves(svc[g], s)
      PROVE  MovesPipes
  <2>1. \A h \in Attempts : svc'[h] = IF h = g THEN s ELSE svc[h]
    BY <1>3 DEF TypeOK
  <2> QED
    BY <1>3, <2>1 DEF MovesPipes, SvcMoves
<1>4. CASE \/ \E declined \in BOOLEAN : \/ OnBrowserFrameDisconnect(declined)
                                        \/ OnRenderFrameDisconnect(declined)
           \/ OnDetached \/ FrameAttachedAck \/ ExecuteCommand \/ SendToBrowserFrame
           \/ RendererEntersCache \/ RendererKilled
  BY <1>2, <1>4 DEF OnBrowserFrameDisconnect, OnRenderFrameDisconnect, OnDetached,
    FrameAttachedAck, ExecuteCommand, SendToBrowserFrame, RendererEntersCache, RendererKilled,
    rendererVars, connVars, bfVars, hostVars
<1>5. ASSUME NEW g \in Attempts, BindInterface(g)
      PROVE  MovesPipes
  <2>1. svc[g] = "requested" /\ svc' = [svc EXCEPT ![g] = "bound"] /\ UNCHANGED <<gen, bound>>
    BY <1>5 DEF BindInterface, rendererVars, connVars, hostVars
  <2> QED
    BY <1>3, <2>1 DEF SvcMoves
<1>6. ASSUME NEW g \in Attempts,
             DeclineInterface(g) \/ ConnectionError(g) \/ CloseBrowserFrame(g)
      PROVE  MovesPipes
  <2>1. /\ svc[g] \in {"requested", "bound"} /\ svc' = [svc EXCEPT ![g] = "gone"]
        /\ UNCHANGED <<gen, bound>>
    BY <1>6 DEF DeclineInterface, ConnectionError, CloseBrowserFrame, rendererVars, connVars,
      hostVars
  <2> QED
    BY <1>3, <2>1 DEF SvcMoves
<1>7. ASSUME NEW g \in Attempts, FrameAttached(g)
      PROVE  MovesPipes
  <2>1. UNCHANGED <<gen, svc>> /\ svc[g] = "bound" /\ bound' \in {bound, g}
    BY <1>7 DEF FrameAttached, rendererVars, connVars
  <2> QED
    BY <2>1 DEF MovesPipes, SvcMoves
<1>8. ASSUME NEW g \in Attempts, ReceiveMessage(g)
      PROVE  OpensPipe \/ MovesPipes
  <2>1. UNCHANGED <<gen, svc, bound>>
    BY <1>8 DEF ReceiveMessage, rendererVars, connVars, hostVars
  <2> QED
    BY <1>2, <2>1
<1>9. CASE HostDisconnect \/ SendToRenderFrame \/ NewMainFrame \/ CachedWithParent \/ LeaveCache
  BY <1>2, <1>9 DEF HostDisconnect, SendToRenderFrame, NewMainFrame, CachedWithParent,
    LeaveCache, Detach, rendererVars, connVars, bfVars, hostVars
<1>10. CASE RenderFrameDeleted
  <2>1. /\ UNCHANGED gen /\ bound' \in {bound, 0}
        /\ svc' = [g \in Attempts |-> IF svc[g] = "bound" THEN "deleted" ELSE svc[g]]
    BY <1>10 DEF RenderFrameDeleted, Detach, rendererVars, connVars
  <2>2. \A g \in Attempts : SvcMoves(svc[g], svc'[g])
    BY <2>1 DEF SvcMoves
  <2> QED
    BY <2>1, <2>2 DEF MovesPipes
<1>11. CASE UNCHANGED vars
  BY <1>2, <1>11 DEF vars, rendererVars, connVars, bfVars, hostVars
<1> QED
  BY <1>1, <1>4, <1>5, <1>6, <1>7, <1>8, <1>9, <1>10, <1>11 DEF Next, RendererNext, BrowserNext

LEMMA OldPipesAreClosedKept ==
  ASSUME TypeOK, PromptTeardown, OldPipesAreClosed, [Next]_vars
  PROVE  OldPipesAreClosed'
<1>1. gen \in Nat /\ Attempts \subseteq Nat /\ 0 \notin Attempts
  BY DEF TypeOK, Attempts
<1> SUFFICES ASSUME NEW g \in Attempts
             PROVE  /\ g < gen' => svc'[g] \in {"gone", "deleted"} /\ bound' # g
                    /\ g > gen' => svc'[g] = "none"
  BY DEF OldPipesAreClosed, BrowserFrameClosed
<1>2. /\ g < gen => svc[g] \in {"gone", "deleted"} /\ bound # g
      /\ g > gen => svc[g] = "none"
  BY DEF OldPipesAreClosed, BrowserFrameClosed
<1>3. CASE OpensPipe
  <2>1. svc'[g] = IF g = gen + 1 THEN "requested" ELSE svc[g]
    BY <1>3 DEF OpensPipe, TypeOK
  <2>2. g = gen => svc[g] \in {"gone", "deleted"} /\ bound # g
    BY <1>3 DEF OpensPipe, TornDown, BrowserFrameClosed
  <2>3. gen' = gen + 1 /\ bound' = bound
    BY <1>3 DEF OpensPipe
  <2> QED
    BY <1>1, <1>2, <2>1, <2>2, <2>3
<1>4. CASE MovesPipes
  <2>1. gen' = gen /\ SvcMoves(svc[g], svc'[g])
    BY <1>4 DEF MovesPipes
  <2>2. g < gen => bound' # g
    BY <1>1, <1>2, <1>4 DEF MovesPipes
  <2> QED
    BY <1>2, <2>1, <2>2 DEF SvcMoves
<1> QED
  BY <1>3, <1>4, PipeStepKinds

LEMMA BoundIsAttachedKept ==
  ASSUME TypeOK, BoundIsAttached, [Next]_vars
  PROVE  BoundIsAttached'
<1> USE DEF BoundIsAttached
<1>1. CASE UNCHANGED <<found, info, attached, bound>>
  BY <1>1
<1>2. CASE RendererNext \/ UNCHANGED vars
  BY <1>1, <1>2 DEF RendererNext, OnDidCommitProvisionalLoad, PageShown, RetryTimer,
    OnBrowserFrameDisconnect, OnRenderFrameDisconnect, OnDetached, FrameAttachedAck,
    ExecuteCommand, SendToBrowserFrame, RendererEntersCache, RendererLeavesCache,
    RendererKilled, hostVars, vars
<1>3. ASSUME NEW g \in Attempts,
             \/ BindInterface(g) \/ DeclineInterface(g) \/ ConnectionError(g)
             \/ ReceiveMessage(g) \/ CloseBrowserFrame(g)
      PROVE  BoundIsAttached'
  BY <1>1, <1>3 DEF BindInterface, DeclineInterface, ConnectionError, ReceiveMessage,
    CloseBrowserFrame, hostVars
<1>4. ASSUME NEW g \in Attempts, FrameAttached(g)
      PROVE  BoundIsAttached'
  BY <1>4 DEF FrameAttached
<1>5. CASE HostDisconnect
  <2>1. UNCHANGED <<found, info, attached>> /\ bound' = 0
    BY <1>5 DEF HostDisconnect
  <2> QED
    BY <2>1
<1>6. CASE SendToRenderFrame \/ CachedWithParent
  BY <1>1, <1>6 DEF SendToRenderFrame, CachedWithParent, hostVars
<1>7. CASE NewMainFrame
  BY <1>7 DEF NewMainFrame, Detach
<1>8. CASE LeaveCache
  BY <1>8 DEF LeaveCache
<1>9. CASE RenderFrameDeleted
  BY <1>9 DEF RenderFrameDeleted, Detach
<1> QED
  BY <1>2, <1>3, <1>4, <1>5, <1>6, <1>7, <1>8, <1>9 DEF Next, BrowserNext

LEMMA NoDoubleBindKept ==
  ASSUME TypeOK, AttachedComesFirst, BindingInv, [Next]_vars
  PROVE  NoDoubleBind'
<1> USE DEF BindingInv, NoDoubleBind
<1>1. CASE UNCHANGED bcheck
  BY <1>1
<1>2. CASE RendererNext \/ UNCHANGED vars
  BY <1>1, <1>2 DEF RendererNext, OnDidCommitProvisionalLoad, PageShown, RetryTimer,
    OnBrowserFrameDisconnect, OnRenderFrameDisconnect, OnDetached, FrameAttachedAck,
    ExecuteCommand, SendToBrowserFrame, RendererEntersCache, RendererLeavesCache,
    RendererKilled, hostVars, vars
<1>3. ASSUME NEW g \in Attempts,
             \/ BindInterface(g) \/ DeclineInterface(g) \/ ConnectionError(g)
             \/ ReceiveMessage(g) \/ CloseBrowserFrame(g)
      PROVE  UNCHANGED bcheck
  BY <1>3 DEF BindInterface, DeclineInterface, ConnectionError, ReceiveMessage,
    CloseBrowserFrame, hostVars
<1>4. ASSUME NEW g \in Attempts, FrameAttached(g)
      PROVE  NoDoubleBind'
  <2>1. gen \in Nat /\ g \in Nat /\ bound \in 0 .. MaxConn /\ MaxConn \in Nat
    BY ConstantsAssumption DEF TypeOK, Attempts
  <2>2. svc[g] = "bound" /\ bf[g] # <<>> /\ Head(bf[g]).type = "FrameAttached"
    BY <1>4 DEF FrameAttached
  <2>3. g = gen
    BY <2>1, <2>2 DEF OldPipesAreClosed, BrowserFrameClosed
  <2>4. bound # 0 => bound = gen
    <3>1. bound # 0 => bound \in Attempts /\ bound <= gen
      BY <2>1 DEF Attempts, AttachedComesFirst
    <3> QED
      BY <2>1, <3>1 DEF OldPipesAreClosed
  <2>5. AttachInFlight(g)
    <3>1. 1 \in 1 .. Len(bf[g]) /\ Head(bf[g]) = bf[g][1]
      BY <2>2, HeadAndRest DEF TypeOK
    <3> QED
      BY <2>2, <3>1 DEF AttachInFlight
  <2>6. bound = 0
    BY <2>3, <2>4, <2>5 DEF AttachedComesFirst
  <2> QED
    BY <1>4, <2>6 DEF FrameAttached
<1>5. CASE HostDisconnect \/ SendToRenderFrame \/ CachedWithParent \/ NewMainFrame
           \/ RenderFrameDeleted
  BY <1>5 DEF HostDisconnect, SendToRenderFrame, CachedWithParent, NewMainFrame,
    RenderFrameDeleted, hostVars
<1>6. CASE LeaveCache
  BY <1>6 DEF LeaveCache, BoundIsAttached
<1> QED
  BY <1>1, <1>2, <1>3, <1>4, <1>5, <1>6 DEF Next, BrowserNext

LEMMA InitBindingInv == Init => BindingInv
<1> SUFFICES ASSUME Init
             PROVE  BindingInv
  OBVIOUS
<1>1. \A g \in Attempts : svc[g] = "none" /\ ~(g < gen)
  BY ConstantsAssumption DEF Init, Attempts
<1> QED
  BY <1>1 DEF Init, BindingInv, NoDoubleBind, OldPipesAreClosed, BoundIsAttached

\* Old pipes are closed, and who is bound is attached and was not bound before.
THEOREM BindingsFit ==
  ASSUME PromptTeardown
  PROVE  Spec => []BindingInv
<1>1. TypeOK /\ AttachedComesFirst /\ BindingInv /\ [Next]_vars => BindingInv'
  BY NoDoubleBindKept, OldPipesAreClosedKept, BoundIsAttachedKept DEF BindingInv
<1>2. ConnectionInv => AttachedComesFirst
  BY DEF ConnectionInv
<1> QED
  BY <1>1, <1>2, InitBindingInv, TypeCorrect, ConnectionCorrect, PTL DEF Spec

\* NoDoubleBind holds when the retry delay outlasts the teardown: neither
\* FrameAttached nor MaybeAttach finds a remote that is bound.
THEOREM NothingIsBoundTwice ==
  ASSUME PromptTeardown
  PROVE  Spec => []NoDoubleBind
<1>1. BindingInv => NoDoubleBind
  BY DEF BindingInv
<1> QED
  BY <1>1, BindingsFit, PTL

-----------------------------------------------------------------------------
(* The messages to the browser implement OrderedChannel too, when every attempt *)
(* starts after the end of the previous one.                                    *)

\* Position i of the pipe of attempt g holds a message.
IsMessage(g, i) == bf[g][i].type = "SendMessage"

\* What waits in the renderer is newer than what the client has, in order.
SendQueueIsOrdered ==
  /\ \A i \in 1 .. Len(sendQ) : sendQ[i] \in lastRecv + 1 .. sent
  /\ \A i, j \in 1 .. Len(sendQ) : i < j => sendQ[i] < sendQ[j]

\* So is what was written to a pipe.
PipesAreOrdered == \A g \in Attempts :
  /\ \A i \in 1 .. Len(bf[g]) : IsMessage(g, i) => bf[g][i].n \in lastRecv + 1 .. sent
  /\ \A i, j \in 1 .. Len(bf[g]) :
       i < j /\ IsMessage(g, i) /\ IsMessage(g, j) => bf[g][i].n < bf[g][j].n

\* What is on its way was sent before what waits.
PipesBeforeQueue ==
  \A g \in Attempts : \A i \in 1 .. Len(bf[g]), j \in 1 .. Len(sendQ) :
    IsMessage(g, i) => bf[g][i].n < sendQ[j]

MessageInv ==
  /\ lastRecv <= sent
  /\ SendQueueIsOrdered
  /\ PipesAreOrdered
  /\ PipesBeforeQueue

\* Nothing is left in a pipe the browser has closed, and nothing waits in a
\* renderer that is connected.
ClosedIsEmpty == \A g \in Attempts : BrowserFrameClosed(g) => bf[g] = <<>>
AckedIsFlushed == state = "CONNECTION_ACKED" => sendQ = <<>>

-----------------------------------------------------------------------------
(* What the steps do to messages. *)

\* What is in the pipe afterwards was in it, d places further on, or is no message.
Shrinks(old, new, d) == \A i \in 1 .. Len(new) :
  \/ new[i].type # "SendMessage"
  \/ i + d \in 1 .. Len(old) /\ new[i] = old[i + d]

ShrinksTo(old, new) == \E d \in {0, 1} : Shrinks(old, new, d)

\* Messages are lost, or something else is read.
LosesMessages ==
  /\ UNCHANGED <<lastRecv, sent>>
  /\ sendQ' \in {sendQ, <<>>}
  /\ \A g \in Attempts : ShrinksTo(bf[g], bf'[g])

ReadsMessage(g) ==
  /\ svc[g] = "bound"
  /\ bf[g] # <<>> /\ IsMessage(g, 1)
  /\ bf' = [bf EXCEPT ![g] = Tail(@)]
  /\ lastRecv' = bf[g][1].n
  /\ UNCHANGED <<sent, sendQ>>

\* The queue is moved to the pipe of the latest attempt.
FlushesQueue ==
  /\ UNCHANGED <<lastRecv, sent>>
  /\ FlushMessages

\* A new message is dropped, queued, or written when nothing is queued.
SendsMessage ==
  /\ sent' = sent + 1
  /\ UNCHANGED lastRecv
  /\ \/ UNCHANGED <<sendQ, bf>>
     \/ sendQ' = Append(sendQ, sent + 1) /\ UNCHANGED bf
     \/ /\ sendQ = <<>> /\ UNCHANGED sendQ
        /\ bf' = Write(<<Message(sent + 1)>>)

LEMMA NothingShrinks == \A q \in Seq(BfMsg) : ShrinksTo(q, q) /\ ShrinksTo(q, <<>>)
<1> SUFFICES ASSUME NEW q \in Seq(BfMsg)
             PROVE  ShrinksTo(q, q) /\ ShrinksTo(q, <<>>)
  OBVIOUS
<1>1. Shrinks(q, q, 0)
  <2>1. \A i \in 1 .. Len(q) : i + 0 = i
    OBVIOUS
  <2> QED
    BY <2>1 DEF Shrinks
<1>2. Shrinks(q, <<>>, 0)
  BY DEF Shrinks
<1> QED
  BY <1>1, <1>2 DEF ShrinksTo

LEMMA UntouchedShrinks ==
  ASSUME TypeOK
  PROVE  bf' = bf => \A g \in Attempts : ShrinksTo(bf[g], bf'[g])
  BY NothingShrinks DEF TypeOK

LEMMA TailShrinks ==
  ASSUME TypeOK, NEW g \in Attempts, bf[g] # <<>>, bf' = [bf EXCEPT ![g] = Tail(@)]
  PROVE  \A h \in Attempts : ShrinksTo(bf[h], bf'[h])
<1>1. bf \in [Attempts -> Seq(BfMsg)]
  BY DEF TypeOK
<1>2. \A h \in Attempts \ {g} : bf'[h] = bf[h]
  BY ReadShape
<1>3. Shrinks(bf[g], bf'[g], 1)
  <2>1. \A i \in 1 .. Len(bf'[g]) : i + 1 \in 2 .. Len(bf[g]) /\ bf'[g][i] = bf[g][i + 1]
    BY ReadShape
  <2> QED
    BY <2>1 DEF Shrinks
<1> QED
  BY <1>1, <1>2, <1>3, NothingShrinks DEF ShrinksTo

LEMMA ConnectShrinks ==
  ASSUME TypeOK, NEW shown, NEW cached, ConnectBrowserFrame(shown, cached) \/ NoConnect
  PROVE  \A g \in Attempts : ShrinksTo(bf[g], bf'[g])
<1>1. CASE bf' = bf
  BY <1>1, UntouchedShrinks
<1>2. ASSUME NEW re, bf' = [bf EXCEPT ![gen + 1] = <<AttachedMsg(re)>>]
      PROVE  \A g \in Attempts : ShrinksTo(bf[g], bf'[g])
  <2> SUFFICES ASSUME NEW g \in Attempts
               PROVE  ShrinksTo(bf[g], bf'[g])
    OBVIOUS
  <2>1. CASE g # gen + 1
    BY <1>2, <2>1, NothingShrinks DEF TypeOK
  <2>2. CASE g = gen + 1
    <3>1. bf'[g] = <<AttachedMsg(re)>>
      BY <1>2, <2>2 DEF TypeOK
    <3>2. AttachedMsg(re).type # "SendMessage"
      BY DEF AttachedMsg
    <3>3. Shrinks(bf[g], bf'[g], 0)
      BY <3>1, <3>2, Singleton DEF Shrinks
    <3> QED
      BY <3>3 DEF ShrinksTo
  <2> QED
    BY <2>1, <2>2
<1> QED
  BY <1>1, <1>2 DEF ConnectBrowserFrame, NoConnect

LEMMA LostShrinks ==
  ASSUME TypeOK, \A g \in Attempts : bf'[g] \in {bf[g], <<>>}
  PROVE  \A g \in Attempts : ShrinksTo(bf[g], bf'[g])
  BY NothingShrinks DEF TypeOK

\* Every step is of one of these kinds as far as messages are concerned.
LEMMA MessageStepKinds ==
  ASSUME TypeOK, AckedIsFlushed, [Next]_vars
  PROVE  \/ LosesMessages \/ FlushesQueue \/ SendsMessage
         \/ \E g \in Attempts : ReadsMessage(g)
<1>1. CASE \/ OnDidCommitProvisionalLoad \/ PageShown \/ RetryTimer \/ RendererLeavesCache
  <2>1. UNCHANGED <<lastRecv, sent, sendQ>>
    BY <1>1 DEF OnDidCommitProvisionalLoad, PageShown, RetryTimer, RendererLeavesCache,
      sendVars, seenVars
  <2>2. \E shown, cached \in BOOLEAN : ConnectBrowserFrame(shown, cached) \/ NoConnect
    BY <1>1 DEF OnDidCommitProvisionalLoad, PageShown, RetryTimer, RendererLeavesCache,
      OnWasShown, TypeOK
  <2>3. \A g \in Attempts : ShrinksTo(bf[g], bf'[g])
    BY <2>2, ConnectShrinks
  <2> QED
    BY <2>1, <2>3 DEF LosesMessages
<1>2. CASE UNCHANGED <<lastRecv, sent, bf>> /\ sendQ' \in {sendQ, <<>>}
  BY <1>2, UntouchedShrinks DEF LosesMessages
<1>3. CASE \/ \E declined \in BOOLEAN : \/ OnBrowserFrameDisconnect(declined)
                                        \/ OnRenderFrameDisconnect(declined)
           \/ OnDetached \/ ExecuteCommand \/ RendererEntersCache \/ RendererKilled
  <2>1. UNCHANGED <<lastRecv, sent, bf>> /\ sendQ' \in {sendQ, <<>>}
    BY <1>3 DEF OnBrowserFrameDisconnect, OnRenderFrameDisconnect, OnDetached, ExecuteCommand,
      RendererEntersCache, RendererKilled, rendererVars, sendVars, bfVars, seenVars
  <2> QED
    BY <1>2, <2>1
<1>4. CASE FrameAttachedAck
  <2>1. UNCHANGED <<lastRecv, sent>>
    BY <1>4 DEF FrameAttachedAck, seenVars
  <2>2. CASE sendQ' = <<>> /\ UNCHANGED bf
    BY <1>2, <2>1, <2>2
  <2>3. CASE FlushMessages
    BY <2>1, <2>3 DEF FlushesQueue
  <2> QED
    BY <1>4, <2>2, <2>3 DEF FrameAttachedAck
<1>5. CASE SendToBrowserFrame
  <2>1. sent' = sent + 1 /\ UNCHANGED lastRecv
    BY <1>5 DEF SendToBrowserFrame, seenVars
  <2>2. \/ UNCHANGED <<sendQ, bf>>
        \/ sendQ' = Append(sendQ, sent + 1) /\ UNCHANGED bf
        \/ /\ state = "CONNECTION_ACKED" /\ UNCHANGED sendQ
           /\ bf' = Write(<<Message(sent + 1)>>)
    BY <1>5 DEF SendToBrowserFrame
  <2> QED
    BY <2>1, <2>2 DEF SendsMessage, AckedIsFlushed
<1>6. ASSUME NEW g \in Attempts,
             \/ BindInterface(g) \/ DeclineInterface(g) \/ ConnectionError(g)
             \/ CloseBrowserFrame(g)
      PROVE  LosesMessages
  <2>1. UNCHANGED <<lastRecv, sent, sendQ>>
    BY <1>6 DEF BindInterface, DeclineInterface, ConnectionError, CloseBrowserFrame,
      rendererVars, sendVars, seenVars
  <2>2. bf' = bf \/ bf' = [bf EXCEPT ![g] = <<>>]
    BY <1>6 DEF BindInterface, DeclineInterface, ConnectionError, CloseBrowserFrame
  <2>3. \A h \in Attempts : bf'[h] \in {bf[h], <<>>}
    BY <2>2 DEF TypeOK
  <2> QED
    BY <2>1, <2>3, LostShrinks DEF LosesMessages
<1>7. ASSUME NEW g \in Attempts, FrameAttached(g)
      PROVE  LosesMessages
  <2>1. UNCHANGED <<lastRecv, sent, sendQ>> /\ bf[g] # <<>> /\ bf' = [bf EXCEPT ![g] = Tail(@)]
    BY <1>7 DEF FrameAttached, rendererVars, sendVars, seenVars
  <2> QED
    BY <2>1, TailShrinks DEF LosesMessages
<1>8. ASSUME NEW g \in Attempts, ReceiveMessage(g)
      PROVE  LosesMessages \/ ReadsMessage(g)
  <2>1. /\ UNCHANGED <<sent, sendQ>> /\ svc[g] = "bound"
        /\ bf[g] # <<>> /\ bf' = [bf EXCEPT ![g] = Tail(@)]
        /\ Head(bf[g]).type = "SendMessage" /\ lastRecv' \in {lastRecv, Head(bf[g]).n}
    BY <1>8 DEF ReceiveMessage, rendererVars, sendVars
  <2>2. Head(bf[g]) = bf[g][1]
    BY <2>1, HeadAndRest DEF TypeOK
  <2>3. CASE lastRecv' = lastRecv
    BY <2>1, <2>3, TailShrinks DEF LosesMessages
  <2>4. CASE lastRecv' = Head(bf[g]).n
    BY <2>1, <2>2, <2>4 DEF ReadsMessage, IsMessage
  <2> QED
    BY <2>1, <2>3, <2>4
<1>9. CASE HostDisconnect \/ SendToRenderFrame \/ NewMainFrame \/ CachedWithParent \/ LeaveCache
           \/ UNCHANGED vars
  <2>1. UNCHANGED <<lastRecv, sent, bf>> /\ sendQ' \in {sendQ, <<>>}
    BY <1>9 DEF HostDisconnect, SendToRenderFrame, NewMainFrame, CachedWithParent, LeaveCache,
      vars, rendererVars, sendVars, bfVars, seenVars
  <2> QED
    BY <1>2, <2>1
<1>10. CASE RenderFrameDeleted
  <2>1. UNCHANGED <<lastRecv, sent, sendQ>>
    BY <1>10 DEF RenderFrameDeleted, rendererVars, sendVars, seenVars
  <2>2. \A h \in Attempts : bf'[h] \in {bf[h], <<>>}
    BY <1>10 DEF RenderFrameDeleted
  <2> QED
    BY <2>1, <2>2, LostShrinks DEF LosesMessages
<1> QED
  BY <1>1, <1>3, <1>4, <1>5, <1>6, <1>7, <1>8, <1>9, <1>10 DEF Next, RendererNext, BrowserNext

-----------------------------------------------------------------------------
(* Each kind of step keeps the order. *)

LEMMA LosesMessagesKeeps ==
  ASSUME TypeOK, MessageInv, LosesMessages
  PROVE  MessageInv'
<1> USE DEF MessageInv
<1>1. UNCHANGED <<lastRecv, sent>> /\ sendQ' \in {sendQ, <<>>}
  BY DEF LosesMessages
<1>2. \A i \in 1 .. Len(sendQ') : i \in 1 .. Len(sendQ) /\ sendQ'[i] = sendQ[i]
  BY <1>1 DEF TypeOK
<1>3. ASSUME NEW g \in Attempts
      PROVE  \E d \in {0, 1} : \A i \in 1 .. Len(bf'[g]) : IsMessage(g, i)' =>
               i + d \in 1 .. Len(bf[g]) /\ bf'[g][i] = bf[g][i + d] /\ IsMessage(g, i + d)
  <2>1. PICK d \in {0, 1} : Shrinks(bf[g], bf'[g], d)
    BY DEF LosesMessages, ShrinksTo
  <2> QED
    BY <2>1 DEF Shrinks, IsMessage
<1>4. SendQueueIsOrdered'
  BY <1>1, <1>2 DEF SendQueueIsOrdered
<1>5. PipesAreOrdered'
  <2> SUFFICES ASSUME NEW g \in Attempts
               PROVE  /\ \A i \in 1 .. Len(bf'[g]) : IsMessage(g, i)' =>
                           bf'[g][i].n \in lastRecv + 1 .. sent
                      /\ \A i, j \in 1 .. Len(bf'[g]) :
                           i < j /\ IsMessage(g, i)' /\ IsMessage(g, j)' =>
                             bf'[g][i].n < bf'[g][j].n
    BY <1>1 DEF PipesAreOrdered
  <2>1. PICK d \in {0, 1} : \A i \in 1 .. Len(bf'[g]) : IsMessage(g, i)' =>
               i + d \in 1 .. Len(bf[g]) /\ bf'[g][i] = bf[g][i + d] /\ IsMessage(g, i + d)
    BY <1>3
  <2>2. \A i, j \in 1 .. Len(bf'[g]) : i < j => i + d < j + d
    OBVIOUS
  <2> QED
    BY <2>1, <2>2 DEF PipesAreOrdered
<1>6. PipesBeforeQueue'
  BY <1>2, <1>3 DEF PipesBeforeQueue
<1> QED
  BY <1>1, <1>4, <1>5, <1>6

LEMMA MessageNumber ==
  \A n : Message(n).n = n /\ Message(n).type = "SendMessage"
  BY DEF Message

\* What writing messages leaves on the pipes, each message at its place.
LEMMA WritePlaces ==
  ASSUME TypeOK, NEW msgs \in Seq(BfMsg), bf' = Write(msgs), NEW g \in Attempts
  PROVE  \A i \in 1 .. Len(bf'[g]) :
           \/ i \in 1 .. Len(bf[g]) /\ bf'[g][i] = bf[g][i]
           \/ /\ i - Len(bf[g]) \in 1 .. Len(msgs) /\ i > Len(bf[g])
              /\ bf'[g][i] = msgs[i - Len(bf[g])]
<1>1. bf[g] \in Seq(BfMsg) /\ Len(bf[g]) \in Nat /\ Len(msgs) \in Nat
  BY LenProperties DEF TypeOK
<1>2. CASE bf'[g] = bf[g]
  BY <1>2
<1>3. CASE bf'[g] = bf[g] \o msgs
  <2>1. /\ Len(bf'[g]) = Len(bf[g]) + Len(msgs)
        /\ \A i \in 1 .. Len(bf[g]) + Len(msgs) :
             bf'[g][i] = IF i <= Len(bf[g]) THEN bf[g][i] ELSE msgs[i - Len(bf[g])]
    BY <1>1, <1>3, ConcatProperties
  <2> QED
    BY <1>1, <2>1
<1> QED
  BY <1>2, <1>3 DEF TypeOK, Write

\* The queue comes behind what was written before, in its order.
LEMMA FlushesQueueKeeps ==
  ASSUME TypeOK, MessageInv, FlushesQueue
  PROVE  MessageInv'
<1> USE DEF MessageInv
<1>1. /\ UNCHANGED <<lastRecv, sent>> /\ sendQ' = <<>> /\ sendQ \in Seq(Nat)
      /\ bf' = Write(Messages(sendQ))
  BY DEF FlushesQueue, FlushMessages, TypeOK
<1>2. ASSUME NEW g \in Attempts, NEW i \in 1 .. Len(bf'[g]), IsMessage(g, i)'
      PROVE  \/ i \in 1 .. Len(bf[g]) /\ bf'[g][i] = bf[g][i] /\ IsMessage(g, i)
             \/ /\ i - Len(bf[g]) \in 1 .. Len(sendQ) /\ i > Len(bf[g])
                /\ bf'[g][i].n = sendQ[i - Len(bf[g])]
  <2>1. /\ Messages(sendQ) \in Seq(BfMsg) /\ Len(Messages(sendQ)) = Len(sendQ)
        /\ \A k \in 1 .. Len(sendQ) : Messages(sendQ)[k] = Message(sendQ[k])
    BY <1>1, WrappedMessages
  <2>2. \/ i \in 1 .. Len(bf[g]) /\ bf'[g][i] = bf[g][i]
        \/ /\ i - Len(bf[g]) \in 1 .. Len(sendQ) /\ i > Len(bf[g])
           /\ bf'[g][i] = Messages(sendQ)[i - Len(bf[g])]
    BY <1>1, <2>1, WritePlaces
  <2> QED
    BY <1>2, <2>1, <2>2, MessageNumber DEF IsMessage
<1>3. PipesAreOrdered'
  <2> SUFFICES ASSUME NEW g \in Attempts
               PROVE  /\ \A i \in 1 .. Len(bf'[g]) : IsMessage(g, i)' =>
                           bf'[g][i].n \in lastRecv + 1 .. sent
                      /\ \A i, j \in 1 .. Len(bf'[g]) :
                           i < j /\ IsMessage(g, i)' /\ IsMessage(g, j)' =>
                             bf'[g][i].n < bf'[g][j].n
    BY <1>1 DEF PipesAreOrdered
  <2>1. \A i \in 1 .. Len(bf'[g]) : IsMessage(g, i)' => bf'[g][i].n \in lastRecv + 1 .. sent
    BY <1>2 DEF PipesAreOrdered, SendQueueIsOrdered
  <2>2. ASSUME NEW i \in 1 .. Len(bf'[g]), NEW j \in 1 .. Len(bf'[g]), i < j,
               IsMessage(g, i)', IsMessage(g, j)'
        PROVE  bf'[g][i].n < bf'[g][j].n
    <3> DEFINE n == Len(bf[g])
    <3>1. n \in Nat
      BY LenProperties DEF TypeOK
    <3>2. \/ i \in 1 .. n /\ bf'[g][i] = bf[g][i] /\ IsMessage(g, i)
          \/ i - n \in 1 .. Len(sendQ) /\ i > n /\ bf'[g][i].n = sendQ[i - n]
      BY <1>2, <2>2
    <3>3. \/ j \in 1 .. n /\ bf'[g][j] = bf[g][j] /\ IsMessage(g, j)
          \/ j - n \in 1 .. Len(sendQ) /\ j > n /\ bf'[g][j].n = sendQ[j - n]
      BY <1>2, <2>2
    <3>4. i - n < j - n /\ ~(i > n /\ j <= n)
      BY <2>2, <3>1
    <3> HIDE DEF n
    <3>5. CASE /\ i \in 1 .. Len(bf[g]) /\ bf'[g][i] = bf[g][i] /\ IsMessage(g, i)
               /\ j \in 1 .. Len(bf[g]) /\ bf'[g][j] = bf[g][j] /\ IsMessage(g, j)
      <4>1. bf[g][i].n < bf[g][j].n
        BY <2>2, <3>5 DEF PipesAreOrdered
      <4> QED
        BY <3>5, <4>1
    <3>6. CASE /\ i \in 1 .. Len(bf[g]) /\ bf'[g][i] = bf[g][i] /\ IsMessage(g, i)
               /\ j - n \in 1 .. Len(sendQ) /\ bf'[g][j].n = sendQ[j - n]
      <4>1. bf[g][i].n < sendQ[j - n]
        BY <3>6 DEF PipesBeforeQueue
      <4> QED
        BY <3>6, <4>1
    <3>7. CASE /\ i - n \in 1 .. Len(sendQ) /\ bf'[g][i].n = sendQ[i - n]
               /\ j - n \in 1 .. Len(sendQ) /\ bf'[g][j].n = sendQ[j - n]
      <4>1. sendQ[i - n] < sendQ[j - n]
        BY <3>4, <3>7 DEF SendQueueIsOrdered
      <4> QED
        BY <3>7, <4>1
    <3>8. \/ i \in 1 .. Len(bf[g]) /\ bf'[g][i] = bf[g][i] /\ IsMessage(g, i)
          \/ i - n \in 1 .. Len(sendQ) /\ i > n /\ bf'[g][i].n = sendQ[i - n]
      BY <3>2 DEF n
    <3>9. \/ j \in 1 .. n /\ j \in 1 .. Len(bf[g]) /\ bf'[g][j] = bf[g][j] /\ IsMessage(g, j)
          \/ j - n \in 1 .. Len(sendQ) /\ j > n /\ bf'[g][j].n = sendQ[j - n]
      BY <3>3 DEF n
    <3> QED
      BY <3>1, <3>4, <3>5, <3>6, <3>7, <3>8, <3>9
  <2> QED
    BY <2>1, <2>2
<1> QED
  BY <1>1, <1>3 DEF SendQueueIsOrdered, PipesBeforeQueue

\* A new message is the newest, wherever it goes.
LEMMA SendsMessageKeeps ==
  ASSUME TypeOK, MessageInv, SendsMessage
  PROVE  MessageInv'
<1> USE DEF MessageInv
<1>1. /\ sent' = sent + 1 /\ lastRecv' = lastRecv
      /\ sent \in Nat /\ lastRecv \in Nat /\ sendQ \in Seq(Nat)
  BY DEF SendsMessage, TypeOK
<1>2. \A n : n \in lastRecv + 1 .. sent =>
        n \in lastRecv' + 1 .. sent' /\ n < sent + 1
  BY <1>1
<1>3. sent + 1 \in lastRecv' + 1 .. sent'
  BY <1>1
<1>4. CASE UNCHANGED <<sendQ, bf>>
  <2>1. SendQueueIsOrdered'
    BY <1>2, <1>4 DEF SendQueueIsOrdered
  <2>2. PipesAreOrdered'
    BY <1>2, <1>4 DEF PipesAreOrdered, IsMessage
  <2>3. PipesBeforeQueue'
    BY <1>4 DEF PipesBeforeQueue, IsMessage
  <2> QED
    BY <1>1, <2>1, <2>2, <2>3
<1>5. CASE sendQ' = Append(sendQ, sent + 1) /\ UNCHANGED bf
  <2>1. /\ Len(sendQ') = Len(sendQ) + 1 /\ Len(sendQ) \in Nat
        /\ \A i \in 1 .. Len(sendQ') :
             \/ i \in 1 .. Len(sendQ) /\ sendQ'[i] = sendQ[i]
             \/ i = Len(sendQ) + 1 /\ sendQ'[i] = sent + 1
    BY <1>1, <1>5, AppendProperties
  <2>2. SendQueueIsOrdered'
    BY <1>2, <1>3, <2>1 DEF SendQueueIsOrdered
  <2>3. PipesAreOrdered'
    BY <1>2, <1>5 DEF PipesAreOrdered, IsMessage
  <2>4. PipesBeforeQueue'
    BY <1>2, <1>5, <2>1 DEF PipesBeforeQueue, PipesAreOrdered, IsMessage
  <2> QED
    BY <1>1, <2>2, <2>3, <2>4
<1>6. CASE sendQ = <<>> /\ UNCHANGED sendQ /\ bf' = Write(<<Message(sent + 1)>>)
  <2> DEFINE msgs == <<Message(sent + 1)>>
  <2>1. /\ msgs \in Seq(BfMsg) /\ Len(msgs) = 1
        /\ \A k \in 1 .. Len(msgs) : k = 1 /\ msgs[k].n = sent + 1
    BY <1>1, Singleton, MessageNumber DEF Message, BfMsg
  <2>2. ASSUME NEW g \in Attempts, NEW i \in 1 .. Len(bf'[g]), IsMessage(g, i)'
        PROVE  \/ i \in 1 .. Len(bf[g]) /\ bf'[g][i] = bf[g][i] /\ IsMessage(g, i)
               \/ i = Len(bf[g]) + 1 /\ bf'[g][i].n = sent + 1
    <3>1. bf' = Write(msgs) /\ Len(bf[g]) \in Nat
      BY <1>6, LenProperties DEF TypeOK
    <3> HIDE DEF msgs
    <3>2. \/ i \in 1 .. Len(bf[g]) /\ bf'[g][i] = bf[g][i]
          \/ i - Len(bf[g]) \in 1 .. Len(msgs) /\ bf'[g][i] = msgs[i - Len(bf[g])]
      BY <2>1, <3>1, WritePlaces
    <3> QED
      BY <2>1, <2>2, <3>1, <3>2 DEF IsMessage
  <2>3. PipesAreOrdered'
    <3> SUFFICES ASSUME NEW g \in Attempts
                 PROVE  /\ \A i \in 1 .. Len(bf'[g]) : IsMessage(g, i)' =>
                             bf'[g][i].n \in lastRecv' + 1 .. sent'
                        /\ \A i, j \in 1 .. Len(bf'[g]) :
                             i < j /\ IsMessage(g, i)' /\ IsMessage(g, j)' =>
                               bf'[g][i].n < bf'[g][j].n
      BY DEF PipesAreOrdered
    <3>1. Len(bf[g]) \in Nat
      BY LenProperties DEF TypeOK
    <3>2. ASSUME NEW i \in 1 .. Len(bf'[g]), IsMessage(g, i)'
          PROVE  bf'[g][i].n \in lastRecv' + 1 .. sent'
      <4>1. CASE i \in 1 .. Len(bf[g]) /\ bf'[g][i] = bf[g][i] /\ IsMessage(g, i)
        BY <1>2, <4>1 DEF PipesAreOrdered
      <4>2. CASE bf'[g][i].n = sent + 1
        BY <1>3, <4>2
      <4> QED
        BY <2>2, <3>2, <4>1, <4>2
    <3>3. ASSUME NEW i \in 1 .. Len(bf'[g]), NEW j \in 1 .. Len(bf'[g]), i < j,
                 IsMessage(g, i)', IsMessage(g, j)'
          PROVE  bf'[g][i].n < bf'[g][j].n
      <4>1. \/ i \in 1 .. Len(bf[g]) /\ bf'[g][i] = bf[g][i] /\ IsMessage(g, i)
            \/ i = Len(bf[g]) + 1
        BY <2>2, <3>3
      <4>2. \/ j \in 1 .. Len(bf[g]) /\ bf'[g][j] = bf[g][j] /\ IsMessage(g, j)
            \/ j = Len(bf[g]) + 1 /\ bf'[g][j].n = sent + 1
        BY <2>2, <3>3
      <4>3. i \in 1 .. Len(bf[g]) /\ bf'[g][i] = bf[g][i] /\ IsMessage(g, i)
        BY <3>1, <3>3, <4>1, <4>2
      <4>4. CASE j \in 1 .. Len(bf[g]) /\ bf'[g][j] = bf[g][j] /\ IsMessage(g, j)
        <5>1. bf[g][i].n < bf[g][j].n
          BY <3>3, <4>3, <4>4 DEF PipesAreOrdered
        <5> QED
          BY <4>3, <4>4, <5>1
      <4>5. CASE bf'[g][j].n = sent + 1
        <5>1. bf[g][i].n < sent + 1
          BY <1>2, <4>3 DEF PipesAreOrdered
        <5> QED
          BY <4>3, <4>5, <5>1
      <4> QED
        BY <4>2, <4>4, <4>5
    <3> QED
      BY <3>2, <3>3
  <2>4. SendQueueIsOrdered' /\ PipesBeforeQueue'
    BY <1>6 DEF SendQueueIsOrdered, PipesBeforeQueue
  <2> QED
    BY <1>1, <2>3, <2>4
<1> QED
  BY <1>4, <1>5, <1>6 DEF SendsMessage

\* The message that is read is the oldest there is: only the pipe of the latest
\* attempt holds any.
LEMMA ReadsMessageKeeps ==
  ASSUME TypeOK, AttachedComesFirst, OldPipesAreClosed, ClosedIsEmpty, MessageInv,
         NEW g \in Attempts, ReadsMessage(g)
  PROVE  MessageInv' /\ lastRecv' \in lastRecv + 1 .. sent
<1> USE DEF MessageInv
<1>1. /\ UNCHANGED <<sent, sendQ>> /\ bf[g] # <<>> /\ IsMessage(g, 1)
      /\ lastRecv' = bf[g][1].n /\ svc[g] = "bound" /\ bf' = [bf EXCEPT ![g] = Tail(@)]
  BY DEF ReadsMessage
<1>2. 1 \in 1 .. Len(bf[g])
  BY <1>1, HeadAndRest DEF TypeOK
<1>3. \A h \in Attempts \ {g} : bf'[h] = <<>>
  <2> SUFFICES ASSUME NEW h \in Attempts \ {g}
               PROVE  bf'[h] = <<>>
    OBVIOUS
  <2>1. gen \in Nat /\ g \in Nat /\ h \in Nat
    BY DEF TypeOK, Attempts
  <2>2. g = gen
    BY <1>1, <2>1 DEF OldPipesAreClosed, BrowserFrameClosed
  <2>3. h < gen \/ h > gen
    BY <2>1, <2>2
  <2>4. bf[h] = <<>>
    BY <2>3 DEF OldPipesAreClosed, ClosedIsEmpty, AttachedComesFirst
  <2> QED
    BY <1>1, <2>4, ReadShape
<1>4. \A i \in 1 .. Len(bf'[g]) :
        i + 1 \in 1 .. Len(bf[g]) /\ bf'[g][i] = bf[g][i + 1] /\ 1 < i + 1
  <2>1. \A i \in 1 .. Len(bf'[g]) :
          i + 1 \in 2 .. Len(bf[g]) /\ bf'[g][i] = bf[g][i + 1]
    BY <1>1, ReadShape
  <2>2. \A i \in 1 .. Len(bf'[g]) : 1 < i + 1
    OBVIOUS
  <2>3. Len(bf[g]) \in Nat
    BY LenProperties DEF TypeOK
  <2>4. 2 .. Len(bf[g]) \subseteq 1 .. Len(bf[g])
    BY <2>3
  <2> QED
    BY <2>1, <2>2, <2>4
<1>5. \A i \in 1 .. Len(bf'[g]) : IsMessage(g, i)' => IsMessage(g, i + 1)
  BY <1>4 DEF IsMessage
<1>6. lastRecv' \in lastRecv + 1 .. sent /\ lastRecv \in Nat /\ sent \in Nat
  BY <1>1, <1>2 DEF PipesAreOrdered, TypeOK
<1>7. SendQueueIsOrdered'
  <2>1. \A j \in 1 .. Len(sendQ) : lastRecv' < sendQ[j]
    BY <1>1, <1>2 DEF PipesBeforeQueue
  <2>2. \A j \in 1 .. Len(sendQ) : sendQ[j] \in lastRecv' + 1 .. sent
    BY <1>6, <2>1 DEF SendQueueIsOrdered
  <2> QED
    BY <1>1, <2>2 DEF SendQueueIsOrdered
<1>8. PipesAreOrdered'
  <2> SUFFICES ASSUME NEW h \in Attempts
               PROVE  /\ \A i \in 1 .. Len(bf'[h]) : IsMessage(h, i)' =>
                           bf'[h][i].n \in lastRecv' + 1 .. sent
                      /\ \A i, j \in 1 .. Len(bf'[h]) :
                           i < j /\ IsMessage(h, i)' /\ IsMessage(h, j)' =>
                             bf'[h][i].n < bf'[h][j].n
    BY <1>1 DEF PipesAreOrdered
  <2>1. CASE h # g
    BY <1>3, <2>1
  <2>2. ASSUME NEW i \in 1 .. Len(bf'[g]), IsMessage(g, i)'
        PROVE  bf'[g][i].n \in lastRecv' + 1 .. sent
    <3>1. bf[g][1].n < bf[g][i + 1].n /\ bf[g][i + 1].n \in lastRecv + 1 .. sent
      BY <1>1, <1>2, <1>4, <1>5, <2>2 DEF PipesAreOrdered
    <3>2. bf'[g][i].n = bf[g][i + 1].n
      BY <1>4
    <3>3. bf'[g][i].n \in lastRecv + 1 .. sent /\ lastRecv' < bf'[g][i].n
      BY <1>1, <3>1, <3>2
    <3> QED
      BY <1>6, <3>3
  <2>3. \A i, j \in 1 .. Len(bf'[g]) :
          i < j /\ IsMessage(g, i)' /\ IsMessage(g, j)' => bf'[g][i].n < bf'[g][j].n
    <3>1. \A i, j \in 1 .. Len(bf'[g]) : i < j => i + 1 < j + 1
      OBVIOUS
    <3> QED
      BY <1>4, <1>5, <3>1 DEF PipesAreOrdered
  <2> QED
    BY <2>1, <2>2, <2>3
<1>9. PipesBeforeQueue'
  <2> SUFFICES ASSUME NEW h \in Attempts, NEW i \in 1 .. Len(bf'[h]), NEW j \in 1 .. Len(sendQ),
                      IsMessage(h, i)'
               PROVE  bf'[h][i].n < sendQ[j]
    BY <1>1 DEF PipesBeforeQueue
  <2>1. h = g
    BY <1>3
  <2> QED
    BY <1>4, <1>5, <2>1 DEF PipesBeforeQueue
<1> QED
  BY <1>1, <1>6, <1>7, <1>8, <1>9

-----------------------------------------------------------------------------
(* What closed pipes and connected renderers hold. *)

LEMMA AckedIsFlushedKept ==
  ASSUME TypeOK, PipesFollowState, AckedIsFlushed, [Next]_vars
  PROVE  AckedIsFlushed'
<1> USE DEF AckedIsFlushed
<1>1. CASE UNCHANGED <<state, sendQ>>
  BY <1>1
<1>2. CASE state' # "CONNECTION_ACKED"
  BY <1>2
<1>3. CASE \/ OnDidCommitProvisionalLoad \/ PageShown \/ RetryTimer \/ RendererLeavesCache
  <2>1. UNCHANGED sendQ
    BY <1>3 DEF OnDidCommitProvisionalLoad, PageShown, RetryTimer, RendererLeavesCache, sendVars
  <2>2. \E shown, cached \in BOOLEAN : ConnectBrowserFrame(shown, cached) \/ NoConnect
    BY <1>3 DEF OnDidCommitProvisionalLoad, PageShown, RetryTimer, RendererLeavesCache,
      OnWasShown, TypeOK
  <2>3. state' # "CONNECTION_ACKED" \/ UNCHANGED state
    BY <2>2 DEF ConnectBrowserFrame, NoConnect
  <2> QED
    BY <2>1, <2>3
<1>4. ASSUME NEW declined \in BOOLEAN,
             OnBrowserFrameDisconnect(declined) \/ OnRenderFrameDisconnect(declined)
      PROVE  AckedIsFlushed'
  BY <1>4 DEF OnBrowserFrameDisconnect, OnRenderFrameDisconnect, OnDisconnect, sendVars
<1>5. CASE OnDetached
  BY <1>5 DEF OnDetached
<1>6. CASE FrameAttachedAck
  BY <1>6 DEF FrameAttachedAck, FlushMessages
<1>7. CASE SendToBrowserFrame
  BY <1>7 DEF SendToBrowserFrame, connVars
<1>8. CASE ExecuteCommand \/ RendererEntersCache \/ RendererKilled \/ BrowserNext \/ UNCHANGED vars
  <2>1. UNCHANGED <<state, sendQ>>
    BY <1>8 DEF ExecuteCommand, RendererEntersCache, RendererKilled, BrowserNext, BindInterface,
      DeclineInterface, ConnectionError, FrameAttached, ReceiveMessage, CloseBrowserFrame,
      HostDisconnect, SendToRenderFrame, NewMainFrame, CachedWithParent, LeaveCache,
      RenderFrameDeleted, vars, rendererVars, connVars, sendVars
  <2> QED
    BY <1>1, <2>1
<1> QED
  BY <1>3, <1>4, <1>5, <1>6, <1>7, <1>8 DEF Next, RendererNext

LEMMA WrittenIsOpen ==
  ASSUME TypeOK, ClosedIsEmpty, UNCHANGED svc, NEW msgs, bf' = Write(msgs)
  PROVE  ClosedIsEmpty'
  BY DEF ClosedIsEmpty, Write, BrowserFrameClosed, TypeOK

LEMMA ClosedIsEmptyKept ==
  ASSUME TypeOK, ClosedIsEmpty, [Next]_vars
  PROVE  ClosedIsEmpty'
<1>1. CASE UNCHANGED bfVars
  BY <1>1 DEF bfVars, ClosedIsEmpty, BrowserFrameClosed
<1>2. CASE \/ OnDidCommitProvisionalLoad \/ PageShown \/ RetryTimer \/ RendererLeavesCache
  <2>1. \E shown, cached \in BOOLEAN : ConnectBrowserFrame(shown, cached) \/ NoConnect
    BY <1>2 DEF OnDidCommitProvisionalLoad, PageShown, RetryTimer, RendererLeavesCache,
      OnWasShown, TypeOK
  <2>2. CASE UNCHANGED <<svc, bf>>
    BY <1>1, <2>2 DEF bfVars
  <2>3. ASSUME NEW msg, svc' = [svc EXCEPT ![gen + 1] = "requested"],
               bf' = [bf EXCEPT ![gen + 1] = msg]
        PROVE  ClosedIsEmpty'
    BY <2>3 DEF ClosedIsEmpty, BrowserFrameClosed, TypeOK
  <2> QED
    BY <2>1, <2>2, <2>3 DEF ConnectBrowserFrame, NoConnect
<1>3. CASE \/ \E declined \in BOOLEAN : \/ OnBrowserFrameDisconnect(declined)
                                        \/ OnRenderFrameDisconnect(declined)
           \/ OnDetached \/ ExecuteCommand \/ RendererEntersCache \/ RendererKilled
  <2>1. UNCHANGED bfVars
    BY <1>3 DEF OnBrowserFrameDisconnect, OnRenderFrameDisconnect, OnDetached, ExecuteCommand,
      RendererEntersCache, RendererKilled
  <2> QED
    BY <1>1, <2>1
<1>4. CASE FrameAttachedAck \/ SendToBrowserFrame
  <2>1. UNCHANGED svc /\ (UNCHANGED bf \/ \E msgs : bf' = Write(msgs))
    BY <1>4 DEF FrameAttachedAck, FlushMessages, SendToBrowserFrame
  <2> QED
    BY <1>1, <2>1, WrittenIsOpen DEF bfVars
<1>5. ASSUME NEW g \in Attempts,
             \/ BindInterface(g) \/ DeclineInterface(g) \/ ConnectionError(g)
             \/ FrameAttached(g) \/ ReceiveMessage(g) \/ CloseBrowserFrame(g)
      PROVE  ClosedIsEmpty'
  <2>1. /\ \A h \in Attempts \ {g} : svc'[h] = svc[h] /\ bf'[h] = bf[h]
        /\ svc'[g] \in {"gone", "deleted"} => bf'[g] = <<>>
    BY <1>5 DEF BindInterface, DeclineInterface, ConnectionError, FrameAttached, ReceiveMessage,
      CloseBrowserFrame, TypeOK
  <2> QED
    BY <2>1 DEF ClosedIsEmpty, BrowserFrameClosed
<1>6. CASE HostDisconnect \/ SendToRenderFrame \/ NewMainFrame \/ CachedWithParent \/ LeaveCache
           \/ UNCHANGED vars
  <2>1. UNCHANGED bfVars
    BY <1>6 DEF HostDisconnect, SendToRenderFrame, NewMainFrame, CachedWithParent, LeaveCache,
      vars
  <2> QED
    BY <1>1, <2>1
<1>7. CASE RenderFrameDeleted
  BY <1>7 DEF RenderFrameDeleted, ClosedIsEmpty, BrowserFrameClosed
<1> QED
  BY <1>2, <1>3, <1>4, <1>5, <1>6, <1>7 DEF Next, RendererNext, BrowserNext

-----------------------------------------------------------------------------
(* The refinement. *)

MessageFacts == MessageInv /\ ClosedIsEmpty /\ AckedIsFlushed

LEMMA InitMessageFacts == Init => MessageFacts
  BY DEF Init, MessageFacts, MessageInv, SendQueueIsOrdered, PipesAreOrdered,
    PipesBeforeQueue, ClosedIsEmpty, AckedIsFlushed

LEMMA MessageFactsKept ==
  ASSUME TypeOK, AttachedComesFirst, PipesFollowState, OldPipesAreClosed, MessageFacts,
         [Next]_vars
  PROVE  MessageFacts'
<1>1. MessageInv /\ ClosedIsEmpty /\ AckedIsFlushed
  BY DEF MessageFacts
<1>2. MessageInv'
  <2>1. ASSUME NEW g \in Attempts, ReadsMessage(g)
        PROVE  MessageInv'
    BY <1>1, <2>1, ReadsMessageKeeps
  <2> QED
    BY <1>1, <2>1, LosesMessagesKeeps, FlushesQueueKeeps, SendsMessageKeeps, MessageStepKinds
<1>3. ClosedIsEmpty' /\ AckedIsFlushed'
  BY <1>1, ClosedIsEmptyKept, AckedIsFlushedKept
<1> QED
  BY <1>2, <1>3 DEF MessageFacts

\* The messages that wait in the renderer and in the pipes are newer than the last
\* one the client has, oldest first; a closed pipe is empty, and so is the queue of
\* a renderer that is connected.
THEOREM MessagesStayOrdered ==
  ASSUME PromptTeardown
  PROVE  Spec => []MessageFacts
<1>1. ConnectionInv => AttachedComesFirst /\ PipesFollowState
  BY DEF ConnectionInv
<1>2. BindingInv => OldPipesAreClosed
  BY DEF BindingInv
<1>3. TypeOK /\ ConnectionInv /\ BindingInv /\ MessageFacts /\ [Next]_vars => MessageFacts'
  BY <1>1, <1>2, MessageFactsKept
<1> QED
  BY <1>3, InitMessageFacts, TypeCorrect, ConnectionCorrect, BindingsFit, PTL DEF Spec

\* MessagesInOrder holds when the retry delay outlasts the teardown: what a frame
\* sends reaches CefClient::OnProcessMessageReceived in order and once.
THEOREM MessagesArriveInOrder ==
  ASSUME PromptTeardown
  PROVE  Spec => MessagesInOrder
<1>1. Init => MessageChannel!Init
  BY DEF Init, MessageChannel!Init
<1>2. TypeOK /\ ConnectionInv /\ BindingInv /\ MessageFacts /\ [Next]_vars
        => [MessageChannel!Next]_<<sent, lastRecv>>
  <2> SUFFICES ASSUME TypeOK, ConnectionInv, BindingInv, MessageFacts, [Next]_vars
               PROVE  [MessageChannel!Next]_<<sent, lastRecv>>
    OBVIOUS
  <2>1. /\ AttachedComesFirst /\ OldPipesAreClosed
        /\ MessageInv /\ ClosedIsEmpty /\ AckedIsFlushed
    BY DEF ConnectionInv, BindingInv, MessageFacts
  <2>2. CASE LosesMessages \/ FlushesQueue
    BY <2>2 DEF LosesMessages, FlushesQueue
  <2>3. ASSUME NEW g \in Attempts, ReadsMessage(g)
        PROVE  MessageChannel!Next
    <3>1. lastRecv' \in lastRecv + 1 .. sent /\ UNCHANGED sent
      BY <2>1, <2>3, ReadsMessageKeeps DEF ReadsMessage
    <3> QED
      BY <3>1 DEF MessageChannel!Next, MessageChannel!Deliver
  <2>4. CASE SendsMessage
    BY <2>4 DEF SendsMessage, MessageChannel!Next, MessageChannel!Issue
  <2> QED
    BY <2>1, <2>2, <2>3, <2>4, MessageStepKinds
<1> QED
  BY <1>1, <1>2, TypeCorrect, ConnectionCorrect, BindingsFit, MessagesStayOrdered, PTL
    DEF Spec, MessagesInOrder, MessageChannel!Spec
=============================================================================
