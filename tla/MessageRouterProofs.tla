------------------------- MODULE MessageRouterProofs -------------------------
(***************************************************************************)
(* What holds of the two sides of the router for all sets of contexts,      *)
(* browsers, processes and handlers and any number of queries: queries,     *)
(* callbacks, handlers and browsers fit each other, although answers and    *)
(* cancellations are posted from any thread and arrive late; a query and    *)
(* its request fit each other across the two processes; and what the page   *)
(* hears of a query is what the router promises of it (QueryPromise).       *)
(***************************************************************************)
EXTENDS MessageRouter, FiniteSetTheorems, SequenceTheorems, WellFoundedInduction, TLAPS

-----------------------------------------------------------------------------
(* Enumerations of finite sets of natural numbers *)

Increasing(s, n) == \A i, j \in 1 .. n : i < j => s[i] < s[j]

LEMMA SmallestNumber ==
  ASSUME NEW I \in SUBSET Nat, I # {}
  PROVE  \E m \in I : \A k \in I : m <= k
<1>1. \E m \in I : \A k \in I : <<k, m>> \notin OpToRel(<, Nat)
  BY NatLessThanWellFounded, WFMin
<1>2. PICK m \in I : \A k \in I : <<k, m>> \notin OpToRel(<, Nat)
  BY <1>1
<1>3. \A k \in I : ~(k < m)
  BY <1>2 DEF OpToRel
<1> QED
  BY <1>3

\* The largest set that could not be enumerated would have a smaller one.
LEMMA IncreasingExists ==
  ASSUME NEW I \in SUBSET Nat, IsFiniteSet(I)
  PROVE  \E s \in [1 .. Cardinality(I) -> I] : Increasing(s, Cardinality(I))
<1> DEFINE Fails(J) == ~ \E s \in [1 .. Cardinality(J) -> J] : Increasing(s, Cardinality(J))
           Bad == {n \in Nat : \E J \in SUBSET Nat :
                     IsFiniteSet(J) /\ Cardinality(J) = n /\ Fails(J)}
<1>1. SUFFICES ASSUME Bad # {} PROVE FALSE
  BY FS_CardinalityType
<1>2. PICK n \in Bad : \A k \in Bad : n <= k
  <2>1. Bad \in SUBSET Nat
    OBVIOUS
  <2> HIDE DEF Bad
  <2> QED
    BY <1>1, <2>1, SmallestNumber
<1>3. PICK J \in SUBSET Nat : IsFiniteSet(J) /\ Cardinality(J) = n /\ Fails(J)
  BY <1>2
<1>4. n \in Nat
  BY <1>2
<1>5. n # 0
  <2>1. SUFFICES ASSUME n = 0 PROVE FALSE
    OBVIOUS
  <2>2. J = {}
    BY <1>3, <2>1, FS_EmptySet
  <2>3. <<>> \in [1 .. 0 -> {}] /\ Increasing(<<>>, 0)
    BY DEF Increasing
  <2> QED
    BY <1>3, <2>1, <2>2, <2>3
<1>6. PICK m \in J : \A k \in J : m <= k
  BY <1>3, <1>4, <1>5, SmallestNumber, FS_EmptySet
<1>7. IsFiniteSet(J \ {m}) /\ Cardinality(J \ {m}) = n - 1 /\ J \ {m} \in SUBSET Nat
  BY <1>3, <1>6, FS_RemoveElement
<1>8. ~Fails(J \ {m})
  <2>1. n - 1 \in Nat /\ ~(n <= n - 1)
    BY <1>4, <1>5
  <2>2. n - 1 \notin Bad
    <3> HIDE DEF Bad
    <3> QED
      BY <1>2, <2>1
  <2> HIDE DEF Fails
  <2> QED
    BY <1>7, <2>1, <2>2
<1>9. PICK s \in [1 .. n - 1 -> J \ {m}] : Increasing(s, n - 1)
  BY <1>7, <1>8
<1> DEFINE t == [i \in 1 .. n |-> IF i = 1 THEN m ELSE s[i - 1]]
<1>10. t \in [1 .. n -> J]
  BY <1>4, <1>5, <1>6, <1>9
<1>11. Increasing(t, n)
  <2>1. SUFFICES ASSUME NEW i \in 1 .. n, NEW j \in 1 .. n, i < j
                 PROVE  t[i] < t[j]
    BY DEF Increasing
  <2>2. t[j] = s[j - 1] /\ j - 1 \in 1 .. n - 1
    BY <1>4, <2>1
  <2>3. s[j - 1] \in J /\ s[j - 1] # m
    BY <1>9, <2>2
  <2>4. CASE i = 1
    <3>1. t[i] = m /\ m \in Nat /\ s[j - 1] \in Nat /\ m <= s[j - 1]
      BY <1>3, <1>6, <2>3, <2>4
    <3> HIDE DEF t
    <3> QED
      BY <2>2, <2>3, <3>1
  <2>5. CASE i # 1
    <3>1. t[i] = s[i - 1] /\ i - 1 \in 1 .. n - 1 /\ i - 1 < j - 1
      BY <1>4, <2>1, <2>5
    <3> QED
      BY <1>9, <2>2, <3>1 DEF Increasing
  <2> QED
    BY <2>4, <2>5
<1> QED
  BY <1>3, <1>10, <1>11

LEMMA SortedIsEnumeration ==
  ASSUME NEW I \in SUBSET Nat, IsFiniteSet(I)
  PROVE  /\ Cardinality(I) \in Nat
         /\ Sorted(I) \in [1 .. Cardinality(I) -> I]
<1>1. \E s \in [1 .. Cardinality(I) -> I] :
        \A i, j \in 1 .. Cardinality(I) : i < j => s[i] < s[j]
  BY IncreasingExists DEF Increasing
<1> QED
  BY <1>1, FS_CardinalityType DEF Sorted

-----------------------------------------------------------------------------
(* The invariant *)

RendererTypes ==
  /\ life \in [Contexts -> {"none", "live", "leaving", "released", "dead"}]
  /\ ctxId \in [Contexts -> Nat]
  /\ lastReq \in [Procs -> 0 .. MaxQuery]
  /\ open \subseteq Request
  /\ heard \in [Queries -> [got : 0 .. MaxAnswers, failed : BOOLEAN]]

ContentTypes ==
  /\ page \in [Browsers -> Mains \cup {None}]
  /\ valid \subseteq Contexts
  /\ nav \subseteq Browsers
  /\ closed \subseteq Browsers
  /\ dropped \subseteq Contexts \X (1 .. MaxQuery)

TableTypes ==
  /\ pending \subseteq QueryInfo
  /\ callbacks \in Seq(CallbackImpl)
  /\ handlers \subseteq Handlers

TaskTypes == tasks \in Seq(Task) /\ calls \in 0 .. MaxClient

UpTypes   == up \in [Contexts -> Seq(Upward)]
DownTypes == down \in [Contexts -> Seq(Downward)]

\* A query id is given out once, and a pending query is what its callback is of.
IdsAreOwn ==
  /\ \A info \in pending :
       /\ info.id \in 1 .. Len(callbacks)
       /\ info.persistent = callbacks[info.id].persistent
  /\ \A a, b \in pending : a.id = b.id => a = b

\* An answer was posted by a callback.
AnswersHaveCallbacks ==
  \A k \in 1 .. Len(tasks) :
    tasks[k].type # "cancel" => tasks[k].id \in 1 .. Len(callbacks)

RouterInv == TypeOK /\ IdsAreOwn /\ CallbackMatchesQuery /\ AnswersHaveCallbacks

\* What a browser that is closed may not have or do.
ClosedIsQuiet ==
  /\ ClosedBrowserOwnsNothing
  /\ \A b \in nav : b \notin closed
  /\ \A c \in Contexts :
       c \in valid \/ up[c] # <<>> \/ life[c] = "live" => BrowserOf[c] \notin closed

LEMMA TypesAreTypeOK ==
  TypeOK <=> /\ RendererTypes /\ ContentTypes /\ TableTypes /\ TaskTypes
             /\ UpTypes /\ DownTypes
  BY DEF TypeOK, RendererTypes, ContentTypes, TableTypes, TaskTypes, UpTypes, DownTypes

-----------------------------------------------------------------------------
(* Messages and numbers *)

LEMMA FirstAndRest ==
  ASSUME NEW S, NEW s \in Seq(S), s # <<>>
  PROVE  /\ Head(s) \in S /\ Tail(s) \in Seq(S)
         /\ 1 \in 1 .. Len(s) /\ Head(s) = s[1]
         /\ \A k \in 1 .. Len(Tail(s)) : k + 1 \in 1 .. Len(s) /\ Tail(s)[k] = s[k + 1]
  BY HeadTailProperties, EmptySeq

LEMMA Appended ==
  ASSUME NEW S, NEW s \in Seq(S), NEW x \in S
  PROVE  /\ Append(s, x) \in Seq(S) /\ Len(Append(s, x)) = Len(s) + 1
         /\ \A k \in 1 .. Len(s) : Append(s, x)[k] = s[k]
         /\ Append(s, x)[Len(s) + 1] = x
  BY AppendProperties

LEMMA ContextIds ==
  ASSUME RendererTypes, NEW c \in Contexts
  PROVE  /\ BrowserOf[c] \in Browsers /\ ProcOf[c] \in Procs
         /\ GetIDForContext(c) \in Nat \ {Reserved}
<1>1. IsFiniteSet({d \in Contexts : ProcOf[d] = ProcOf[c] /\ ctxId[d] # Reserved})
  BY RouterAssumption, FS_Subset DEF RouterAssumption
<1>2. NextContextId(ProcOf[c]) \in Nat \ {0}
  BY <1>1, FS_CardinalityType DEF NextContextId
<1>3. ctxId[c] \in Nat
  BY DEF RendererTypes
<1> QED
  BY <1>2, <1>3 DEF GetIDForContext, Reserved, Browsers, Procs

LEMMA SentUp ==
  ASSUME UpTypes, NEW c \in Contexts, NEW m \in Upward, ToBrowser(c, m)
  PROVE  UpTypes'
<1>1. Append(up[c], m) \in Seq(Upward)
  BY Appended DEF UpTypes
<1> QED
  BY <1>1 DEF ToBrowser, UpTypes

LEMMA SentDown ==
  ASSUME DownTypes, NEW c \in Contexts, NEW m \in Downward, down' = SendToRenderer(c, m)
  PROVE  DownTypes'
<1>1. Append(down[c], m) \in Seq(Downward)
  BY Appended DEF DownTypes
<1> QED
  BY <1>1 DEF SendToRenderer, DownTypes

-----------------------------------------------------------------------------
(* Cancellation *)

LEMMA DetachedCallbacks ==
  ASSUME TableTypes, NEW ids
  PROVE  /\ Detached(ids) \in Seq(CallbackImpl)
         /\ Len(Detached(ids)) = Len(callbacks)
         /\ \A k \in 1 .. Len(callbacks) :
              /\ Detached(ids)[k].router <=> callbacks[k].router /\ k \notin ids
              /\ Detached(ids)[k].persistent = callbacks[k].persistent
<1>1. Len(callbacks) \in Nat /\ DOMAIN callbacks = 1 .. Len(callbacks)
  BY LenProperties DEF TableTypes
<1>2. \A k \in 1 .. Len(callbacks) : callbacks[k] \in CallbackImpl
  BY ElementOfSeq DEF TableTypes
<1>3. \A k \in 1 .. Len(callbacks) : \A now \in BOOLEAN :
        /\ [callbacks[k] EXCEPT !.router = now] \in CallbackImpl
        /\ [callbacks[k] EXCEPT !.router = now].router = now
        /\ [callbacks[k] EXCEPT !.router = now].persistent = callbacks[k].persistent
  BY <1>2 DEF CallbackImpl
<1>4. \A k \in 1 .. Len(callbacks) : callbacks[k].router \in BOOLEAN
  BY <1>2 DEF CallbackImpl
<1>5. Detached(ids) = [k \in 1 .. Len(callbacks) |->
        [callbacks[k] EXCEPT !.router = callbacks[k].router /\ k \notin ids]]
  BY <1>1, <1>2 DEF Detached, CallbackImpl
<1>6. \A k \in 1 .. Len(callbacks) :
        /\ Detached(ids)[k] \in CallbackImpl
        /\ Detached(ids)[k].router = (callbacks[k].router /\ k \notin ids)
        /\ Detached(ids)[k].persistent = callbacks[k].persistent
  BY <1>3, <1>4, <1>5
<1>7. Detached(ids) \in [1 .. Len(callbacks) -> CallbackImpl]
  BY <1>5, <1>6
<1>8. Detached(ids) \in Seq(CallbackImpl) /\ Len(Detached(ids)) = Len(callbacks)
  BY <1>1, <1>7, SeqDef, LenProperties
<1> QED
  BY <1>4, <1>6, <1>8

LEMMA NoticesAreMessages ==
  ASSUME TableTypes, IdsAreOwn, NEW ids, NEW c
  PROVE  Notices(ids, c) \in Seq(Downward)
<1> DEFINE own == {info \in pending : info.id \in ids /\ info.context = c}
           gone == Sorted(Ids(own))
           of(k) == CHOOSE info \in pending : info.id = gone[k]
<1>1. Ids(own) \in SUBSET Nat /\ IsFiniteSet(Ids(own))
  <2>1. Len(callbacks) \in Nat
    BY LenProperties DEF TableTypes
  <2>2. Ids(own) \subseteq 1 .. Len(callbacks)
    BY DEF IdsAreOwn, Ids
  <2>3. IsFiniteSet(1 .. Len(callbacks)) /\ 1 .. Len(callbacks) \subseteq Nat
    BY <2>1, FS_Interval
  <2> HIDE DEF own
  <2> QED
    BY <2>2, <2>3, FS_Subset
<1>2. PICK n \in Nat : gone \in [1 .. n -> Ids(own)]
  BY <1>1, SortedIsEnumeration
<1>3. \A k \in 1 .. n : of(k) \in pending
  <2>1. \A k \in 1 .. n : \E info \in pending : info.id = gone[k]
    BY <1>2 DEF Ids
  <2> QED
    BY <2>1
<1>4. \A info \in pending : Message(info, "canceled", 0) \in Downward
  <2>1. 0 \in 0 .. MaxAnswers
    BY RouterAssumption DEF RouterAssumption
  <2> QED
    BY <2>1 DEF Message, Downward, TableTypes, QueryInfo
<1>5. Notices(ids, c) = [k \in 1 .. n |-> Message(of(k), "canceled", 0)]
  BY <1>2 DEF Notices
<1>6. \A k \in 1 .. n : Message(of(k), "canceled", 0) \in Downward
  BY <1>3, <1>4
<1> HIDE DEF gone, of
<1> QED
  BY <1>2, <1>5, <1>6, SeqDef

\* Queries and callbacks are canceled together.
LEMMA CancelKeeps ==
  ASSUME TableTypes, DownTypes, IdsAreOwn, CallbackMatchesQuery,
         NEW ids, NEW notify, CancelQueries(ids, notify)
  PROVE  /\ pending' \subseteq QueryInfo /\ callbacks' \in Seq(CallbackImpl)
         /\ DownTypes' /\ IdsAreOwn' /\ CallbackMatchesQuery'
         /\ Len(callbacks') = Len(callbacks)
         /\ pending' = {info \in pending : info.id \notin ids}
<1>1. pending' = {info \in pending : info.id \notin ids}
  BY DEF CancelQueries, Without
<1>2. callbacks' = Detached(ids)
  BY DEF CancelQueries
<1>3. pending' \subseteq QueryInfo
  BY <1>1 DEF TableTypes
<1>4. callbacks' \in Seq(CallbackImpl) /\ Len(callbacks') = Len(callbacks)
  BY <1>2, DetachedCallbacks
<1>5. DownTypes'
  <2>1. \A c \in Contexts : down[c] \o Notices(ids, c) \in Seq(Downward)
    BY NoticesAreMessages, ConcatProperties DEF DownTypes
  <2> QED
    BY <2>1 DEF CancelQueries, DownTypes
<1>6. IdsAreOwn'
  BY <1>1, <1>2, DetachedCallbacks DEF IdsAreOwn
<1>7. CallbackMatchesQuery'
  <2>1. DOMAIN callbacks' = 1 .. Len(callbacks) /\ DOMAIN callbacks = 1 .. Len(callbacks)
    BY <1>4, LenProperties DEF TableTypes
  <2>2. \A id \in 1 .. Len(callbacks) :
          id \in Ids(pending)' <=> id \in Ids(pending) /\ id \notin ids
    BY <1>1 DEF Ids
  <2>3. \A id \in 1 .. Len(callbacks) :
          callbacks'[id].router <=> callbacks[id].router /\ id \notin ids
    BY <1>2, DetachedCallbacks
  <2> QED
    BY <2>1, <2>2, <2>3 DEF CallbackMatchesQuery
<1> QED
  BY <1>1, <1>3, <1>4, <1>5, <1>6, <1>7

-----------------------------------------------------------------------------
(* The renderer's side keeps its types. *)

LEMMA QueryTypes ==
  ASSUME RendererTypes, UpTypes, NEW c \in Contexts, NEW persistent \in BOOLEAN,
         Query(c, persistent)
  PROVE  RendererTypes' /\ UpTypes'
<1> DEFINE cid == GetIDForContext(c)
           rid == NextRequestId(ProcOf[c])
           m == [type |-> "query", cid |-> cid, rid |-> rid, persistent |-> persistent]
<1>1. cid \in Nat \ {Reserved} /\ ProcOf[c] \in Procs
  BY ContextIds
<1>2. rid \in 1 .. MaxQuery
  <2>1. lastReq[ProcOf[c]] \in 0 .. MaxQuery /\ lastReq[ProcOf[c]] < MaxQuery
    BY <1>1 DEF Query, RendererTypes
  <2> QED
    BY <2>1, RouterAssumption DEF NextRequestId, RouterAssumption
<1>3. ctxId' \in [Contexts -> Nat]
  BY <1>1 DEF Query, RendererTypes
<1>4. lastReq' \in [Procs -> 0 .. MaxQuery]
  <2>1. rid \in 0 .. MaxQuery
    BY <1>2, RouterAssumption DEF RouterAssumption
  <2> QED
    BY <2>1 DEF Query, RendererTypes
<1>5. open' \subseteq Request
  BY <1>2 DEF Query, RendererTypes, Request
<1>6. UpTypes'
  <2>1. m \in Upward
    BY <1>1, <1>2 DEF Upward
  <2> QED
    BY <2>1, SentUp DEF Query
<1> QED
  BY <1>3, <1>4, <1>5, <1>6 DEF Query, RendererTypes

LEMMA SendCancelTypes ==
  ASSUME RendererTypes, UpTypes, NEW c \in Contexts, NEW cid \in Nat \ {Reserved},
         NEW rid \in 0 .. MaxQuery, SendCancel(c, cid, rid)
  PROVE  open' \subseteq Request /\ UpTypes'
<1>1. [type |-> "cancel", cid |-> cid, rid |-> rid] \in Upward
  BY DEF Upward
<1>2. UpTypes'
  BY <1>1, SentUp DEF SendCancel, UpTypes
<1> QED
  BY <1>2 DEF SendCancel, RendererTypes

LEMMA CancelQueryTypes ==
  ASSUME RendererTypes, UpTypes, NEW c \in Contexts, NEW rid \in 1 .. MaxQuery,
         CancelQuery(c, rid)
  PROVE  RendererTypes' /\ UpTypes'
<1>1. GetIDForContext(c) \in Nat \ {Reserved} /\ rid \in 0 .. MaxQuery
  BY ContextIds, RouterAssumption DEF RouterAssumption
<1>2. open' \subseteq Request /\ UpTypes'
  BY <1>1, SendCancelTypes DEF CancelQuery
<1> QED
  BY <1>1, <1>2 DEF CancelQuery, RendererTypes

LEMMA ReleaseTypes ==
  ASSUME RendererTypes, UpTypes, NEW c \in Contexts, Release(c)
  PROVE  RendererTypes' /\ UpTypes'
<1>1. open' \subseteq Request /\ UpTypes'
  <2>1. CASE ctxId[c] = Reserved
    BY <2>1 DEF Release, ContextReleased, RendererTypes, UpTypes
  <2>2. CASE ctxId[c] # Reserved
    <3>1. ctxId[c] \in Nat \ {Reserved} /\ Reserved \in 0 .. MaxQuery
      BY <2>2, RouterAssumption DEF RendererTypes, Reserved, RouterAssumption
    <3> QED
      BY <2>2, <3>1, SendCancelTypes DEF Release, ContextReleased
  <2> QED
    BY <2>1, <2>2
<1> QED
  BY <1>1 DEF Release, ContextReleased, RendererTypes

LEMMA ReceiveTypes ==
  ASSUME RendererTypes, DownTypes, NEW c \in Contexts, RendererReceives(c)
  PROVE  RendererTypes' /\ DownTypes'
<1> DEFINE m == Head(down[c])
<1>1. m \in Downward /\ Tail(down[c]) \in Seq(Downward)
  BY FirstAndRest DEF RendererReceives, DownTypes
<1>2. DownTypes'
  BY <1>1 DEF RendererReceives, DownTypes
<1>3. open' \subseteq Request /\ heard' \in [Queries -> [got : 0 .. MaxAnswers, failed : BOOLEAN]]
  <2>1. CASE UNCHANGED <<open, heard>>
    BY <2>1 DEF RendererTypes
  <2>2. ASSUME NEW r \in open, ExecuteCallback(r, m)
        PROVE  open' \subseteq Request
               /\ heard' \in [Queries -> [got : 0 .. MaxAnswers, failed : BOOLEAN]]
    <3> DEFINE q == <<ProcOf[r.context], r.rid>>
    <3>1. q \in Queries /\ m.n \in 0 .. MaxAnswers
      BY <1>1 DEF RendererTypes, Request, Queries, Procs, Downward
    <3>2. heard[q] \in [got : 0 .. MaxAnswers, failed : BOOLEAN]
      BY <3>1 DEF RendererTypes
    <3> DEFINE got == IF m.result = "success" THEN m.n ELSE heard[q].got
               failed == heard[q].failed \/ m.result = "failure"
    <3>3. got \in 0 .. MaxAnswers /\ failed \in BOOLEAN
      BY <3>1, <3>2
    <3>4. heard' = [heard EXCEPT ![q] = [got |-> got, failed |-> failed]]
      BY <2>2, <3>1, <3>2 DEF ExecuteCallback, RendererTypes
    <3> HIDE DEF got, failed, q
    <3>5. heard' \in [Queries -> [got : 0 .. MaxAnswers, failed : BOOLEAN]]
      BY <3>1, <3>3, <3>4 DEF RendererTypes
    <3> QED
      BY <2>2, <3>5 DEF ExecuteCallback, RendererTypes
  <2> QED
    BY <2>1, <2>2 DEF RendererReceives, Requests
<1> QED
  BY <1>2, <1>3 DEF RendererReceives, RendererTypes

-----------------------------------------------------------------------------
(* So does content. *)

LEMMA ContentStepTypes ==
  ASSUME RendererTypes, ContentTypes, UpTypes, DownTypes, TableTypes,
         NEW b \in Browsers, NEW c \in Contexts, NEW p \in Procs,
         \/ OnBeforeBrowse(b) \/ NavigationEnds(b) \/ Close(b)
         \/ Commit(c) \/ SubFrameCreated(c) \/ FrameDeleted(c) \/ RenderProcessGone(p)
  PROVE  RendererTypes' /\ ContentTypes' /\ UpTypes'
<1> USE DEF RendererTypes, ContentTypes, UpTypes
<1>1. <<>> \in Seq(Upward)
  OBVIOUS
<1>2. CASE OnBeforeBrowse(b)
  <2>1. \A info \in pending : <<info.context, info.rid>> \in Contexts \X (1 .. MaxQuery)
    BY DEF TableTypes, QueryInfo
  <2> QED
    BY <1>2, <2>1 DEF OnBeforeBrowse, rendererVars
<1>8. CASE NavigationEnds(b)
  BY <1>8 DEF NavigationEnds, rendererVars
<1>3. CASE Close(b)
  BY <1>1, <1>3 DEF Close
<1>4. CASE Commit(c)
  <2>1. BrowserOf[c] \in Browsers
    BY DEF Browsers
  <2> QED
    BY <1>1, <1>4, <2>1 DEF Commit
<1>5. CASE SubFrameCreated(c)
  BY <1>5 DEF SubFrameCreated
<1>6. CASE FrameDeleted(c)
  BY <1>1, <1>6 DEF FrameDeleted, rendererVars
<1>7. CASE RenderProcessGone(p)
  BY <1>1, <1>7 DEF RenderProcessGone
<1> QED
  BY <1>2, <1>3, <1>4, <1>5, <1>6, <1>7, <1>8

-----------------------------------------------------------------------------
(* Queries and callbacks keep fitting each other. *)

QueryInv == TableTypes /\ DownTypes /\ IdsAreOwn /\ CallbackMatchesQuery

\* The step changes no table.
LEMMA TablesUntouched ==
  ASSUME QueryInv, UNCHANGED <<pending, callbacks>>, handlers' \subseteq Handlers, DownTypes'
  PROVE  QueryInv'
  BY DEF QueryInv, TableTypes, IdsAreOwn, CallbackMatchesQuery, Ids

LEMMA CancelKeepsTables ==
  ASSUME QueryInv, NEW ids, NEW notify, CancelQueries(ids, notify),
         handlers' \subseteq Handlers
  PROVE  /\ QueryInv' /\ Len(callbacks') = Len(callbacks)
         /\ pending' = {info \in pending : info.id \notin ids}
  BY CancelKeeps DEF QueryInv, TableTypes

LEMMA NewCallbackTyped ==
  ASSUME NEW c \in Contexts, NEW m \in Upward, m.type = "query", NEW held \in BOOLEAN
  PROVE  /\ NewCallback(c, m, held) \in CallbackImpl
         /\ NewCallback(c, m, held).router = held
         /\ NewCallback(c, m, held).persistent = m.persistent
         /\ m.cid \in Nat \ {Reserved} /\ m.rid \in 1 .. MaxQuery /\ m.persistent \in BOOLEAN
<1>1. m.cid \in Nat \ {Reserved} /\ m.rid \in 1 .. MaxQuery /\ m.persistent \in BOOLEAN
  BY DEF Upward
<1>2. <<ProcOf[c], m.rid>> \in Queries /\ 0 \in 0 .. MaxAnswers
  BY <1>1, RouterAssumption DEF Queries, Procs, RouterAssumption
<1> QED
  BY <1>1, <1>2 DEF NewCallback, CallbackImpl

\* A declined query has a callback that never had the router.
LEMMA DeclineKeeps ==
  ASSUME QueryInv, NEW c \in Contexts, NEW m \in Upward, m.type = "query", DeclineQuery(c, m)
  PROVE  /\ QueryInv'
         /\ Len(callbacks') \in {Len(callbacks), Len(callbacks) + 1}
<1> USE DEF QueryInv
<1> DEFINE new == NewCallback(c, m, FALSE)
<1>1. DownTypes'
  <2>1. Message(m, "canceled", 0) \in Downward
    <3>1. 0 \in 0 .. MaxAnswers
      BY RouterAssumption DEF RouterAssumption
    <3> QED
      BY <3>1, NewCallbackTyped DEF Message, Downward
  <2> QED
    BY <2>1, SentDown DEF DeclineQuery, CancelUnhandledQuery
<1>2. UNCHANGED <<pending, handlers>>
  BY DEF DeclineQuery
<1>3. CASE callbacks' = callbacks
  BY <1>1, <1>2, <1>3, TablesUntouched DEF TableTypes
<1>4. CASE callbacks' = Append(callbacks, new)
  <2>1. new \in CallbackImpl /\ ~new.router
    BY NewCallbackTyped
  <2> HIDE DEF new
  <2>2. /\ callbacks' \in Seq(CallbackImpl) /\ Len(callbacks') = Len(callbacks) + 1
        /\ \A k \in 1 .. Len(callbacks) : callbacks'[k] = callbacks[k]
        /\ callbacks'[Len(callbacks) + 1] = new
    BY <1>4, <2>1, Appended DEF TableTypes
  <2>3. Len(callbacks) \in Nat /\ DOMAIN callbacks = 1 .. Len(callbacks)
        /\ DOMAIN callbacks' = 1 .. Len(callbacks')
    BY <2>2, LenProperties DEF TableTypes
  <2>4. IdsAreOwn'
    BY <1>2, <2>2, <2>3 DEF IdsAreOwn
  <2>5. Ids(pending)' = Ids(pending) /\ Len(callbacks) + 1 \notin Ids(pending)
    BY <1>2, <2>3 DEF Ids, IdsAreOwn
  <2>6. CallbackMatchesQuery'
    BY <2>1, <2>2, <2>3, <2>5 DEF CallbackMatchesQuery
  <2> QED
    BY <1>1, <1>2, <2>2, <2>4, <2>6 DEF TableTypes
<1> QED
  BY <1>3, <1>4 DEF DeclineQuery

\* A table of queries and a list of callbacks that fit each other.
Fits(P, C) ==
  /\ P \subseteq QueryInfo /\ C \in Seq(CallbackImpl)
  /\ \A info \in P : info.id \in 1 .. Len(C) /\ info.persistent = C[info.id].persistent
  /\ \A x, y \in P : x.id = y.id => x = y
  /\ \A id \in 1 .. Len(C) : C[id].router <=> id \in Ids(P)

LEMMA TablesFit ==
  QueryInv <=> Fits(pending, callbacks) /\ handlers \subseteq Handlers /\ DownTypes
<1>1. callbacks \in Seq(CallbackImpl) => DOMAIN callbacks = 1 .. Len(callbacks)
  BY LenProperties
<1> QED
  BY <1>1 DEF QueryInv, TableTypes, IdsAreOwn, CallbackMatchesQuery, Fits

LEMMA TablesFitNext ==
  QueryInv' <=> Fits(pending', callbacks') /\ handlers' \subseteq Handlers /\ DownTypes'
<1>1. callbacks' \in Seq(CallbackImpl) => DOMAIN callbacks' = 1 .. Len(callbacks')
  BY LenProperties
<1> QED
  BY <1>1 DEF QueryInv, TableTypes, IdsAreOwn, CallbackMatchesQuery, Fits

\* A query is added together with its callback.
LEMMA FitsWithOneMore ==
  ASSUME NEW P, NEW C, Fits(P, C), NEW info \in QueryInfo, NEW impl \in CallbackImpl,
         info.id = Len(C) + 1, impl.router, info.persistent = impl.persistent
  PROVE  Fits(P \cup {info}, Append(C, impl))
<1> DEFINE D == Append(C, impl)
<1>1. /\ D \in Seq(CallbackImpl) /\ Len(D) = Len(C) + 1 /\ D[Len(C) + 1] = impl
      /\ \A k \in 1 .. Len(C) : D[k] = C[k]
  BY Appended DEF Fits
<1> HIDE DEF D
<1>2. /\ Len(C) \in Nat
      /\ \A k \in 1 .. Len(D) : k \in 1 .. Len(C) \/ k = Len(C) + 1
      /\ \A k \in 1 .. Len(C) : k \in 1 .. Len(D) /\ k # Len(C) + 1
      /\ Len(C) + 1 \in 1 .. Len(D)
  BY <1>1, LenProperties DEF Fits
<1>3. \A x \in P : x.id \in 1 .. Len(C) /\ x.id # info.id
  BY <1>2 DEF Fits
<1>4. \A x \in P \cup {info} : x.id \in 1 .. Len(D) /\ x.persistent = D[x.id].persistent
  <2>1. \A x \in P : x.persistent = D[x.id].persistent
    BY <1>1 DEF Fits
  <2> QED
    BY <1>1, <1>2, <1>3, <2>1
<1>5. \A x, y \in P \cup {info} : x.id = y.id => x = y
  BY <1>3 DEF Fits
<1>6. Ids(P \cup {info}) = Ids(P) \cup {Len(C) + 1}
  BY DEF Ids
<1>7. \A id \in 1 .. Len(D) : D[id].router <=> id \in Ids(P \cup {info})
  <2>1. \A id \in 1 .. Len(C) : D[id].router <=> id \in Ids(P)
    BY <1>1 DEF Fits
  <2>2. D[Len(C) + 1].router
    BY <1>1
  <2> QED
    BY <1>2, <1>6, <2>1, <2>2
<1>8. P \cup {info} \subseteq QueryInfo
  BY DEF Fits
<1> QED
  BY <1>1, <1>4, <1>5, <1>7, <1>8 DEF Fits, D

LEMMA FitsAfterCancel ==
  ASSUME QueryInv, NEW ids
  PROVE  Fits(Without(ids), Detached(ids)) /\ Len(Detached(ids)) = Len(callbacks)
<1>1. /\ Detached(ids) \in Seq(CallbackImpl) /\ Len(Detached(ids)) = Len(callbacks)
      /\ \A k \in 1 .. Len(callbacks) :
           /\ Detached(ids)[k].router <=> callbacks[k].router /\ k \notin ids
           /\ Detached(ids)[k].persistent = callbacks[k].persistent
  BY DetachedCallbacks DEF QueryInv
<1>2. Without(ids) = {info \in pending : info.id \notin ids}
  BY DEF Without
<1>3. Fits(pending, callbacks)
  BY TablesFit
<1>4. \A id : id \in Ids(Without(ids)) <=> id \in Ids(pending) /\ id \notin ids
  BY <1>2 DEF Ids
<1>5. \A id \in 1 .. Len(callbacks) : Detached(ids)[id].router <=> id \in Ids(Without(ids))
  BY <1>1, <1>3, <1>4 DEF Fits
<1> QED
  BY <1>1, <1>2, <1>3, <1>5 DEF Fits

LEMMA NewInfoTyped ==
  ASSUME QueryInv, NEW c \in Contexts, NEW m \in Upward, m.type = "query", NEW h \in Handlers
  PROVE  /\ NewInfo(c, m, h) \in QueryInfo
         /\ NewInfo(c, m, h).id = Len(callbacks) + 1
         /\ NewInfo(c, m, h).persistent = m.persistent
<1>1. Len(callbacks) + 1 \in Nat \ {0}
  BY LenProperties DEF QueryInv, TableTypes
<1> QED
  BY <1>1, NewCallbackTyped DEF NewInfo, QueryInfo

LEMMA AcceptedCallback ==
  ASSUME NEW c \in Contexts, NEW m \in Upward, m.type = "query"
  PROVE  /\ NewCallback(c, m, TRUE) \in CallbackImpl
         /\ NewCallback(c, m, TRUE).persistent = m.persistent
         /\ NewCallback(c, m, TRUE).router
<1>1. NewCallback(c, m, TRUE).router = TRUE
  BY DEF NewCallback
<1> QED
  BY <1>1, NewCallbackTyped

LEMMA HandleKeeps ==
  ASSUME QueryInv, NEW c \in Contexts, NEW m \in Upward, m.type = "query",
         NEW h \in Handlers, HandleQuery(c, m, h)
  PROVE  QueryInv' /\ Len(callbacks') = Len(callbacks) + 1
<1>1. Fits(pending, callbacks) /\ handlers \subseteq Handlers /\ DownTypes
  BY TablesFit
<1>2. Fits(pending', callbacks')
  BY <1>1, NewInfoTyped, AcceptedCallback, FitsWithOneMore DEF HandleQuery
<1>3. Len(callbacks') = Len(callbacks) + 1
  BY <1>1, NewCallbackTyped, Appended DEF HandleQuery, Fits
<1>4. handlers' \subseteq Handlers /\ DownTypes'
  BY <1>1 DEF HandleQuery, DownTypes
<1> QED
  BY <1>2, <1>3, <1>4, TablesFitNext

\* The other queries of the handler that leaves are canceled first.
LEMMA HandleAndLeaveKeeps ==
  ASSUME QueryInv, NEW c \in Contexts, NEW m \in Upward, m.type = "query",
         NEW h \in Handlers, HandleAndLeave(c, m, h)
  PROVE  QueryInv' /\ Len(callbacks') = Len(callbacks) + 1
<1> DEFINE ids == PendingFor(None, h)
<1>1. /\ pending' = Without(ids) \cup {NewInfo(c, m, h)}
      /\ callbacks' = Append(Detached(ids), NewCallback(c, m, TRUE))
  BY DEF HandleAndLeave
<1>2. Fits(Without(ids), Detached(ids)) /\ Len(Detached(ids)) = Len(callbacks)
  BY FitsAfterCancel
<1>3. Fits(pending', callbacks')
  BY <1>1, <1>2, NewInfoTyped, AcceptedCallback, FitsWithOneMore
<1>4. Len(callbacks') = Len(callbacks) + 1
  BY <1>1, <1>2, NewCallbackTyped, Appended DEF Fits
<1>5. DownTypes'
  <2>1. \A d \in Contexts : down[d] \o Notices(ids, d) \in Seq(Downward)
    BY NoticesAreMessages, ConcatProperties DEF QueryInv, DownTypes
  <2> QED
    BY <2>1 DEF HandleAndLeave, QueryInv, DownTypes
<1>6. handlers' \subseteq Handlers
  BY DEF HandleAndLeave, QueryInv, TableTypes
<1> QED
  BY <1>3, <1>4, <1>5, <1>6, TablesFitNext

\* Answers and cancellations of a callback do not change whose it is.
LEMMA FitsSameCallbacks ==
  ASSUME NEW P, NEW C, Fits(P, C), NEW D \in Seq(CallbackImpl), Len(D) = Len(C),
         \A k \in 1 .. Len(C) : D[k].router = C[k].router /\ D[k].persistent = C[k].persistent
  PROVE  Fits(P, D)
  BY DEF Fits

\* The task of an answer finds the query and its callback, or neither.
LEMMA AnswerKeeps ==
  ASSUME QueryInv, NEW t \in Task, t.type # "cancel", t.id \in 1 .. Len(callbacks),
         RunAnswer(t), UNCHANGED handlers
  PROVE  QueryInv' /\ Len(callbacks') = Len(callbacks)
<1>1. Fits(pending, callbacks) /\ handlers \subseteq Handlers /\ DownTypes
  BY TablesFit
<1>2. CASE ~callbacks[t.id].router
  <2>1. UNCHANGED <<pending, callbacks, down>>
    BY <1>2 DEF RunAnswer
  <2> QED
    BY <1>1, <2>1, TablesFitNext DEF DownTypes
<1>3. CASE callbacks[t.id].router
  <2>1. t.id \in Ids(pending)
    BY <1>1, <1>3 DEF Fits
  <2>2. PICK info \in pending :
          /\ info.id = t.id
          /\ down' = SendToRenderer(info.context, Message(info, t.type, t.n))
          /\ pending' = IF t.type = "failure" \/ ~info.persistent
                        THEN Without({t.id}) ELSE pending
    BY <1>3, <2>1 DEF RunAnswer, Complete
  <2>3. info \in QueryInfo /\ info.persistent = callbacks[t.id].persistent
    BY <1>1, <2>2 DEF Fits
  <2>4. DownTypes'
    <3>1. Message(info, t.type, t.n) \in Downward
      BY <2>3 DEF Message, Downward, QueryInfo, Task
    <3>2. info.context \in Contexts
      BY <2>3 DEF QueryInfo
    <3> QED
      BY <1>1, <2>2, <3>1, <3>2, SentDown
  <2>5. CASE t.type = "failure" \/ ~info.persistent
    <3>1. pending' = Without({t.id}) /\ callbacks' = Detached({t.id})
      BY <1>3, <2>2, <2>3, <2>5 DEF RunAnswer
    <3> QED
      BY <1>1, <2>4, <3>1, FitsAfterCancel, TablesFitNext
  <2>6. CASE ~(t.type = "failure" \/ ~info.persistent)
    <3>1. UNCHANGED <<pending, callbacks>>
      BY <1>3, <2>2, <2>3, <2>6 DEF RunAnswer
    <3> QED
      BY <1>1, <2>4, <3>1, TablesFitNext
  <2> QED
    BY <2>5, <2>6
<1> QED
  BY <1>2, <1>3

-----------------------------------------------------------------------------
(* What was posted keeps its callback. *)

TaskInv == TaskTypes /\ AnswersHaveCallbacks

LEMMA TasksKept ==
  ASSUME TaskInv, tasks' = tasks \/ (tasks # <<>> /\ tasks' = Tail(tasks)),
         Len(callbacks) \in Nat, Len(callbacks') \in Nat, Len(callbacks) <= Len(callbacks'),
         calls' \in 0 .. MaxClient
  PROVE  TaskInv'
<1>1. \A k \in 1 .. Len(callbacks) : k \in 1 .. Len(callbacks')
  OBVIOUS
<1>2. CASE tasks' = tasks
  BY <1>1, <1>2 DEF TaskInv, TaskTypes, AnswersHaveCallbacks
<1>3. CASE tasks # <<>> /\ tasks' = Tail(tasks)
  <2>1. /\ tasks' \in Seq(Task)
        /\ \A k \in 1 .. Len(tasks') : k + 1 \in 1 .. Len(tasks) /\ tasks'[k] = tasks[k + 1]
    BY <1>3, FirstAndRest DEF TaskInv, TaskTypes
  <2> QED
    BY <1>1, <2>1 DEF TaskInv, TaskTypes, AnswersHaveCallbacks
<1> QED
  BY <1>2, <1>3

LEMMA TaskPosted ==
  ASSUME TaskInv, NEW t \in Task, tasks' = Append(tasks, t),
         t.type # "cancel" => t.id \in 1 .. Len(callbacks),
         Len(callbacks') = Len(callbacks), calls' \in 0 .. MaxClient
  PROVE  TaskInv'
<1>1. /\ tasks' \in Seq(Task) /\ Len(tasks') = Len(tasks) + 1
      /\ \A k \in 1 .. Len(tasks) : tasks'[k] = tasks[k]
      /\ tasks'[Len(tasks) + 1] = t
  BY Appended DEF TaskInv, TaskTypes
<1>2. \A k \in 1 .. Len(tasks') : k \in 1 .. Len(tasks) \/ k = Len(tasks) + 1
  BY <1>1, LenProperties DEF TaskInv, TaskTypes
<1> QED
  BY <1>1, <1>2 DEF TaskInv, TaskTypes, AnswersHaveCallbacks

\* A callback posts its answers.
LEMMA AnswersArePosted ==
  ASSUME QueryInv, TaskInv, NEW id, Success(id) \/ Failure(id)
  PROVE  QueryInv' /\ TaskInv'
<1>1. Fits(pending, callbacks) /\ handlers \subseteq Handlers /\ DownTypes
  BY TablesFit
<1>2. id \in 1 .. Len(callbacks) /\ id \in Nat \ {0}
  BY <1>1, LenProperties DEF Success, Failure, Fits
<1>3. callbacks[id] \in CallbackImpl
  BY <1>1, <1>2, ElementOfSeq DEF Fits
<1>4. \E impl \in CallbackImpl :
        /\ impl.router = callbacks[id].router /\ impl.persistent = callbacks[id].persistent
        /\ callbacks' = [callbacks EXCEPT ![id] = impl]
  <2>1. CASE Success(id)
    <3> DEFINE impl == [callbacks[id] EXCEPT !.given = @ + 1]
    <3>1. callbacks[id].given + 1 \in 0 .. MaxAnswers
      BY <1>3, <2>1, RouterAssumption DEF Success, CallbackImpl, RouterAssumption
    <3>2. /\ impl \in CallbackImpl
          /\ impl.router = callbacks[id].router /\ impl.persistent = callbacks[id].persistent
      BY <1>3, <3>1 DEF CallbackImpl
    <3>3. callbacks' = [callbacks EXCEPT ![id] = impl]
      BY <2>1 DEF Success
    <3> QED
      BY <3>2, <3>3
  <2>2. CASE Failure(id)
    <3> DEFINE impl == [callbacks[id] EXCEPT !.failing = TRUE]
    <3>1. /\ impl \in CallbackImpl
          /\ impl.router = callbacks[id].router /\ impl.persistent = callbacks[id].persistent
      BY <1>3 DEF CallbackImpl
    <3>2. callbacks' = [callbacks EXCEPT ![id] = impl]
      BY <2>2 DEF Failure
    <3> QED
      BY <3>1, <3>2
  <2> QED
    BY <2>1, <2>2
<1>5. PICK impl \in CallbackImpl :
        /\ impl.router = callbacks[id].router /\ impl.persistent = callbacks[id].persistent
        /\ callbacks' = [callbacks EXCEPT ![id] = impl]
  BY <1>4
<1>6. /\ callbacks' \in Seq(CallbackImpl) /\ Len(callbacks') = Len(callbacks)
      /\ \A k \in 1 .. Len(callbacks) :
           callbacks'[k] = IF k = id THEN impl ELSE callbacks[k]
  BY <1>1, <1>2, <1>5, ExceptSeq DEF Fits
<1>7. Fits(pending, callbacks')
  BY <1>1, <1>5, <1>6, FitsSameCallbacks
<1>8. QueryInv'
  BY <1>1, <1>7, TablesFitNext DEF Success, Failure, DownTypes
<1>9. TaskInv'
  <2>1. CASE Success(id)
    <3>1. callbacks[id].given + 1 \in 0 .. MaxAnswers
      BY <1>3, <2>1, RouterAssumption DEF Success, CallbackImpl, RouterAssumption
    <3>2. [type |-> "success", id |-> id, n |-> callbacks[id].given + 1] \in Task
      BY <1>2, <3>1 DEF Task
    <3> QED
      BY <1>2, <1>6, <2>1, <3>2, TaskPosted DEF Success, TaskInv, TaskTypes
  <2>2. CASE Failure(id)
    <3>1. 0 \in 0 .. MaxAnswers
      BY RouterAssumption DEF RouterAssumption
    <3>2. [type |-> "failure", id |-> id, n |-> 0] \in Task
      BY <1>2, <3>1 DEF Task
    <3> QED
      BY <1>2, <1>6, <2>2, <3>2, TaskPosted DEF Failure, TaskInv, TaskTypes
  <2> QED
    BY <2>1, <2>2
<1> QED
  BY <1>8, <1>9

-----------------------------------------------------------------------------
(* Every step *)

LEMMA InvIsParts ==
  RouterInv <=> RendererTypes /\ ContentTypes /\ UpTypes /\ QueryInv /\ TaskInv
  BY TypesAreTypeOK DEF RouterInv, QueryInv, TaskInv

LEMMA InvIsPartsNext ==
  RouterInv' <=> RendererTypes' /\ ContentTypes' /\ UpTypes' /\ QueryInv' /\ TaskInv'
  BY DEF RouterInv, QueryInv, TaskInv, TypeOK, RendererTypes, ContentTypes, TableTypes,
    TaskTypes, UpTypes, DownTypes

\* Steps that leave the router alone.
LEMMA RouterLeftAlone ==
  ASSUME RouterInv, UNCHANGED routerVars, DownTypes'
  PROVE  QueryInv' /\ TaskInv'
<1>1. UNCHANGED <<pending, callbacks, handlers, tasks, calls>>
  BY DEF routerVars
<1>2. QueryInv' /\ Len(callbacks) \in Nat
  BY <1>1, InvIsParts, TablesUntouched, LenProperties DEF QueryInv, TableTypes
<1> QED
  BY <1>1, <1>2, InvIsParts, TasksKept DEF TaskInv, TaskTypes

\* Steps in which the router does nothing but cancel.
LEMMA RouterCancels ==
  ASSUME RouterInv, NEW ids, NEW notify, CancelQueries(ids, notify),
         handlers' \subseteq Handlers, calls' \in 0 .. MaxClient,
         tasks' = tasks \/ (tasks # <<>> /\ tasks' = Tail(tasks))
  PROVE  QueryInv' /\ TaskInv'
<1>1. QueryInv' /\ Len(callbacks') = Len(callbacks) /\ Len(callbacks) \in Nat
  BY InvIsParts, CancelKeepsTables, LenProperties DEF QueryInv, TableTypes
<1> QED
  BY <1>1, InvIsParts, TasksKept

LEMMA ReceiveKeeps ==
  ASSUME RouterInv, NEW c \in Contexts, OnProcessMessageReceived(c)
  PROVE  UpTypes' /\ QueryInv' /\ TaskInv'
<1> DEFINE m == Head(up[c])
<1>1. m \in Upward /\ Tail(up[c]) \in Seq(Upward)
  BY InvIsParts, FirstAndRest DEF OnProcessMessageReceived, UpTypes
<1>2. UpTypes'
  BY <1>1, InvIsParts DEF OnProcessMessageReceived, UpTypes
<1>3. UNCHANGED <<tasks, calls>> /\ QueryInv /\ TaskInv /\ Len(callbacks) \in Nat
      /\ calls \in 0 .. MaxClient /\ handlers \subseteq Handlers
  BY InvIsParts, LenProperties
    DEF OnProcessMessageReceived, QueryInv, TableTypes, TaskInv, TaskTypes
<1>4. CASE m.type = "cancel"
           /\ CancelQueries(RequestsPending(BrowserOf[c], m.cid, m.rid), FALSE)
           /\ UNCHANGED handlers
  BY <1>2, <1>3, <1>4, RouterCancels
<1>5. ASSUME m.type = "query",
             DeclineQuery(c, m) \/ \E h \in Handlers : HandleQuery(c, m, h) \/ HandleAndLeave(c, m, h)
      PROVE  QueryInv' /\ TaskInv'
  <2> HIDE DEF m
  <2>1. QueryInv' /\ Len(callbacks') \in {Len(callbacks), Len(callbacks) + 1}
    BY <1>1, <1>3, <1>5, DeclineKeeps, HandleKeeps, HandleAndLeaveKeeps
  <2> QED
    BY <1>3, <2>1, TasksKept
<1> QED
  BY <1>2, <1>4, <1>5 DEF OnProcessMessageReceived

LEMMA TaskKeeps ==
  ASSUME RouterInv, RunTask
  PROVE  QueryInv' /\ TaskInv'
<1> DEFINE t == Head(tasks)
<1>1. /\ tasks # <<>> /\ tasks' = Tail(tasks) /\ UNCHANGED <<handlers, calls>>
      /\ QueryInv /\ TaskInv /\ Len(callbacks) \in Nat
      /\ calls \in 0 .. MaxClient /\ handlers \subseteq Handlers
  BY InvIsParts, LenProperties DEF RunTask, QueryInv, TableTypes, TaskInv, TaskTypes
<1>2. t \in Task /\ t = tasks[1] /\ 1 \in 1 .. Len(tasks)
  BY <1>1, FirstAndRest DEF TaskInv, TaskTypes
<1>3. CASE CancelPendingFor(t.browser, t.handler, TRUE)
  BY <1>1, <1>3, RouterCancels DEF CancelPendingFor
<1>4. CASE t.type # "cancel" /\ RunAnswer(t)
  <2>1. t.id \in 1 .. Len(callbacks)
    BY <1>1, <1>2, <1>4 DEF TaskInv, AnswersHaveCallbacks
  <2>2. QueryInv' /\ Len(callbacks') = Len(callbacks)
    BY <1>1, <1>2, <1>4, <2>1, AnswerKeeps
  <2> QED
    BY <1>1, <2>2, TasksKept
<1> QED
  BY <1>3, <1>4 DEF RunTask

LEMMA ClientKeeps ==
  ASSUME RouterInv, Client
  PROVE  QueryInv' /\ TaskInv'
<1>1. /\ QueryInv /\ TaskInv /\ Len(callbacks) \in Nat
      /\ calls \in 0 .. MaxClient /\ handlers \subseteq Handlers
  BY InvIsParts, LenProperties DEF QueryInv, TableTypes, TaskInv, TaskTypes
<1>2. ClientCalls => calls' \in 0 .. MaxClient
  BY <1>1, RouterAssumption DEF ClientCalls, RouterAssumption
<1>3. ASSUME NEW id \in QueryIds, Success(id) \/ Failure(id)
      PROVE  QueryInv' /\ TaskInv'
  BY <1>1, <1>3, AnswersArePosted
<1>4. ASSUME NEW h \in Handlers, AddHandler(h)
      PROVE  QueryInv' /\ TaskInv'
  <2>1. UNCHANGED <<pending, callbacks, tasks, calls>> /\ handlers' \subseteq Handlers /\ DownTypes'
    BY <1>1, <1>4 DEF AddHandler, DownTypes, QueryInv
  <2> QED
    BY <1>1, <2>1, TablesUntouched, TasksKept
<1>5. ASSUME NEW h \in Handlers, RemoveHandler(h)
      PROVE  QueryInv' /\ TaskInv'
  BY <1>1, <1>2, <1>5, RouterCancels DEF RemoveHandler, CancelPendingFor
<1>6. ASSUME NEW b \in Browsers \cup {None}, NEW h \in Handlers \cup {None}, CancelPending(b, h)
      PROVE  QueryInv' /\ TaskInv'
  BY <1>1, <1>2, <1>6, RouterCancels DEF CancelPending, CancelPendingFor
<1>7. ASSUME NEW b \in Browsers \cup {None}, NEW h \in Handlers \cup {None}, PostCancelPending(b, h)
      PROVE  QueryInv' /\ TaskInv'
  <2> DEFINE t == [type |-> "cancel", browser |-> b, handler |-> h]
  <2>1. t \in Task /\ t.type = "cancel"
    BY DEF Task
  <2>2. /\ tasks' = Append(tasks, t) /\ calls' \in 0 .. MaxClient
        /\ UNCHANGED <<pending, callbacks, handlers>> /\ DownTypes'
    BY <1>1, <1>2, <1>7 DEF PostCancelPending, DownTypes, QueryInv
  <2> HIDE DEF t
  <2>3. TaskInv'
    BY <1>1, <2>1, <2>2, TaskPosted
  <2> QED
    BY <1>1, <2>2, <2>3, TablesUntouched
<1> QED
  BY <1>3, <1>4, <1>5, <1>6, <1>7 DEF Client

LEMMA ContentKeeps ==
  ASSUME RouterInv, Content
  PROVE  RouterInv'
<1>1. /\ RendererTypes /\ ContentTypes /\ UpTypes /\ QueryInv /\ TaskInv
      /\ DownTypes /\ calls \in 0 .. MaxClient /\ handlers \subseteq Handlers
      /\ TableTypes
  BY InvIsParts DEF QueryInv, TableTypes, TaskInv, TaskTypes
<1>2. ASSUME NEW b \in Browsers, OnBeforeBrowse(b) \/ NavigationEnds(b) \/ Close(b)
      PROVE  RouterInv'
  <2>1. RendererTypes' /\ ContentTypes' /\ UpTypes'
    <3>1. \E c \in Contexts : BrowserOf[c] = b
      BY DEF Browsers
    <3>2. \E p : p \in Procs
      BY <3>1 DEF Procs
    <3> QED
      BY <1>1, <1>2, <3>1, <3>2, ContentStepTypes
  <2>2. CASE OnBeforeBrowse(b)
    BY <1>1, <2>1, <2>2, RouterCancels, InvIsPartsNext DEF OnBeforeBrowse, CancelPendingFor
  <2>3. CASE NavigationEnds(b)
    BY <1>1, <2>1, <2>3, RouterLeftAlone, InvIsPartsNext DEF NavigationEnds, DownTypes
  <2>4. CASE Close(b)
    <3>1. UNCHANGED <<tasks, calls>>
      BY <2>4 DEF Close
    <3>2. CASE CancelPendingFor(b, None, FALSE) /\ UNCHANGED handlers
      BY <1>1, <2>1, <3>1, <3>2, RouterCancels, InvIsPartsNext DEF CancelPendingFor
    <3>3. CASE CancelPendingFor(None, None, TRUE) /\ handlers' = {}
      BY <1>1, <2>1, <3>1, <3>3, RouterCancels, InvIsPartsNext DEF CancelPendingFor
    <3>4. CASE UNCHANGED <<pending, callbacks, down, handlers>>
      BY <1>1, <2>1, <3>1, <3>4, RouterLeftAlone, InvIsPartsNext DEF routerVars, DownTypes
    <3> QED
      BY <2>4, <3>2, <3>3, <3>4 DEF Close
  <2> QED
    BY <1>2, <2>2, <2>3, <2>4
<1>3. ASSUME NEW c \in Contexts, Commit(c) \/ SubFrameCreated(c) \/ FrameDeleted(c)
      PROVE  RouterInv'
  <2>1. RendererTypes' /\ ContentTypes' /\ UpTypes'
    BY <1>1, <1>3, ContentStepTypes DEF Browsers, Procs
  <2>2. UNCHANGED routerVars
    BY <1>3 DEF Commit, SubFrameCreated, FrameDeleted
  <2>3. DownTypes'
    <3>1. <<>> \in Seq(Downward)
      OBVIOUS
    <3> QED
      BY <1>1, <1>3, <3>1 DEF Commit, SubFrameCreated, FrameDeleted, DownTypes
  <2> QED
    BY <2>1, <2>2, <2>3, RouterLeftAlone, InvIsPartsNext
<1>4. ASSUME NEW c \in Contexts, Release(c)
      PROVE  RouterInv'
  <2>1. RendererTypes' /\ UpTypes'
    BY <1>1, <1>4, ReleaseTypes
  <2>2. UNCHANGED contentVars /\ UNCHANGED routerVars /\ UNCHANGED down
    BY <1>4 DEF Release, ContextReleased
  <2>3. ContentTypes' /\ DownTypes'
    BY <1>1, <2>2 DEF contentVars, ContentTypes, DownTypes
  <2> QED
    BY <2>1, <2>2, <2>3, RouterLeftAlone, InvIsPartsNext
<1>5. ASSUME NEW p \in Procs, RenderProcessGone(p)
      PROVE  RouterInv'
  <2>1. RendererTypes' /\ ContentTypes' /\ UpTypes'
    BY <1>1, <1>5, ContentStepTypes DEF Browsers, Procs
  <2>2. /\ \E ids : CancelQueries(ids, FALSE)
        /\ UNCHANGED <<handlers, tasks, calls>>
    BY <1>5 DEF RenderProcessGone
  <2> QED
    BY <1>1, <2>1, <2>2, RouterCancels, InvIsPartsNext
<1> QED
  BY <1>2, <1>3, <1>4, <1>5 DEF Content

\* What the pages do.
LEMMA PagesAct ==
  ASSUME JavaScript
  PROVE  \E c \in Contexts : \/ \E persistent \in BOOLEAN : Query(c, persistent)
                            \/ \E rid \in 1 .. MaxQuery : CancelQuery(c, rid)
  BY RouterAssumption DEF JavaScript, RouterAssumption

LEMMA StepKeeps ==
  ASSUME RouterInv, [Next]_vars
  PROVE  RouterInv'
<1>1. RendererTypes /\ ContentTypes /\ UpTypes /\ QueryInv /\ TaskInv /\ DownTypes
  BY InvIsParts DEF QueryInv
<1>2. CASE JavaScript
  <2>1. RendererTypes' /\ UpTypes'
    BY <1>1, <1>2, QueryTypes, CancelQueryTypes, PagesAct
  <2>2. UNCHANGED contentVars /\ UNCHANGED routerVars /\ UNCHANGED down
    BY <1>2 DEF JavaScript, Query, CancelQuery
  <2>3. ContentTypes' /\ DownTypes'
    BY <1>1, <2>2 DEF contentVars, ContentTypes, DownTypes
  <2> QED
    BY <2>1, <2>2, <2>3, RouterLeftAlone, InvIsPartsNext
<1>3. CASE Client
  <2>1. UNCHANGED rendererVars /\ UNCHANGED contentVars /\ UNCHANGED up
    BY <1>3 DEF Client, Success, Failure, AddHandler, RemoveHandler, CancelPending,
      PostCancelPending
  <2>2. RendererTypes' /\ ContentTypes' /\ UpTypes'
    BY <1>1, <2>1 DEF rendererVars, contentVars, RendererTypes, ContentTypes, UpTypes
  <2> QED
    BY <1>3, <2>2, ClientKeeps, InvIsPartsNext
<1>4. CASE Content
  BY <1>4, ContentKeeps
<1>5. ASSUME NEW c \in Contexts, OnProcessMessageReceived(c)
      PROVE  RouterInv'
  <2>1. UNCHANGED rendererVars /\ UNCHANGED contentVars
    BY <1>5 DEF OnProcessMessageReceived
  <2>2. RendererTypes' /\ ContentTypes'
    BY <1>1, <2>1 DEF rendererVars, contentVars, RendererTypes, ContentTypes
  <2> QED
    BY <1>5, <2>2, ReceiveKeeps, InvIsPartsNext
<1>6. ASSUME NEW c \in Contexts, RendererReceives(c)
      PROVE  RouterInv'
  <2>1. RendererTypes' /\ DownTypes'
    BY <1>1, <1>6, ReceiveTypes
  <2>2. UNCHANGED contentVars /\ UNCHANGED routerVars /\ UNCHANGED up
    BY <1>6 DEF RendererReceives
  <2>3. ContentTypes' /\ UpTypes'
    BY <1>1, <2>2 DEF contentVars, ContentTypes, UpTypes
  <2> QED
    BY <2>1, <2>2, <2>3, RouterLeftAlone, InvIsPartsNext
<1>7. CASE RunTask
  <2>1. UNCHANGED rendererVars /\ UNCHANGED contentVars /\ UNCHANGED up
    BY <1>7 DEF RunTask
  <2>2. RendererTypes' /\ ContentTypes' /\ UpTypes'
    BY <1>1, <2>1 DEF rendererVars, contentVars, RendererTypes, ContentTypes, UpTypes
  <2> QED
    BY <1>7, <2>2, TaskKeeps, InvIsPartsNext
<1>8. CASE UNCHANGED vars
  <2>1. /\ UNCHANGED rendererVars /\ UNCHANGED contentVars /\ UNCHANGED up
        /\ UNCHANGED down /\ UNCHANGED routerVars
    BY <1>8 DEF vars
  <2>2. RendererTypes' /\ ContentTypes' /\ UpTypes' /\ DownTypes'
    BY <1>1, <2>1 DEF rendererVars, contentVars, RendererTypes, ContentTypes, UpTypes, DownTypes
  <2> QED
    BY <2>1, <2>2, RouterLeftAlone, InvIsPartsNext
<1> QED
  BY <1>2, <1>3, <1>4, <1>5, <1>6, <1>7, <1>8 DEF Next, Delivery

LEMMA InitKeeps ==
  ASSUME Init
  PROVE  RouterInv
<1> USE DEF Init
<1>1. RendererTypes
  <2>1. 0 \in 0 .. MaxQuery /\ 0 \in 0 .. MaxAnswers
    BY RouterAssumption DEF RouterAssumption
  <2> QED
    BY <2>1 DEF RendererTypes, Reserved
<1>2. ContentTypes /\ UpTypes /\ DownTypes
  BY DEF ContentTypes, UpTypes, DownTypes
<1>3. QueryInv
  BY <1>2 DEF QueryInv, TableTypes, IdsAreOwn, CallbackMatchesQuery
<1>4. TaskInv
  BY RouterAssumption DEF TaskInv, TaskTypes, AnswersHaveCallbacks, RouterAssumption
<1> QED
  BY <1>1, <1>2, <1>3, <1>4, InvIsParts

\* The inductive invariant of the browser's tables holds in every reachable
\* state: types, query ids, callbacks and posted answers fit each other,
\* whatever handlers, threads, pages and renderers do.
THEOREM RouterCorrect == Spec => []RouterInv
<1>1. RouterInv /\ [Next]_vars => RouterInv'
  BY StepKeeps
<1> QED
  BY <1>1, InitKeeps, PTL DEF Spec

-----------------------------------------------------------------------------
(* Owners *)

\* Queries leave the table, or none changes; handlers may come.
OnlyCancels == pending' \subseteq pending /\ handlers \subseteq handlers'

\* A handler takes a query that arrived.
TakesQuery ==
  \E c \in Contexts, h \in handlers :
    /\ up[c] # <<>>
    /\ pending' = pending \cup {NewInfo(c, Head(up[c]), h)}
    /\ UNCHANGED <<handlers, contentVars, life>>
    /\ \A d \in Contexts : up'[d] # <<>> => up[d] # <<>>

\* A handler is removed, or all are, with the queries they took.
LosesHandler ==
  \/ \E h \in Handlers :
       handlers' = handlers \ {h} /\ pending' = Without(PendingFor(None, h))
  \/ pending' = Without(PendingFor(None, None))

LEMMA CancelOnly ==
  ASSUME NEW ids, NEW notify, CancelQueries(ids, notify)
  PROVE  pending' = Without(ids) /\ pending' \subseteq pending
  BY DEF CancelQueries, Without

LEMMA PostedOnly ==
  ASSUME RunTask
  PROVE  OnlyCancels
<1>1. UNCHANGED handlers
  BY DEF RunTask
<1>2. ASSUME NEW t, CancelPendingFor(t.browser, t.handler, TRUE)
      PROVE  pending' \subseteq pending
  BY <1>2, CancelOnly DEF CancelPendingFor
<1>3. ASSUME NEW t, RunAnswer(t)
      PROVE  pending' \subseteq pending
  BY <1>3 DEF RunAnswer, Complete, Without
<1> QED
  BY <1>1, <1>2, <1>3 DEF RunTask, OnlyCancels

LEMMA OwnerSteps ==
  ASSUME RouterInv, ~ReentrantRemove, [Next]_vars
  PROVE  OnlyCancels \/ TakesQuery \/ LosesHandler
<1>1. CASE JavaScript
  BY <1>1 DEF JavaScript, Query, CancelQuery, routerVars, OnlyCancels
<1>2. CASE Client
  <2>1. ASSUME NEW id \in QueryIds, Success(id) \/ Failure(id)
        PROVE  OnlyCancels
    BY <2>1 DEF Success, Failure, OnlyCancels
  <2>2. ASSUME NEW h \in Handlers, AddHandler(h)
        PROVE  OnlyCancels
    BY <2>2 DEF AddHandler, OnlyCancels
  <2>3. ASSUME NEW h \in Handlers, RemoveHandler(h)
        PROVE  LosesHandler
    <3>1. pending' = Without(PendingFor(None, h))
      BY <2>3 DEF RemoveHandler, CancelPendingFor, CancelQueries
    <3> QED
      BY <2>3, <3>1 DEF RemoveHandler, LosesHandler
  <2>4. ASSUME NEW b \in Browsers \cup {None}, NEW h \in Handlers \cup {None},
               CancelPending(b, h) \/ PostCancelPending(b, h)
        PROVE  OnlyCancels
    BY <2>4, CancelOnly DEF CancelPending, PostCancelPending, CancelPendingFor, OnlyCancels
  <2> QED
    BY <1>2, <2>1, <2>2, <2>3, <2>4 DEF Client
<1>3. CASE Content
  <2>1. ASSUME NEW b \in Browsers, OnBeforeBrowse(b) \/ NavigationEnds(b)
        PROVE  OnlyCancels
    BY <2>1, CancelOnly
      DEF OnBeforeBrowse, NavigationEnds, CancelPendingFor, routerVars, OnlyCancels
  <2>2. ASSUME NEW b \in Browsers, Close(b)
        PROVE  OnlyCancels \/ LosesHandler
    BY <2>2, CancelOnly DEF Close, CancelPendingFor, OnlyCancels, LosesHandler
  <2>3. ASSUME NEW c \in Contexts,
               Commit(c) \/ SubFrameCreated(c) \/ Release(c) \/ FrameDeleted(c)
        PROVE  OnlyCancels
    BY <2>3 DEF Commit, SubFrameCreated, Release, ContextReleased, FrameDeleted, routerVars,
      OnlyCancels
  <2>4. ASSUME NEW p \in Procs, RenderProcessGone(p)
        PROVE  OnlyCancels
    BY <2>4, CancelOnly DEF RenderProcessGone, OnlyCancels
  <2> QED
    BY <1>3, <2>1, <2>2, <2>3, <2>4 DEF Content
<1>4. ASSUME NEW c \in Contexts, OnProcessMessageReceived(c)
      PROVE  OnlyCancels \/ TakesQuery
  <2> DEFINE m == Head(up[c])
  <2>1. CASE DeclineQuery(c, m)
    BY <2>1 DEF DeclineQuery, OnlyCancels
  <2>2. CASE CancelQueries(RequestsPending(BrowserOf[c], m.cid, m.rid), FALSE)
             /\ UNCHANGED handlers
    BY <2>2, CancelOnly DEF OnlyCancels
  <2>3. ASSUME NEW h \in Handlers, HandleQuery(c, m, h)
        PROVE  TakesQuery
    <3>1. /\ h \in handlers /\ pending' = pending \cup {NewInfo(c, m, h)}
          /\ UNCHANGED handlers
      BY <2>3 DEF HandleQuery
    <3>2. up[c] # <<>> /\ UNCHANGED <<rendererVars, contentVars>>
          /\ up' = [up EXCEPT ![c] = Tail(@)]
      BY <1>4 DEF OnProcessMessageReceived
    <3>3. \A d \in Contexts : up'[d] # <<>> => up[d] # <<>>
      BY <3>2, InvIsParts DEF UpTypes
    <3> QED
      BY <3>1, <3>2, <3>3 DEF TakesQuery, rendererVars
  <2>4. ASSUME NEW h \in Handlers
        PROVE  ~HandleAndLeave(c, m, h)
    BY DEF HandleAndLeave
  <2> QED
    BY <1>4, <2>1, <2>2, <2>3, <2>4 DEF OnProcessMessageReceived
<1>5. ASSUME NEW c \in Contexts, RendererReceives(c)
      PROVE  OnlyCancels
  BY <1>5 DEF RendererReceives, routerVars, OnlyCancels
<1>6. CASE RunTask
  BY <1>6, PostedOnly
<1>7. CASE UNCHANGED vars
  BY <1>7 DEF vars, routerVars, OnlyCancels
<1> QED
  BY <1>1, <1>2, <1>3, <1>4, <1>5, <1>6, <1>7 DEF Next, Delivery

LEMMA RemovedOwnsNothingKept ==
  ASSUME RouterInv, ~ReentrantRemove, RemovedHandlerOwnsNothing, [Next]_vars
  PROVE  RemovedHandlerOwnsNothing'
<1>1. CASE OnlyCancels
  BY <1>1 DEF OnlyCancels, RemovedHandlerOwnsNothing
<1>2. CASE TakesQuery
  BY <1>2 DEF TakesQuery, NewInfo, RemovedHandlerOwnsNothing
<1>3. ASSUME NEW h \in Handlers,
             handlers' = handlers \ {h}, pending' = Without(PendingFor(None, h))
      PROVE  RemovedHandlerOwnsNothing'
  <2>1. \A info \in pending' : info \in pending /\ info.handler # h
    BY <1>3 DEF Without, PendingFor, Ids
  <2> QED
    BY <1>3, <2>1 DEF RemovedHandlerOwnsNothing
<1>4. CASE pending' = Without(PendingFor(None, None))
  <2>1. pending' = {}
    BY <1>4 DEF Without, PendingFor, Ids
  <2> QED
    BY <2>1 DEF RemovedHandlerOwnsNothing
<1> QED
  BY <1>1, <1>2, <1>3, <1>4, OwnerSteps DEF LosesHandler

\* What may happen to browsers that are not closed by the step.
LEMMA QuietSteps ==
  ASSUME RouterInv, RouterToldOfClose, ClosedIsQuiet, UNCHANGED closed,
         OnlyCancels \/ LosesHandler,
         \A b \in nav' : b \in nav \/ b \notin closed,
         \A c \in Contexts :
           c \in valid' \/ up'[c] # <<>> \/ life'[c] = "live" =>
             c \in valid \/ up[c] # <<>> \/ life[c] = "live" \/ BrowserOf[c] \notin closed
  PROVE  ClosedIsQuiet'
<1>1. pending' \subseteq pending
  BY DEF OnlyCancels, LosesHandler, Without
<1>2. ClosedBrowserOwnsNothing'
  BY <1>1 DEF ClosedIsQuiet, ClosedBrowserOwnsNothing
<1> QED
  BY <1>2 DEF ClosedIsQuiet

LEMMA ClosedIsQuietKept ==
  ASSUME RouterInv, RouterToldOfClose, ~ReentrantRemove, ClosedIsQuiet, [Next]_vars
  PROVE  ClosedIsQuiet'
<1> DEFINE Stays == \A c \in Contexts :
             c \in valid' \/ up'[c] # <<>> \/ life'[c] = "live" =>
               c \in valid \/ up[c] # <<>> \/ life[c] = "live" \/ BrowserOf[c] \notin closed
<1>1. /\ OnlyCancels \/ TakesQuery \/ LosesHandler
      /\ RendererTypes /\ ContentTypes /\ UpTypes
  BY OwnerSteps, InvIsParts
<1>2. CASE TakesQuery
  <2>1. PICK c \in Contexts, h \in handlers :
          /\ up[c] # <<>> /\ pending' = pending \cup {NewInfo(c, Head(up[c]), h)}
    BY <1>2 DEF TakesQuery
  <2>2. BrowserOf[c] \notin closed /\ NewInfo(c, Head(up[c]), h).context = c
    BY <2>1 DEF ClosedIsQuiet, NewInfo
  <2>3. UNCHANGED <<nav, closed, valid, life>>
        /\ \A d \in Contexts : up'[d] # <<>> => up[d] # <<>>
    BY <1>2 DEF TakesQuery, contentVars
  <2> QED
    BY <2>1, <2>2, <2>3 DEF ClosedIsQuiet, ClosedBrowserOwnsNothing
<1>3. CASE JavaScript
  <2>1. ASSUME NEW c \in Contexts, NEW m, ToBrowser(c, m) \/ UNCHANGED up
        PROVE  \A d \in Contexts : up'[d] # <<>> => up[d] # <<>> \/ d \in valid
    BY <1>1, <2>1 DEF ToBrowser, UpTypes
  <2>2. \A d \in Contexts : up'[d] # <<>> => up[d] # <<>> \/ d \in valid
    BY <1>3, <2>1 DEF JavaScript, Query, CancelQuery, SendCancel
  <2>3. UNCHANGED <<nav, closed, valid, life, pending, handlers>>
    BY <1>3 DEF JavaScript, Query, CancelQuery, contentVars, routerVars
  <2> QED
    BY <2>2, <2>3, QuietSteps DEF OnlyCancels
<1>4. CASE Client \/ RunTask \/ UNCHANGED vars
  <2>1. UNCHANGED <<nav, closed, valid, life, up>>
    BY <1>4 DEF Client, Success, Failure, AddHandler, RemoveHandler, CancelPending,
      PostCancelPending, RunTask, vars, contentVars, rendererVars
  <2> QED
    BY <1>1, <1>2, <2>1, QuietSteps
<1>5. ASSUME NEW b \in Browsers, OnBeforeBrowse(b) \/ NavigationEnds(b)
      PROVE  ClosedIsQuiet'
  <2>1. UNCHANGED <<closed, valid, life, up>> /\ \A d \in nav' : d \in nav \/ d \notin closed
    BY <1>5 DEF OnBeforeBrowse, NavigationEnds, contentVars, rendererVars
  <2> QED
    BY <1>1, <1>2, <2>1, QuietSteps
<1>6. ASSUME NEW b \in Browsers, Close(b)
      PROVE  ClosedIsQuiet'
  <2>1. closed' = closed \cup {b} /\ nav' = nav \ {b}
    BY <1>6 DEF Close
  <2>2. pending' = Without(PendingFor(b, None))
    BY <1>6 DEF Close, CancelPendingFor, CancelQueries
  <2>3. \A info \in pending' : info \in pending /\ BrowserOf[info.context] # b
    BY <2>2 DEF Without, PendingFor, Ids
  <2>4. ClosedBrowserOwnsNothing'
    BY <2>1, <2>3 DEF ClosedIsQuiet, ClosedBrowserOwnsNothing
  <2>5. \A c \in Contexts : c \in valid' \/ up'[c] # <<>> \/ life'[c] = "live" =>
          BrowserOf[c] # b /\ (c \in valid \/ up[c] # <<>> \/ life[c] = "live")
    BY <1>6 DEF Close
  <2> QED
    BY <2>1, <2>4, <2>5 DEF ClosedIsQuiet
<1>7. ASSUME NEW c \in Contexts, Commit(c)
      PROVE  ClosedIsQuiet'
  <2>1. BrowserOf[c] \notin closed /\ UNCHANGED closed /\ nav' \subseteq nav
    BY <1>7 DEF Commit, ClosedIsQuiet
  <2>2. Stays
    BY <1>7, <2>1 DEF Commit
  <2> QED
    BY <1>1, <1>2, <2>1, <2>2, QuietSteps
<1>8. ASSUME NEW c \in Contexts, SubFrameCreated(c)
      PROVE  ClosedIsQuiet'
  <2>1. BrowserOf[c] \notin closed
    <3>1. PageOf[c] \in Contexts /\ BrowserOf[PageOf[c]] = BrowserOf[c]
      BY RouterAssumption DEF RouterAssumption
    <3> QED
      BY <1>8, <3>1 DEF SubFrameCreated, ClosedIsQuiet
  <2>2. Stays /\ UNCHANGED <<closed, nav>>
    BY <1>1, <1>8, <2>1 DEF SubFrameCreated, RendererTypes
  <2> QED
    BY <1>1, <1>2, <2>2, QuietSteps
<1>9. ASSUME NEW c \in Contexts, Release(c) \/ FrameDeleted(c)
      PROVE  ClosedIsQuiet'
  <2>1. UNCHANGED <<closed, nav>> /\ valid' \subseteq valid
    BY <1>9 DEF Release, ContextReleased, FrameDeleted, contentVars
  <2>2. \A d \in Contexts : life'[d] = "live" => life[d] = "live"
    BY <1>1, <1>9 DEF Release, ContextReleased, FrameDeleted, rendererVars, RendererTypes
  <2>3. \A d \in Contexts : up'[d] # <<>> => up[d] # <<>> \/ d \in valid
    BY <1>1, <1>9
      DEF Release, ContextReleased, SendCancel, ToBrowser, FrameDeleted, UpTypes
  <2> QED
    BY <1>1, <1>2, <2>1, <2>2, <2>3, QuietSteps
<1>10. ASSUME NEW p \in Procs, RenderProcessGone(p)
       PROVE  ClosedIsQuiet'
  <2>1. Stays /\ UNCHANGED <<closed, nav>>
    BY <1>10 DEF RenderProcessGone
  <2> QED
    BY <1>1, <1>2, <2>1, QuietSteps
<1>11. ASSUME NEW c \in Contexts, OnProcessMessageReceived(c) \/ RendererReceives(c)
       PROVE  ClosedIsQuiet'
  <2>1. UNCHANGED <<nav, closed, valid>>
    BY <1>11 DEF OnProcessMessageReceived, RendererReceives, contentVars
  <2>2. UNCHANGED life
    BY <1>11 DEF OnProcessMessageReceived, RendererReceives, rendererVars
  <2>3. \A d \in Contexts : up'[d] # <<>> => up[d] # <<>>
    BY <1>1, <1>11 DEF OnProcessMessageReceived, RendererReceives, UpTypes
  <2> QED
    BY <1>1, <1>2, <2>1, <2>2, <2>3, QuietSteps
<1> QED
  BY <1>3, <1>4, <1>5, <1>6, <1>7, <1>8, <1>9, <1>10, <1>11 DEF Next, Content, Delivery

\* A callback works as long as its query is pending and no longer, for clients
\* of every kind.
THEOREM CallbacksMatchQueries == Spec => []CallbackMatchesQuery
<1>1. RouterInv => CallbackMatchesQuery
  BY DEF RouterInv
<1> QED
  BY <1>1, RouterCorrect, PTL

\* No handler that was removed is called, by a client that removes handlers
\* outside of OnQuery only.
THEOREM RemovedHandlersAreFree ==
  ASSUME ~ReentrantRemove
  PROVE  Spec => []RemovedHandlerOwnsNothing
<1>1. Init => RemovedHandlerOwnsNothing
  BY DEF Init, RemovedHandlerOwnsNothing
<1>2. RouterInv /\ RemovedHandlerOwnsNothing /\ [Next]_vars => RemovedHandlerOwnsNothing'
  BY RemovedOwnsNothingKept
<1> QED
  BY <1>1, <1>2, RouterCorrect, PTL DEF Spec

\* Every pending query has its callback, its handler and its browser, for a
\* client that keeps the documented rules: it tells the router of closed
\* browsers, and a handler does not remove itself inside OnQuery.
THEOREM QueriesStayOwned ==
  ASSUME RouterToldOfClose, ~ReentrantRemove
  PROVE  Spec => []QueriesHaveOwners
<1>1. Init => ClosedIsQuiet
  BY DEF Init, ClosedIsQuiet, ClosedBrowserOwnsNothing
<1>2. RouterInv /\ ClosedIsQuiet /\ [Next]_vars => ClosedIsQuiet'
  BY ClosedIsQuietKept
<1>3. RouterInv /\ ClosedIsQuiet /\ RemovedHandlerOwnsNothing => QueriesHaveOwners
  BY DEF RouterInv, ClosedIsQuiet, QueriesHaveOwners
<1> QED
  BY <1>1, <1>2, <1>3, RouterCorrect, RemovedHandlersAreFree, PTL DEF Spec

-----------------------------------------------------------------------------
(* Requests of pages and queries of handlers fit each other, whatever the   *)
(* order in which answers, cancellations and the ends of frames meet.        *)

\* The messages on their way to the renderer; their order does not matter.
Downs(c) == {down[c][i] : i \in 1 .. Len(down[c])}

LastReq(c)     == lastReq[ProcOf[c]]
IsQuery(c, i)  == up[c][i].type = "query"
IsCancel(c, i) == up[c][i].type = "cancel"

ContextsAreNumbered ==
  /\ \A c \in Contexts : ctxId[c] < NextContextId(ProcOf[c])
  /\ \A c, d \in Contexts :
       ProcOf[c] = ProcOf[d] /\ ctxId[c] = ctxId[d] /\ ctxId[c] # Reserved => c = d
  /\ \A c \in Contexts : life[c] = "none" => ctxId[c] = Reserved

FramesFit ==
  /\ \A c \in Contexts : up[c] # <<>> => c \in valid
  /\ \A c \in Contexts : life[c] = "live" => c \in valid
  /\ \A c \in valid : life[c] # "none"
  /\ \A b \in Browsers : page[b] # None => BrowserOf[page[b]] = b
  /\ \A c \in Contexts : life[c] = "live" => page[BrowserOf[c]] = PageOf[c]

SentNamesContext ==
  \A c \in Contexts : \A i \in 1 .. Len(up[c]) :
    up[c][i].cid = ctxId[c] /\ up[c][i].rid <= LastReq(c)

AnswersNameContext ==
  \A c \in Contexts : \A m \in Downs(c) : m.cid = ctxId[c] /\ m.rid <= LastReq(c)

QueriesNameContext ==
  \A info \in pending : info.cid = ctxId[info.context] /\ info.rid <= LastReq(info.context)

RequestsNameContext ==
  \A r \in open : ctxId[r.context] # Reserved /\ r.rid <= LastReq(r.context)

RequestsAreUnique ==
  \A r, s \in open : r.context = s.context /\ r.rid = s.rid => r = s

QueriesAreUnique ==
  \A x, y \in pending : x.context = y.context /\ x.rid = y.rid => x = y

SentAreUnique ==
  \A c \in Contexts : \A i, j \in 1 .. Len(up[c]) :
    IsQuery(c, i) /\ IsQuery(c, j) /\ up[c][i].rid = up[c][j].rid => i = j

\* A query that was not received has no query and no answer.
SentIsNew ==
  \A c \in Contexts : \A i \in 1 .. Len(up[c]) : IsQuery(c, i) =>
    /\ \A info \in pending : info.context = c => info.rid # up[c][i].rid
    /\ \A m \in Downs(c) : m.rid # up[c][i].rid

\* A query that is still pending has had answers that do not end it only.
AnswersEndQueries ==
  \A info \in pending : \A m \in Downs(info.context) :
    m.rid = info.rid => m.result = "success" /\ info.persistent

PersistenceAgrees ==
  \A r \in open :
    /\ \A info \in pending : info.context = r.context /\ info.rid = r.rid =>
         info.persistent = r.persistent
    /\ \A i \in 1 .. Len(up[r.context]) :
         IsQuery(r.context, i) /\ up[r.context][i].rid = r.rid =>
           up[r.context][i].persistent = r.persistent

\* What was canceled is not asked for any more.
CancelsAreFinal ==
  /\ \A r \in open : Running(r.context)
  /\ \A r \in open : \A i \in 1 .. Len(up[r.context]) :
       IsCancel(r.context, i) => up[r.context][i].rid # r.rid
  /\ \A c \in Contexts : \A i \in 1 .. Len(up[c]) :
       IsCancel(c, i) /\ up[c][i].rid = Reserved => ~Running(c)

\* The page gives up a query only with a cancellation behind it.
SentIsAskedOrCanceled ==
  \A c \in Contexts : \A i \in 1 .. Len(up[c]) : IsQuery(c, i) =>
    \/ \E r \in open : r.context = c /\ r.rid = up[c][i].rid
    \/ \E j \in 1 .. Len(up[c]) :
         i < j /\ IsCancel(c, j) /\ up[c][j].rid \in {Reserved, up[c][i].rid}

\* The query was not received, is pending, or what ends it is on the way.
Expected(r) ==
  \/ \E i \in 1 .. Len(up[r.context]) :
       IsQuery(r.context, i) /\ up[r.context][i].rid = r.rid
  \/ \E info \in pending : info.context = r.context /\ info.rid = r.rid
  \/ \E m \in Downs(r.context) : FinalAnswer(m, r)

CancelSent(info) ==
  \E i \in 1 .. Len(up[info.context]) :
    IsCancel(info.context, i) /\ up[info.context][i].rid \in {Reserved, info.rid}

Excused(r) == <<r.context, r.rid>> \in dropped \/ HasTwin(r.context)

NoneForgotten ==
  \A r \in open : life[r.context] = "live" => Expected(r) \/ Excused(r)

NoneUnasked ==
  \A info \in pending :
    info.context \in valid => Asked(info) \/ CancelSent(info) \/ HasTwin(info.context)

Names  == SentNamesContext /\ AnswersNameContext /\ QueriesNameContext /\ RequestsNameContext
Unique == RequestsAreUnique /\ QueriesAreUnique /\ SentAreUnique
Rules  == SentIsNew /\ AnswersEndQueries /\ PersistenceAgrees /\ CancelsAreFinal
           /\ SentIsAskedOrCanceled
Goals  == NoneForgotten /\ NoneUnasked

RequestInv == ContextsAreNumbered /\ FramesFit /\ Names /\ Unique /\ Rules /\ Goals

-----------------------------------------------------------------------------
(* Types *)

LEMMA StateTypes ==
  ASSUME RouterInv
  PROVE  /\ life \in [Contexts -> {"none", "live", "leaving", "released", "dead"}]
         /\ ctxId \in [Contexts -> Nat] /\ lastReq \in [Procs -> 0 .. MaxQuery]
         /\ \A r \in open : r.context \in Contexts /\ r.rid \in 1 .. MaxQuery
                             /\ r.persistent \in BOOLEAN
         /\ \A info \in pending :
              /\ info.id \in Nat \ {0} /\ info.context \in Contexts
              /\ info.cid \in Nat \ {Reserved} /\ info.rid \in 1 .. MaxQuery
              /\ info.persistent \in BOOLEAN
         /\ up \in [Contexts -> Seq(Upward)] /\ down \in [Contexts -> Seq(Downward)]
         /\ page \in [Browsers -> Mains \cup {None}]
         /\ valid \subseteq Contexts /\ nav \subseteq Browsers
         /\ MaxQuery \in Nat
  BY InvIsParts, RouterAssumption DEF QueryInv, RendererTypes, ContentTypes, UpTypes, DownTypes,
    TableTypes, Request, QueryInfo, RouterAssumption

LEMMA SentTypes ==
  ASSUME RouterInv, NEW c \in Contexts
  PROVE  /\ Len(up[c]) \in Nat /\ ProcOf[c] \in Procs /\ BrowserOf[c] \in Browsers
         /\ LastReq(c) \in 0 .. MaxQuery
         /\ \A i \in 1 .. Len(up[c]) :
              /\ up[c][i] \in Upward
              /\ up[c][i].cid \in Nat \ {Reserved} /\ up[c][i].rid \in 0 .. MaxQuery
              /\ IsQuery(c, i) \/ IsCancel(c, i)
              /\ ~(IsQuery(c, i) /\ IsCancel(c, i))
              /\ IsQuery(c, i) => up[c][i].rid # Reserved /\ up[c][i].persistent \in BOOLEAN
<1>1. up[c] \in Seq(Upward)
  BY StateTypes
<1>2. Len(up[c]) \in Nat /\ \A i \in 1 .. Len(up[c]) : up[c][i] \in Upward
  BY <1>1, LenProperties, ElementOfSeq
<1>3. ProcOf[c] \in Procs /\ BrowserOf[c] \in Browsers /\ LastReq(c) \in 0 .. MaxQuery
  BY StateTypes DEF Procs, Browsers, LastReq
<1>4. \A m \in Upward :
        /\ m.cid \in Nat \ {Reserved} /\ m.rid \in 0 .. MaxQuery
        /\ m.type = "query" \/ m.type = "cancel"
        /\ m.type = "query" => m.rid # Reserved /\ m.persistent \in BOOLEAN
  BY StateTypes DEF Upward, Reserved
<1> QED
  BY <1>2, <1>3, <1>4 DEF IsQuery, IsCancel

LEMMA AnswerTypes ==
  ASSUME RouterInv, NEW c \in Contexts
  PROVE  /\ Len(down[c]) \in Nat
         /\ \A m \in Downs(c) :
              /\ m \in Downward
              /\ m.cid \in Nat \ {Reserved} /\ m.rid \in 1 .. MaxQuery
<1>1. down[c] \in Seq(Downward)
  BY StateTypes
<1>2. Len(down[c]) \in Nat /\ \A i \in 1 .. Len(down[c]) : down[c][i] \in Downward
  BY <1>1, LenProperties, ElementOfSeq
<1>3. \A m \in Downs(c) : m \in Downward
  BY <1>2 DEF Downs
<1> QED
  BY <1>2, <1>3 DEF Downward

\* Contexts keep their ids, so a twin stays one.
LEMMA TwinsStay ==
  ASSUME NEW c \in Contexts, HasTwin(c),
         \A d \in Contexts : ctxId[d] # Reserved => ctxId'[d] = ctxId[d]
  PROVE  HasTwin(c)'
<1>1. PICK d \in Contexts : Twins(c, d)
  BY DEF HasTwin
<1>2. Twins(c, d)'
  BY <1>1 DEF Twins
<1> QED
  BY <1>2 DEF HasTwin

-----------------------------------------------------------------------------
(* Sequences of messages *)

LEMMA RestOfMessages ==
  ASSUME NEW S, NEW s \in Seq(S), s # <<>>
  PROVE  /\ Len(s) \in Nat /\ 1 \in 1 .. Len(s) /\ Head(s) = s[1]
         /\ Tail(s) \in Seq(S) /\ Len(Tail(s)) = Len(s) - 1
         /\ \A i \in 1 .. Len(Tail(s)) : i + 1 \in 1 .. Len(s) /\ Tail(s)[i] = s[i + 1]
         /\ \A i \in 1 .. Len(s) :
              i = 1 \/ (i - 1 \in 1 .. Len(Tail(s)) /\ Tail(s)[i - 1] = s[i])
<1>1. /\ Len(s) \in Nat /\ 1 \in 1 .. Len(s) /\ Head(s) = s[1]
      /\ Tail(s) \in Seq(S)
      /\ \A i \in 1 .. Len(Tail(s)) : i + 1 \in 1 .. Len(s) /\ Tail(s)[i] = s[i + 1]
  BY FirstAndRest, LenProperties
<1>2. Len(Tail(s)) = Len(s) - 1
  BY HeadTailProperties
<1>3. \A i \in 1 .. Len(s) : i = 1 \/ i - 1 \in 1 .. Len(Tail(s))
  BY <1>1, <1>2
<1>4. \A i \in 1 .. Len(s) : i = 1 \/ Tail(s)[i - 1] = s[i]
  BY <1>1, <1>3
<1> QED
  BY <1>1, <1>2, <1>3, <1>4

LEMMA MessageSent ==
  ASSUME UpTypes, NEW c \in Contexts, NEW m \in Upward, c \in valid, ToBrowser(c, m)
  PROVE  /\ Len(up'[c]) = Len(up[c]) + 1 /\ Len(up[c]) \in Nat
         /\ \A i \in 1 .. Len(up[c]) : up'[c][i] = up[c][i]
         /\ up'[c][Len(up[c]) + 1] = m
         /\ \A d \in Contexts : d # c => up'[d] = up[d]
<1>1. up[c] \in Seq(Upward) /\ up'[c] = Append(up[c], m)
      /\ \A d \in Contexts : d # c => up'[d] = up[d]
  BY DEF UpTypes, ToBrowser
<1> QED
  BY <1>1, Appended, LenProperties

LEMMA MessageArrived ==
  ASSUME UpTypes, NEW c \in Contexts, up[c] # <<>>, up' = [up EXCEPT ![c] = Tail(@)]
  PROVE  /\ Len(up[c]) \in Nat /\ 1 \in 1 .. Len(up[c]) /\ Head(up[c]) = up[c][1]
         /\ Len(up'[c]) = Len(up[c]) - 1
         /\ \A i \in 1 .. Len(up'[c]) : i + 1 \in 1 .. Len(up[c]) /\ up'[c][i] = up[c][i + 1]
         /\ \A d \in Contexts : d # c => up'[d] = up[d]
<1> DEFINE s == up[c]
<1>1. s \in Seq(Upward) /\ s # <<>> /\ up'[c] = Tail(s)
      /\ \A d \in Contexts : d # c => up'[d] = up[d]
  BY DEF UpTypes
<1> HIDE DEF s
<1>2. /\ Len(s) \in Nat /\ 1 \in 1 .. Len(s) /\ Head(s) = s[1]
      /\ Len(Tail(s)) = Len(s) - 1
      /\ \A i \in 1 .. Len(Tail(s)) : i + 1 \in 1 .. Len(s) /\ Tail(s)[i] = s[i + 1]
  BY <1>1, RestOfMessages
<1> QED
  BY <1>1, <1>2 DEF s

LEMMA AnswerArrived ==
  ASSUME DownTypes, NEW c \in Contexts, down[c] # <<>>, down' = [down EXCEPT ![c] = Tail(@)]
  PROVE  /\ Head(down[c]) \in Downs(c)
         /\ \A d \in Contexts : Downs(d)' \subseteq Downs(d)
         /\ \A d \in Contexts : \A m \in Downs(d) :
              m \in Downs(d)' \/ (d = c /\ m = Head(down[c]))
<1> DEFINE s == down[c]
<1>1. s \in Seq(Downward) /\ s # <<>> /\ down'[c] = Tail(s)
      /\ \A d \in Contexts : d # c => down'[d] = down[d]
  BY DEF DownTypes
<1> HIDE DEF s
<1>2. /\ 1 \in 1 .. Len(s) /\ Head(s) = s[1]
      /\ \A i \in 1 .. Len(Tail(s)) : i + 1 \in 1 .. Len(s) /\ Tail(s)[i] = s[i + 1]
      /\ \A i \in 1 .. Len(s) :
           i = 1 \/ (i - 1 \in 1 .. Len(Tail(s)) /\ Tail(s)[i - 1] = s[i])
  BY <1>1, RestOfMessages
<1> USE DEF s
<1>3. Head(down[c]) \in Downs(c) /\ Downs(c)' \subseteq Downs(c)
  BY <1>1, <1>2 DEF Downs
<1>4. ASSUME NEW m \in Downs(c)
      PROVE  m \in Downs(c)' \/ m = Head(down[c])
  <2>1. PICK i \in 1 .. Len(down[c]) : m = down[c][i]
    BY DEF Downs
  <2> QED
    BY <1>1, <1>2, <2>1 DEF Downs
<1>5. \A d \in Contexts : d # c => Downs(d)' = Downs(d)
  BY <1>1 DEF Downs
<1> QED
  BY <1>3, <1>4, <1>5

LEMMA AnswerSent ==
  ASSUME DownTypes, NEW c \in Contexts, NEW m \in Downward, down' = SendToRenderer(c, m)
  PROVE  /\ \A d \in Contexts : Downs(d) \subseteq Downs(d)'
         /\ \A d \in Contexts : \A n \in Downs(d)' : n \in Downs(d) \/ (d = c /\ n = m)
         /\ c \in valid => m \in Downs(c)'
<1>1. CASE c \notin valid
  BY <1>1 DEF SendToRenderer, Downs
<1>2. CASE c \in valid
  <2>1. down[c] \in Seq(Downward) /\ down'[c] = Append(down[c], m)
        /\ \A d \in Contexts : d # c => down'[d] = down[d]
    BY <1>2 DEF DownTypes, SendToRenderer
  <2>2. /\ Len(down'[c]) = Len(down[c]) + 1 /\ Len(down[c]) \in Nat
        /\ \A i \in 1 .. Len(down[c]) : down'[c][i] = down[c][i]
        /\ down'[c][Len(down[c]) + 1] = m
    BY <2>1, Appended, LenProperties
  <2>3. /\ \A i \in 1 .. Len(down[c]) : i \in 1 .. Len(down'[c])
        /\ Len(down[c]) + 1 \in 1 .. Len(down'[c])
        /\ \A i \in 1 .. Len(down'[c]) : i \in 1 .. Len(down[c]) \/ i = Len(down[c]) + 1
    BY <2>2
  <2>4. Downs(c) \subseteq Downs(c)' /\ m \in Downs(c)'
        /\ \A n \in Downs(c)' : n \in Downs(c) \/ n = m
    BY <2>2, <2>3 DEF Downs
  <2>5. \A d \in Contexts : d # c => Downs(d)' = Downs(d)
    BY <2>1 DEF Downs
  <2> QED
    BY <2>4, <2>5
<1> QED
  BY <1>1, <1>2

-----------------------------------------------------------------------------
(* Contexts, their requests and their queries *)

LEMMA NumbersAreFinite ==
  ASSUME RouterInv, NEW p
  PROVE  /\ IsFiniteSet({d \in Contexts : ProcOf[d] = p /\ ctxId[d] # Reserved})
         /\ NextContextId(p) \in Nat \ {0}
<1>1. IsFiniteSet({d \in Contexts : ProcOf[d] = p /\ ctxId[d] # Reserved})
  BY RouterAssumption, FS_Subset DEF RouterAssumption
<1> QED
  BY <1>1, FS_CardinalityType DEF NextContextId

\* A context that gets its number gets one no other context of its process has.
LEMMA ContextNumbered ==
  ASSUME RouterInv, ContextsAreNumbered, NEW c \in Contexts, life[c] # "none",
         ctxId' = [ctxId EXCEPT ![c] = GetIDForContext(c)],
         \A d \in Contexts : life'[d] = "none" => life[d] = "none"
  PROVE  /\ ContextsAreNumbered'
         /\ ctxId'[c] = GetIDForContext(c) /\ ctxId'[c] # Reserved
         /\ \A d \in Contexts : ctxId[d] # Reserved => ctxId'[d] = ctxId[d]
         /\ \A d \in Contexts : d # c => ctxId'[d] = ctxId[d]
<1>1. ctxId \in [Contexts -> Nat] /\ GetIDForContext(c) \in Nat \ {Reserved}
      /\ Reserved = 0
  BY StateTypes, InvIsParts, ContextIds DEF Reserved
<1>2. /\ ctxId'[c] = GetIDForContext(c) /\ ctxId'[c] # Reserved
      /\ \A d \in Contexts : ctxId[d] # Reserved => ctxId'[d] = ctxId[d]
      /\ \A d \in Contexts : d # c => ctxId'[d] = ctxId[d]
  BY <1>1 DEF GetIDForContext
<1>3. CASE ctxId[c] # Reserved
  <2>1. ctxId' = ctxId
    BY <1>1, <1>3 DEF GetIDForContext
  <2>2. \A p : NextContextId(p)' = NextContextId(p)
    BY <2>1 DEF NextContextId
  <2> QED
    BY <1>2, <2>1, <2>2 DEF ContextsAreNumbered
<1>4. CASE ctxId[c] = Reserved
  <2> DEFINE q == ProcOf[c]
             Used(p) == {d \in Contexts : ProcOf[d] = p /\ ctxId[d] # Reserved}
             Uses(p) == {d \in Contexts : ProcOf[d] = p /\ ctxId'[d] # Reserved}
  <2>1. \A p : p # q => Uses(p) = Used(p)
    BY <1>2
  <2>2. Uses(q) = Used(q) \cup {c} /\ c \notin Used(q)
    BY <1>2, <1>4
  <2>3. \A p : /\ IsFiniteSet(Used(p)) /\ NextContextId(p) \in Nat
               /\ NextContextId(p) = 1 + Cardinality(Used(p))
               /\ NextContextId(p)' = 1 + Cardinality(Uses(p))
               /\ Cardinality(Used(p)) \in Nat
    BY NumbersAreFinite, FS_CardinalityType DEF NextContextId
  <2> HIDE DEF Used, Uses
  <2>4. NextContextId(q)' = NextContextId(q) + 1
    <3>1. IsFiniteSet(Used(q))
      BY <2>3
    <3>2. Cardinality(Uses(q)) = Cardinality(Used(q)) + 1
      BY <2>2, <3>1, FS_AddElement
    <3> QED
      BY <2>3, <3>2
  <2>5. \A p : p # q => NextContextId(p)' = NextContextId(p)
    BY <2>1, <2>3
  <2>6. ctxId'[c] = NextContextId(q)
    BY <1>2, <1>4 DEF GetIDForContext
  <2>7. \A d \in Contexts : ctxId'[d] < NextContextId(ProcOf[d])'
    <3>1. \A d \in Contexts : ctxId[d] < NextContextId(ProcOf[d]) /\ ctxId[d] \in Nat
      BY <1>1 DEF ContextsAreNumbered
    <3> QED
      BY <1>2, <2>3, <2>4, <2>5, <2>6, <3>1
  <2>8. ASSUME NEW d \in Contexts, NEW e \in Contexts,
               ProcOf[d] = ProcOf[e], ctxId'[d] = ctxId'[e], ctxId'[d] # Reserved
        PROVE  d = e
    <3>1. \A x \in Contexts : x # c /\ ProcOf[x] = q => ctxId'[x] # ctxId'[c]
      BY <1>1, <1>2, <2>3, <2>6 DEF ContextsAreNumbered
    <3> QED
      BY <1>2, <2>8, <3>1 DEF ContextsAreNumbered
  <2> QED
    BY <1>2, <2>7, <2>8 DEF ContextsAreNumbered
<1> QED
  BY <1>2, <1>3, <1>4

\* The requests of a context with this id, or all of them.
Own(c, rid) == {r \in open : r.context = c /\ rid \in {Reserved, r.rid}}

LEMMA RequestsAreOwn ==
  ASSUME RouterInv, ContextsAreNumbered, RequestsNameContext, NEW c \in Contexts, NEW rid
  PROVE  Requests(c, GetIDForContext(c), rid) = Own(c, rid)
<1>1. ASSUME NEW r \in open, ProcOf[r.context] = ProcOf[c], ctxId[r.context] = GetIDForContext(c)
      PROVE  r.context = c
  <2>1. r.context \in Contexts /\ ctxId[r.context] # Reserved
    BY StateTypes DEF RequestsNameContext
  <2>2. ctxId[r.context] < NextContextId(ProcOf[c]) /\ ctxId[r.context] \in Nat
    BY <1>1, <2>1, StateTypes DEF ContextsAreNumbered
  <2>3. ctxId[c] # Reserved
    BY <1>1, <2>2, NumbersAreFinite DEF GetIDForContext
  <2> QED
    BY <1>1, <2>1, <2>3 DEF GetIDForContext, ContextsAreNumbered
<1>2. \A r \in open : r.context = c => ctxId[r.context] = GetIDForContext(c)
  BY DEF RequestsNameContext, GetIDForContext
<1> QED
  BY <1>1, <1>2 DEF Requests, Own

\* What a cancellation from a context ends: its queries with the id, or all, and
\* those of its twins.
LEMMA CanceledAreOwn ==
  ASSUME RouterInv, ContextsAreNumbered, QueriesNameContext, QueriesAreUnique,
         NEW c \in Contexts, NEW rid \in 0 .. MaxQuery, ctxId[c] # Reserved
  PROVE  \A info \in pending :
           LET canceled == info.id \in RequestsPending(BrowserOf[c], ctxId[c], rid)
           IN  /\ canceled => info.context = c \/ Twins(c, info.context)
               /\ canceled => rid \in {Reserved, info.rid}
               /\ ~HasTwin(c) /\ info.context = c /\ rid \in {Reserved, info.rid} => canceled
<1> DEFINE same == Ids({info \in pending : /\ BrowserOf[info.context] = BrowserOf[c]
                                           /\ info.cid = ctxId[c]
                                           /\ rid \in {Reserved, info.rid}})
<1>1. \A info \in pending : BrowserOf[info.context] = BrowserOf[c] /\ info.cid = ctxId[c]
                              <=> info.context = c \/ Twins(c, info.context)
  <2>1. \A info \in pending : info.context \in Contexts /\ info.cid = ctxId[info.context]
    BY StateTypes DEF QueriesNameContext
  <2> QED
    BY <2>1 DEF ContextsAreNumbered, Twins
<1>2. \A x, y \in pending : x.id = y.id => x = y
  BY DEF RouterInv, IdsAreOwn
<1>3. \A info \in pending :
        info.id \in same <=> /\ info.context = c \/ Twins(c, info.context)
                             /\ rid \in {Reserved, info.rid}
  BY <1>1, <1>2 DEF Ids
<1>4. RequestsPending(BrowserOf[c], ctxId[c], rid)
        = IF rid = Reserved THEN same ELSE {i \in same : \A j \in same : i <= j}
  BY DEF RequestsPending, Found
<1>5. ASSUME rid # Reserved, ~HasTwin(c)
      PROVE  \A i \in same : \A j \in same : i <= j
  <2>1. ASSUME NEW x \in pending, NEW y \in pending, x.id \in same, y.id \in same
        PROVE  x.id <= y.id
    <3>1. x.context \in Contexts /\ y.context \in Contexts
      BY StateTypes
    <3>2. x.context = y.context /\ x.rid = y.rid
      BY <1>3, <1>5, <2>1, <3>1 DEF HasTwin
    <3>3. x = y /\ x.id \in Nat
      BY <3>2, StateTypes DEF QueriesAreUnique
    <3> QED
      BY <3>3
  <2>2. \A i \in same : \E x \in pending : i = x.id
    BY DEF Ids
  <2> HIDE DEF same
  <2> QED
    BY <2>1, <2>2
<1> HIDE DEF same
<1> QED
  BY <1>3, <1>4, <1>5

-----------------------------------------------------------------------------
(* Notices reach everyone they are for. *)

LEMMA SortedIsComplete ==
  ASSUME NEW I \in SUBSET Nat, IsFiniteSet(I)
  PROVE  \A x \in I : \E k \in 1 .. Cardinality(I) : Sorted(I)[k] = x
<1> DEFINE n == Cardinality(I)
           s == Sorted(I)
<1>1. \E t \in [1 .. Cardinality(I) -> I] :
        \A i, j \in 1 .. Cardinality(I) : i < j => t[i] < t[j]
  BY IncreasingExists DEF Increasing
<1>2. s \in [1 .. n -> I] /\ \A i, j \in 1 .. n : i < j => s[i] < s[j]
  BY <1>1 DEF Sorted
<1>3. n \in Nat
  BY FS_CardinalityType
<1> HIDE DEF s, n
<1>4. \A i, j \in 1 .. n : s[i] = s[j] => i = j
  <2>1. ASSUME NEW i \in 1 .. n, NEW j \in 1 .. n, s[i] = s[j], i # j
        PROVE  FALSE
    <3>1. i < j \/ j < i
      BY <1>3, <2>1
    <3>2. s[i] \in Nat /\ s[j] \in Nat
      BY <1>2
    <3> QED
      BY <1>2, <2>1, <3>1, <3>2
  <2> QED
    BY <2>1
<1>5. s \in Injection(1 .. n, I)
  BY <1>2, <1>4 DEF Injection, IsInjective
<1>6. Cardinality(1 .. n) = Cardinality(I)
  BY <1>3, FS_Interval DEF n
<1>7. s \in Surjection(1 .. n, I)
  BY <1>5, <1>6, FS_Injection
<1> QED
  BY <1>7 DEF Surjection, s, n

\* The notices to a context name the queries it loses, and nothing else.
LEMMA NoticesTell ==
  ASSUME RouterInv, NEW ids, NEW c
  PROVE  /\ Notices(ids, c) \in Seq(Downward)
         /\ \A k \in 1 .. Len(Notices(ids, c)) : \E info \in pending :
              /\ info.id \in ids /\ info.context = c
              /\ Notices(ids, c)[k] = Message(info, "canceled", 0)
         /\ \A info \in pending : info.id \in ids /\ info.context = c =>
              \E k \in 1 .. Len(Notices(ids, c)) :
                Notices(ids, c)[k] = Message(info, "canceled", 0)
<1> DEFINE own == {info \in pending : info.id \in ids /\ info.context = c}
           gone == Sorted(Ids(own))
           of(k) == CHOOSE info \in pending : info.id = gone[k]
           n == Cardinality(Ids(own))
<1>1. TableTypes /\ IdsAreOwn
  BY InvIsParts DEF QueryInv
<1>2. Ids(own) \in SUBSET Nat /\ IsFiniteSet(Ids(own))
  <2>1. Len(callbacks) \in Nat
    BY <1>1, LenProperties DEF TableTypes
  <2>2. Ids(own) \subseteq 1 .. Len(callbacks)
    BY <1>1 DEF IdsAreOwn, Ids
  <2>3. IsFiniteSet(1 .. Len(callbacks)) /\ 1 .. Len(callbacks) \subseteq Nat
    BY <2>1, FS_Interval
  <2> HIDE DEF own
  <2> QED
    BY <2>2, <2>3, FS_Subset
<1>3. n \in Nat /\ gone \in [1 .. n -> Ids(own)]
      /\ \A x \in Ids(own) : \E k \in 1 .. n : gone[k] = x
  <2> HIDE DEF own
  <2> QED
    BY <1>2, SortedIsEnumeration, SortedIsComplete
<1>4. Notices(ids, c) = [k \in 1 .. n |-> Message(of(k), "canceled", 0)]
  BY <1>3 DEF Notices
<1>5. Notices(ids, c) \in Seq(Downward)
  BY <1>1, NoticesAreMessages
<1>6. Len(Notices(ids, c)) = n
  <2> HIDE DEF n, of
  <2>1. DOMAIN Notices(ids, c) = 1 .. n
    BY <1>4
  <2>2. DOMAIN Notices(ids, c) = 1 .. Len(Notices(ids, c)) /\ Len(Notices(ids, c)) \in Nat
    BY <1>5, LenProperties
  <2> QED
    BY <1>3, <2>1, <2>2
<1>7. \A x, y \in pending : x.id = y.id => x = y
  BY <1>1 DEF IdsAreOwn
<1>8. \A k \in 1 .. n : of(k) \in own /\ of(k).id = gone[k]
  <2>1. \A k \in 1 .. n : \E info \in own : info.id = gone[k]
    BY <1>3 DEF Ids
  <2>2. \A k \in 1 .. n : of(k) \in pending /\ of(k).id = gone[k]
    BY <2>1
  <2> HIDE DEF of, gone, n
  <2> QED
    BY <1>7, <2>1, <2>2
<1>9. \A info \in own : \E k \in 1 .. n : of(k) = info
  <2>1. \A info \in own : info.id \in Ids(own)
    BY DEF Ids
  <2>2. \A info \in own : \E k \in 1 .. n : gone[k] = info.id
    BY <1>3, <2>1
  <2> HIDE DEF of, gone, n
  <2> QED
    BY <1>7, <1>8, <2>2
<1>10. \A k \in 1 .. n : Notices(ids, c)[k] = Message(of(k), "canceled", 0)
  <2> HIDE DEF of, n
  <2> QED
    BY <1>4
<1> HIDE DEF of, gone, n
<1>11. \A k \in 1 .. Len(Notices(ids, c)) : \E info \in pending :
         /\ info.id \in ids /\ info.context = c
         /\ Notices(ids, c)[k] = Message(info, "canceled", 0)
  BY <1>6, <1>8, <1>10
<1>12. ASSUME NEW info \in pending, info.id \in ids, info.context = c
       PROVE  \E k \in 1 .. Len(Notices(ids, c)) :
                Notices(ids, c)[k] = Message(info, "canceled", 0)
  <2>1. PICK k \in 1 .. n : of(k) = info
    BY <1>9, <1>12
  <2> QED
    BY <1>6, <1>10, <2>1
<1> QED
  BY <1>5, <1>11, <1>12

\* What the renderers receive after queries were canceled.
LEMMA NoticesSent ==
  ASSUME RouterInv, NEW ids,
         down' = [c \in Contexts |->
                    IF c \in valid THEN down[c] \o Notices(ids, c) ELSE down[c]]
  PROVE  /\ \A c \in Contexts : Downs(c) \subseteq Downs(c)'
         /\ \A c \in Contexts : \A m \in Downs(c)' :
              \/ m \in Downs(c)
              \/ \E info \in pending : /\ info.id \in ids /\ info.context = c
                                       /\ m = Message(info, "canceled", 0)
         /\ \A info \in pending : info.id \in ids /\ info.context \in valid =>
              Message(info, "canceled", 0) \in Downs(info.context)'
<1>1. ASSUME NEW c \in Contexts, c \notin valid
      PROVE  Downs(c)' = Downs(c)
  BY <1>1 DEF Downs
<1>2. ASSUME NEW c \in Contexts, c \in valid
      PROVE  Downs(c)' = Downs(c) \cup {Notices(ids, c)[k] : k \in 1 .. Len(Notices(ids, c))}
  <2> DEFINE s == down[c]
             t == Notices(ids, c)
  <2>1. s \in Seq(Downward) /\ t \in Seq(Downward) /\ down'[c] = s \o t
    BY <1>2, StateTypes, NoticesTell
  <2> HIDE DEF s, t
  <2>2. /\ Len(s) \in Nat /\ Len(t) \in Nat /\ Len(s \o t) = Len(s) + Len(t)
        /\ \A i \in 1 .. Len(s) + Len(t) :
             (s \o t)[i] = IF i <= Len(s) THEN s[i] ELSE t[i - Len(s)]
    BY <2>1, ConcatProperties, LenProperties
  <2>3. \A i \in 1 .. Len(s) : i \in 1 .. Len(s \o t) /\ (s \o t)[i] = s[i]
    BY <2>2
  <2>4. \A k \in 1 .. Len(t) : Len(s) + k \in 1 .. Len(s \o t) /\ (s \o t)[Len(s) + k] = t[k]
    BY <2>2
  <2>5. \A i \in 1 .. Len(s \o t) :
          i \in 1 .. Len(s) \/ (i - Len(s) \in 1 .. Len(t) /\ (s \o t)[i] = t[i - Len(s)])
    BY <2>2
  <2>6. {(s \o t)[i] : i \in 1 .. Len(s \o t)}
          = {s[i] : i \in 1 .. Len(s)} \cup {t[k] : k \in 1 .. Len(t)}
    BY <2>3, <2>4, <2>5
  <2> QED
    BY <2>1, <2>6 DEF Downs, s, t
<1>3. \A info \in pending : info.context \in Contexts
  BY StateTypes
<1>4. \A c \in Contexts : Downs(c) \subseteq Downs(c)'
  BY <1>1, <1>2
<1>5. ASSUME NEW c \in Contexts, NEW m \in Downs(c)', m \notin Downs(c)
      PROVE  \E info \in pending : /\ info.id \in ids /\ info.context = c
                                   /\ m = Message(info, "canceled", 0)
  <2>1. c \in valid /\ \E k \in 1 .. Len(Notices(ids, c)) : m = Notices(ids, c)[k]
    BY <1>1, <1>2, <1>5
  <2> QED
    BY <2>1, NoticesTell
<1>6. ASSUME NEW c \in Contexts, c \in valid,
             NEW info \in pending, info.id \in ids, info.context = c
      PROVE  Message(info, "canceled", 0) \in Downs(c)'
  <2>1. \E k \in 1 .. Len(Notices(ids, c)) : Notices(ids, c)[k] = Message(info, "canceled", 0)
    BY <1>6, NoticesTell, SMTT(30)
  <2> QED
    BY <1>2, <1>6, <2>1
<1> QED
  BY <1>3, <1>4, <1>5, <1>6

-----------------------------------------------------------------------------
(* Steps that answer and cancel queries, or end frames: nothing is sent to   *)
(* the browser, and nothing is asked for.                                    *)

\* New messages are about queries that end, or are answers that do not end them.
AnswersExplained ==
  \A c \in Contexts : \A m \in Downs(c)' :
    \/ m \in Downs(c)
    \/ \E info \in pending :
         /\ info.context = c /\ m.cid = info.cid /\ m.rid = info.rid
         /\ info \notin pending' \/ (m.result = "success" /\ info.persistent)

EndIsTold(info) ==
  \E m \in Downs(info.context)' :
    m.rid = info.rid /\ (m.result = "success" => ~info.persistent)

\* A page that stays is told of the queries it loses, but for those a navigation
\* dropped.
PagesAreTold ==
  \A c \in Contexts :
    life'[c] = "live" /\ life[c] # "none" =>
      /\ life[c] = "live"
      /\ Downs(c) \subseteq Downs(c)'
      /\ \A info \in pending : info.context = c /\ info \notin pending' =>
           EndIsTold(info) \/ <<c, info.rid>> \in dropped'

Settles ==
  /\ UNCHANGED <<ctxId, lastReq>>
  /\ dropped \subseteq dropped'
  /\ open' \subseteq open /\ pending' \subseteq pending
  /\ AnswersExplained /\ PagesAreTold
  /\ \A c \in Contexts : \/ up'[c] = up[c]
                         \/ up'[c] = <<>> /\ c \notin valid'
  /\ \A c \in Contexts : /\ life'[c] = "none" => life[c] = "none"
                         /\ Running(c)' => Running(c) \/ life[c] = "none"
  /\ \A r \in open' : Running(r.context)'
  /\ \A r \in open : r \in open' \/ (up'[r.context] = <<>> /\ r.context \notin valid')
  /\ \A c \in valid' : c \in valid \/ life[c] = "none"

LEMMA SettlesKeeps ==
  ASSUME RouterInv, RouterInv', RequestInv, FramesFit', Settles
  PROVE  RequestInv'
<1> USE DEF RequestInv, Names, Unique, Rules, Goals
<1>1. /\ ctxId' = ctxId /\ lastReq' = lastReq /\ open' \subseteq open /\ pending' \subseteq pending
      /\ \A c \in Contexts : LastReq(c)' = LastReq(c)
  BY DEF Settles, LastReq
<1>2. \A r \in open : r.context \in Contexts
  BY StateTypes
<1>3. \A info \in pending : info.context \in Contexts /\ info.cid # Reserved
  BY StateTypes
<1>4. ASSUME NEW c \in Contexts, NEW i \in 1 .. Len(up'[c])
      PROVE  up'[c] = up[c]
  <2>1. up'[c] # <<>>
    BY <1>4
  <2> QED
    BY <2>1 DEF Settles
<1>5. \A c \in Contexts : \A i \in 1 .. Len(up'[c]) :
        /\ i \in 1 .. Len(up[c]) /\ up'[c][i] = up[c][i] /\ Len(up'[c]) = Len(up[c])
        /\ IsQuery(c, i)' <=> IsQuery(c, i)
        /\ IsCancel(c, i)' <=> IsCancel(c, i)
  BY <1>4 DEF IsQuery, IsCancel
<1>6. ContextsAreNumbered'
  <2>1. \A p : NextContextId(p)' = NextContextId(p)
    BY <1>1 DEF NextContextId
  <2> QED
    BY <1>1, <2>1 DEF Settles, ContextsAreNumbered
<1>7. Names'
  <2>1. SentNamesContext'
    BY <1>1, <1>5 DEF SentNamesContext
  <2>2. QueriesNameContext'
    BY <1>1, <1>3 DEF QueriesNameContext
  <2>3. RequestsNameContext'
    BY <1>1, <1>2 DEF RequestsNameContext
  <2>4. AnswersNameContext'
    <3>1. SUFFICES ASSUME NEW c \in Contexts, NEW m \in Downs(c)'
                   PROVE  m.cid = ctxId[c] /\ m.rid <= LastReq(c)
      BY <1>1 DEF AnswersNameContext
    <3>2. CASE m \in Downs(c)
      BY <3>2 DEF AnswersNameContext
    <3>3. CASE \E info \in pending : info.context = c /\ m.cid = info.cid /\ m.rid = info.rid
      BY <3>3 DEF QueriesNameContext
    <3> QED
      BY <3>2, <3>3 DEF Settles, AnswersExplained
  <2> QED
    BY <2>1, <2>2, <2>3, <2>4
<1>8. Unique'
  <2>1. RequestsAreUnique'
    BY <1>1 DEF RequestsAreUnique
  <2>2. QueriesAreUnique'
    BY <1>1 DEF QueriesAreUnique
  <2>3. SentAreUnique'
    BY <1>5 DEF SentAreUnique
  <2> QED
    BY <2>1, <2>2, <2>3
<1>9. SentIsNew'
  <2>1. SUFFICES ASSUME NEW c \in Contexts, NEW i \in 1 .. Len(up'[c]), IsQuery(c, i)'
                 PROVE  /\ \A info \in pending' : info.context = c => info.rid # up'[c][i].rid
                        /\ \A m \in Downs(c)' : m.rid # up'[c][i].rid
    BY DEF SentIsNew
  <2>2. /\ \A info \in pending : info.context = c => info.rid # up'[c][i].rid
        /\ \A m \in Downs(c) : m.rid # up'[c][i].rid
    BY <1>5, <2>1 DEF SentIsNew
  <2> QED
    BY <1>1, <2>2 DEF Settles, AnswersExplained
<1>10. AnswersEndQueries'
  <2>1. SUFFICES ASSUME NEW info \in pending', NEW m \in Downs(info.context)', m.rid = info.rid
                 PROVE  m.result = "success" /\ info.persistent
    BY DEF AnswersEndQueries
  <2>2. info \in pending /\ info.context \in Contexts
    BY <1>1, <1>3
  <2>3. CASE m \in Downs(info.context)
    BY <2>1, <2>2, <2>3 DEF AnswersEndQueries
  <2>4. ASSUME NEW about \in pending, about.context = info.context, m.rid = about.rid,
               about \notin pending' \/ (m.result = "success" /\ about.persistent)
        PROVE  m.result = "success" /\ info.persistent
    <3>1. about = info
      BY <2>1, <2>2, <2>4 DEF QueriesAreUnique
    <3> QED
      BY <2>4, <3>1
  <2> QED
    BY <2>2, <2>3, <2>4 DEF Settles, AnswersExplained
<1>11. PersistenceAgrees'
  <2>1. SUFFICES ASSUME NEW r \in open'
                 PROVE  /\ \A info \in pending' :
                             info.context = r.context /\ info.rid = r.rid =>
                               info.persistent = r.persistent
                        /\ \A i \in 1 .. Len(up'[r.context]) :
                             IsQuery(r.context, i)' /\ up'[r.context][i].rid = r.rid =>
                               up'[r.context][i].persistent = r.persistent
    BY DEF PersistenceAgrees
  <2>2. r \in open /\ r.context \in Contexts
    BY <1>1, <1>2
  <2>3. \A i \in 1 .. Len(up'[r.context]) :
          IsQuery(r.context, i)' /\ up'[r.context][i].rid = r.rid =>
            up'[r.context][i].persistent = r.persistent
    BY <1>5, <2>2 DEF PersistenceAgrees
  <2> QED
    BY <1>1, <2>2, <2>3 DEF PersistenceAgrees
<1>12. CancelsAreFinal'
  <2>1. \A r \in open' : Running(r.context)'
    BY DEF Settles
  <2>2. \A r \in open' : \A i \in 1 .. Len(up'[r.context]) :
          IsCancel(r.context, i)' => up'[r.context][i].rid # r.rid
    BY <1>1, <1>2, <1>5 DEF CancelsAreFinal
  <2>3. ASSUME NEW c \in Contexts, NEW i \in 1 .. Len(up'[c]),
               IsCancel(c, i)', up'[c][i].rid = Reserved
        PROVE  ~Running(c)'
    <3>1. ~Running(c)
      BY <1>5, <2>3 DEF CancelsAreFinal
    <3>2. life[c] # "none"
      <4>1. up[c] # <<>>
        BY <1>5, <2>3
      <4> QED
        BY <4>1 DEF FramesFit
    <3> QED
      BY <3>1, <3>2 DEF Settles
  <2> QED
    BY <2>1, <2>2, <2>3 DEF CancelsAreFinal
<1>13. SentIsAskedOrCanceled'
  <2>1. SUFFICES ASSUME NEW c \in Contexts, NEW i \in 1 .. Len(up'[c]), IsQuery(c, i)'
                 PROVE  \/ \E r \in open' : r.context = c /\ r.rid = up'[c][i].rid
                        \/ \E j \in 1 .. Len(up'[c]) :
                             /\ i < j /\ IsCancel(c, j)'
                             /\ up'[c][j].rid \in {Reserved, up'[c][i].rid}
    BY DEF SentIsAskedOrCanceled
  <2>2. up'[c] = up[c] /\ up'[c] # <<>>
    BY <1>4, <2>1
  <2>3. \A r \in open : r.context = c => r \in open'
    BY <2>2 DEF Settles
  <2> QED
    BY <2>1, <2>2, <2>3 DEF SentIsAskedOrCanceled, IsQuery, IsCancel
<1>14. NoneForgotten'
  <2>1. SUFFICES ASSUME NEW r \in open', life'[r.context] = "live", ~Excused(r)'
                 PROVE  Expected(r)'
    BY DEF NoneForgotten
  <2> DEFINE c == r.context
  <2>2. r \in open /\ c \in Contexts /\ life[c] # "none"
    BY <1>1, <1>2 DEF CancelsAreFinal, Running
  <2>3. /\ life[c] = "live" /\ Downs(c) \subseteq Downs(c)'
        /\ \A info \in pending :
             info.context = c /\ info \notin pending' /\ info.rid = r.rid => EndIsTold(info)
    BY <2>1, <2>2 DEF Settles, PagesAreTold, Excused
  <2>4. up'[c] = up[c]
    BY <2>1, <2>2 DEF Settles, FramesFit
  <2>5. Expected(r)
    <3>1. ~Excused(r)
      BY <1>1, <2>1, <2>2, TwinsStay DEF Settles, Excused
    <3> QED
      BY <2>2, <2>3, <3>1 DEF NoneForgotten
  <2>6. ASSUME NEW i \in 1 .. Len(up[c]), IsQuery(c, i), up[c][i].rid = r.rid
        PROVE  Expected(r)'
    BY <2>4, <2>6 DEF Expected, IsQuery
  <2>7. ASSUME NEW info \in pending, info.context = c, info.rid = r.rid
        PROVE  Expected(r)'
    <3>1. CASE info \in pending'
      BY <2>7, <3>1 DEF Expected
    <3>2. CASE info \notin pending'
      <4>1. PICK m \in Downs(c)' : m.rid = r.rid /\ (m.result = "success" => ~info.persistent)
        BY <2>3, <2>7, <3>2 DEF EndIsTold
      <4>2. info.persistent = r.persistent
        BY <2>2, <2>7 DEF PersistenceAgrees
      <4>3. FinalAnswer(m, r)
        BY <4>1, <4>2 DEF FinalAnswer
      <4> QED
        BY <4>3 DEF Expected, FinalAnswer
    <3> QED
      BY <3>1, <3>2
  <2>8. ASSUME NEW m \in Downs(c), FinalAnswer(m, r)
        PROVE  Expected(r)'
    BY <2>3, <2>8 DEF Expected, FinalAnswer
  <2> QED
    BY <2>5, <2>6, <2>7, <2>8 DEF Expected
<1>15. NoneUnasked'
  <2>1. SUFFICES ASSUME NEW info \in pending', info.context \in valid',
                        ~HasTwin(info.context)'
                 PROVE  Asked(info)' \/ CancelSent(info)'
    BY DEF NoneUnasked
  <2> DEFINE c == info.context
  <2>2. info \in pending /\ c \in Contexts /\ ~HasTwin(c)
    BY <1>1, <1>3, <2>1, TwinsStay
  <2>3. c \in valid
    <3>1. life[c] # "none"
      BY <1>3, <2>2 DEF QueriesNameContext, ContextsAreNumbered
    <3> QED
      BY <2>1, <3>1 DEF Settles
  <2>4. CASE Asked(info)
    <3>1. PICK r \in open : r.context = c /\ r.rid = info.rid
      BY <2>4 DEF Asked
    <3>2. r \in open'
      BY <2>1, <3>1 DEF Settles
    <3> QED
      BY <3>1, <3>2 DEF Asked
  <2>5. CASE CancelSent(info)
    <3>1. up'[c] = up[c]
      BY <2>1, <2>2 DEF Settles
    <3> QED
      BY <2>5, <3>1 DEF CancelSent, IsCancel
  <2> QED
    BY <2>1, <2>2, <2>3, <2>4, <2>5 DEF NoneUnasked
<1> QED
  BY <1>6, <1>7, <1>8, <1>9, <1>10, <1>11, <1>12, <1>13, <1>14, <1>15

-----------------------------------------------------------------------------
(* A page asks. *)

LEMMA AskKeeps ==
  ASSUME RouterInv, RouterInv', RequestInv, NEW c \in Contexts, NEW persistent \in BOOLEAN,
         Query(c, persistent)
  PROVE  RequestInv'
<1> USE DEF RequestInv, Names, Unique, Rules, Goals
<1> DEFINE cid == GetIDForContext(c)
           rid == NextRequestId(ProcOf[c])
           req == [context |-> c, rid |-> rid, persistent |-> persistent]
           msg == [type |-> "query", cid |-> cid, rid |-> rid, persistent |-> persistent]
<1>1. /\ Running(c) /\ lastReq[ProcOf[c]] < MaxQuery
      /\ ctxId' = [ctxId EXCEPT ![c] = cid]
      /\ lastReq' = [lastReq EXCEPT ![ProcOf[c]] = rid]
      /\ open' = open \cup {req} /\ ToBrowser(c, msg)
      /\ UNCHANGED <<life, down, page, valid, dropped, pending>>
  BY DEF Query, contentVars, routerVars
<1>2. /\ life[c] # "none"
      /\ ContextsAreNumbered' /\ ctxId'[c] = cid /\ ctxId'[c] # Reserved
      /\ \A d \in Contexts : ctxId[d] # Reserved => ctxId'[d] = ctxId[d]
  BY <1>1, ContextNumbered DEF Running
<1>3. /\ LastReq(c) \in Nat /\ rid = LastReq(c) + 1 /\ rid # Reserved
      /\ rid \in 1 .. MaxQuery
  BY <1>1, SentTypes, StateTypes DEF LastReq, NextRequestId, Reserved
<1>4. \A d \in Contexts : LastReq(d) \in Nat /\ LastReq(d)' \in Nat /\ LastReq(d) <= LastReq(d)'
  BY <1>1, <1>3, SentTypes, StateTypes DEF LastReq
<1>5. LastReq(c)' = rid
  BY <1>1, SentTypes, StateTypes DEF LastReq
<1>6. msg \in Upward /\ msg.type = "query" /\ msg.cid = cid /\ msg.rid = rid
      /\ msg.persistent = persistent
  BY <1>3, ContextIds, InvIsParts DEF Upward
<1>7. req.context = c /\ req.rid = rid /\ req.persistent = persistent
  OBVIOUS
<1> HIDE DEF cid, rid, req, msg
<1>8. \A d \in Contexts : Downs(d)' = Downs(d)
  BY <1>1 DEF Downs
<1>9. \A d \in Contexts : \A i \in 1 .. Len(up[d]) :
        i \in 1 .. Len(up'[d]) /\ up'[d][i] = up[d][i] /\ i \in Nat
  <2>1. CASE c \in valid
    BY <1>1, <1>6, <2>1, MessageSent, InvIsParts, SentTypes
  <2>2. CASE c \notin valid
    BY <1>1, <2>2 DEF ToBrowser
  <2> QED
    BY <2>1, <2>2
\* The new message is the last.
<1>10. \A d \in Contexts : \A i \in 1 .. Len(up'[d]) :
         \/ i \in 1 .. Len(up[d]) /\ up'[d][i] = up[d][i]
         \/ /\ d = c /\ up'[d][i] = msg /\ i = Len(up[c]) + 1
            /\ \A j \in 1 .. Len(up[c]) : j < i
  <2>1. CASE c \in valid
    <3>1. /\ Len(up'[c]) = Len(up[c]) + 1 /\ Len(up[c]) \in Nat
          /\ \A i \in 1 .. Len(up[c]) : up'[c][i] = up[c][i]
          /\ up'[c][Len(up[c]) + 1] = msg
          /\ \A d \in Contexts : d # c => up'[d] = up[d]
      BY <1>1, <1>6, <2>1, MessageSent, InvIsParts
    <3> QED
      BY <3>1
  <2>2. CASE c \notin valid
    BY <1>1, <2>2 DEF ToBrowser
  <2> QED
    BY <2>1, <2>2
<1>11. c \in valid => \E i \in 1 .. Len(up'[c]) : up'[c][i] = msg
  <2>1. ASSUME c \in valid
        PROVE  Len(up[c]) + 1 \in 1 .. Len(up'[c]) /\ up'[c][Len(up[c]) + 1] = msg
    BY <1>1, <1>6, <2>1, MessageSent, InvIsParts
  <2> QED
    BY <2>1
<1>12. \A d \in Contexts : \A i \in 1 .. Len(up[d]) :
         up[d][i].cid # Reserved /\ up[d][i].rid \in 0 .. MaxQuery
  BY SentTypes
<1>13. \A info \in pending : info.context \in Contexts /\ info.cid # Reserved
                             /\ info.rid \in 1 .. MaxQuery
  BY StateTypes
<1>14. \A r \in open : r.context \in Contexts /\ r.rid \in 1 .. MaxQuery
  BY StateTypes
<1>15. \A d \in Contexts : \A m \in Downs(d) : m.cid # Reserved /\ m.rid \in 1 .. MaxQuery
  BY AnswerTypes
\* Nothing of the context has the new id.
<1>16. /\ \A i \in 1 .. Len(up[c]) : up[c][i].rid # rid
       /\ \A info \in pending : info.context = c => info.rid # rid
       /\ \A m \in Downs(c) : m.rid # rid
       /\ \A r \in open : r.context = c => r.rid # rid
  BY <1>3, <1>12, <1>13, <1>14, <1>15
    DEF SentNamesContext, QueriesNameContext, AnswersNameContext, RequestsNameContext
<1>17. Names'
  <2>1. SentNamesContext'
    <3>1. SUFFICES ASSUME NEW d \in Contexts, NEW i \in 1 .. Len(up'[d])
                   PROVE  up'[d][i].cid = ctxId'[d] /\ up'[d][i].rid <= LastReq(d)'
      BY DEF SentNamesContext
    <3>2. CASE i \in 1 .. Len(up[d]) /\ up'[d][i] = up[d][i]
      BY <1>2, <1>4, <1>12, <3>2 DEF SentNamesContext
    <3>3. CASE d = c /\ up'[d][i] = msg
      BY <1>2, <1>3, <1>5, <1>6, <3>3
    <3> QED
      BY <1>10, <3>2, <3>3
  <2>2. AnswersNameContext'
    BY <1>2, <1>4, <1>8, <1>15 DEF AnswersNameContext
  <2>3. QueriesNameContext'
    BY <1>1, <1>2, <1>4, <1>13 DEF QueriesNameContext
  <2>4. RequestsNameContext'
    BY <1>1, <1>2, <1>3, <1>4, <1>5, <1>7, <1>14 DEF RequestsNameContext
  <2> QED
    BY <2>1, <2>2, <2>3, <2>4
<1>18. FramesFit'
  <2>1. \A d \in Contexts : up'[d] # <<>> => up[d] # <<>> \/ d \in valid
    BY <1>1, StateTypes DEF ToBrowser
  <2> QED
    BY <1>1, <2>1 DEF FramesFit
<1>19. Unique'
  <2>1. RequestsAreUnique'
    BY <1>1, <1>7, <1>16 DEF RequestsAreUnique
  <2>2. QueriesAreUnique'
    BY <1>1 DEF QueriesAreUnique
  <2>3. ASSUME NEW d \in Contexts, NEW i \in 1 .. Len(up'[d]), NEW j \in 1 .. Len(up'[d]),
               IsQuery(d, i)', IsQuery(d, j)', up'[d][i].rid = up'[d][j].rid
        PROVE  i = j
    <3> DEFINE Old(k) == k \in 1 .. Len(up[d]) /\ up'[d][k] = up[d][k]
               New(k) == d = c /\ up'[d][k] = msg /\ k = Len(up[c]) + 1
    <3>1. Old(i) \/ New(i)
      BY <1>10
    <3>2. Old(j) \/ New(j)
      BY <1>10
    <3>3. CASE Old(i) /\ Old(j)
      BY <2>3, <3>3 DEF SentAreUnique, IsQuery
    <3>4. ~(New(i) /\ Old(j))
      BY <1>6, <1>16, <2>3
    <3>5. ~(Old(i) /\ New(j))
      BY <1>6, <1>16, <2>3
    <3>6. CASE New(i) /\ New(j)
      BY <3>6
    <3> HIDE DEF Old, New
    <3> QED
      BY <3>1, <3>2, <3>3, <3>4, <3>5, <3>6
  <2>4. SentAreUnique'
    BY <2>3 DEF SentAreUnique
  <2> QED
    BY <2>1, <2>2, <2>4
<1>20. SentIsNew'
  BY <1>1, <1>6, <1>8, <1>10, <1>16 DEF SentIsNew, IsQuery
<1>21. AnswersEndQueries'
  BY <1>1, <1>8, <1>13 DEF AnswersEndQueries
<1>22. PersistenceAgrees'
  <2>1. ASSUME NEW r \in open', NEW i \in 1 .. Len(up'[r.context]),
               IsQuery(r.context, i)', up'[r.context][i].rid = r.rid
        PROVE  up'[r.context][i].persistent = r.persistent
    <3>1. CASE r = req
      BY <1>6, <1>7, <1>10, <1>16, <2>1, <3>1
    <3>2. CASE r \in open
      BY <1>6, <1>10, <1>14, <1>16, <2>1, <3>2 DEF PersistenceAgrees, IsQuery
    <3> QED
      BY <1>1, <3>1, <3>2
  <2>2. \A r \in open' : \A info \in pending' :
          info.context = r.context /\ info.rid = r.rid => info.persistent = r.persistent
    BY <1>1, <1>7, <1>16 DEF PersistenceAgrees
  <2> QED
    BY <2>1, <2>2 DEF PersistenceAgrees
<1>23. CancelsAreFinal'
  <2>1. \A d \in Contexts : \A i \in 1 .. Len(up'[d]) :
          IsCancel(d, i)' => /\ i \in 1 .. Len(up[d]) /\ up'[d][i] = up[d][i]
                             /\ IsCancel(d, i)
    BY <1>6, <1>10 DEF IsCancel
  <2>2. \A d \in Contexts : Running(d)' = Running(d)
    BY <1>1 DEF Running
  <2>3. \A r \in open' : Running(r.context)'
    BY <1>1, <1>7, <1>14, <2>2 DEF CancelsAreFinal
  <2>4. \A r \in open' : \A i \in 1 .. Len(up'[r.context]) :
          IsCancel(r.context, i)' => up'[r.context][i].rid # r.rid
    BY <1>1, <1>7, <1>14, <1>16, <2>1 DEF CancelsAreFinal
  <2> QED
    BY <2>1, <2>2, <2>3, <2>4 DEF CancelsAreFinal
<1>24. SentIsAskedOrCanceled'
  <2>1. SUFFICES ASSUME NEW d \in Contexts, NEW i \in 1 .. Len(up'[d]), IsQuery(d, i)'
                 PROVE  \/ \E r \in open' : r.context = d /\ r.rid = up'[d][i].rid
                        \/ \E j \in 1 .. Len(up'[d]) :
                             /\ i < j /\ IsCancel(d, j)'
                             /\ up'[d][j].rid \in {Reserved, up'[d][i].rid}
    BY DEF SentIsAskedOrCanceled
  <2>2. CASE i \in 1 .. Len(up[d]) /\ up'[d][i] = up[d][i]
    <3>1. \/ \E r \in open : r.context = d /\ r.rid = up[d][i].rid
          \/ \E j \in 1 .. Len(up[d]) :
               /\ i < j /\ IsCancel(d, j)
               /\ up[d][j].rid \in {Reserved, up[d][i].rid}
      BY <2>1, <2>2 DEF SentIsAskedOrCanceled, IsQuery
    <3> QED
      BY <1>1, <1>9, <2>2, <3>1 DEF IsCancel
  <2>3. CASE d = c /\ up'[d][i] = msg
    BY <1>1, <1>6, <1>7, <2>3
  <2> QED
    BY <1>10, <2>2, <2>3
<1>25. NoneForgotten'
  <2>1. SUFFICES ASSUME NEW r \in open', life'[r.context] = "live", ~Excused(r)'
                 PROVE  Expected(r)'
    BY DEF NoneForgotten
  <2>2. CASE r = req
    <3>1. c \in valid
      BY <1>1, <1>7, <2>1, <2>2 DEF FramesFit
    <3> QED
      BY <1>6, <1>7, <1>11, <2>2, <3>1 DEF Expected, IsQuery
  <2>3. CASE r \in open
    <3>1. Expected(r) /\ r.context \in Contexts
      <4>1. ~Excused(r)
        BY <1>1, <1>2, <1>14, <2>1, <2>3, TwinsStay DEF Excused
      <4> QED
        BY <1>1, <1>14, <2>1, <2>3, <4>1 DEF NoneForgotten
    <3>2. ASSUME NEW i \in 1 .. Len(up[r.context]), IsQuery(r.context, i),
                 up[r.context][i].rid = r.rid
          PROVE  Expected(r)'
      BY <1>9, <3>1, <3>2 DEF Expected, IsQuery
    <3>3. ASSUME NEW m \in Downs(r.context), FinalAnswer(m, r)
          PROVE  Expected(r)'
      BY <1>8, <3>1, <3>3 DEF Expected, FinalAnswer
    <3>4. ASSUME NEW info \in pending, info.context = r.context, info.rid = r.rid
          PROVE  Expected(r)'
      BY <1>1, <3>4 DEF Expected
    <3> QED
      BY <3>1, <3>2, <3>3, <3>4 DEF Expected
  <2> QED
    BY <1>1, <2>2, <2>3
<1>26. NoneUnasked'
  <2>1. SUFFICES ASSUME NEW info \in pending, info.context \in valid,
                        ~HasTwin(info.context)'
                 PROVE  Asked(info)' \/ CancelSent(info)'
    BY <1>1 DEF NoneUnasked
  <2>2. Asked(info) \/ CancelSent(info)
    BY <1>2, <1>13, <2>1, TwinsStay DEF NoneUnasked
  <2>3. Asked(info) => Asked(info)'
    BY <1>1 DEF Asked
  <2>4. CancelSent(info) => CancelSent(info)'
    BY <1>9, <1>13 DEF CancelSent, IsCancel
  <2> QED
    BY <2>2, <2>3, <2>4
<1> QED
  BY <1>2, <1>17, <1>18, <1>19, <1>20, <1>21, <1>22, <1>23, <1>24, <1>25, <1>26

-----------------------------------------------------------------------------
(* A page withdraws requests, or all it has when its context is released. *)

LEMMA WithdrawKeeps ==
  ASSUME RouterInv, RouterInv', RequestInv, NEW c \in Contexts, NEW rid \in 0 .. MaxQuery,
         NEW cid \in Nat \ {Reserved},
         Running(c), ContextsAreNumbered', ctxId'[c] = cid,
         \A d \in Contexts : ctxId[d] # Reserved => ctxId'[d] = ctxId[d],
         open' = open \ Own(c, rid),
         IF Own(c, rid) = {} THEN UNCHANGED up
         ELSE ToBrowser(c, [type |-> "cancel", cid |-> cid, rid |-> rid]),
         UNCHANGED <<lastReq, down, page, valid, dropped, pending>>,
         \/ UNCHANGED life /\ rid # Reserved
         \/ life' = [life EXCEPT ![c] = "released"] /\ rid = Reserved
  PROVE  RequestInv'
<1> USE DEF RequestInv, Names, Unique, Rules, Goals
<1> DEFINE msg == [type |-> "cancel", cid |-> cid, rid |-> rid]
           gone == Own(c, rid)
           sent == gone # {} /\ c \in valid
<1>1. msg \in Upward /\ msg.type = "cancel" /\ msg.cid = cid /\ msg.rid = rid
  BY DEF Upward
<1>2. /\ \A r \in gone : r \in open /\ r.context = c /\ rid \in {Reserved, r.rid}
      /\ \A r \in open : r.context = c /\ rid \in {Reserved, r.rid} => r \in gone
      /\ open' = open \ gone
  BY DEF Own
<1>3. IF gone = {} THEN UNCHANGED up ELSE ToBrowser(c, msg)
  OBVIOUS
<1> HIDE DEF msg, gone
<1>4. sent => /\ Len(up'[c]) = Len(up[c]) + 1 /\ Len(up[c]) \in Nat
              /\ \A i \in 1 .. Len(up[c]) : up'[c][i] = up[c][i]
              /\ up'[c][Len(up[c]) + 1] = msg
              /\ \A d \in Contexts : d # c => up'[d] = up[d]
  BY <1>1, <1>3, MessageSent, InvIsParts
<1>5. ~sent => up' = up
  BY <1>3 DEF ToBrowser
<1>6. \A d \in Contexts : \A i \in 1 .. Len(up[d]) :
        i \in 1 .. Len(up'[d]) /\ up'[d][i] = up[d][i] /\ i \in Nat
  <2>1. \A d \in Contexts : Len(up[d]) \in Nat
    BY SentTypes
  <2> QED
    BY <1>4, <1>5, <2>1
<1>7. \A d \in Contexts : \A i \in 1 .. Len(up'[d]) :
        \/ i \in 1 .. Len(up[d]) /\ up'[d][i] = up[d][i]
        \/ d = c /\ up'[d][i] = msg /\ sent
  <2>1. CASE sent
    BY <1>4, <2>1, SMTT(30)
  <2>2. CASE ~sent
    BY <1>5, <2>2
  <2> QED
    BY <2>1, <2>2
\* The cancellation is behind everything the page sent.
<1>8. sent => \E j \in 1 .. Len(up'[c]) :
                up'[c][j] = msg /\ \A i \in 1 .. Len(up[c]) : i < j
  <2>1. SUFFICES ASSUME sent
                 PROVE  \E j \in 1 .. Len(up'[c]) :
                          up'[c][j] = msg /\ \A i \in 1 .. Len(up[c]) : i < j
    OBVIOUS
  <2>2. Len(up[c]) + 1 \in 1 .. Len(up'[c]) /\ \A i \in 1 .. Len(up[c]) : i < Len(up[c]) + 1
    BY <1>4, <2>1
  <2> QED
    BY <1>4, <2>1, <2>2
<1>9. \A d \in Contexts : Downs(d)' = Downs(d) /\ LastReq(d)' = LastReq(d)
  BY DEF Downs, LastReq
<1>10. \A d \in Contexts : \A i \in 1 .. Len(up[d]) :
         up[d][i].cid # Reserved /\ up[d][i].rid \in 0 .. MaxQuery
  BY SentTypes
<1>11. \A info \in pending : info.context \in Contexts /\ info.cid # Reserved
                             /\ info.rid \in 1 .. MaxQuery
  BY StateTypes
<1>12. \A r \in open : r.context \in Contexts /\ r.rid \in 1 .. MaxQuery /\ r.rid # Reserved
  BY StateTypes DEF Reserved
<1>13. \A d \in Contexts : \A m \in Downs(d) : m.cid # Reserved /\ m.rid \in 1 .. MaxQuery
  BY AnswerTypes
<1>14. /\ \A d \in Contexts : life'[d] = "live" => life[d] = "live"
       /\ \A d \in Contexts : life'[d] = "none" => life[d] = "none"
       /\ \A d \in Contexts : Running(d)' => Running(d)
       /\ \A d \in Contexts : d # c => (Running(d)' <=> Running(d))
       /\ rid # Reserved => Running(c)'
       /\ rid = Reserved => ~Running(c)'
  BY StateTypes DEF Running
<1>15. Names'
  <2>1. SentNamesContext'
    <3>1. SUFFICES ASSUME NEW d \in Contexts, NEW i \in 1 .. Len(up'[d])
                   PROVE  up'[d][i].cid = ctxId'[d] /\ up'[d][i].rid <= LastReq(d)'
      BY DEF SentNamesContext
    <3>2. CASE i \in 1 .. Len(up[d]) /\ up'[d][i] = up[d][i]
      BY <1>9, <1>10, <3>2 DEF SentNamesContext
    <3>3. CASE d = c /\ up'[d][i] = msg /\ sent
      <4>1. PICK r \in gone : TRUE
        BY <3>3
      <4>2. r \in open /\ r.context = c /\ rid \in {Reserved, r.rid}
        BY <1>2, <4>1
      <4>3. r.rid <= LastReq(c) /\ LastReq(c) \in Nat
        BY <4>2, SentTypes DEF RequestsNameContext
      <4>4. rid <= LastReq(c)
        BY <4>2, <4>3 DEF Reserved
      <4> QED
        BY <1>1, <1>9, <3>3, <4>4
    <3> QED
      BY <1>7, <3>2, <3>3
  <2>2. AnswersNameContext'
    BY <1>9, <1>13 DEF AnswersNameContext
  <2>3. QueriesNameContext'
    BY <1>9, <1>11 DEF QueriesNameContext
  <2>4. RequestsNameContext'
    BY <1>2, <1>9, <1>12 DEF RequestsNameContext
  <2> QED
    BY <2>1, <2>2, <2>3, <2>4
<1>16. FramesFit'
  <2>1. \A d \in Contexts : up'[d] # <<>> => up[d] # <<>> \/ d \in valid
    BY <1>4, <1>5
  <2>2. \A d \in Contexts : life[d] # "none" => life'[d] # "none"
    BY <1>14
  <2> QED
    BY <1>14, <2>1, <2>2, StateTypes DEF FramesFit
<1>17. Unique'
  <2>1. RequestsAreUnique'
    BY <1>2 DEF RequestsAreUnique
  <2>2. QueriesAreUnique'
    BY DEF QueriesAreUnique
  <2>3. SentAreUnique'
    BY <1>1, <1>7 DEF SentAreUnique, IsQuery
  <2> QED
    BY <2>1, <2>2, <2>3
<1>18. SentIsNew'
  BY <1>1, <1>7, <1>9 DEF SentIsNew, IsQuery
<1>19. AnswersEndQueries'
  BY <1>9, <1>11 DEF AnswersEndQueries
<1>20. PersistenceAgrees'
  <2>1. ASSUME NEW r \in open', NEW i \in 1 .. Len(up'[r.context]),
               IsQuery(r.context, i)', up'[r.context][i].rid = r.rid
        PROVE  up'[r.context][i].persistent = r.persistent
    <3>1. r \in open /\ r.context \in Contexts
      BY <1>2, <1>12
    <3>2. /\ i \in 1 .. Len(up[r.context]) /\ up'[r.context][i] = up[r.context][i]
          /\ IsQuery(r.context, i)
      BY <1>1, <1>7, <2>1, <3>1 DEF IsQuery
    <3> QED
      BY <2>1, <3>1, <3>2 DEF PersistenceAgrees
  <2>2. \A r \in open' : \A info \in pending' :
          info.context = r.context /\ info.rid = r.rid => info.persistent = r.persistent
    BY <1>2 DEF PersistenceAgrees
  <2> QED
    BY <2>1, <2>2 DEF PersistenceAgrees
<1>21. CancelsAreFinal'
  <2>1. \A r \in open' : Running(r.context)'
    BY <1>2, <1>12, <1>14 DEF CancelsAreFinal
  <2>2. ASSUME NEW r \in open', NEW i \in 1 .. Len(up'[r.context]), IsCancel(r.context, i)'
        PROVE  up'[r.context][i].rid # r.rid
    <3>1. r \in open /\ r \notin gone /\ r.context \in Contexts
      BY <1>2, <1>12
    <3>2. CASE i \in 1 .. Len(up[r.context]) /\ up'[r.context][i] = up[r.context][i]
      BY <2>2, <3>1, <3>2 DEF CancelsAreFinal, IsCancel
    <3>3. CASE r.context = c /\ up'[r.context][i] = msg
      BY <1>1, <1>2, <3>1, <3>3
    <3> QED
      BY <1>7, <3>1, <3>2, <3>3
  <2>3. ASSUME NEW d \in Contexts, NEW i \in 1 .. Len(up'[d]),
               IsCancel(d, i)', up'[d][i].rid = Reserved
        PROVE  ~Running(d)'
    BY <1>1, <1>7, <1>14, <2>3 DEF CancelsAreFinal, IsCancel
  <2> QED
    BY <2>1, <2>2, <2>3 DEF CancelsAreFinal
<1>22. SentIsAskedOrCanceled'
  <2>1. SUFFICES ASSUME NEW d \in Contexts, NEW i \in 1 .. Len(up'[d]), IsQuery(d, i)'
                 PROVE  \/ \E r \in open' : r.context = d /\ r.rid = up'[d][i].rid
                        \/ \E j \in 1 .. Len(up'[d]) :
                             /\ i < j /\ IsCancel(d, j)'
                             /\ up'[d][j].rid \in {Reserved, up'[d][i].rid}
    BY DEF SentIsAskedOrCanceled
  <2>2. i \in 1 .. Len(up[d]) /\ up'[d][i] = up[d][i] /\ IsQuery(d, i)
    BY <1>1, <1>7, <2>1 DEF IsQuery
  <2>3. CASE \E j \in 1 .. Len(up[d]) :
               i < j /\ IsCancel(d, j) /\ up[d][j].rid \in {Reserved, up[d][i].rid}
    BY <1>6, <2>2, <2>3 DEF IsCancel
  <2>4. ASSUME NEW r \in open, r.context = d, r.rid = up[d][i].rid, r \notin open'
        PROVE  \E j \in 1 .. Len(up'[d]) :
                 /\ i < j /\ IsCancel(d, j)'
                 /\ up'[d][j].rid \in {Reserved, up'[d][i].rid}
    <3>1. r \in gone /\ d = c /\ rid \in {Reserved, up[d][i].rid}
      BY <1>2, <2>4
    <3>2. sent
      <4>1. up[c] # <<>>
        BY <2>2, <3>1
      <4> QED
        BY <3>1, <4>1 DEF FramesFit
    <3> QED
      BY <1>1, <1>8, <2>2, <3>1, <3>2 DEF IsCancel
  <2> QED
    BY <2>2, <2>3, <2>4 DEF SentIsAskedOrCanceled
<1>23. NoneForgotten'
  <2>1. SUFFICES ASSUME NEW r \in open', life'[r.context] = "live", ~Excused(r)'
                 PROVE  Expected(r)'
    BY DEF NoneForgotten
  <2>2. Expected(r) /\ r.context \in Contexts
    <3>1. ~Excused(r)
      BY <1>2, <1>12, <2>1, TwinsStay DEF Excused
    <3> QED
      BY <1>2, <1>12, <1>14, <2>1, <3>1 DEF NoneForgotten
  <2>3. ASSUME NEW i \in 1 .. Len(up[r.context]), IsQuery(r.context, i),
               up[r.context][i].rid = r.rid
        PROVE  Expected(r)'
    BY <1>6, <2>2, <2>3 DEF Expected, IsQuery
  <2>4. ASSUME NEW m \in Downs(r.context), FinalAnswer(m, r)
        PROVE  Expected(r)'
    BY <1>9, <2>2, <2>4 DEF Expected, FinalAnswer
  <2>5. ASSUME NEW info \in pending, info.context = r.context, info.rid = r.rid
        PROVE  Expected(r)'
    BY <2>5 DEF Expected
  <2> QED
    BY <2>2, <2>3, <2>4, <2>5 DEF Expected
<1>24. NoneUnasked'
  <2>1. SUFFICES ASSUME NEW info \in pending, info.context \in valid,
                        ~HasTwin(info.context)'
                 PROVE  Asked(info)' \/ CancelSent(info)'
    BY DEF NoneUnasked
  <2>a. ~HasTwin(info.context)
    BY <1>11, <2>1, TwinsStay
  <2>2. CASE CancelSent(info)
    BY <1>6, <1>11, <2>2 DEF CancelSent, IsCancel
  <2>3. ASSUME NEW r \in open, r.context = info.context, r.rid = info.rid
        PROVE  Asked(info)' \/ CancelSent(info)'
    <3>1. CASE r \in open'
      BY <2>3, <3>1 DEF Asked
    <3>2. CASE r \notin open'
      <4>1. r \in gone /\ info.context = c /\ rid \in {Reserved, info.rid} /\ sent
        BY <1>2, <2>1, <2>3, <3>2
      <4>2. \E j \in 1 .. Len(up'[c]) : up'[c][j] = msg
        BY <1>8, <4>1
      <4> QED
        BY <1>1, <4>1, <4>2 DEF CancelSent, IsCancel
    <3> QED
      BY <3>1, <3>2
  <2> QED
    BY <2>1, <2>a, <2>2, <2>3 DEF NoneUnasked, Asked
<1> QED
  BY <1>15, <1>16, <1>17, <1>18, <1>19, <1>20, <1>21, <1>22, <1>23, <1>24

LEMMA CancelQueryKeeps ==
  ASSUME RouterInv, RouterInv', RequestInv, NEW c \in Contexts, NEW rid \in 1 .. MaxQuery,
         CancelQuery(c, rid)
  PROVE  RequestInv'
<1> DEFINE cid == GetIDForContext(c)
<1>1. /\ Running(c) /\ ctxId' = [ctxId EXCEPT ![c] = cid] /\ SendCancel(c, cid, rid)
      /\ UNCHANGED <<life, lastReq, down, page, valid, dropped, pending>>
  BY DEF CancelQuery, contentVars, routerVars
<1>2. /\ ContextsAreNumbered' /\ ctxId'[c] = cid
      /\ \A d \in Contexts : ctxId[d] # Reserved => ctxId'[d] = ctxId[d]
  BY <1>1, ContextNumbered DEF Running, RequestInv
<1>3. Requests(c, cid, rid) = Own(c, rid)
  BY RequestsAreOwn DEF RequestInv, Names
<1>4. cid \in Nat \ {Reserved} /\ rid \in 0 .. MaxQuery /\ rid # Reserved
  BY ContextIds, InvIsParts, StateTypes DEF Reserved
<1>5. /\ open' = open \ Own(c, rid)
      /\ IF Own(c, rid) = {} THEN UNCHANGED up
         ELSE ToBrowser(c, [type |-> "cancel", cid |-> cid, rid |-> rid])
  BY <1>1, <1>3 DEF SendCancel
<1> HIDE DEF cid
<1> QED
  BY <1>1, <1>2, <1>4, <1>5, WithdrawKeeps

LEMMA ReleaseKeeps ==
  ASSUME RouterInv, RouterInv', RequestInv, NEW c \in Contexts, Release(c)
  PROVE  RequestInv'
<1>1. /\ Running(c) /\ life' = [life EXCEPT ![c] = "released"]
      /\ UNCHANGED <<ctxId, lastReq, down, page, valid, dropped, pending>>
      /\ IF ctxId[c] = Reserved THEN UNCHANGED <<open, up>>
         ELSE SendCancel(c, ctxId[c], Reserved)
  BY DEF Release, ContextReleased, Running, contentVars, routerVars
<1>2. /\ \A d \in Contexts : life'[d] = "none" => life[d] = "none"
      /\ \A d \in Contexts : life'[d] = "live" => life[d] = "live"
      /\ \A d \in Contexts : life[d] # "none" => life'[d] # "none"
      /\ \A d \in Contexts : Running(d)' => Running(d)
      /\ \A d \in Contexts : d # c => (Running(d)' <=> Running(d))
  BY <1>1, StateTypes DEF Running
<1>3. ContextsAreNumbered'
  <2>1. \A p : NextContextId(p)' = NextContextId(p)
    BY <1>1 DEF NextContextId
  <2> QED
    BY <1>1, <1>2, <2>1 DEF RequestInv, ContextsAreNumbered
<1>4. CASE ctxId[c] # Reserved
  <2>1. ctxId[c] = GetIDForContext(c) /\ ctxId[c] \in Nat \ {Reserved}
        /\ Reserved \in 0 .. MaxQuery
    BY <1>4, StateTypes DEF GetIDForContext, Reserved
  <2>2. Requests(c, ctxId[c], Reserved) = Own(c, Reserved)
    BY <2>1, RequestsAreOwn DEF RequestInv, Names
  <2>3. /\ open' = open \ Own(c, Reserved)
        /\ IF Own(c, Reserved) = {} THEN UNCHANGED up
           ELSE ToBrowser(c, [type |-> "cancel", cid |-> ctxId[c], rid |-> Reserved])
    BY <1>1, <1>4, <2>2 DEF SendCancel
  <2>4. ctxId'[c] = ctxId[c] /\ \A d \in Contexts : ctxId'[d] = ctxId[d]
    BY <1>1
  <2> QED
    BY <1>1, <1>3, <2>1, <2>3, <2>4, WithdrawKeeps
\* A context without a number has never asked.
<1>5. CASE ctxId[c] = Reserved
  <2>1. \A r \in open : r.context # c
    BY <1>5 DEF RequestInv, Names, RequestsNameContext
  <2>2. \A r \in open' : Running(r.context)'
    BY <1>1, <1>2, <1>5, <2>1, StateTypes DEF RequestInv, Rules, CancelsAreFinal
  <2>3. FramesFit'
    BY <1>1, <1>2, <1>5, StateTypes DEF RequestInv, FramesFit
  <2>4. \A d \in Contexts : Downs(d)' = Downs(d)
    BY <1>1 DEF Downs
  <2>5. Settles
    BY <1>1, <1>2, <1>5, <2>2, <2>4 DEF Settles, AnswersExplained, PagesAreTold
  <2> QED
    BY <2>3, <2>5, SettlesKeeps
<1> QED
  BY <1>4, <1>5

-----------------------------------------------------------------------------
(* A page hears an answer. *)

LEMMA HearsKeeps ==
  ASSUME RouterInv, RouterInv', RequestInv, NEW c \in Contexts, RendererReceives(c)
  PROVE  RequestInv'
<1> USE DEF RequestInv, Names, Unique, Rules, Goals
<1> DEFINE m == Head(down[c])
<1>1. /\ down[c] # <<>> /\ down' = [down EXCEPT ![c] = Tail(@)]
      /\ UNCHANGED <<life, ctxId, lastReq, up, page, valid, dropped, pending>>
      /\ IF Requests(c, m.cid, m.rid) = {} THEN UNCHANGED <<open, heard>>
         ELSE \E r \in Requests(c, m.cid, m.rid) : ExecuteCallback(r, m)
  BY DEF RendererReceives, contentVars, routerVars
<1>2. /\ m \in Downs(c)
      /\ \A d \in Contexts : Downs(d)' \subseteq Downs(d)
      /\ \A d \in Contexts : \A n \in Downs(d) : n \in Downs(d)' \/ (d = c /\ n = m)
  BY <1>1, AnswerArrived, InvIsParts DEF QueryInv
<1> HIDE DEF m
<1>3. m.cid = GetIDForContext(c) /\ m.rid # Reserved
  BY <1>2, AnswerTypes DEF AnswersNameContext, GetIDForContext, Reserved
<1>4. Requests(c, m.cid, m.rid) = Own(c, m.rid)
  BY <1>3, RequestsAreOwn
<1>5. \A r \in open : r \in Own(c, m.rid) <=> r.context = c /\ r.rid = m.rid
  BY <1>3 DEF Own
\* A request ends with the answer that ends it, and with no other.
<1>6. /\ open' \subseteq open
      /\ \A r \in open : r \notin open' =>
           r.context = c /\ r.rid = m.rid /\ ~(m.result = "success" /\ r.persistent)
      /\ \A r \in open' : ~(r.context = c /\ FinalAnswer(m, r))
  <2>1. CASE Own(c, m.rid) = {}
    <3>1. open' = open
      BY <1>1, <1>4, <2>1
    <3> QED
      BY <1>5, <2>1, <3>1 DEF FinalAnswer
  <2>2. ASSUME NEW r \in Own(c, m.rid), ExecuteCallback(r, m)
        PROVE  /\ open' \subseteq open
               /\ \A s \in open : s \notin open' =>
                    s.context = c /\ s.rid = m.rid /\ ~(m.result = "success" /\ s.persistent)
               /\ \A s \in open' : ~(s.context = c /\ FinalAnswer(m, s))
    <3>1. r \in open /\ r.context = c /\ r.rid = m.rid
      BY <1>5, <2>2 DEF Own
    <3>2. open' = IF m.result = "success" /\ r.persistent THEN open ELSE open \ {r}
      BY <2>2 DEF ExecuteCallback
    <3>3. \A s \in open : s.context = c /\ s.rid = m.rid => s = r
      BY <3>1 DEF RequestsAreUnique
    <3> QED
      BY <3>1, <3>2, <3>3 DEF FinalAnswer
  <2> QED
    BY <1>1, <1>4, <2>1, <2>2
<1>7. /\ \A d \in Contexts : LastReq(d)' = LastReq(d) /\ (Running(d)' <=> Running(d))
      /\ \A p : NextContextId(p)' = NextContextId(p)
      /\ \A d, i : (IsQuery(d, i)' <=> IsQuery(d, i)) /\ (IsCancel(d, i)' <=> IsCancel(d, i))
  BY <1>1 DEF LastReq, Running, NextContextId, IsQuery, IsCancel
<1>8. \A r \in open : r.context \in Contexts
  BY StateTypes
<1>9. \A info \in pending : info.context \in Contexts
  BY StateTypes
<1>10. ContextsAreNumbered' /\ FramesFit'
  BY <1>1, <1>7 DEF ContextsAreNumbered, FramesFit
<1>11. Names'
  BY <1>1, <1>2, <1>6, <1>7, <1>8, <1>9
    DEF SentNamesContext, AnswersNameContext, QueriesNameContext, RequestsNameContext
<1>12. Unique'
  BY <1>1, <1>6, <1>7 DEF RequestsAreUnique, QueriesAreUnique, SentAreUnique
<1>13. SentIsNew' /\ AnswersEndQueries'
  BY <1>1, <1>2, <1>7, <1>9 DEF SentIsNew, AnswersEndQueries
<1>14. PersistenceAgrees'
  BY <1>1, <1>6, <1>7 DEF PersistenceAgrees
<1>15. CancelsAreFinal'
  BY <1>1, <1>6, <1>7, <1>8 DEF CancelsAreFinal
<1>16. SentIsAskedOrCanceled'
  <2>1. SUFFICES ASSUME NEW d \in Contexts, NEW i \in 1 .. Len(up[d]), IsQuery(d, i),
                        NEW r \in open, r.context = d, r.rid = up[d][i].rid
                 PROVE  r \in open'
    BY <1>1, <1>7 DEF SentIsAskedOrCanceled
  <2>2. d = c => r.rid # m.rid
    BY <1>2, <2>1 DEF SentIsNew
  <2> QED
    BY <1>6, <2>1, <2>2
<1>b. /\ \A r : Excused(r)' <=> Excused(r)
      /\ \A d : HasTwin(d)' <=> HasTwin(d)
  BY <1>1 DEF Excused, HasTwin, Twins
<1>17. NoneForgotten'
  <2>1. SUFFICES ASSUME NEW r \in open', life[r.context] = "live", ~Excused(r)'
                 PROVE  Expected(r)'
    BY <1>1 DEF NoneForgotten
  <2>2. Expected(r) /\ r.context \in Contexts
    BY <1>6, <1>8, <1>b, <2>1 DEF NoneForgotten
  <2>3. ASSUME NEW n \in Downs(r.context), FinalAnswer(n, r)
        PROVE  n \in Downs(r.context)'
    BY <1>2, <1>6, <2>2, <2>3
  <2> QED
    BY <1>1, <2>2, <2>3 DEF Expected, IsQuery, FinalAnswer
<1>18. NoneUnasked'
  <2>1. SUFFICES ASSUME NEW info \in pending, info.context \in valid,
                        ~HasTwin(info.context)',
                        NEW r \in open, r.context = info.context, r.rid = info.rid
                 PROVE  r \in open'
    BY <1>1, <1>b DEF NoneUnasked, Asked, CancelSent, IsCancel
  <2>2. SUFFICES ASSUME r \notin open'
                 PROVE  FALSE
    OBVIOUS
  <2>3. r.context = c /\ r.rid = m.rid /\ ~(m.result = "success" /\ r.persistent)
    BY <1>6, <2>2
  <2>4. m.result = "success" /\ info.persistent
    BY <1>2, <2>1, <2>3 DEF AnswersEndQueries
  <2>5. info.persistent = r.persistent
    BY <2>1 DEF PersistenceAgrees
  <2> QED
    BY <2>3, <2>4, <2>5
<1> QED
  BY <1>10, <1>11, <1>12, <1>13, <1>14, <1>15, <1>16, <1>17, <1>18

-----------------------------------------------------------------------------
(* A message arrives at the browser. *)

\* The frame's first message leaves.
Arrives(c) == up[c] # <<>> /\ up' = [up EXCEPT ![c] = Tail(@)]

\* What was behind the message stays there.
LEMMA RestArrived ==
  ASSUME RouterInv, NEW c \in Contexts, Arrives(c)
  PROVE  /\ 1 \in 1 .. Len(up[c])
         /\ \A d \in Contexts : \A i \in 1 .. Len(up'[d]) : \E j \in 1 .. Len(up[d]) :
              /\ j = (IF d = c THEN i + 1 ELSE i) /\ up'[d][i] = up[d][j]
              /\ (IsQuery(d, i)' <=> IsQuery(d, j)) /\ (IsCancel(d, i)' <=> IsCancel(d, j))
              /\ d = c => j # 1
         /\ \A d \in Contexts : \A j \in 1 .. Len(up[d]) : \/ d = c /\ j = 1
              \/ \E i \in 1 .. Len(up'[d]) :
                   /\ j = (IF d = c THEN i + 1 ELSE i) /\ up'[d][i] = up[d][j]
                   /\ (IsQuery(d, i)' <=> IsQuery(d, j)) /\ (IsCancel(d, i)' <=> IsCancel(d, j))
<1>1. /\ Len(up[c]) \in Nat /\ 1 \in 1 .. Len(up[c])
      /\ Len(up'[c]) = Len(up[c]) - 1
      /\ \A i \in 1 .. Len(up'[c]) : i + 1 \in 1 .. Len(up[c]) /\ up'[c][i] = up[c][i + 1]
      /\ \A d \in Contexts : d # c => up'[d] = up[d]
  BY MessageArrived, InvIsParts DEF Arrives
<1>2. \A i \in 1 .. Len(up'[c]) : i + 1 # 1
  BY <1>1
<1>3. \A j \in 1 .. Len(up[c]) : j = 1 \/ (j - 1 \in 1 .. Len(up'[c]) /\ j = (j - 1) + 1)
  BY <1>1
<1>4. ASSUME NEW d \in Contexts, NEW i \in 1 .. Len(up'[d])
      PROVE  \E j \in 1 .. Len(up[d]) :
               /\ j = (IF d = c THEN i + 1 ELSE i) /\ up'[d][i] = up[d][j]
               /\ (IsQuery(d, i)' <=> IsQuery(d, j)) /\ (IsCancel(d, i)' <=> IsCancel(d, j))
               /\ d = c => j # 1
  BY <1>1, <1>2 DEF IsQuery, IsCancel
<1>5. ASSUME NEW d \in Contexts, NEW j \in 1 .. Len(up[d]), ~(d = c /\ j = 1)
      PROVE  \E i \in 1 .. Len(up'[d]) :
               /\ j = (IF d = c THEN i + 1 ELSE i) /\ up'[d][i] = up[d][j]
               /\ (IsQuery(d, i)' <=> IsQuery(d, j)) /\ (IsCancel(d, i)' <=> IsCancel(d, j))
  <2>1. CASE d = c
    <3>1. up'[c][j - 1] = up[c][j] /\ j - 1 \in 1 .. Len(up'[c]) /\ j = (j - 1) + 1
      BY <1>1, <1>3, <1>5, <2>1
    <3> QED
      BY <2>1, <3>1 DEF IsQuery, IsCancel
  <2>2. CASE d # c
    BY <1>1, <2>2 DEF IsQuery, IsCancel
  <2> QED
    BY <2>1, <2>2
<1> QED
  BY <1>1, <1>4, <1>5

\* The same, without positions.
LEMMA MessagesBehind ==
  ASSUME RouterInv, NEW c \in Contexts, Arrives(c)
  PROVE  /\ 1 \in 1 .. Len(up[c])
         /\ \A d \in Contexts : \A i \in 1 .. Len(up'[d]) : \E j \in 1 .. Len(up[d]) :
              up'[d][i] = up[d][j] /\ (d = c => j # 1)
         /\ \A d \in Contexts : \A j \in 1 .. Len(up[d]) : ~(d = c /\ j = 1) =>
              \E i \in 1 .. Len(up'[d]) : up'[d][i] = up[d][j]
<1>1. /\ Len(up[c]) \in Nat /\ 1 \in 1 .. Len(up[c])
      /\ Len(up'[c]) = Len(up[c]) - 1
      /\ \A i \in 1 .. Len(up'[c]) : i + 1 \in 1 .. Len(up[c]) /\ up'[c][i] = up[c][i + 1]
      /\ \A d \in Contexts : d # c => up'[d] = up[d]
  BY MessageArrived, InvIsParts DEF Arrives
<1>2. \A i \in 1 .. Len(up'[c]) : i + 1 # 1
  BY <1>1
<1>3. ASSUME NEW d \in Contexts, NEW i \in 1 .. Len(up'[d])
      PROVE  \E j \in 1 .. Len(up[d]) : up'[d][i] = up[d][j] /\ (d = c => j # 1)
  BY <1>1, <1>2
<1>4. ASSUME NEW d \in Contexts, NEW j \in 1 .. Len(up[d]), ~(d = c /\ j = 1)
      PROVE  \E i \in 1 .. Len(up'[d]) : up'[d][i] = up[d][j]
  <2>1. CASE d = c
    <3>1. j - 1 \in 1 .. Len(up'[c]) /\ (j - 1) + 1 = j
      BY <1>1, <1>4, <2>1
    <3>2. up'[c][j - 1] = up[c][j]
      BY <1>1, <3>1
    <3> QED
      BY <2>1, <3>1, <3>2
  <2>2. CASE d # c
    BY <1>1, <2>2
  <2> QED
    BY <2>1, <2>2
<1> QED
  BY <1>1, <1>3, <1>4

\* What arrivals have in common.
LEMMA ArrivalKeeps ==
  ASSUME RouterInv, RequestInv, NEW c \in Contexts, Arrives(c),
         UNCHANGED <<life, ctxId, lastReq, open, page, valid, dropped>>
  PROVE  /\ ContextsAreNumbered' /\ FramesFit'
         /\ SentNamesContext' /\ RequestsNameContext' /\ RequestsAreUnique' /\ SentAreUnique'
         /\ CancelsAreFinal' /\ SentIsAskedOrCanceled'
         /\ \A d \in Contexts : LastReq(d)' = LastReq(d)
<1> USE DEF RequestInv, Names, Unique, Rules, Goals
<1>1. /\ \A d \in Contexts : LastReq(d)' = LastReq(d) /\ (Running(d)' <=> Running(d))
      /\ \A p : NextContextId(p)' = NextContextId(p)
  BY DEF LastReq, Running, NextContextId
<1>2. \A r \in open : r.context \in Contexts
  BY StateTypes
<1>3. \A d \in Contexts : \A i \in 1 .. Len(up'[d]) : \E j \in 1 .. Len(up[d]) :
        /\ j = (IF d = c THEN i + 1 ELSE i) /\ up'[d][i] = up[d][j]
        /\ (IsQuery(d, i)' <=> IsQuery(d, j)) /\ (IsCancel(d, i)' <=> IsCancel(d, j))
  BY RestArrived
<1>4. ContextsAreNumbered'
  BY <1>1 DEF ContextsAreNumbered
<1>5. FramesFit'
  <2>1. \A d \in Contexts : up'[d] # <<>> => up[d] # <<>>
    BY StateTypes DEF Arrives
  <2> QED
    BY <2>1 DEF FramesFit
<1>6. SentNamesContext' /\ RequestsNameContext' /\ RequestsAreUnique'
  BY <1>1, <1>2, <1>3 DEF SentNamesContext, RequestsNameContext, RequestsAreUnique
<1>7. SentAreUnique'
  <2>1. SUFFICES ASSUME NEW d \in Contexts, NEW i \in 1 .. Len(up'[d]), NEW j \in 1 .. Len(up'[d]),
                        IsQuery(d, i)', IsQuery(d, j)', up'[d][i].rid = up'[d][j].rid
                 PROVE  i = j
    BY DEF SentAreUnique
  <2>2. PICK k \in 1 .. Len(up[d]) :
          k = (IF d = c THEN i + 1 ELSE i) /\ up'[d][i] = up[d][k] /\ IsQuery(d, k)
    BY <1>3, <2>1
  <2>3. PICK l \in 1 .. Len(up[d]) :
          l = (IF d = c THEN j + 1 ELSE j) /\ up'[d][j] = up[d][l] /\ IsQuery(d, l)
    BY <1>3, <2>1
  <2>4. k = l
    BY <2>1, <2>2, <2>3 DEF SentAreUnique
  <2> QED
    BY <2>2, <2>3, <2>4
<1>8. CancelsAreFinal'
  <2>1. ASSUME NEW r \in open, NEW i \in 1 .. Len(up'[r.context]), IsCancel(r.context, i)'
        PROVE  up'[r.context][i].rid # r.rid
    BY <1>2, <1>3, <2>1 DEF CancelsAreFinal
  <2>2. ASSUME NEW d \in Contexts, NEW i \in 1 .. Len(up'[d]),
               IsCancel(d, i)', up'[d][i].rid = Reserved
        PROVE  ~Running(d)
    BY <1>3, <2>2 DEF CancelsAreFinal
  <2> QED
    BY <1>1, <1>2, <2>1, <2>2 DEF CancelsAreFinal
<1>9. SentIsAskedOrCanceled'
  <2>1. SUFFICES ASSUME NEW d \in Contexts, NEW i \in 1 .. Len(up'[d]), IsQuery(d, i)'
                 PROVE  \/ \E r \in open : r.context = d /\ r.rid = up'[d][i].rid
                        \/ \E j \in 1 .. Len(up'[d]) :
                             /\ i < j /\ IsCancel(d, j)'
                             /\ up'[d][j].rid \in {Reserved, up'[d][i].rid}
    BY DEF SentIsAskedOrCanceled
  <2>2. PICK k \in 1 .. Len(up[d]) :
          k = (IF d = c THEN i + 1 ELSE i) /\ up'[d][i] = up[d][k] /\ IsQuery(d, k)
    BY <1>3, <2>1
  <2>3. CASE \E r \in open : r.context = d /\ r.rid = up[d][k].rid
    BY <2>2, <2>3
  <2>4. ASSUME NEW l \in 1 .. Len(up[d]), k < l, IsCancel(d, l),
               up[d][l].rid \in {Reserved, up[d][k].rid}
        PROVE  \E j \in 1 .. Len(up'[d]) :
                 /\ i < j /\ IsCancel(d, j)'
                 /\ up'[d][j].rid \in {Reserved, up'[d][i].rid}
    <3>1. l # 1
      BY <2>2, <2>4
    <3>2. \E j \in 1 .. Len(up'[d]) :
            /\ l = (IF d = c THEN j + 1 ELSE j) /\ up'[d][j] = up[d][l]
            /\ (IsQuery(d, j)' <=> IsQuery(d, l)) /\ (IsCancel(d, j)' <=> IsCancel(d, l))
      BY <3>1, RestArrived
    <3>3. PICK j \in 1 .. Len(up'[d]) :
            /\ l = (IF d = c THEN j + 1 ELSE j) /\ up'[d][j] = up[d][l] /\ IsCancel(d, j)'
      BY <2>4, <3>2
    <3>4. i < j
      BY <2>2, <2>4, <3>3
    <3> QED
      BY <2>2, <2>4, <3>3, <3>4
  <2> QED
    BY <2>2, <2>3, <2>4 DEF SentIsAskedOrCanceled
<1> QED
  BY <1>1, <1>4, <1>5, <1>6, <1>7, <1>8, <1>9

\* A query arrived: it is taken (fresh) or denied, and of the other queries a
\* handler may lose all but those kept, of which their pages are told.
Taken(c, kept, fresh) ==
  /\ pending' = kept \cup fresh /\ kept \subseteq pending
  /\ \A x \in fresh : /\ x.context = c /\ x.cid = up[c][1].cid /\ x.rid = up[c][1].rid
                      /\ x.persistent = up[c][1].persistent
  /\ \A x, y \in fresh : x = y
  /\ \A d \in Contexts : Downs(d) \subseteq Downs(d)'
  /\ \A d \in Contexts : \A n \in Downs(d)' :
       \/ n \in Downs(d)
       \/ \E info \in pending : /\ info \notin kept /\ info.context = d
                                /\ n.cid = info.cid /\ n.rid = info.rid
       \/ fresh = {} /\ d = c /\ n.cid = up[c][1].cid /\ n.rid = up[c][1].rid
  /\ \A info \in pending : info \notin kept /\ info.context \in valid =>
       \E n \in Downs(info.context)' : n.rid = info.rid /\ n.result # "success"
  /\ fresh # {} \/ \E n \in Downs(c)' : n.rid = up[c][1].rid /\ n.result # "success"

LEMMA QueryArrives ==
  ASSUME RouterInv, RouterInv', RequestInv, NEW c \in Contexts, Arrives(c), IsQuery(c, 1),
         UNCHANGED <<life, ctxId, lastReq, open, page, valid, dropped>>,
         NEW kept, NEW fresh, Taken(c, kept, fresh)
  PROVE  RequestInv'
<1> USE DEF RequestInv, Names, Unique, Rules, Goals
<1> DEFINE m == up[c][1]
<1>a. /\ pending' = kept \cup fresh /\ kept \subseteq pending
      /\ \A x, y \in fresh : x = y
      /\ \A d \in Contexts : Downs(d) \subseteq Downs(d)'
      /\ \A info \in pending : info \notin kept /\ info.context \in valid =>
           \E n \in Downs(info.context)' : n.rid = info.rid /\ n.result # "success"
  BY DEF Taken
<1> USE <1>a
<1>1. /\ ContextsAreNumbered' /\ FramesFit'
      /\ SentNamesContext' /\ RequestsNameContext' /\ RequestsAreUnique' /\ SentAreUnique'
      /\ CancelsAreFinal' /\ SentIsAskedOrCanceled'
      /\ \A d \in Contexts : LastReq(d)' = LastReq(d)
  BY ArrivalKeeps
<1>2. /\ 1 \in 1 .. Len(up[c])
      /\ \A d \in Contexts : \A i \in 1 .. Len(up'[d]) : \E j \in 1 .. Len(up[d]) :
           up'[d][i] = up[d][j] /\ (d = c => j # 1)
      /\ \A d \in Contexts : \A j \in 1 .. Len(up[d]) : ~(d = c /\ j = 1) =>
           \E i \in 1 .. Len(up'[d]) : up'[d][i] = up[d][j]
  BY MessagesBehind
<1>3. /\ \A r \in open : r.context \in Contexts
      /\ \A info \in pending : info.context \in Contexts
  BY StateTypes
\* Nothing but the message itself and its request has its id.
<1>4. /\ \A info \in pending : info.context = c => info.rid # m.rid
      /\ \A n \in Downs(c) : n.rid # m.rid
      /\ \A i \in 1 .. Len(up[c]) : IsQuery(c, i) /\ up[c][i].rid = m.rid => i = 1
  BY <1>2 DEF SentIsNew, SentAreUnique
<1>5. m.cid = ctxId[c] /\ m.rid <= LastReq(c)
  BY <1>2 DEF SentNamesContext
<1>6. \A x \in fresh : /\ x.context = c /\ x.cid = m.cid /\ x.rid = m.rid
                       /\ x.persistent = m.persistent
  BY DEF Taken
<1>7. fresh # {} \/ \E n \in Downs(c)' : n.rid = m.rid /\ n.result # "success"
  BY DEF Taken
<1>8. \A d \in Contexts : \A n \in Downs(d)' :
        \/ n \in Downs(d)
        \/ \E info \in pending : /\ info \notin kept /\ info.context = d
                                 /\ n.cid = info.cid /\ n.rid = info.rid
        \/ fresh = {} /\ d = c /\ n.cid = m.cid /\ n.rid = m.rid
  BY DEF Taken
<1> HIDE DEF m
<1>9. QueriesNameContext'
  <2>1. SUFFICES ASSUME NEW info \in kept \cup fresh
                 PROVE  info.cid = ctxId[info.context] /\ info.rid <= LastReq(info.context)'
    BY DEF QueriesNameContext
  <2> QED
    BY <1>1, <1>3, <1>5, <1>6 DEF QueriesNameContext
<1>10. AnswersNameContext'
  <2>1. SUFFICES ASSUME NEW d \in Contexts, NEW n \in Downs(d)'
                 PROVE  n.cid = ctxId[d] /\ n.rid <= LastReq(d)
    BY <1>1 DEF AnswersNameContext
  <2>2. CASE n \in Downs(d)
    BY <2>2 DEF AnswersNameContext
  <2>3. CASE \E info \in pending : info.context = d /\ n.cid = info.cid /\ n.rid = info.rid
    BY <2>3 DEF QueriesNameContext
  <2>4. CASE d = c /\ n.cid = m.cid /\ n.rid = m.rid
    BY <1>5, <2>4
  <2> QED
    BY <1>8, <2>2, <2>3, <2>4
<1>11. QueriesAreUnique'
  BY <1>4, <1>6 DEF QueriesAreUnique
<1>12. SentIsNew'
  <2>1. SUFFICES ASSUME NEW d \in Contexts, NEW i \in 1 .. Len(up'[d]), IsQuery(d, i)'
                 PROVE  /\ \A info \in kept \cup fresh :
                             info.context = d => info.rid # up'[d][i].rid
                        /\ \A n \in Downs(d)' : n.rid # up'[d][i].rid
    BY DEF SentIsNew
  <2>a. PICK j \in 1 .. Len(up[d]) : up'[d][i] = up[d][j] /\ (d = c => j # 1)
    BY <1>2
  <2>2. up'[d][i] = up[d][j] /\ IsQuery(d, j) /\ (d = c => j # 1)
    BY <2>1, <2>a DEF IsQuery
  <2>3. /\ \A info \in pending : info.context = d => info.rid # up[d][j].rid
        /\ \A n \in Downs(d) : n.rid # up[d][j].rid
    BY <2>2 DEF SentIsNew
  <2>4. d = c => m.rid # up[d][j].rid
    BY <1>4, <2>2
  <2> QED
    BY <1>6, <1>8, <2>2, <2>3, <2>4
<1>13. AnswersEndQueries'
  <2>1. SUFFICES ASSUME NEW info \in kept \cup fresh, NEW n \in Downs(info.context)',
                        n.rid = info.rid
                 PROVE  n.result = "success" /\ info.persistent
    BY DEF AnswersEndQueries
  <2>2. CASE info \in kept
    <3>1. info.context \in Contexts /\ ~(info.context = c /\ info.rid = m.rid)
      BY <1>3, <1>4, <2>2
    <3>2. \A other \in pending : other.context = info.context /\ other.rid = info.rid =>
            other = info
      BY <2>2 DEF QueriesAreUnique
    <3>3. n \in Downs(info.context)
      BY <1>8, <2>1, <2>2, <3>1, <3>2
    <3> QED
      BY <2>1, <2>2, <3>3 DEF AnswersEndQueries
  <2>3. CASE info \in fresh
    <3>1. info.context = c /\ info.rid = m.rid /\ fresh # {}
      BY <1>6, <2>3
    <3> QED
      BY <1>4, <1>8, <2>1, <3>1
  <2> QED
    BY <2>2, <2>3
<1>14. PersistenceAgrees'
  <2>1. SUFFICES ASSUME NEW r \in open
                 PROVE  /\ \A info \in kept \cup fresh :
                             info.context = r.context /\ info.rid = r.rid =>
                               info.persistent = r.persistent
                        /\ \A i \in 1 .. Len(up'[r.context]) :
                             IsQuery(r.context, i)' /\ up'[r.context][i].rid = r.rid =>
                               up'[r.context][i].persistent = r.persistent
    BY DEF PersistenceAgrees
  <2>2. ASSUME NEW i \in 1 .. Len(up'[r.context]),
               IsQuery(r.context, i)', up'[r.context][i].rid = r.rid
        PROVE  up'[r.context][i].persistent = r.persistent
    <3>1. r.context \in Contexts
      BY <1>3
    <3>2. PICK j \in 1 .. Len(up[r.context]) : up'[r.context][i] = up[r.context][j]
      BY <1>2, <3>1
    <3> QED
      BY <2>2, <3>2 DEF PersistenceAgrees, IsQuery
  <2>3. ASSUME r.context = c, r.rid = m.rid
        PROVE  m.persistent = r.persistent
    BY <1>2, <2>3 DEF PersistenceAgrees, m
  <2> QED
    BY <1>6, <2>2, <2>3 DEF PersistenceAgrees
<1>b. /\ \A r : Excused(r)' <=> Excused(r)
      /\ \A d : HasTwin(d)' <=> HasTwin(d)
  BY DEF Excused, HasTwin, Twins
<1>15. NoneForgotten'
  <2>1. SUFFICES ASSUME NEW r \in open, life[r.context] = "live", ~Excused(r)'
                 PROVE  Expected(r)'
    BY DEF NoneForgotten
  <2>2. Expected(r) /\ r.context \in Contexts /\ r.context \in valid
    BY <1>3, <1>b, <2>1 DEF NoneForgotten, FramesFit
  <2>3. ASSUME NEW n \in Downs(r.context)', n.rid = r.rid, n.result # "success"
        PROVE  Expected(r)'
    BY <2>3 DEF Expected, FinalAnswer
  <2>4. ASSUME r.context = c, r.rid = m.rid
        PROVE  Expected(r)'
    <3>1. CASE fresh # {}
      BY <1>6, <2>4, <3>1 DEF Expected
    <3>2. CASE fresh = {}
      BY <1>7, <2>3, <2>4, <3>2
    <3> QED
      BY <3>1, <3>2
  <2>5. ASSUME NEW j \in 1 .. Len(up[r.context]), IsQuery(r.context, j),
               up[r.context][j].rid = r.rid
        PROVE  Expected(r)'
    <3>1. CASE r.context = c /\ j = 1
      BY <2>4, <2>5, <3>1 DEF m
    <3>2. CASE ~(r.context = c /\ j = 1)
      <4>1. PICK i \in 1 .. Len(up'[r.context]) : up'[r.context][i] = up[r.context][j]
        BY <1>2, <2>2, <3>2
      <4> QED
        BY <2>5, <4>1 DEF Expected, IsQuery
    <3> QED
      BY <3>1, <3>2
  <2>6. ASSUME NEW info \in pending, info.context = r.context, info.rid = r.rid
        PROVE  Expected(r)'
    <3>1. CASE info \in kept
      BY <2>6, <3>1 DEF Expected
    <3>2. CASE info \notin kept
      BY <2>2, <2>3, <2>6, <3>2
    <3> QED
      BY <3>1, <3>2
  <2>7. ASSUME NEW n \in Downs(r.context), FinalAnswer(n, r)
        PROVE  Expected(r)'
    BY <2>2, <2>7 DEF Expected, FinalAnswer
  <2> QED
    BY <2>2, <2>5, <2>6, <2>7 DEF Expected
<1>16. NoneUnasked'
  <2>1. SUFFICES ASSUME NEW info \in kept \cup fresh, info.context \in valid,
                        ~HasTwin(info.context)'
                 PROVE  Asked(info)' \/ CancelSent(info)'
    BY DEF NoneUnasked
  <2>2. ASSUME NEW j \in 1 .. Len(up[info.context]), info.context \in Contexts,
               ~(info.context = c /\ j = 1), IsCancel(info.context, j),
               up[info.context][j].rid \in {Reserved, info.rid}
        PROVE  CancelSent(info)'
    <3>1. PICK i \in 1 .. Len(up'[info.context]) : up'[info.context][i] = up[info.context][j]
      BY <1>2, <2>2
    <3> QED
      BY <2>2, <3>1 DEF CancelSent, IsCancel
  <2>3. CASE info \in kept
    <3>1. Asked(info) \/ CancelSent(info)
      BY <1>b, <2>1, <2>3 DEF NoneUnasked
    <3>2. ~IsCancel(c, 1)
      BY DEF IsQuery, IsCancel
    <3>3. Asked(info) => Asked(info)'
      BY DEF Asked
    <3> QED
      BY <1>3, <2>2, <2>3, <3>1, <3>2, <3>3 DEF CancelSent
  <2>4. CASE info \in fresh
    <3>1. info.context = c /\ info.rid = m.rid
      BY <1>6, <2>4
    <3>2. \/ \E r \in open : r.context = c /\ r.rid = m.rid
          \/ \E j \in 1 .. Len(up[c]) :
               1 < j /\ IsCancel(c, j) /\ up[c][j].rid \in {Reserved, m.rid}
      BY <1>2 DEF SentIsAskedOrCanceled, m
    <3> QED
      BY <2>2, <3>1, <3>2 DEF Asked
  <2> QED
    BY <2>3, <2>4
<1> QED
  BY <1>1, <1>9, <1>10, <1>11, <1>12, <1>13, <1>14, <1>15, <1>16

\* A cancellation arrives: it ends what the page withdrew, and of other contexts
\* the queries of twins only.
LEMMA CancelArrives ==
  ASSUME RouterInv, RouterInv', RequestInv, NEW c \in Contexts, Arrives(c), IsCancel(c, 1),
         UNCHANGED <<life, ctxId, lastReq, open, down, page, valid, dropped>>,
         pending' = Without(RequestsPending(BrowserOf[c], up[c][1].cid, up[c][1].rid))
  PROVE  RequestInv'
<1> USE DEF RequestInv, Names, Unique, Rules, Goals
<1> DEFINE m == up[c][1]
<1>1. /\ ContextsAreNumbered' /\ FramesFit'
      /\ SentNamesContext' /\ RequestsNameContext' /\ RequestsAreUnique' /\ SentAreUnique'
      /\ CancelsAreFinal' /\ SentIsAskedOrCanceled'
      /\ \A d \in Contexts : LastReq(d)' = LastReq(d)
  BY ArrivalKeeps
<1>2. /\ 1 \in 1 .. Len(up[c])
      /\ \A d \in Contexts : \A i \in 1 .. Len(up'[d]) : \E j \in 1 .. Len(up[d]) :
           up'[d][i] = up[d][j]
      /\ \A d \in Contexts : \A j \in 1 .. Len(up[d]) : ~(d = c /\ j = 1) =>
           \E i \in 1 .. Len(up'[d]) : up'[d][i] = up[d][j]
  BY MessagesBehind, SMTT(30)
<1>3. /\ \A r \in open : r.context \in Contexts
      /\ \A info \in pending : info.context \in Contexts
  BY StateTypes
<1>4. m.cid = ctxId[c] /\ ctxId[c] # Reserved /\ m.rid \in 0 .. MaxQuery
  BY <1>2, SentTypes DEF SentNamesContext
<1>a. pending' \subseteq pending
  BY DEF Without
<1>5. \A info \in pending :
        /\ info \notin pending' => info.context = c \/ Twins(c, info.context)
        /\ info \notin pending' => m.rid \in {Reserved, info.rid}
        /\ ~HasTwin(c) /\ info.context = c /\ m.rid \in {Reserved, info.rid} =>
             info \notin pending'
  <2>1. pending' = {info \in pending : info.id \notin RequestsPending(BrowserOf[c], ctxId[c], m.rid)}
    BY <1>4 DEF Without
  <2>2. \A info \in pending :
          info \notin pending' <=> info.id \in RequestsPending(BrowserOf[c], ctxId[c], m.rid)
    BY <2>1
  <2> HIDE DEF m
  <2> QED
    BY <1>4, <2>2, CanceledAreOwn
<1>b. /\ \A r : Excused(r)' <=> Excused(r)
      /\ \A d : HasTwin(d)' <=> HasTwin(d)
  BY DEF Excused, HasTwin, Twins
<1>c. \A d \in Contexts : Twins(c, d) => HasTwin(d)
  BY DEF Twins, HasTwin
<1>6. \A d \in Contexts : Downs(d)' = Downs(d)
  BY DEF Downs
<1>7. QueriesNameContext' /\ AnswersNameContext' /\ QueriesAreUnique'
  BY <1>1, <1>3, <1>a, <1>6 DEF QueriesNameContext, AnswersNameContext, QueriesAreUnique
<1>8. SentIsNew'
  <2>1. SUFFICES ASSUME NEW d \in Contexts, NEW i \in 1 .. Len(up'[d]), IsQuery(d, i)'
                 PROVE  /\ \A info \in pending' : info.context = d => info.rid # up'[d][i].rid
                        /\ \A n \in Downs(d) : n.rid # up'[d][i].rid
    BY <1>6 DEF SentIsNew
  <2>2. PICK j \in 1 .. Len(up[d]) : up'[d][i] = up[d][j]
    BY <1>2
  <2>3. IsQuery(d, j)
    BY <2>1, <2>2 DEF IsQuery
  <2> QED
    BY <1>a, <2>2, <2>3 DEF SentIsNew
<1>9. AnswersEndQueries'
  BY <1>3, <1>a, <1>6 DEF AnswersEndQueries
<1>10. PersistenceAgrees'
  <2>1. ASSUME NEW r \in open, NEW i \in 1 .. Len(up'[r.context]),
               IsQuery(r.context, i)', up'[r.context][i].rid = r.rid
        PROVE  up'[r.context][i].persistent = r.persistent
    <3>1. PICK j \in 1 .. Len(up[r.context]) : up'[r.context][i] = up[r.context][j]
      BY <1>2, <1>3
    <3> QED
      BY <2>1, <3>1 DEF PersistenceAgrees, IsQuery
  <2>2. \A r \in open : \A info \in pending' :
          info.context = r.context /\ info.rid = r.rid => info.persistent = r.persistent
    BY <1>a DEF PersistenceAgrees
  <2> QED
    BY <2>1, <2>2 DEF PersistenceAgrees
<1>11. NoneForgotten'
  <2>1. SUFFICES ASSUME NEW r \in open, life[r.context] = "live", ~Excused(r)'
                 PROVE  Expected(r)'
    BY DEF NoneForgotten
  <2>2. Expected(r) /\ r.context \in Contexts
    BY <1>3, <1>b, <2>1 DEF NoneForgotten
  <2>3. ASSUME NEW j \in 1 .. Len(up[r.context]), IsQuery(r.context, j),
               up[r.context][j].rid = r.rid
        PROVE  Expected(r)'
    <3>1. ~IsQuery(c, 1)
      BY DEF IsQuery, IsCancel
    <3>2. ~(r.context = c /\ j = 1)
      BY <2>3, <3>1
    <3>3. PICK i \in 1 .. Len(up'[r.context]) : up'[r.context][i] = up[r.context][j]
      BY <1>2, <2>2, <3>2
    <3> QED
      BY <2>3, <3>3 DEF Expected, IsQuery
  <2>4. ASSUME NEW info \in pending, info.context = r.context, info.rid = r.rid
        PROVE  Expected(r)'
    <3>1. info \in pending'
      <4>1. SUFFICES ASSUME r.context = c, m.rid \in {Reserved, r.rid}
                     PROVE  FALSE
        BY <1>5, <1>b, <1>c, <2>1, <2>2, <2>4 DEF Excused
      <4>2. m.rid # r.rid /\ (m.rid = Reserved => ~Running(c)) /\ Running(c)
        BY <1>2, <2>1, <4>1 DEF CancelsAreFinal
      <4> QED
        BY <4>1, <4>2
    <3> QED
      BY <2>4, <3>1 DEF Expected
  <2>5. ASSUME NEW n \in Downs(r.context), FinalAnswer(n, r)
        PROVE  Expected(r)'
    BY <1>6, <2>2, <2>5 DEF Expected, FinalAnswer
  <2> QED
    BY <2>2, <2>3, <2>4, <2>5 DEF Expected
<1>12. NoneUnasked'
  <2>1. SUFFICES ASSUME NEW info \in pending', info.context \in valid,
                        ~HasTwin(info.context)'
                 PROVE  Asked(info)' \/ CancelSent(info)'
    BY DEF NoneUnasked
  <2>2. info \in pending /\ info.context \in Contexts /\ (Asked(info) \/ CancelSent(info))
    BY <1>3, <1>a, <1>b, <2>1 DEF NoneUnasked
  <2>3. Asked(info) => Asked(info)'
    BY DEF Asked
  <2>4. ASSUME NEW j \in 1 .. Len(up[info.context]), IsCancel(info.context, j),
               up[info.context][j].rid \in {Reserved, info.rid}
        PROVE  CancelSent(info)'
    <3>1. ~(info.context = c /\ j = 1)
      BY <1>5, <1>b, <2>1, <2>2, <2>4
    <3>2. PICK i \in 1 .. Len(up'[info.context]) : up'[info.context][i] = up[info.context][j]
      BY <1>2, <2>2, <3>1
    <3> QED
      BY <2>4, <3>2 DEF CancelSent, IsCancel
  <2> QED
    BY <2>2, <2>3, <2>4 DEF CancelSent
<1> QED
  BY <1>1, <1>7, <1>8, <1>9, <1>10, <1>11, <1>12

LEMMA FirstMessage ==
  ASSUME RouterInv, NEW c \in Contexts, up[c] # <<>>
  PROVE  Head(up[c]) = up[c][1] /\ 1 \in 1 .. Len(up[c])
<1>1. up[c] \in Seq(Upward)
  BY StateTypes
<1> QED
  BY <1>1, FirstAndRest

LEMMA MessageReceivedKeeps ==
  ASSUME RouterInv, RouterInv', RequestInv, NEW c \in Contexts,
         OnProcessMessageReceived(c)
  PROVE  RequestInv'
<1> DEFINE m == up[c][1]
<1>1. Arrives(c) /\ Head(up[c]) = m /\ 1 \in 1 .. Len(up[c]) /\ c \in valid
  BY FirstMessage DEF OnProcessMessageReceived, Arrives, RequestInv, FramesFit
<1>2. UNCHANGED <<life, ctxId, lastReq, open, page, valid, dropped>>
  BY DEF OnProcessMessageReceived, rendererVars, contentVars
<1>3. \A info \in pending : info.context \in Contexts
  BY StateTypes
<1>4. \A info : /\ Message(info, "canceled", 0).cid = info.cid
                /\ Message(info, "canceled", 0).rid = info.rid
                /\ Message(info, "canceled", 0).result # "success"
  BY DEF Message
<1>5. \A h : /\ NewInfo(c, m, h).context = c /\ NewInfo(c, m, h).cid = m.cid
             /\ NewInfo(c, m, h).rid = m.rid /\ NewInfo(c, m, h).persistent = m.persistent
  BY DEF NewInfo
<1>6. CASE m.type = "query" /\ DeclineQuery(c, m)
  <2>1. UNCHANGED pending /\ down' = SendToRenderer(c, Message(m, "canceled", 0))
    BY <1>6 DEF DeclineQuery, CancelUnhandledQuery
  <2>2. Message(m, "canceled", 0) \in Downward
    <3>1. m \in Upward /\ 0 \in 0 .. MaxAnswers
      BY <1>1, SentTypes, RouterAssumption DEF RouterAssumption
    <3> QED
      BY <1>6, <3>1, NewCallbackTyped DEF Message, Downward
  <2> DEFINE n == Message(m, "canceled", 0)
  <2>3. /\ \A d \in Contexts : Downs(d) \subseteq Downs(d)'
        /\ \A d \in Contexts : \A x \in Downs(d)' : x \in Downs(d) \/ (d = c /\ x = n)
        /\ n \in Downs(c)'
    BY <1>1, <2>1, <2>2, AnswerSent, InvIsParts DEF QueryInv
  <2> HIDE DEF n
  <2>4. n.cid = m.cid /\ n.rid = m.rid /\ n.result # "success"
    BY <1>4 DEF n
  <2>5. IsQuery(c, 1) /\ pending' = pending \cup {}
    BY <1>6, <2>1 DEF IsQuery
  <2>6. \A d \in Contexts : \A x \in Downs(d)' :
          x \in Downs(d) \/ (d = c /\ x.cid = m.cid /\ x.rid = m.rid)
    BY <2>3, <2>4
  <2>7. \E x \in Downs(c)' : x.rid = m.rid /\ x.result # "success"
    BY <2>3, <2>4
  <2>8. Taken(c, pending, {})
    BY <2>3, <2>5, <2>6, <2>7 DEF Taken
  <2> QED
    BY <1>1, <1>2, <2>5, <2>8, QueryArrives
<1>7. ASSUME NEW h \in Handlers, m.type = "query", HandleQuery(c, m, h)
      PROVE  RequestInv'
  <2>1. pending' = pending \cup {NewInfo(c, m, h)} /\ UNCHANGED down
    BY <1>7 DEF HandleQuery
  <2>2. \A d \in Contexts : Downs(d)' = Downs(d)
    BY <2>1 DEF Downs
  <2>3. IsQuery(c, 1) /\ {NewInfo(c, m, h)} # {}
    BY <1>7 DEF IsQuery
  <2>4. Taken(c, pending, {NewInfo(c, m, h)})
    BY <1>5, <2>1, <2>2, <2>3 DEF Taken
  <2> QED
    BY <1>1, <1>2, <2>3, <2>4, QueryArrives
<1>8. ASSUME NEW h \in Handlers, m.type = "query", HandleAndLeave(c, m, h)
      PROVE  RequestInv'
  <2> DEFINE ids == PendingFor(None, h)
  <2>1. /\ pending' = Without(ids) \cup {NewInfo(c, m, h)}
        /\ down' = [d \in Contexts |->
                      IF d \in valid THEN down[d] \o Notices(ids, d) ELSE down[d]]
    BY <1>8 DEF HandleAndLeave
  <2> HIDE DEF ids
  <2>2. /\ \A d \in Contexts : Downs(d) \subseteq Downs(d)'
        /\ \A d \in Contexts : \A x \in Downs(d)' :
             \/ x \in Downs(d)
             \/ \E info \in pending : /\ info.id \in ids /\ info.context = d
                                      /\ x = Message(info, "canceled", 0)
        /\ \A info \in pending : info.id \in ids /\ info.context \in valid =>
             Message(info, "canceled", 0) \in Downs(info.context)'
    BY <2>1, NoticesSent
  <2>3. \A info \in pending : info \notin Without(ids) <=> info.id \in ids
    BY DEF Without
  <2>4. IsQuery(c, 1) /\ {NewInfo(c, m, h)} # {} /\ Without(ids) \in SUBSET pending
    BY <1>8 DEF IsQuery, Without
  <2>5. \A d \in Contexts : \A x \in Downs(d)' :
          \/ x \in Downs(d)
          \/ \E info \in pending : /\ info \notin Without(ids) /\ info.context = d
                                   /\ x.cid = info.cid /\ x.rid = info.rid
    BY <1>4, <2>2, <2>3
  <2>6. \A info \in pending : info \notin Without(ids) /\ info.context \in valid =>
          \E x \in Downs(info.context)' : x.rid = info.rid /\ x.result # "success"
    BY <1>4, <2>2, <2>3
  <2>7. Taken(c, Without(ids), {NewInfo(c, m, h)})
    BY <1>5, <2>1, <2>2, <2>4, <2>5, <2>6 DEF Taken
  <2> QED
    BY <1>1, <1>2, <2>4, <2>7, QueryArrives
<1>9. CASE /\ m.type = "cancel"
           /\ CancelQueries(RequestsPending(BrowserOf[c], m.cid, m.rid), FALSE)
  <2>1. /\ IsCancel(c, 1) /\ UNCHANGED down
        /\ pending' = Without(RequestsPending(BrowserOf[c], m.cid, m.rid))
    BY <1>9 DEF IsCancel, CancelQueries
  <2> QED
    BY <1>1, <1>2, <2>1, CancelArrives
<1> QED
  BY <1>1, <1>6, <1>7, <1>8, <1>9 DEF OnProcessMessageReceived

-----------------------------------------------------------------------------
(* Queries are answered and canceled. *)

LEMMA CanceledLoudly ==
  ASSUME RouterInv, NEW ids, CancelQueries(ids, TRUE)
  PROVE  /\ pending' \subseteq pending /\ AnswersExplained
         /\ \A c \in Contexts : Downs(c) \subseteq Downs(c)'
         /\ \A info \in pending : info \notin pending' /\ info.context \in valid =>
              EndIsTold(info)
<1>1. /\ pending' = Without(ids)
      /\ down' = [c \in Contexts |->
                    IF c \in valid THEN down[c] \o Notices(ids, c) ELSE down[c]]
  BY DEF CancelQueries
<1>2. /\ \A c \in Contexts : Downs(c) \subseteq Downs(c)'
      /\ \A c \in Contexts : \A m \in Downs(c)' :
           \/ m \in Downs(c)
           \/ \E info \in pending : /\ info.id \in ids /\ info.context = c
                                    /\ m = Message(info, "canceled", 0)
      /\ \A info \in pending : info.id \in ids /\ info.context \in valid =>
           Message(info, "canceled", 0) \in Downs(info.context)'
  BY <1>1, NoticesSent
<1>3. \A info : /\ Message(info, "canceled", 0).cid = info.cid
                /\ Message(info, "canceled", 0).rid = info.rid
                /\ Message(info, "canceled", 0).result = "canceled"
  BY DEF Message
<1>4. pending' \subseteq pending /\ \A info \in pending : info \notin pending' <=> info.id \in ids
  BY <1>1 DEF Without
<1>5. AnswersExplained
  BY <1>2, <1>3, <1>4 DEF AnswersExplained
<1>6. \A info \in pending : info \notin pending' /\ info.context \in valid => EndIsTold(info)
  BY <1>2, <1>3, <1>4 DEF EndIsTold
<1> QED
  BY <1>2, <1>4, <1>5, <1>6

LEMMA CanceledQuietly ==
  ASSUME NEW ids, CancelQueries(ids, FALSE)
  PROVE  /\ pending' \subseteq pending /\ AnswersExplained
         /\ \A c \in Contexts : Downs(c)' = Downs(c)
         /\ \A info \in pending : info \notin pending' => info.id \in ids
<1>1. pending' = Without(ids) /\ down' = down
  BY DEF CancelQueries
<1> QED
  BY <1>1 DEF Without, Downs, AnswersExplained

LEMMA Answered ==
  ASSUME RouterInv, NEW t \in Task, t.type # "cancel", Complete(t)
  PROVE  /\ pending' \subseteq pending /\ AnswersExplained
         /\ \A c \in Contexts : Downs(c) \subseteq Downs(c)'
         /\ \A info \in pending : info \notin pending' /\ info.context \in valid =>
              EndIsTold(info)
<1>1. CASE UNCHANGED <<pending, down>>
  BY <1>1 DEF AnswersExplained, Downs
<1>2. ASSUME NEW info \in pending, info.id = t.id,
             down' = SendToRenderer(info.context, Message(info, t.type, t.n)),
             pending' = IF t.type = "failure" \/ ~info.persistent THEN Without({t.id})
                        ELSE pending
      PROVE  /\ pending' \subseteq pending /\ AnswersExplained
             /\ \A c \in Contexts : Downs(c) \subseteq Downs(c)'
             /\ \A x \in pending : x \notin pending' /\ x.context \in valid => EndIsTold(x)
  <2> DEFINE m == Message(info, t.type, t.n)
  <2>1. /\ info.context \in Contexts /\ info.cid \in Nat \ {Reserved}
        /\ info.rid \in 1 .. MaxQuery /\ info.persistent \in BOOLEAN
    BY StateTypes
  <2>2. t.type \in {"success", "failure"} /\ t.n \in 0 .. MaxAnswers
    BY DEF Task
  <2>3. m \in Downward
    BY <2>1, <2>2 DEF Message, Downward
  <2>4. m.cid = info.cid /\ m.rid = info.rid /\ m.result = t.type
    BY DEF Message
  <2>5. down' = SendToRenderer(info.context, m)
    BY <1>2
  <2> HIDE DEF m
  <2>6. /\ \A d \in Contexts : Downs(d) \subseteq Downs(d)'
        /\ \A d \in Contexts : \A n \in Downs(d)' :
             n \in Downs(d) \/ (d = info.context /\ n = m)
        /\ info.context \in valid => m \in Downs(info.context)'
    BY <2>1, <2>3, <2>5, AnswerSent, InvIsParts DEF QueryInv
  <2>7. /\ pending' \subseteq pending
        /\ \A x \in pending : x \notin pending' =>
             x = info /\ (t.type = "failure" \/ ~info.persistent)
        /\ info \in pending' => t.type # "failure" /\ info.persistent
    BY <1>2, <2>1 DEF Without, RouterInv, IdsAreOwn
  <2>8. AnswersExplained
    <3>1. info \notin pending' \/ (m.result = "success" /\ info.persistent)
      BY <2>2, <2>4, <2>7
    <3> QED
      BY <2>4, <2>6, <3>1 DEF AnswersExplained
  <2>9. ASSUME NEW x \in pending, x \notin pending', x.context \in valid
        PROVE  EndIsTold(x)
    <3>1. x = info /\ m \in Downs(info.context)'
      BY <2>6, <2>7, <2>9
    <3>2. m.result = "success" => ~info.persistent
      BY <2>4, <2>7, <2>9
    <3> QED
      BY <2>4, <3>1, <3>2 DEF EndIsTold
  <2> QED
    BY <2>6, <2>7, <2>8, <2>9
<1> QED
  BY <1>1, <1>2 DEF Complete

\* Whatever ends queries between two steps of the pages tells the pages.
LEMMA TellingKeeps ==
  ASSUME RouterInv, RouterInv', RequestInv,
         UNCHANGED <<life, ctxId, lastReq, open, up, page, valid, dropped>>,
         pending' \subseteq pending, AnswersExplained,
         \A c \in Contexts : Downs(c) \subseteq Downs(c)',
         \A info \in pending : info \notin pending' /\ info.context \in valid =>
           EndIsTold(info)
  PROVE  RequestInv'
<1>1. FramesFit'
  BY DEF RequestInv, FramesFit
<1>2. PagesAreTold
  BY DEF PagesAreTold, RequestInv, FramesFit
<1>3. \A c \in Contexts : Running(c)' <=> Running(c)
  BY DEF Running
<1>4. \A r \in open : r.context \in Contexts /\ Running(r.context)
  BY StateTypes DEF RequestInv, Rules, CancelsAreFinal
<1>5. Settles
  BY <1>2, <1>3, <1>4 DEF Settles
<1> QED
  BY <1>1, <1>5, SettlesKeeps

LEMMA TaskRunKeeps ==
  ASSUME RouterInv, RouterInv', RequestInv, RunTask
  PROVE  RequestInv'
<1> DEFINE t == Head(tasks)
<1>1. t \in Task
  <2>1. tasks \in Seq(Task) /\ tasks # <<>>
    BY InvIsParts DEF TaskInv, TaskTypes, RunTask
  <2> QED
    BY <2>1, FirstAndRest, ElementOfSeq
<1>2. UNCHANGED <<life, ctxId, lastReq, open, up, page, valid, dropped>>
  BY DEF RunTask, rendererVars, contentVars
<1> HIDE DEF t
<1>3. CASE CancelQueries(PendingFor(t.browser, t.handler), TRUE)
  BY <1>2, <1>3, CanceledLoudly, TellingKeeps
<1>4. CASE t.type # "cancel" /\ Complete(t)
  BY <1>1, <1>2, <1>4, Answered, TellingKeeps
<1>5. CASE UNCHANGED <<pending, down>>
  <2>1. AnswersExplained /\ \A c \in Contexts : Downs(c)' = Downs(c)
    BY <1>5 DEF AnswersExplained, Downs
  <2> QED
    BY <1>2, <1>5, <2>1, TellingKeeps
<1> QED
  BY <1>3, <1>4, <1>5 DEF RunTask, RunAnswer, CancelPendingFor, t

LEMMA ClientCallKeeps ==
  ASSUME RouterInv, RouterInv', RequestInv, Client
  PROVE  RequestInv'
<1>1. UNCHANGED <<life, ctxId, lastReq, open, up, page, valid, dropped>>
  BY DEF Client, Success, Failure, AddHandler, RemoveHandler, CancelPending,
    PostCancelPending, rendererVars, contentVars
<1>2. ASSUME NEW ids, CancelQueries(ids, TRUE)
      PROVE  RequestInv'
  BY <1>1, <1>2, CanceledLoudly, TellingKeeps
<1>3. CASE UNCHANGED <<pending, down>>
  <2>1. AnswersExplained /\ \A c \in Contexts : Downs(c)' = Downs(c)
    BY <1>3 DEF AnswersExplained, Downs
  <2> QED
    BY <1>1, <1>3, <2>1, TellingKeeps
<1>4. ASSUME NEW id \in QueryIds, Success(id) \/ Failure(id)
      PROVE  RequestInv'
  BY <1>3, <1>4 DEF Success, Failure
<1>5. ASSUME NEW h \in Handlers, AddHandler(h) \/ RemoveHandler(h)
      PROVE  RequestInv'
  BY <1>2, <1>3, <1>5 DEF AddHandler, RemoveHandler, CancelPendingFor
<1>6. ASSUME NEW b \in Browsers \cup {None}, NEW h \in Handlers \cup {None},
             CancelPending(b, h) \/ PostCancelPending(b, h)
      PROVE  RequestInv'
  BY <1>2, <1>3, <1>6 DEF CancelPending, PostCancelPending, CancelPendingFor
<1> QED
  BY <1>4, <1>5, <1>6 DEF Client

-----------------------------------------------------------------------------
(* Navigations, frames, processes and the end of browsers *)

\* What steps of the content have in common.
ContentMoves ==
  /\ UNCHANGED <<ctxId, lastReq>>
  /\ dropped \subseteq dropped'
  /\ \A c \in Contexts : \/ up'[c] = up[c]
                         \/ up'[c] = <<>> /\ c \notin valid'
  /\ \A c \in Contexts : /\ life'[c] = "none" => life[c] = "none"
                         /\ Running(c)' => Running(c) \/ life[c] = "none"
                         /\ life'[c] = "live" => life[c] \in {"live", "none"}
  /\ open' \subseteq open
  /\ \A r \in open' : Running(r.context)'
  /\ \A r \in open : r \in open' \/ (up'[r.context] = <<>> /\ r.context \notin valid')
  /\ \A c \in valid' : c \in valid \/ life[c] = "none"

LEMMA MovesKeep ==
  ASSUME RouterInv, RouterInv', RequestInv, FramesFit', ContentMoves,
         pending' \subseteq pending, AnswersExplained, PagesAreTold
  PROVE  RequestInv'
<1>1. Settles
  BY DEF ContentMoves, Settles
<1> QED
  BY <1>1, SettlesKeeps

LEMMA NavigationKeeps ==
  ASSUME RouterInv, RouterInv', RequestInv, NEW b \in Browsers, OnBeforeBrowse(b)
  PROVE  RequestInv'
<1>1. /\ UNCHANGED <<life, ctxId, lastReq, open, up, page, valid>>
      /\ dropped' = dropped \cup {<<info.context, info.rid>> : info \in
                                    {i \in pending : BrowserOf[i.context] = b}}
      /\ CancelQueries(PendingFor(b, None), FALSE)
  BY DEF OnBeforeBrowse, CancelPendingFor, rendererVars
<1>2. /\ pending' \subseteq pending /\ AnswersExplained
      /\ \A c \in Contexts : Downs(c)' = Downs(c)
      /\ \A info \in pending : info \notin pending' => info.id \in PendingFor(b, None)
  BY <1>1, CanceledQuietly
<1>3. \A info \in pending : info \notin pending' => BrowserOf[info.context] = b
  <2>1. b # None
    BY RouterAssumption DEF RouterAssumption
  <2> QED
    BY <1>2, <2>1 DEF PendingFor, Ids, RouterInv, IdsAreOwn
<1>4. FramesFit'
  BY <1>1 DEF RequestInv, FramesFit
<1>5. \A r \in open : r.context \in Contexts /\ Running(r.context)
  BY StateTypes DEF RequestInv, Rules, CancelsAreFinal
<1>6. \A c \in Contexts : Running(c)' <=> Running(c)
  BY <1>1 DEF Running
<1>7. ContentMoves
  BY <1>1, <1>5, <1>6 DEF ContentMoves, Running
<1>8. PagesAreTold
  BY <1>1, <1>2, <1>3 DEF PagesAreTold
<1> QED
  BY <1>2, <1>4, <1>7, <1>8, MovesKeep

LEMMA CommitKeeps ==
  ASSUME RouterInv, RouterInv', RequestInv, NEW c \in Contexts, Commit(c)
  PROVE  RequestInv'
<1> DEFINE b == BrowserOf[c]
<1>1. /\ c \in Mains /\ life[c] = "none" /\ b \in Browsers
      /\ UNCHANGED <<ctxId, lastReq, open, down, pending>>
      /\ UNCHANGED dropped
      /\ page' = [page EXCEPT ![b] = c]
      /\ valid' = (valid \ {page[b]}) \cup {c}
  BY SentTypes DEF Commit, routerVars
<1>2. \A d \in Contexts :
        /\ life'[d] = IF d = c THEN "live"
                      ELSE IF BrowserOf[d] = b /\ life[d] = "live" THEN "leaving"
                      ELSE life[d]
        /\ up'[d] = IF d = page[b] THEN <<>> ELSE up[d]
  BY DEF Commit
<1>3. \A r \in open : r.context \in Contexts /\ Running(r.context) /\ r.context # c
  BY <1>1, StateTypes DEF RequestInv, Rules, CancelsAreFinal, Running
<1>4. \A d \in Contexts : Running(d)' <=> Running(d) \/ d = c
  BY <1>2 DEF Running
<1>5. c \notin valid /\ up[c] = <<>> /\ up'[c] = <<>>
  BY <1>1, <1>2 DEF RequestInv, FramesFit
<1>6. \A d \in Contexts : d = page[b] => BrowserOf[d] = b
  <2>1. page[b] # None => BrowserOf[page[b]] = b
    BY <1>1 DEF RequestInv, FramesFit
  <2> QED
    BY <2>1, RouterAssumption DEF RouterAssumption
<1>7. \A d \in Contexts : d \in valid' <=> d = c \/ (d \in valid /\ d # page[b])
  BY <1>1
<1>8. FramesFit'
  <2>1. ASSUME NEW d \in Contexts, up'[d] # <<>>
        PROVE  d \in valid'
    BY <1>2, <1>7, <2>1 DEF RequestInv, FramesFit
  <2>2. ASSUME NEW d \in Contexts, life'[d] = "live"
        PROVE  d \in valid'
    BY <1>2, <1>6, <1>7, <2>2 DEF RequestInv, FramesFit
  <2>3. ASSUME NEW d \in valid'
        PROVE  life'[d] # "none"
    <3>1. d \in Contexts
      BY <1>1, StateTypes
    <3> QED
      BY <1>2, <1>7, <2>3, <3>1 DEF RequestInv, FramesFit
  <2>4. ASSUME NEW x \in Browsers, page'[x] # None
        PROVE  BrowserOf[page'[x]] = x
    <3>1. page'[x] = IF x = b THEN c ELSE page[x]
      BY <1>1, StateTypes
    <3> QED
      BY <2>4, <3>1 DEF RequestInv, FramesFit
  <2>5. ASSUME NEW d \in Contexts, life'[d] = "live"
        PROVE  page'[BrowserOf[d]] = PageOf[d]
    <3>1. CASE d = c
      BY <1>1, <3>1, StateTypes DEF Mains
    <3>2. CASE d # c
      <4>1. life[d] = "live" /\ BrowserOf[d] # b
        BY <1>2, <2>5, <3>2
      <4>2. BrowserOf[d] \in Browsers
        BY SentTypes
      <4>3. page'[BrowserOf[d]] = page[BrowserOf[d]]
        BY <1>1, <4>1, <4>2, StateTypes
      <4> QED
        BY <4>1, <4>3 DEF RequestInv, FramesFit
    <3> QED
      BY <3>1, <3>2
  <2> QED
    BY <2>1, <2>2, <2>3, <2>4, <2>5 DEF FramesFit
<1>9. ContentMoves
  <2>1. \A d \in Contexts : \/ up'[d] = up[d]
                            \/ up'[d] = <<>> /\ d \notin valid'
    BY <1>2, <1>5, <1>7
  <2>2. \A d \in Contexts : /\ life'[d] = "none" => life[d] = "none"
                            /\ Running(d)' => Running(d) \/ life[d] = "none"
                            /\ life'[d] = "live" => life[d] \in {"live", "none"}
    BY <1>1, <1>2, <1>4
  <2>3. \A d \in valid' : d \in valid \/ life[d] = "none"
    BY <1>1
  <2> QED
    BY <1>1, <1>3, <1>4, <2>1, <2>2, <2>3 DEF ContentMoves
<1>10. AnswersExplained /\ \A d \in Contexts : Downs(d)' = Downs(d)
  BY <1>1 DEF AnswersExplained, Downs
<1>11. PagesAreTold
  BY <1>1, <1>2, <1>10 DEF PagesAreTold
<1> QED
  BY <1>1, <1>8, <1>9, <1>10, <1>11, MovesKeep

LEMMA SubFrameKeeps ==
  ASSUME RouterInv, RouterInv', RequestInv, NEW c \in Contexts, SubFrameCreated(c)
  PROVE  RequestInv'
<1>1. /\ life[c] = "none" /\ valid' = valid \cup {c}
      /\ UNCHANGED <<ctxId, lastReq, open, up, down, page, dropped, pending>>
      /\ page[BrowserOf[c]] = PageOf[c]
  BY DEF SubFrameCreated, routerVars
<1>2. \A d \in Contexts : life'[d] = IF d = c THEN "live" ELSE life[d]
  BY StateTypes DEF SubFrameCreated
<1>3. \A r \in open : r.context \in Contexts /\ Running(r.context)
  BY StateTypes DEF RequestInv, Rules, CancelsAreFinal
<1>4. \A d \in Contexts : Running(d)' <=> Running(d) \/ d = c
  BY <1>2 DEF Running
<1>5. FramesFit'
  BY <1>1, <1>2, StateTypes DEF RequestInv, FramesFit
<1>6. ContentMoves
  BY <1>1, <1>2, <1>3, <1>4 DEF ContentMoves
<1>7. AnswersExplained /\ \A d \in Contexts : Downs(d)' = Downs(d)
  BY <1>1 DEF AnswersExplained, Downs
<1>8. PagesAreTold
  BY <1>1, <1>2, <1>7 DEF PagesAreTold
<1> QED
  BY <1>1, <1>5, <1>6, <1>7, <1>8, MovesKeep

LEMMA FrameDeletedKeeps ==
  ASSUME RouterInv, RouterInv', RequestInv, NEW c \in Contexts, FrameDeleted(c)
  PROVE  RequestInv'
<1>1. /\ life[c] = "released" /\ valid' = valid \ {c}
      /\ UNCHANGED <<life, ctxId, lastReq, open, page, dropped, pending>>
  BY DEF FrameDeleted, rendererVars, routerVars
<1>2. \A d \in Contexts : /\ up'[d] = IF d = c THEN <<>> ELSE up[d]
                          /\ down'[d] = IF d = c THEN <<>> ELSE down[d]
  BY StateTypes DEF FrameDeleted
<1>3. \A r \in open : r.context \in Contexts /\ Running(r.context)
  BY StateTypes DEF RequestInv, Rules, CancelsAreFinal
<1>4. \A d \in Contexts : Running(d)' <=> Running(d)
  BY <1>1 DEF Running
<1>5. FramesFit'
  BY <1>1, <1>2, StateTypes DEF RequestInv, FramesFit
<1>6. ContentMoves
  BY <1>1, <1>2, <1>3, <1>4 DEF ContentMoves, Running
<1>7. /\ \A d \in Contexts : d # c => Downs(d)' = Downs(d)
      /\ Downs(c)' = {}
  BY <1>2 DEF Downs
<1>8. AnswersExplained
  BY <1>7 DEF AnswersExplained
<1>9. PagesAreTold
  BY <1>1, <1>7 DEF PagesAreTold
<1> QED
  BY <1>1, <1>5, <1>6, <1>8, <1>9, MovesKeep

LEMMA ProcessGoneKeeps ==
  ASSUME RouterInv, RouterInv', RequestInv, NEW p \in Procs, RenderProcessGone(p)
  PROVE  RequestInv'
<1> DEFINE dead == {c \in Contexts : ProcOf[c] = p /\ Running(c)}
           gone == {c \in Contexts : ProcOf[c] = p \/ PageOf[c] \in dead}
           told == {b \in Browsers \ closed : page[b] \in dead}
           ids == UNION {PendingFor(b, None) : b \in told}
<1>1. /\ UNCHANGED <<ctxId, lastReq, page, dropped>>
      /\ life' = [c \in Contexts |->
                   IF c \in dead THEN "dead"
                   ELSE IF c \in gone /\ life[c] = "live" THEN "leaving"
                   ELSE life[c]]
      /\ open' = {r \in open : r.context \notin dead}
      /\ valid' = valid \ gone
      /\ up' = [c \in Contexts |-> IF c \in gone THEN <<>> ELSE up[c]]
      /\ CancelQueries(ids, FALSE)
  BY DEF RenderProcessGone
<1>2. /\ pending' \subseteq pending /\ AnswersExplained
      /\ \A c \in Contexts : Downs(c)' = Downs(c)
      /\ \A info \in pending : info \notin pending' => info.id \in ids
  <2> HIDE DEF ids
  <2> QED
    BY <1>1, CanceledQuietly
\* The pages that live on are of browsers that lose nothing.
<1>3. ASSUME NEW info \in pending, info.id \in ids, life[info.context] = "live"
      PROVE  info.context \in gone
  <2>1. PICK b \in told : info.id \in PendingFor(b, None)
    BY <1>3
  <2>2. b # None /\ info.context \in Contexts
    BY StateTypes, RouterAssumption DEF RouterAssumption
  <2>3. BrowserOf[info.context] = b
    BY <2>1, <2>2 DEF PendingFor, Ids, RouterInv, IdsAreOwn
  <2>4. page[b] = PageOf[info.context]
    BY <1>3, <2>2, <2>3 DEF RequestInv, FramesFit
  <2> QED
    BY <2>1, <2>2, <2>4
<1>4. \A c \in Contexts : /\ c \in dead <=> ProcOf[c] = p /\ Running(c)
                          /\ ProcOf[c] = p => c \in gone
  OBVIOUS
<1>5. \A c \in Contexts : /\ life'[c] = IF c \in dead THEN "dead"
                                      ELSE IF c \in gone /\ life[c] = "live" THEN "leaving"
                                      ELSE life[c]
                          /\ up'[c] = IF c \in gone THEN <<>> ELSE up[c]
  BY <1>1
<1> HIDE DEF ids, told, gone, dead
<1>6. \A r \in open : r.context \in Contexts /\ Running(r.context)
  BY StateTypes DEF RequestInv, Rules, CancelsAreFinal
<1>7. \A c \in Contexts : Running(c)' <=> Running(c) /\ c \notin dead
  BY <1>5 DEF Running
<1>8. \A c \in Contexts : life'[c] = "live" => c \notin gone /\ life[c] = "live"
  BY <1>5
<1>9. FramesFit'
  <2>1. \A c \in Contexts : up'[c] # <<>> => c \in valid'
    BY <1>1, <1>5 DEF RequestInv, FramesFit
  <2>2. \A c \in Contexts : life'[c] = "live" => c \in valid'
    BY <1>1, <1>8 DEF RequestInv, FramesFit
  <2>3. \A c \in valid' : life'[c] # "none"
    BY <1>1, <1>5, StateTypes DEF RequestInv, FramesFit
  <2>4. \A c \in Contexts : life'[c] = "live" => page'[BrowserOf[c]] = PageOf[c]
    BY <1>1, <1>8 DEF RequestInv, FramesFit
  <2> QED
    BY <1>1, <2>1, <2>2, <2>3, <2>4 DEF RequestInv, FramesFit
<1>10. ContentMoves
  <2>1. \A r \in open : r \in open' \/ (up'[r.context] = <<>> /\ r.context \notin valid')
    BY <1>1, <1>4, <1>5, <1>6
  <2>2. \A c \in Contexts : \/ up'[c] = up[c]
                            \/ up'[c] = <<>> /\ c \notin valid'
    BY <1>1, <1>5
  <2>3. \A r \in open' : Running(r.context)'
    BY <1>1, <1>6, <1>7
  <2>4. \A c \in Contexts : life'[c] = "none" => life[c] = "none"
    BY <1>5
  <2> QED
    BY <1>1, <1>7, <1>8, <2>1, <2>2, <2>3, <2>4 DEF ContentMoves
<1>11. PagesAreTold
  BY <1>1, <1>2, <1>3, <1>8 DEF PagesAreTold
<1> QED
  BY <1>2, <1>9, <1>10, <1>11, MovesKeep

LEMMA CloseKeeps ==
  ASSUME RouterInv, RouterInv', RequestInv, NEW b \in Browsers, Close(b)
  PROVE  RequestInv'
<1>1. /\ UNCHANGED <<ctxId, lastReq, open, page, dropped>>
      /\ valid' = {c \in valid : BrowserOf[c] # b}
  BY DEF Close
<1>2. \A c \in Contexts :
        /\ up'[c] = IF BrowserOf[c] = b THEN <<>> ELSE up[c]
        /\ life'[c] = IF BrowserOf[c] = b /\ life[c] = "live" THEN "leaving" ELSE life[c]
  BY DEF Close
<1>3. \A r \in open : r.context \in Contexts /\ Running(r.context)
  BY StateTypes DEF RequestInv, Rules, CancelsAreFinal
<1>4. \A c \in Contexts : Running(c)' <=> Running(c)
  BY <1>2 DEF Running
<1>5. \A c \in Contexts : life'[c] = "live" => life[c] = "live" /\ BrowserOf[c] # b
  BY <1>2
<1>6. FramesFit'
  BY <1>1, <1>2, <1>5, StateTypes DEF RequestInv, FramesFit
<1>7. ContentMoves
  BY <1>1, <1>2, <1>3, <1>4, <1>5 DEF ContentMoves
<1>8. CASE CancelPendingFor(b, None, FALSE)
  <2>1. /\ pending' \subseteq pending /\ AnswersExplained
        /\ \A c \in Contexts : Downs(c)' = Downs(c)
        /\ \A info \in pending : info \notin pending' => info.id \in PendingFor(b, None)
    BY <1>8, CanceledQuietly DEF CancelPendingFor
  <2>2. \A info \in pending : info \notin pending' => BrowserOf[info.context] = b
    <3>1. b # None
      BY RouterAssumption DEF RouterAssumption
    <3> QED
      BY <2>1, <3>1 DEF PendingFor, Ids, RouterInv, IdsAreOwn
  <2>3. PagesAreTold
    BY <1>1, <1>5, <2>1, <2>2 DEF PagesAreTold
  <2> QED
    BY <1>6, <1>7, <2>1, <2>3, MovesKeep
<1>9. CASE CancelPendingFor(None, None, TRUE)
  <2>1. /\ pending' \subseteq pending /\ AnswersExplained
        /\ \A c \in Contexts : Downs(c) \subseteq Downs(c)'
        /\ \A info \in pending : info \notin pending' /\ info.context \in valid =>
             EndIsTold(info)
    BY <1>9, CanceledLoudly DEF CancelPendingFor
  <2>2. PagesAreTold
    BY <1>1, <1>5, <2>1 DEF PagesAreTold, RequestInv, FramesFit
  <2> QED
    BY <1>6, <1>7, <2>1, <2>2, MovesKeep
<1>10. CASE UNCHANGED <<pending, down>>
  <2>1. AnswersExplained /\ \A c \in Contexts : Downs(c)' = Downs(c)
    BY <1>10 DEF AnswersExplained, Downs
  <2>2. PagesAreTold
    BY <1>1, <1>5, <1>10, <2>1 DEF PagesAreTold
  <2> QED
    BY <1>6, <1>7, <1>10, <2>1, <2>2, MovesKeep
<1> QED
  BY <1>8, <1>9, <1>10 DEF Close

-----------------------------------------------------------------------------
(* The theorems *)

LEMMA NavigationEndKeeps ==
  ASSUME RouterInv, RouterInv', RequestInv, NEW b \in Browsers, NavigationEnds(b)
  PROVE  RequestInv'
<1>1. UNCHANGED <<life, ctxId, lastReq, open, up, down, page, valid, dropped, pending>>
  BY DEF NavigationEnds, rendererVars, routerVars
<1>2. AnswersExplained /\ PagesAreTold
  BY <1>1 DEF AnswersExplained, PagesAreTold, Downs
<1>3. FramesFit'
  BY <1>1, StateTypes DEF RequestInv, FramesFit
<1>4. \A r \in open : r.context \in Contexts /\ Running(r.context)
  BY StateTypes DEF RequestInv, Rules, CancelsAreFinal
<1>5. \A c \in Contexts : Running(c)' <=> Running(c)
  BY <1>1 DEF Running
<1>6. ContentMoves
  BY <1>1, <1>4, <1>5 DEF ContentMoves, Running
<1> QED
  BY <1>1, <1>2, <1>3, <1>6, MovesKeep

LEMMA RequestsKept ==
  ASSUME RouterInv, RouterInv', RequestInv, [Next]_vars
  PROVE  RequestInv'
<1>1. CASE JavaScript
  BY <1>1, AskKeeps, CancelQueryKeeps, PagesAct
<1>2. CASE Client
  BY <1>2, ClientCallKeeps
<1>3. CASE Content
  BY <1>3, NavigationKeeps, NavigationEndKeeps, CloseKeeps, CommitKeeps, SubFrameKeeps,
    ReleaseKeeps, FrameDeletedKeeps, ProcessGoneKeeps DEF Content
<1>4. CASE Delivery
  BY <1>4, MessageReceivedKeeps, HearsKeeps, TaskRunKeeps DEF Delivery
<1>5. CASE UNCHANGED vars
  <2>1. UNCHANGED <<life, ctxId, lastReq, open, up, down, page, valid, dropped, pending>>
    BY <1>5 DEF vars, rendererVars, contentVars, routerVars
  <2>2. AnswersExplained /\ \A c \in Contexts : Downs(c)' = Downs(c)
    BY <2>1 DEF AnswersExplained, Downs
  <2> QED
    BY <2>1, <2>2, TellingKeeps
<1> QED
  BY <1>1, <1>2, <1>3, <1>4, <1>5 DEF Next

LEMMA RequestsStart ==
  ASSUME Init
  PROVE  RequestInv
<1>1. /\ \A c \in Contexts : life[c] = "none" /\ ctxId[c] = Reserved /\ up[c] = <<>>
                              /\ down[c] = <<>>
      /\ open = {} /\ pending = {} /\ valid = {} /\ \A b \in Browsers : page[b] = None
  BY DEF Init
<1>2. \A c \in Contexts : Len(up[c]) = 0 /\ Len(down[c]) = 0 /\ 1 .. 0 = {}
  BY <1>1
<1>3. \A c \in Contexts : NextContextId(ProcOf[c]) \in Nat \ {0}
  BY InitKeeps, NumbersAreFinite
<1>4. ContextsAreNumbered
  BY <1>1, <1>3 DEF ContextsAreNumbered, Reserved
<1>5. FramesFit
  BY <1>1 DEF FramesFit
<1>6. Names
  BY <1>1, <1>2 DEF Names, SentNamesContext, AnswersNameContext, QueriesNameContext,
    RequestsNameContext, Downs
<1>7. Unique
  BY <1>1, <1>2 DEF Unique, RequestsAreUnique, QueriesAreUnique, SentAreUnique
<1>8. Rules
  BY <1>1, <1>2 DEF Rules, SentIsNew, AnswersEndQueries, PersistenceAgrees, CancelsAreFinal,
    SentIsAskedOrCanceled
<1>9. Goals
  BY <1>1 DEF Goals, NoneForgotten, NoneUnasked
<1> QED
  BY <1>4, <1>5, <1>6, <1>7, <1>8, <1>9 DEF RequestInv

\* In every reachable state the requests of the pages, the queries of the
\* handlers and the messages between them fit each other.
THEOREM RequestsFit == Spec => []RequestInv
<1>1. RouterInv /\ RequestInv /\ [Next]_vars => RequestInv'
  BY StepKeeps, RequestsKept
<1>2. Init => RequestInv
  BY RequestsStart
<1> QED
  BY <1>1, <1>2, RouterCorrect, PTL DEF Spec

\* No page that stays waits for ever because its request was lost: the query is
\* on its way, pending, or what ends it is on the way back.  OnQueryCanceled,
\* RemoveHandler, answers that come late and renderers that go cannot break it;
\* a navigation that did not commit and a cancellation from a twin can.
THEOREM NoRequestIsForgotten == Spec => []NoOrphanRequest
<1>1. ASSUME RouterInv, RequestInv
      PROVE  NoOrphanRequest
  <2>1. SUFFICES ASSUME NEW r \in open, life[r.context] = "live", ~Excused(r)
                 PROVE  \/ \E i \in DOMAIN up[r.context] : up[r.context][i].type = "query"
                                                    /\ up[r.context][i].rid = r.rid
                        \/ \E info \in pending : info.context = r.context /\ info.rid = r.rid
                        \/ \E i \in DOMAIN down[r.context] : FinalAnswer(down[r.context][i], r)
    BY DEF NoOrphanRequest, Excused
  <2>2. r.context \in Contexts /\ Expected(r)
    BY <1>1, <2>1, StateTypes DEF RequestInv, Goals, NoneForgotten
  <2>3. DOMAIN up[r.context] = 1 .. Len(up[r.context])
        /\ DOMAIN down[r.context] = 1 .. Len(down[r.context])
    BY <1>1, <2>2, StateTypes, LenProperties
  <2> QED
    BY <2>2, <2>3 DEF Expected, IsQuery, Downs
<1> QED
  BY <1>1, RouterCorrect, RequestsFit, PTL

\* No handler works for a query its page gave up, unless the cancellation is on
\* its way: a page that cancels or leaves is always heard of, unless another
\* context of the browser has its id.
THEOREM HandlersWorkForPages == Spec => []NoGhostQuery
<1>1. ASSUME RouterInv, RequestInv
      PROVE  NoGhostQuery
  <2>1. SUFFICES ASSUME NEW info \in pending, info.context \in valid,
                        ~HasTwin(info.context)
                 PROVE  Asked(info) \/ CancelComing(info)
    BY DEF NoGhostQuery
  <2>2. info.context \in Contexts /\ (Asked(info) \/ CancelSent(info))
    BY <1>1, <2>1, StateTypes DEF RequestInv, Goals, NoneUnasked
  <2>3. DOMAIN up[info.context] = 1 .. Len(up[info.context])
    BY <1>1, <2>2, StateTypes, LenProperties
  <2> QED
    BY <2>2, <2>3 DEF CancelSent, CancelComing, IsCancel
<1> QED
  BY <1>1, RouterCorrect, RequestsFit, PTL

-----------------------------------------------------------------------------
(* A message of one context ends no query of another. *)

LEMMA RestIsAnother ==
  ASSUME NEW S, NEW s \in Seq(S), s # <<>>
  PROVE  Tail(s) # s
  BY RestOfMessages

LEMMA ReceiverIsKnown ==
  ASSUME RouterInv, FramesFit, [Next]_vars, NEW c \in Contexts, Received(c)
  PROVE  UNCHANGED pending \/ OnProcessMessageReceived(c)
<1>1. up \in [Contexts -> Seq(Upward)] /\ Tail(up[c]) # up[c]
  BY StateTypes, RestIsAnother DEF Received
<1>2. up'[c] = Tail(up[c]) /\ up'[c] # up[c] /\ \A d \in Contexts : d # c => up'[d] = up[d]
  BY <1>1 DEF Received
<1>3. c \in valid /\ UNCHANGED <<valid, closed, tasks, handlers>>
  BY DEF Received, FramesFit, contentVars
<1>4. CASE UNCHANGED pending
  BY <1>4
<1>5. CASE UNCHANGED up
  BY <1>2, <1>5
<1>6. CASE JavaScript
  BY <1>6, <1>4 DEF JavaScript, Query, CancelQuery, routerVars
<1>7. CASE Client
  BY <1>7, <1>5 DEF Client, Success, Failure, AddHandler, RemoveHandler, CancelPending,
    PostCancelPending
<1>8. ASSUME NEW b \in Browsers, OnBeforeBrowse(b) \/ NavigationEnds(b)
      PROVE  UNCHANGED up
  BY <1>8 DEF OnBeforeBrowse, NavigationEnds
<1>9. ASSUME NEW b \in Browsers
      PROVE  ~Close(b)
  BY <1>3 DEF Close
<1>10. ASSUME NEW d \in Contexts,
              Commit(d) \/ SubFrameCreated(d) \/ Release(d) \/ FrameDeleted(d)
       PROVE  UNCHANGED pending
  BY <1>10 DEF Commit, SubFrameCreated, Release, ContextReleased, FrameDeleted, routerVars
<1>11. ASSUME NEW p \in Procs
       PROVE  ~RenderProcessGone(p)
  <2> SUFFICES ASSUME RenderProcessGone(p)
               PROVE  FALSE
    OBVIOUS
  <2> DEFINE dead == {d \in Contexts : ProcOf[d] = p /\ Running(d)}
             gone == {d \in Contexts : ProcOf[d] = p \/ PageOf[d] \in dead}
  <2>1. valid' = valid \ gone
        /\ up' = [d \in Contexts |-> IF d \in gone THEN <<>> ELSE up[d]]
    BY DEF RenderProcessGone
  <2> HIDE DEF gone, dead
  <2>2. c \notin gone
    BY <1>3, <2>1
  <2> QED
    BY <1>2, <2>1, <2>2
<1>12. ASSUME NEW d \in Contexts, OnProcessMessageReceived(d)
       PROVE  OnProcessMessageReceived(c)
  <2>1. up[d] # <<>> /\ up' = [up EXCEPT ![d] = Tail(@)]
    BY <1>12 DEF OnProcessMessageReceived
  <2>2. d = c
    BY <1>1, <1>2, <2>1
  <2> QED
    BY <1>12, <2>2
<1>13. ASSUME NEW d \in Contexts, RendererReceives(d)
       PROVE  UNCHANGED up
  BY <1>13 DEF RendererReceives
<1>14. CASE RunTask \/ UNCHANGED vars
  BY <1>14, <1>5 DEF RunTask, vars
<1> QED
  BY <1>5, <1>6, <1>7, <1>8, <1>9, <1>10, <1>11, <1>12, <1>13, <1>14
    DEF Next, Content, Delivery

LEMMA OwnQueriesEnd ==
  ASSUME RouterInv, ContextsAreNumbered, Names, NEW c \in Contexts,
         OnProcessMessageReceived(c), UNCHANGED handlers
  PROVE  \A info \in pending :
           info.context = c \/ Twins(c, info.context) \/ info \in pending'
<1> DEFINE m == Head(up[c])
<1>1. up[c] # <<>> /\ m = up[c][1] /\ 1 \in 1 .. Len(up[c])
  <2>1. up[c] \in Seq(Upward) /\ up[c] # <<>>
    BY StateTypes DEF OnProcessMessageReceived
  <2> QED
    BY <2>1, RestOfMessages
<1>2. m.cid = ctxId[c] /\ m.cid # Reserved
  BY <1>1, SentTypes DEF Names, SentNamesContext
<1>3. ASSUME CancelQueries(RequestsPending(BrowserOf[c], m.cid, m.rid), FALSE),
             NEW info \in pending, info.context # c, ~Twins(c, info.context)
      PROVE  info \in pending'
  <2>1. info.context \in Contexts /\ info.cid = ctxId[info.context]
    BY StateTypes DEF Names, QueriesNameContext
  <2>2. ~(BrowserOf[info.context] = BrowserOf[c] /\ info.cid = m.cid)
    BY <1>2, <1>3, <2>1 DEF Twins, ContextsAreNumbered
  <2>3. \A x \in pending : x.id = info.id => x = info
    BY DEF RouterInv, IdsAreOwn
  <2>4. info.id \notin RequestsPending(BrowserOf[c], m.cid, m.rid)
    BY <2>2, <2>3 DEF RequestsPending, Found, Ids
  <2> QED
    BY <1>3, <2>4 DEF CancelQueries, Without
<1>4. ASSUME NEW h \in Handlers
      PROVE  ~HandleAndLeave(c, m, h)
  BY DEF HandleAndLeave
<1>5. CASE DeclineQuery(c, m) \/ \E h \in Handlers : HandleQuery(c, m, h)
  BY <1>5 DEF DeclineQuery, HandleQuery
<1> QED
  BY <1>3, <1>4, <1>5 DEF OnProcessMessageReceived

\* Receiving a message of one context, a query or its cancellation, ends no query
\* of another, although ids are the renderers' own and are looked up per browser:
\* only a context of the same browser with the same id in another process loses
\* its queries, as two processes of one page may have it.
THEOREM CancelsStayOwn == Spec => CancelsAreOwn
<1>1. ASSUME RouterInv, RequestInv, [Next]_vars
      PROVE  \A c \in Contexts : Received(c) =>
               \A info \in pending :
                 \/ info.context = c
                 \/ Twins(c, info.context)
                 \/ info \in pending'
  <2> SUFFICES ASSUME NEW c \in Contexts, Received(c)
               PROVE  \A info \in pending :
                        info.context = c \/ Twins(c, info.context) \/ info \in pending'
    OBVIOUS
  <2>1. FramesFit /\ ContextsAreNumbered /\ Names /\ UNCHANGED handlers
    BY <1>1 DEF RequestInv, Received
  <2> QED
    BY <1>1, <2>1, ReceiverIsKnown, OwnQueriesEnd
<1> QED
  BY <1>1, RouterCorrect, RequestsFit, PTL DEF Spec, CancelsAreOwn

-----------------------------------------------------------------------------
(* The page hears the answers of the handler in order and once: the router   *)
(* implements QueryPromise.  A query has one callback, and its answers are    *)
(* followed from the callback through the tasks and messages to the page.     *)

\* The query that rid names in the process of context c, and what its handler and
\* its page have done.
AskedBy(c, rid)  == <<ProcOf[c], rid>>
Failing(q)       == \E id \in Answers(q) : callbacks[id].failing
HeardOf(r)       == heard[AskedBy(r.context, r.rid)].got
GivenTo(r)       == Given(AskedBy(r.context, r.rid))
FailingFor(r)    == Failing(AskedBy(r.context, r.rid))

\* Message i to the frame of context c is answer n to its query rid.
IsAnswer(c, i, rid)  == down[c][i].rid = rid /\ down[c][i].result = "success"
IsFailure(c, i, rid) == down[c][i].rid = rid /\ down[c][i].result = "failure"
\* Task i is an answer of callback id, or its failure.
IsSuccess(i, id)    == tasks[i].type = "success" /\ tasks[i].id = id
IsGivenUp(i, id)    == tasks[i].type = "failure" /\ tasks[i].id = id

\* Answer n is on its way to the page, before message i or among all; so for tasks.
SentBefore(c, rid, n, i) ==
  \E j \in 1 .. Len(down[c]) : j < i /\ IsAnswer(c, j, rid) /\ down[c][j].n = n
Sent(c, rid, n) == \E j \in 1 .. Len(down[c]) : IsAnswer(c, j, rid) /\ down[c][j].n = n
PostedBefore(id, n, i) == \E j \in 1 .. Len(tasks) : j < i /\ IsSuccess(j, id) /\ tasks[j].n = n
Posted(id, n) == \E j \in 1 .. Len(tasks) : IsSuccess(j, id) /\ tasks[j].n = n

CallbacksAreApart ==
  \A i, j \in 1 .. Len(callbacks) : callbacks[i].query = callbacks[j].query => i = j

CallbacksAreAsked ==
  \A i \in 1 .. Len(callbacks) : callbacks[i].query[2] <= lastReq[callbacks[i].query[1]]

SentAreApart ==
  \A c, d \in Contexts : \A i \in 1 .. Len(up[c]), j \in 1 .. Len(up[d]) :
    IsQuery(c, i) /\ IsQuery(d, j) /\ AskedBy(c, up[c][i].rid) = AskedBy(d, up[d][j].rid) => c = d

SentIsUnanswered ==
  \A c \in Contexts : \A i \in 1 .. Len(up[c]) : IsQuery(c, i) =>
    \A k \in 1 .. Len(callbacks) : callbacks[k].query # AskedBy(c, up[c][i].rid)

RequestsAreApart ==
  \A r, s \in open : AskedBy(r.context, r.rid) = AskedBy(s.context, s.rid) => r = s

QueriesFitCallbacks ==
  \A info \in pending : callbacks[info.id].query = AskedBy(info.context, info.rid)

HeardIsGiven == \A q \in Queries : heard[q].got <= Given(q)

\* An answer on its way to a page that waits comes behind all the page has not heard.
AnswerFits(r, i) ==
  /\ down[r.context][i].n \in HeardOf(r) + 1 .. GivenTo(r)
  /\ \A n \in HeardOf(r) + 1 .. down[r.context][i].n - 1 : SentBefore(r.context, r.rid, n, i)

FailureFits(r, i) ==
  /\ FailingFor(r)
  /\ \A n \in HeardOf(r) + 1 .. GivenTo(r) : SentBefore(r.context, r.rid, n, i)

SentFor(r) ==
  LET c == r.context
  IN  /\ \A i \in 1 .. Len(down[c]) :
           /\ IsAnswer(c, i, r.rid) => AnswerFits(r, i)
           /\ IsFailure(c, i, r.rid) => FailureFits(r, i)
      /\ \A i, j \in 1 .. Len(down[c]) :
           i < j /\ IsAnswer(c, i, r.rid) /\ IsAnswer(c, j, r.rid) => down[c][i].n < down[c][j].n

SentInOrder == \A r \in open : SentFor(r)

\* Posted answers were given, and in this order.
TasksAreGiven ==
  \A i \in 1 .. Len(tasks) :
    /\ tasks[i].type = "success" => tasks[i].n \in 1 .. callbacks[tasks[i].id].given
    /\ tasks[i].type = "failure" => callbacks[tasks[i].id].failing
    /\ \A j \in 1 .. Len(tasks) :
         i < j /\ tasks[i].type = "success" /\ IsSuccess(j, tasks[i].id) => tasks[i].n < tasks[j].n

\* So does one that is posted, while the query is pending and its page can be told.
Waits(r, info) == info.context = r.context /\ info.rid = r.rid /\ r.context \in valid

SuccessFits(r, info, i) ==
  /\ HeardOf(r) < tasks[i].n
  /\ \A j \in 1 .. Len(down[r.context]) :
       IsAnswer(r.context, j, r.rid) => down[r.context][j].n < tasks[i].n
  /\ \A n \in HeardOf(r) + 1 .. tasks[i].n - 1 :
       Sent(r.context, r.rid, n) \/ PostedBefore(info.id, n, i)

GivenUpFits(r, info, i) ==
  \A n \in HeardOf(r) + 1 .. GivenTo(r) :
    Sent(r.context, r.rid, n) \/ PostedBefore(info.id, n, i)

PostedFor(r, info) ==
  /\ \A i \in 1 .. Len(tasks) :
       /\ IsSuccess(i, info.id) => SuccessFits(r, info, i)
       /\ IsGivenUp(i, info.id) => GivenUpFits(r, info, i)
  /\ \A n \in HeardOf(r) + 1 .. GivenTo(r) : Sent(r.context, r.rid, n) \/ Posted(info.id, n)

PostedInOrder == \A r \in open, info \in pending : Waits(r, info) => PostedFor(r, info)

AnswerInv ==
  /\ CallbacksAreApart /\ CallbacksAreAsked /\ SentAreApart /\ SentIsUnanswered
  /\ RequestsAreApart /\ QueriesFitCallbacks
  /\ HeardIsGiven /\ SentInOrder /\ TasksAreGiven /\ PostedInOrder

-----------------------------------------------------------------------------
(* Callbacks and what they gave *)

LEMMA CallbackTypes ==
  ASSUME RouterInv
  PROVE  /\ callbacks \in Seq(CallbackImpl) /\ Len(callbacks) \in Nat
         /\ DOMAIN callbacks = 1 .. Len(callbacks)
         /\ \A k \in 1 .. Len(callbacks) :
              /\ callbacks[k] \in CallbackImpl
              /\ callbacks[k].query \in Queries /\ callbacks[k].given \in 0 .. MaxAnswers
              /\ callbacks[k].failing \in BOOLEAN
         /\ MaxAnswers \in Nat
<1>1. callbacks \in Seq(CallbackImpl)
  BY InvIsParts DEF QueryInv, TableTypes
<1>2. \A k \in 1 .. Len(callbacks) : callbacks[k] \in CallbackImpl
  BY <1>1, ElementOfSeq
<1> QED
  BY <1>1, <1>2, LenProperties, RouterAssumption DEF CallbackImpl, RouterAssumption

LEMMA GivenIs ==
  ASSUME RouterInv, CallbacksAreApart, NEW k \in 1 .. Len(callbacks)
  PROVE  /\ Given(callbacks[k].query) = callbacks[k].given
         /\ Failing(callbacks[k].query) <=> callbacks[k].failing
<1>1. Answers(callbacks[k].query) = {k}
  BY CallbackTypes DEF Answers, CallbacksAreApart
<1>2. (CHOOSE id \in {k} : TRUE) = k
  OBVIOUS
<1> QED
  BY <1>1, <1>2 DEF Given, Failing

LEMMA NothingGiven ==
  ASSUME RouterInv, NEW q, \A k \in 1 .. Len(callbacks) : callbacks[k].query # q
  PROVE  Given(q) = 0 /\ ~Failing(q)
<1>1. Answers(q) = {}
  BY CallbackTypes DEF Answers
<1> QED
  BY <1>1 DEF Given, Failing

LEMMA GivenTypes ==
  ASSUME RouterInv
  PROVE  \A q : Given(q) \in 0 .. MaxAnswers
<1> SUFFICES ASSUME NEW q
             PROVE  Given(q) \in 0 .. MaxAnswers
  OBVIOUS
<1>1. CASE Answers(q) = {}
  BY <1>1, CallbackTypes DEF Given
<1>2. CASE Answers(q) # {}
  <2> DEFINE k == CHOOSE id \in Answers(q) : TRUE
  <2>1. k \in Answers(q)
    BY <1>2
  <2>2. k \in 1 .. Len(callbacks)
    BY <2>1, CallbackTypes DEF Answers
  <2>3. Given(q) = callbacks[k].given
    BY <1>2 DEF Given
  <2> HIDE DEF k
  <2> QED
    BY <2>2, <2>3, CallbackTypes
<1> QED
  BY <1>1, <1>2

\* Callbacks may be detached, and new ones have given nothing.
SameAnswers ==
  /\ Len(callbacks) <= Len(callbacks')
  /\ \A k \in 1 .. Len(callbacks) :
       /\ callbacks'[k].query = callbacks[k].query
       /\ callbacks'[k].given = callbacks[k].given
       /\ callbacks'[k].failing <=> callbacks[k].failing
  /\ \A k \in 1 .. Len(callbacks') : k > Len(callbacks) =>
       /\ callbacks'[k].given = 0 /\ ~callbacks'[k].failing
       /\ \A j \in 1 .. Len(callbacks') : j # k => callbacks'[j].query # callbacks'[k].query

SameGiven == \A q : Given(q)' = Given(q) /\ (Failing(q)' <=> Failing(q))

LEMMA GivenStays ==
  ASSUME RouterInv, RouterInv', SameAnswers
  PROVE  SameGiven
<1>1. /\ DOMAIN callbacks = 1 .. Len(callbacks) /\ DOMAIN callbacks' = 1 .. Len(callbacks')
      /\ Len(callbacks) \in Nat /\ Len(callbacks') \in Nat
  <2>1. callbacks' \in Seq(CallbackImpl)
    BY InvIsPartsNext DEF QueryInv, TableTypes
  <2> QED
    BY <2>1, CallbackTypes, LenProperties
<1> SUFFICES ASSUME NEW q
             PROVE  Given(q)' = Given(q) /\ (Failing(q)' <=> Failing(q))
  BY DEF SameGiven
<1>2. \A k \in Answers(q) : /\ k \in Answers(q)' /\ k \in 1 .. Len(callbacks)
                            /\ callbacks'[k].given = callbacks[k].given
                            /\ callbacks'[k].failing <=> callbacks[k].failing
  BY <1>1 DEF Answers, SameAnswers
<1>3. CASE \E k \in Answers(q)' : k > Len(callbacks)
  <2>1. PICK k \in Answers(q)' : k > Len(callbacks)
    BY <1>3
  <2>2. k \in 1 .. Len(callbacks') /\ callbacks'[k].query = q
    BY <1>1, <2>1 DEF Answers
  <2>3. \A j \in Answers(q)' : j = k
    BY <1>1, <2>1, <2>2 DEF Answers, SameAnswers
  <2>4. Answers(q)' = {k} /\ Answers(q) = {}
    BY <1>2, <2>1, <2>3
  <2>5. (CHOOSE id \in {k} : TRUE) = k
    OBVIOUS
  <2>6. callbacks'[k].given = 0 /\ ~callbacks'[k].failing
    BY <2>1, <2>2 DEF SameAnswers
  <2> QED
    BY <2>4, <2>5, <2>6 DEF Given, Failing
<1>4. CASE ~\E k \in Answers(q)' : k > Len(callbacks)
  <2>1. \A k \in Answers(q)' : k \in 1 .. Len(callbacks)
    BY <1>1, <1>4 DEF Answers
  <2>2. Answers(q)' = Answers(q)
    BY <1>1, <1>2, <2>1 DEF Answers, SameAnswers
  <2>3. CASE Answers(q) = {}
    BY <2>2, <2>3 DEF Given, Failing
  <2>4. CASE Answers(q) # {}
    <3>1. (CHOOSE id \in Answers(q) : TRUE) \in Answers(q)
      BY <2>4
    <3> QED
      BY <1>2, <2>2, <2>4, <3>1 DEF Given, Failing
  <2> QED
    BY <2>3, <2>4
<1> QED
  BY <1>3, <1>4

-----------------------------------------------------------------------------
(* What a step may leave as it is *)

\* Queries on their way to the browser arrive or are lost.
NoNewQueries ==
  \A c \in Contexts : \A i \in 1 .. Len(up'[c]) : up'[c][i].type = "query" =>
    \E j \in 1 .. Len(up[c]) : up[c][j] = up'[c][i]

\* The pages that wait are sent nothing but cancellations.
OnlyCancelsSent ==
  \A r \in open' :
    /\ Len(down[r.context]) <= Len(down'[r.context])
    /\ \A i \in 1 .. Len(down'[r.context]) :
         IF i <= Len(down[r.context])
         THEN down'[r.context][i] = down[r.context][i]
         ELSE down'[r.context][i].result = "canceled"

\* Tasks are posted or run that answer no pending query.
NoNewAnswers(d) ==
  \A i \in 1 .. Len(tasks') :
    \/ tasks'[i].type = "cancel"
    \/ i + d \in 1 .. Len(tasks) /\ tasks'[i] = tasks[i + d]

TasksMove(d) ==
  /\ NoNewAnswers(d)
  /\ \A j \in 1 .. Len(tasks) :
       \/ tasks[j].type = "cancel"
       \/ tasks[j].id \notin Ids(pending')
       \/ j - d \in 1 .. Len(tasks') /\ tasks'[j - d] = tasks[j]

OnlyLostTasks == \E d \in {0, 1} : TasksMove(d)

LEMMA SentApartKept ==
  ASSUME RouterInv, SentAreApart, SentIsUnanswered, NoNewQueries
  PROVE  SentAreApart'
<1> SUFFICES ASSUME NEW c \in Contexts, NEW d \in Contexts,
                    NEW i \in 1 .. Len(up'[c]), NEW j \in 1 .. Len(up'[d]),
                    IsQuery(c, i)', IsQuery(d, j)',
                    AskedBy(c, up'[c][i].rid) = AskedBy(d, up'[d][j].rid)
             PROVE  c = d
  BY DEF SentAreApart, AskedBy
<1>1. PICK k \in 1 .. Len(up[c]) : up[c][k] = up'[c][i]
  BY DEF NoNewQueries, IsQuery
<1>2. PICK l \in 1 .. Len(up[d]) : up[d][l] = up'[d][j]
  BY DEF NoNewQueries, IsQuery
<1> QED
  BY <1>1, <1>2 DEF SentAreApart, IsQuery

LEMMA UnansweredKept ==
  ASSUME RouterInv, SentIsUnanswered, NoNewQueries, SameAnswers, Len(callbacks') = Len(callbacks)
  PROVE  SentIsUnanswered'
<1> SUFFICES ASSUME NEW c \in Contexts, NEW i \in 1 .. Len(up'[c]), IsQuery(c, i)',
                    NEW k \in 1 .. Len(callbacks)
             PROVE  callbacks'[k].query # AskedBy(c, up'[c][i].rid)
  BY DEF SentIsUnanswered, AskedBy
<1>1. PICK j \in 1 .. Len(up[c]) : up[c][j] = up'[c][i]
  BY DEF NoNewQueries, IsQuery
<1> QED
  BY <1>1 DEF SentIsUnanswered, IsQuery, SameAnswers

LEMMA CallbacksStayApart ==
  ASSUME RouterInv, CallbacksAreApart, CallbacksAreAsked, SameAnswers,
         Len(callbacks') = Len(callbacks), UNCHANGED lastReq
  PROVE  CallbacksAreApart' /\ CallbacksAreAsked'
  BY DEF CallbacksAreApart, CallbacksAreAsked, SameAnswers

LEMMA QueriesStayFit ==
  ASSUME RouterInv, QueriesFitCallbacks, SameAnswers, pending' \subseteq pending
  PROVE  QueriesFitCallbacks'
  BY DEF QueriesFitCallbacks, SameAnswers, RouterInv, IdsAreOwn, AskedBy

LEMMA HeardStays ==
  ASSUME HeardIsGiven, SameGiven, UNCHANGED heard
  PROVE  HeardIsGiven'
  BY DEF HeardIsGiven, SameGiven

LEMMA SameForRequests ==
  ASSUME SameGiven, UNCHANGED heard
  PROVE  \A r : HeardOf(r)' = HeardOf(r) /\ GivenTo(r)' = GivenTo(r)
                /\ (FailingFor(r)' <=> FailingFor(r))
  BY DEF SameGiven, HeardOf, GivenTo, FailingFor, AskedBy

LEMMA TasksStayGiven ==
  ASSUME RouterInv, TasksAreGiven, SameAnswers, NEW d \in {0, 1}, NoNewAnswers(d)
  PROVE  TasksAreGiven'
<1>2. ASSUME NEW i \in 1 .. Len(tasks'), tasks'[i].type # "cancel"
      PROVE  /\ i + d \in 1 .. Len(tasks) /\ tasks'[i] = tasks[i + d]
             /\ tasks'[i].id \in 1 .. Len(callbacks)
  BY <1>2 DEF NoNewAnswers, RouterInv, AnswersHaveCallbacks
<1> SUFFICES ASSUME NEW i \in 1 .. Len(tasks')
             PROVE  /\ tasks'[i].type = "success" => tasks'[i].n \in 1 .. callbacks'[tasks'[i].id].given
                    /\ tasks'[i].type = "failure" => callbacks'[tasks'[i].id].failing
                    /\ \A j \in 1 .. Len(tasks') :
                         i < j /\ tasks'[i].type = "success" /\ IsSuccess(j, tasks[i].id)'
                           => tasks'[i].n < tasks'[j].n
  BY DEF TasksAreGiven, IsSuccess
<1>3. tasks'[i].type # "cancel" =>
        /\ tasks'[i] = tasks[i + d] /\ i + d \in 1 .. Len(tasks)
        /\ callbacks'[tasks'[i].id].given = callbacks[tasks[i + d].id].given
        /\ callbacks'[tasks'[i].id].failing <=> callbacks[tasks[i + d].id].failing
  <2>1. SUFFICES ASSUME tasks'[i].type # "cancel"
                 PROVE  /\ tasks'[i] = tasks[i + d] /\ i + d \in 1 .. Len(tasks)
                        /\ callbacks'[tasks'[i].id].given = callbacks[tasks[i + d].id].given
                        /\ callbacks'[tasks'[i].id].failing <=> callbacks[tasks[i + d].id].failing
    OBVIOUS
  <2>2. tasks'[i] = tasks[i + d] /\ i + d \in 1 .. Len(tasks)
        /\ tasks[i + d].id \in 1 .. Len(callbacks)
    BY <1>2, <2>1
  <2> QED
    BY <2>2 DEF SameAnswers
<1>4. /\ tasks'[i].type = "success" => tasks'[i].n \in 1 .. callbacks'[tasks'[i].id].given
      /\ tasks'[i].type = "failure" => callbacks'[tasks'[i].id].failing
  BY <1>3 DEF TasksAreGiven
<1>5. ASSUME NEW j \in 1 .. Len(tasks'), i < j, tasks'[i].type = "success",
             IsSuccess(j, tasks[i].id)'
      PROVE  tasks'[i].n < tasks'[j].n
  <2>1. tasks'[j].type = "success" /\ tasks'[j].id = tasks'[i].id
    BY <1>5 DEF IsSuccess
  <2>2. /\ i + d \in 1 .. Len(tasks) /\ tasks'[i] = tasks[i + d]
        /\ j + d \in 1 .. Len(tasks) /\ tasks'[j] = tasks[j + d]
    BY <1>2, <1>5, <2>1
  <2>3. i + d < j + d
    BY <1>5
  <2> QED
    BY <1>5, <2>1, <2>2, <2>3 DEF TasksAreGiven, IsSuccess
<1> QED
  BY <1>4, <1>5

\* Nothing changes for a request but the places of its answers, which move by e,
\* or of those its handler has posted, which move by d.
SentMove(r, e) ==
  LET c == r.context
  IN  /\ \A i \in 1 .. Len(down'[c]) :
           IsAnswer(c, i, r.rid)' \/ IsFailure(c, i, r.rid)' =>
             i + e \in 1 .. Len(down[c]) /\ down'[c][i] = down[c][i + e]
      /\ \A j \in 1 .. Len(down[c]) : IsAnswer(c, j, r.rid) =>
           j - e \in 1 .. Len(down'[c]) /\ down'[c][j - e] = down[c][j]

PostedMove(id, d) ==
  /\ \A i \in 1 .. Len(tasks') : IsSuccess(i, id)' \/ IsGivenUp(i, id)' =>
       i + d \in 1 .. Len(tasks) /\ tasks'[i] = tasks[i + d]
  /\ \A j \in 1 .. Len(tasks) : IsSuccess(j, id) =>
       j - d \in 1 .. Len(tasks') /\ tasks'[j - d] = tasks[j]

SameFor(r) ==
  HeardOf(r)' = HeardOf(r) /\ GivenTo(r)' = GivenTo(r) /\ (FailingFor(r)' <=> FailingFor(r))

LEMMA SentStaysFor ==
  ASSUME NEW r, SameFor(r), SentFor(r), NEW e \in {0, 1}, SentMove(r, e)
  PROVE  SentFor(r)' /\ \A n : Sent(r.context, r.rid, n)' <=> Sent(r.context, r.rid, n)
<1> DEFINE c == r.context
<1>1. \A i \in 1 .. Len(down'[c]) :
        /\ IsAnswer(c, i, r.rid)' =>
             /\ i + e \in 1 .. Len(down[c]) /\ IsAnswer(c, i + e, r.rid)
             /\ down'[c][i] = down[c][i + e]
        /\ IsFailure(c, i, r.rid)' =>
             i + e \in 1 .. Len(down[c]) /\ IsFailure(c, i + e, r.rid)
  BY DEF SentMove, IsAnswer, IsFailure
<1>2. \A j \in 1 .. Len(down[c]) : IsAnswer(c, j, r.rid) =>
        /\ j - e \in 1 .. Len(down'[c]) /\ IsAnswer(c, j - e, r.rid)'
        /\ down'[c][j - e] = down[c][j]
  BY DEF SentMove, IsAnswer
<1>3. ASSUME NEW i \in Int, NEW n, SentBefore(c, r.rid, n, i + e)
      PROVE  SentBefore(c, r.rid, n, i)'
  <2>1. PICK j \in 1 .. Len(down[c]) :
               j < i + e /\ IsAnswer(c, j, r.rid) /\ down[c][j].n = n
    BY <1>3 DEF SentBefore
  <2>2. /\ j - e \in 1 .. Len(down'[c]) /\ IsAnswer(c, j - e, r.rid)'
        /\ down'[c][j - e].n = n /\ j - e < i
    BY <1>2, <2>1
  <2> QED
    BY <2>2 DEF SentBefore
<1>4. ASSUME NEW i \in 1 .. Len(down'[c]), IsAnswer(c, i, r.rid)'
      PROVE  AnswerFits(r, i)'
  <2>1. AnswerFits(r, i + e) /\ down'[c][i] = down[c][i + e]
    BY <1>1, <1>4 DEF SentFor
  <2> QED
    BY <1>3, <2>1 DEF AnswerFits, SameFor
<1>5. ASSUME NEW i \in 1 .. Len(down'[c]), IsFailure(c, i, r.rid)'
      PROVE  FailureFits(r, i)'
  <2>1. FailureFits(r, i + e)
    BY <1>1, <1>5 DEF SentFor
  <2> QED
    BY <1>3, <2>1 DEF FailureFits, SameFor
<1>6. ASSUME NEW i \in 1 .. Len(down'[c]), NEW j \in 1 .. Len(down'[c]),
             i < j, IsAnswer(c, i, r.rid)', IsAnswer(c, j, r.rid)'
      PROVE  down'[c][i].n < down'[c][j].n
  <2>1. i + e < j + e
    BY <1>6
  <2> QED
    BY <1>1, <1>6, <2>1 DEF SentFor
<1>7. \A n : Sent(c, r.rid, n)' <=> Sent(c, r.rid, n)
  <2>1. \A n : Sent(c, r.rid, n)' => Sent(c, r.rid, n)
    BY <1>1 DEF Sent
  <2>2. \A n : Sent(c, r.rid, n) => Sent(c, r.rid, n)'
    BY <1>2 DEF Sent
  <2> QED
    BY <2>1, <2>2
<1> QED
  BY <1>4, <1>5, <1>6, <1>7 DEF SentFor

LEMMA PostedStaysFor ==
  ASSUME NEW r, NEW info, SameFor(r), PostedFor(r, info),
         \A n : Sent(r.context, r.rid, n)' <=> Sent(r.context, r.rid, n),
         NEW d \in {0, 1}, PostedMove(info.id, d)
  PROVE  PostedFor(r, info)'
<1>1. \A i \in 1 .. Len(tasks') :
        /\ IsSuccess(i, info.id)' =>
             IsSuccess(i + d, info.id) /\ i + d \in 1 .. Len(tasks) /\ tasks'[i] = tasks[i + d]
        /\ IsGivenUp(i, info.id)' => IsGivenUp(i + d, info.id) /\ i + d \in 1 .. Len(tasks)
  BY DEF PostedMove, IsSuccess, IsGivenUp
<1>2. \A j \in 1 .. Len(tasks) : IsSuccess(j, info.id) =>
        /\ j - d \in 1 .. Len(tasks') /\ IsSuccess(j - d, info.id)'
        /\ tasks'[j - d] = tasks[j]
  BY DEF PostedMove, IsSuccess
<1>3. \A n : Posted(info.id, n) => Posted(info.id, n)'
  BY <1>2 DEF Posted
<1>4. ASSUME NEW n, NEW i \in 1 .. Len(tasks'), PostedBefore(info.id, n, i + d)
      PROVE  PostedBefore(info.id, n, i)'
  <2>1. PICK j \in 1 .. Len(tasks) : j < i + d /\ IsSuccess(j, info.id) /\ tasks[j].n = n
    BY <1>4 DEF PostedBefore
  <2>2. /\ j - d \in 1 .. Len(tasks') /\ IsSuccess(j - d, info.id)'
        /\ tasks'[j - d].n = n /\ j - d < i
    BY <1>2, <2>1
  <2> QED
    BY <2>2 DEF PostedBefore
<1>5. ASSUME NEW i \in 1 .. Len(tasks'), IsSuccess(i, info.id)'
      PROVE  SuccessFits(r, info, i)'
  <2>1. SuccessFits(r, info, i + d) /\ tasks'[i] = tasks[i + d]
    BY <1>1, <1>5 DEF PostedFor
  <2>2. HeardOf(r)' < tasks'[i].n
    BY <2>1 DEF SuccessFits, SameFor
  <2>3. \A j \in 1 .. Len(down'[r.context]) :
          IsAnswer(r.context, j, r.rid)' => down'[r.context][j].n < tasks'[i].n
    <3>1. SUFFICES ASSUME NEW n, NEW j \in 1 .. Len(down'[r.context]),
                          IsAnswer(r.context, j, r.rid)', n = down'[r.context][j].n
                   PROVE  n < tasks'[i].n
      OBVIOUS
    <3>2. Sent(r.context, r.rid, n)
      BY <3>1 DEF Sent
    <3> QED
      BY <2>1, <3>2 DEF SuccessFits, Sent
  <2>4. \A n \in HeardOf(r)' + 1 .. tasks'[i].n - 1 :
          Sent(r.context, r.rid, n)' \/ PostedBefore(info.id, n, i)'
    BY <1>4, <2>1 DEF SuccessFits, SameFor
  <2> QED
    BY <2>2, <2>3, <2>4 DEF SuccessFits
<1>6. ASSUME NEW i \in 1 .. Len(tasks'), IsGivenUp(i, info.id)'
      PROVE  GivenUpFits(r, info, i)'
  <2>1. GivenUpFits(r, info, i + d)
    BY <1>1, <1>6 DEF PostedFor
  <2> QED
    BY <1>4, <2>1 DEF GivenUpFits, SameFor
<1>7. \A n \in HeardOf(r)' + 1 .. GivenTo(r)' : Sent(r.context, r.rid, n)' \/ Posted(info.id, n)'
  BY <1>3 DEF PostedFor, SameFor
<1> QED
  BY <1>5, <1>6, <1>7 DEF PostedFor

\* What was sent and posted for the requests stays.
LEMMA SentStays ==
  ASSUME RouterInv, SentInOrder, open' \subseteq open, SameGiven, UNCHANGED heard, OnlyCancelsSent
  PROVE  /\ SentInOrder'
         /\ \A r \in open' : \A n : Sent(r.context, r.rid, n)' <=> Sent(r.context, r.rid, n)
<1> SUFFICES ASSUME NEW r \in open'
             PROVE  SentFor(r)' /\ \A n : Sent(r.context, r.rid, n)' <=> Sent(r.context, r.rid, n)
  BY DEF SentInOrder
<1> DEFINE c == r.context
<1>1. Len(down[c]) \in Nat /\ Len(down[c]) <= Len(down'[c])
  BY StateTypes, AnswerTypes DEF OnlyCancelsSent
<1>2. \A i \in 1 .. Len(down'[c]) :
        i <= Len(down[c]) => i \in 1 .. Len(down[c]) /\ down'[c][i] = down[c][i]
  BY <1>1 DEF OnlyCancelsSent
<1>3. \A i \in 1 .. Len(down'[c]) : ~(i <= Len(down[c])) => down'[c][i].result = "canceled"
  BY DEF OnlyCancelsSent
<1>4. \A i \in 1 .. Len(down'[c]) :
        IsAnswer(c, i, r.rid)' \/ IsFailure(c, i, r.rid)' =>
          i + 0 \in 1 .. Len(down[c]) /\ down'[c][i] = down[c][i + 0]
  BY <1>2, <1>3 DEF IsAnswer, IsFailure
<1>5. \A j \in 1 .. Len(down[c]) :
        j - 0 \in 1 .. Len(down'[c]) /\ down'[c][j - 0] = down[c][j]
  BY <1>1, <1>2
<1>6. SentMove(r, 0)
  BY <1>4, <1>5 DEF SentMove
<1>7. SameFor(r) /\ SentFor(r)
  BY SameForRequests DEF SentInOrder, SameFor
<1> QED
  BY <1>6, <1>7, SentStaysFor

LEMMA PostedStays ==
  ASSUME RouterInv, SentInOrder, PostedInOrder, open' \subseteq open, SameGiven,
         UNCHANGED heard, OnlyCancelsSent, OnlyLostTasks,
         NEW r \in open', NEW info \in pending', info \in pending, Waits(r, info)
  PROVE  PostedFor(r, info)'
<1>1. PICK d \in {0, 1} : TasksMove(d)
  BY DEF OnlyLostTasks
<1>2. info.id \in Ids(pending')
  BY DEF Ids
<1>3. PostedMove(info.id, d)
  BY <1>1, <1>2 DEF PostedMove, TasksMove, NoNewAnswers, IsSuccess, IsGivenUp
<1>4. SameFor(r) /\ PostedFor(r, info)
  BY SameForRequests DEF PostedInOrder, SameFor
<1> QED
  BY <1>3, <1>4, SentStays, PostedStaysFor

\* A step that takes nothing from anybody but what ends.
Loses ==
  /\ UNCHANGED <<lastReq, heard>>
  /\ open' \subseteq open /\ pending' \subseteq pending
  /\ SameAnswers /\ Len(callbacks') = Len(callbacks)
  /\ NoNewQueries /\ OnlyCancelsSent /\ OnlyLostTasks
  /\ \A r \in open' : r.context \in valid' => r.context \in valid

\* What the steps below that answer queries have in common with these.
LEMMA TablesStay ==
  ASSUME RouterInv, RouterInv', AnswerInv, UNCHANGED <<lastReq, heard>>,
         open' \subseteq open, pending' \subseteq pending,
         SameAnswers, Len(callbacks') = Len(callbacks), NoNewQueries,
         NEW d \in {0, 1}, NoNewAnswers(d)
  PROVE  /\ CallbacksAreApart' /\ CallbacksAreAsked' /\ SentAreApart' /\ SentIsUnanswered'
         /\ RequestsAreApart' /\ QueriesFitCallbacks' /\ HeardIsGiven' /\ TasksAreGiven'
         /\ SameGiven
<1>1. /\ CallbacksAreApart /\ CallbacksAreAsked /\ SentAreApart /\ SentIsUnanswered
      /\ RequestsAreApart /\ QueriesFitCallbacks /\ HeardIsGiven /\ TasksAreGiven
  BY DEF AnswerInv
<1>2. SameGiven
  BY GivenStays
<1>3. CallbacksAreApart' /\ CallbacksAreAsked' /\ SentAreApart' /\ SentIsUnanswered'
  BY <1>1, CallbacksStayApart, SentApartKept, UnansweredKept
<1>4. RequestsAreApart'
  BY <1>1 DEF RequestsAreApart, AskedBy
<1>5. QueriesFitCallbacks' /\ HeardIsGiven' /\ TasksAreGiven'
  BY <1>1, <1>2, QueriesStayFit, HeardStays, TasksStayGiven
<1> QED
  BY <1>2, <1>3, <1>4, <1>5

LEMMA LosesKeeps ==
  ASSUME RouterInv, RouterInv', AnswerInv, Loses
  PROVE  AnswerInv'
<1>1. /\ UNCHANGED <<lastReq, heard>> /\ open' \subseteq open /\ pending' \subseteq pending
      /\ SameAnswers /\ Len(callbacks') = Len(callbacks)
      /\ NoNewQueries /\ OnlyCancelsSent /\ OnlyLostTasks /\ SentInOrder /\ PostedInOrder
  BY DEF Loses, AnswerInv
<1>2. PICK d \in {0, 1} : NoNewAnswers(d)
  BY <1>1 DEF OnlyLostTasks, TasksMove
<1>3. /\ CallbacksAreApart' /\ CallbacksAreAsked' /\ SentAreApart' /\ SentIsUnanswered'
      /\ RequestsAreApart' /\ QueriesFitCallbacks' /\ HeardIsGiven' /\ TasksAreGiven'
      /\ SameGiven
  BY <1>1, <1>2, TablesStay
<1>4. SentInOrder'
  BY <1>1, <1>3, SentStays
<1>5. PostedInOrder'
  <2>1. SUFFICES ASSUME NEW r \in open', NEW info \in pending', Waits(r, info)'
                 PROVE  PostedFor(r, info)'
    BY DEF PostedInOrder
  <2>2. Waits(r, info) /\ info \in pending
    BY <1>1, <2>1 DEF Waits, Loses
  <2> QED
    BY <1>1, <1>3, <2>2, PostedStays
<1> QED
  BY <1>3, <1>4, <1>5 DEF AnswerInv

LEMMA SameCallbacks ==
  ASSUME RouterInv, UNCHANGED callbacks
  PROVE  SameAnswers /\ Len(callbacks') = Len(callbacks)
  BY CallbackTypes DEF SameAnswers

LEMMA DetachedGive ==
  ASSUME RouterInv, NEW ids
  PROVE  /\ Detached(ids) \in Seq(CallbackImpl) /\ Len(Detached(ids)) = Len(callbacks)
         /\ \A k \in 1 .. Len(callbacks) :
              /\ Detached(ids)[k].query = callbacks[k].query
              /\ Detached(ids)[k].given = callbacks[k].given
              /\ Detached(ids)[k].failing <=> callbacks[k].failing
<1>1. TableTypes
  BY InvIsParts DEF QueryInv
<1>2. Detached(ids) \in Seq(CallbackImpl) /\ Len(Detached(ids)) = Len(callbacks)
  BY <1>1, DetachedCallbacks
<1>3. ASSUME NEW k \in 1 .. Len(callbacks)
      PROVE  /\ Detached(ids)[k].query = callbacks[k].query
             /\ Detached(ids)[k].given = callbacks[k].given
             /\ Detached(ids)[k].failing <=> callbacks[k].failing
  <2>1. k \in DOMAIN callbacks /\ callbacks[k] \in CallbackImpl
    BY CallbackTypes
  <2>2. \A cb \in CallbackImpl : \A now :
          /\ [cb EXCEPT !.router = now].query = cb.query
          /\ [cb EXCEPT !.router = now].given = cb.given
          /\ [cb EXCEPT !.router = now].failing = cb.failing
    BY DEF CallbackImpl
  <2>3. \E now : Detached(ids)[k] = [callbacks[k] EXCEPT !.router = now]
    BY <2>1 DEF Detached, CallbackImpl
  <2> QED
    BY <2>1, <2>2, <2>3
<1> QED
  BY <1>2, <1>3

LEMMA DetachedAnswers ==
  ASSUME RouterInv, NEW ids, callbacks' = Detached(ids)
  PROVE  SameAnswers /\ Len(callbacks') = Len(callbacks)
<1>1. Len(callbacks) \in Nat
  BY CallbackTypes
<1> QED
  BY <1>1, DetachedGive DEF SameAnswers

LEMMA NothingSentUp ==
  ASSUME RouterInv, \A c \in Contexts : up'[c] = up[c] \/ up'[c] = <<>>
  PROVE  NoNewQueries
<1> SUFFICES ASSUME NEW c \in Contexts, NEW i \in 1 .. Len(up'[c])
             PROVE  \E j \in 1 .. Len(up[c]) : up[c][j] = up'[c][i]
  BY DEF NoNewQueries
<1>1. Len(<<>>) = 0 /\ 1 .. 0 = {}
  OBVIOUS
<1> QED
  BY <1>1

LEMMA NothingSentDown ==
  ASSUME RouterInv, \A r \in open' : r.context \in Contexts /\ down'[r.context] = down[r.context]
  PROVE  OnlyCancelsSent
<1>1. \A c \in Contexts : Len(down[c]) \in Nat
  BY AnswerTypes
<1> QED
  BY <1>1 DEF OnlyCancelsSent

LEMMA NoticesAreCancels ==
  ASSUME RouterInv, NEW ids, open' \subseteq open,
         down' = [c \in Contexts |->
                    IF c \in valid THEN down[c] \o Notices(ids, c) ELSE down[c]]
  PROVE  OnlyCancelsSent
<1> SUFFICES ASSUME NEW c \in Contexts
             PROVE  /\ Len(down[c]) <= Len(down'[c])
                    /\ \A i \in 1 .. Len(down'[c]) :
                         IF i <= Len(down[c]) THEN down'[c][i] = down[c][i]
                         ELSE down'[c][i].result = "canceled"
  <2>1. \A r \in open' : r.context \in Contexts
    BY StateTypes
  <2> QED
    BY <2>1, Zenon DEF OnlyCancelsSent
<1> DEFINE s == down[c]
           t == Notices(ids, c)
<1>1. s \in Seq(Downward) /\ t \in Seq(Downward)
      /\ down'[c] = IF c \in valid THEN s \o t ELSE s
  BY StateTypes, NoticesTell
<1>2. \A k \in 1 .. Len(t) : t[k].result = "canceled"
  <2>1. \A info : Message(info, "canceled", 0).result = "canceled"
    BY DEF Message
  <2> QED
    BY <2>1, NoticesTell
<1> HIDE DEF s, t
<1>3. /\ Len(s) \in Nat /\ Len(t) \in Nat /\ Len(s \o t) = Len(s) + Len(t)
      /\ \A i \in 1 .. Len(s) + Len(t) :
           (s \o t)[i] = IF i <= Len(s) THEN s[i] ELSE t[i - Len(s)]
  BY <1>1, ConcatProperties, LenProperties
<1>4. \A i \in 1 .. Len(s \o t) : IF i <= Len(s) THEN (s \o t)[i] = s[i]
                                  ELSE (s \o t)[i].result = "canceled"
  BY <1>2, <1>3
<1>5. /\ Len(s) <= Len(down'[c])
      /\ \A i \in 1 .. Len(down'[c]) : IF i <= Len(s) THEN down'[c][i] = s[i]
                                       ELSE down'[c][i].result = "canceled"
  <2>1. CASE c \in valid
    <3>1. down'[c] = s \o t
      BY <1>1, <2>1
    <3>2. Len(s) <= Len(s \o t)
      BY <1>3
    <3> QED
      BY <1>4, <3>1, <3>2
  <2>2. CASE c \notin valid
    <3>1. down'[c] = s
      BY <1>1, <2>2
    <3> QED
      BY <1>3, <3>1
  <2> QED
    BY <2>1, <2>2
<1> QED
  BY <1>5 DEF s

\* What a cancellation leaves of the answers.
LEMMA CancelLoses ==
  ASSUME RouterInv, NEW ids, NEW notify \in BOOLEAN, CancelQueries(ids, notify),
         open' \subseteq open
  PROVE  /\ pending' \subseteq pending /\ SameAnswers /\ Len(callbacks') = Len(callbacks)
         /\ OnlyCancelsSent
<1>1. pending' \subseteq pending /\ SameAnswers /\ Len(callbacks') = Len(callbacks)
  BY DetachedAnswers DEF CancelQueries, Without
<1>2. ASSUME notify = TRUE
      PROVE  OnlyCancelsSent
  <2>1. down' = [c \in Contexts |->
                   IF c \in valid THEN down[c] \o Notices(ids, c) ELSE down[c]]
    BY <1>2 DEF CancelQueries
  <2> QED
    BY <2>1, NoticesAreCancels
<1>3. ASSUME notify = FALSE
      PROVE  OnlyCancelsSent
  <2>1. down' = down /\ \A r \in open' : r.context \in Contexts
    BY <1>3, StateTypes DEF CancelQueries
  <2> QED
    BY <2>1, NothingSentDown
<1> QED
  BY <1>1, <1>2, <1>3

LEMMA TasksUntouched ==
  ASSUME RouterInv, UNCHANGED tasks
  PROVE  OnlyLostTasks
<1>1. Len(tasks) \in Nat
  BY InvIsParts, LenProperties DEF TaskInv, TaskTypes
<1>2. TasksMove(0)
  BY <1>1 DEF TasksMove, NoNewAnswers
<1> QED
  BY <1>2 DEF OnlyLostTasks

\* The first task is a cancellation, or answers a query that is gone.
LEMMA TaskRun ==
  ASSUME RouterInv, tasks # <<>>, tasks' = Tail(tasks),
         Head(tasks).type = "cancel" \/ Head(tasks).id \notin Ids(pending')
  PROVE  OnlyLostTasks
<1>1. tasks \in Seq(Task)
  BY InvIsParts DEF TaskInv, TaskTypes
<1>2. /\ Head(tasks) = tasks[1] /\ Len(tasks) \in Nat
      /\ \A i \in 1 .. Len(tasks') : i + 1 \in 1 .. Len(tasks) /\ tasks'[i] = tasks[i + 1]
      /\ \A i \in 1 .. Len(tasks) :
           i = 1 \/ (i - 1 \in 1 .. Len(tasks') /\ tasks'[i - 1] = tasks[i])
  BY <1>1, RestOfMessages
<1>3. TasksMove(1)
  BY <1>2 DEF TasksMove, NoNewAnswers
<1> QED
  BY <1>3 DEF OnlyLostTasks

-----------------------------------------------------------------------------
(* Steps that end queries *)

\* A cancellation is sent to the browser, or nothing.
LEMMA WithdrawLoses ==
  ASSUME RouterInv, NEW c \in Contexts, NEW cid \in Nat \ {Reserved}, NEW rid \in 0 .. MaxQuery,
         SendCancel(c, cid, rid), UNCHANGED <<lastReq, heard, down, contentVars, routerVars>>
  PROVE  Loses
<1>1. /\ UNCHANGED <<lastReq, heard, down, valid, pending, callbacks, tasks>>
      /\ open' \subseteq open
  BY DEF SendCancel, contentVars, routerVars
<1> DEFINE m == [type |-> "cancel", cid |-> cid, rid |-> rid]
<1>2. m \in Upward /\ m.type = "cancel"
  BY DEF Upward
<1>3. UNCHANGED up \/ ToBrowser(c, m)
  BY DEF SendCancel
<1> HIDE DEF m
<1>4. NoNewQueries
  <2>1. CASE UNCHANGED up
    BY <2>1, NothingSentUp
  <2>2. CASE ToBrowser(c, m) /\ c \in valid
    <3>1. /\ Len(up'[c]) = Len(up[c]) + 1 /\ Len(up[c]) \in Nat
          /\ \A i \in 1 .. Len(up[c]) : up'[c][i] = up[c][i]
          /\ up'[c][Len(up[c]) + 1] = m
          /\ \A d \in Contexts : d # c => up'[d] = up[d]
      BY <1>2, <2>2, MessageSent, InvIsParts
    <3>2. \A i \in 1 .. Len(up'[c]) : up'[c][i].type = "query" =>
            i \in 1 .. Len(up[c]) /\ up'[c][i] = up[c][i]
      BY <1>2, <3>1
    <3> QED
      BY <3>1, <3>2 DEF NoNewQueries
  <2>3. CASE ToBrowser(c, m) /\ c \notin valid
    BY <2>3, NothingSentUp DEF ToBrowser
  <2> QED
    BY <1>3, <2>1, <2>2, <2>3
<1>5. SameAnswers /\ Len(callbacks') = Len(callbacks) /\ OnlyLostTasks
  BY <1>1, SameCallbacks, TasksUntouched
<1>6. OnlyCancelsSent
  <2>1. \A r \in open' : r.context \in Contexts /\ down'[r.context] = down[r.context]
    BY <1>1, StateTypes
  <2> QED
    BY <2>1, NothingSentDown
<1> QED
  BY <1>1, <1>4, <1>5, <1>6 DEF Loses

LEMMA CancelQueryLoses ==
  ASSUME RouterInv, NEW c \in Contexts, NEW rid \in 1 .. MaxQuery, CancelQuery(c, rid)
  PROVE  Loses
<1>1. GetIDForContext(c) \in Nat \ {Reserved}
  BY ContextIds, InvIsParts
<1>2. rid \in 0 .. MaxQuery
  OBVIOUS
<1> QED
  BY <1>1, <1>2, WithdrawLoses DEF CancelQuery

\* Frames, pages and processes end or begin, and queries with them.
LEMMA EndsLoses ==
  ASSUME RouterInv, UNCHANGED <<lastReq, heard, callbacks, tasks, pending>>, open' \subseteq open,
         \A c \in Contexts : up'[c] = up[c] \/ up'[c] = <<>>,
         \A r \in open' : r.context \in Contexts /\ down'[r.context] = down[r.context],
         \A r \in open' : r.context \in valid' => r.context \in valid
  PROVE  Loses
<1>1. SameAnswers /\ Len(callbacks') = Len(callbacks)
  BY SameCallbacks
<1>2. NoNewQueries /\ OnlyCancelsSent /\ OnlyLostTasks
  BY NothingSentUp, NothingSentDown, TasksUntouched
<1> QED
  BY <1>1, <1>2 DEF Loses

LEMMA CancelsLose ==
  ASSUME RouterInv, UNCHANGED <<lastReq, heard, tasks>>, open' \subseteq open,
         \A c \in Contexts : up'[c] = up[c] \/ up'[c] = <<>>,
         NEW ids, NEW notify \in BOOLEAN, CancelQueries(ids, notify),
         valid' \subseteq valid
  PROVE  Loses
<1>1. NoNewQueries /\ OnlyLostTasks
  BY NothingSentUp, TasksUntouched
<1> QED
  BY <1>1, CancelLoses DEF Loses

LEMMA ReleaseLoses ==
  ASSUME RouterInv, NEW c \in Contexts, Release(c)
  PROVE  Loses
<1>1. UNCHANGED <<lastReq, heard, down, contentVars, routerVars>>
  BY DEF Release, ContextReleased
<1>2. CASE UNCHANGED <<open, up>>
  BY <1>1, <1>2, EndsLoses, StateTypes DEF contentVars, routerVars
<1>3. CASE ctxId[c] # Reserved /\ SendCancel(c, ctxId[c], Reserved)
  <2>1. ctxId[c] \in Nat \ {Reserved} /\ Reserved \in 0 .. MaxQuery
    BY <1>3, StateTypes DEF Reserved
  <2> QED
    BY <1>1, <1>3, <2>1, WithdrawLoses
<1> QED
  BY <1>2, <1>3 DEF Release, ContextReleased

LEMMA ContentLoses ==
  ASSUME RouterInv, RequestInv, Content
  PROVE  Loses
<1>1. \A r \in open : r.context \in Contexts /\ Running(r.context)
  BY StateTypes DEF RequestInv, Rules, CancelsAreFinal
<1>2. ASSUME NEW b \in Browsers, OnBeforeBrowse(b)
      PROVE  Loses
  <2>1. /\ UNCHANGED <<lastReq, heard, open, up, tasks, valid>>
        /\ CancelQueries(PendingFor(b, None), FALSE)
    BY <1>2 DEF OnBeforeBrowse, CancelPendingFor, rendererVars
  <2> QED
    BY <2>1, CancelsLose
<1>3. ASSUME NEW b \in Browsers, NavigationEnds(b)
      PROVE  Loses
  BY <1>1, <1>3, EndsLoses DEF NavigationEnds, rendererVars, routerVars
<1>4. ASSUME NEW b \in Browsers, Close(b)
      PROVE  Loses
  <2>1. /\ UNCHANGED <<lastReq, heard, open, tasks>>
        /\ valid' = {c \in valid : BrowserOf[c] # b}
        /\ up' = [c \in Contexts |-> IF BrowserOf[c] = b THEN <<>> ELSE up[c]]
    BY <1>4 DEF Close
  <2>2. valid' \subseteq valid /\ \A c \in Contexts : up'[c] = up[c] \/ up'[c] = <<>>
    BY <2>1
  <2>3. CASE CancelQueries(PendingFor(b, None), FALSE)
    BY <2>1, <2>2, <2>3, CancelsLose
  <2>4. CASE CancelQueries(PendingFor(None, None), TRUE)
    BY <2>1, <2>2, <2>4, CancelsLose
  <2>5. CASE UNCHANGED <<pending, callbacks, down>>
    BY <1>1, <2>1, <2>2, <2>5, EndsLoses
  <2> QED
    BY <1>4, <2>3, <2>4, <2>5 DEF Close, CancelPendingFor
<1>5. ASSUME NEW c \in Contexts, Commit(c)
      PROVE  Loses
  <2>1. /\ life[c] = "none" /\ UNCHANGED <<lastReq, heard, callbacks, tasks, pending, open, down>>
        /\ valid' \subseteq valid \cup {c}
        /\ \A d \in Contexts : up'[d] = up[d] \/ up'[d] = <<>>
    BY <1>5 DEF Commit, routerVars
  <2>2. \A r \in open : r.context # c
    BY <1>1, <2>1 DEF Running
  <2> QED
    BY <1>1, <2>1, <2>2, EndsLoses
<1>6. ASSUME NEW c \in Contexts, SubFrameCreated(c)
      PROVE  Loses
  <2>1. /\ life[c] = "none"
        /\ UNCHANGED <<lastReq, heard, callbacks, tasks, pending, open, up, down>>
        /\ valid' \subseteq valid \cup {c}
    BY <1>6 DEF SubFrameCreated, routerVars
  <2>2. \A r \in open : r.context # c
    BY <1>1, <2>1 DEF Running
  <2> QED
    BY <1>1, <2>1, <2>2, EndsLoses
<1>7. ASSUME NEW c \in Contexts, FrameDeleted(c)
      PROVE  Loses
  <2>1. /\ life[c] = "released" /\ UNCHANGED <<lastReq, heard, callbacks, tasks, pending, open>>
        /\ valid' \subseteq valid
        /\ \A d \in Contexts : up'[d] = up[d] \/ up'[d] = <<>>
        /\ \A d \in Contexts : d # c => down'[d] = down[d]
    BY <1>7, StateTypes DEF FrameDeleted, rendererVars, routerVars
  <2>2. \A r \in open : r.context # c
    BY <1>1, <2>1 DEF Running
  <2> QED
    BY <1>1, <2>1, <2>2, EndsLoses
<1>8. ASSUME NEW p \in Procs, RenderProcessGone(p)
      PROVE  Loses
  <2>1. /\ UNCHANGED <<lastReq, heard, tasks>> /\ open' \subseteq open /\ valid' \subseteq valid
        /\ \A c \in Contexts : up'[c] = up[c] \/ up'[c] = <<>>
        /\ \E ids : CancelQueries(ids, FALSE)
    BY <1>8 DEF RenderProcessGone
  <2> QED
    BY <2>1, CancelsLose
<1> QED
  BY <1>2, <1>3, <1>4, <1>5, <1>6, <1>7, <1>8, ReleaseLoses DEF Content

LEMMA TaskPostedLoses ==
  ASSUME RouterInv, NEW t \in Task, t.type = "cancel", tasks' = Append(tasks, t)
  PROVE  OnlyLostTasks
<1>1. tasks \in Seq(Task) /\ Len(tasks) \in Nat
  BY InvIsParts, LenProperties DEF TaskInv, TaskTypes
<1>2. Len(tasks') = Len(tasks) + 1 /\ tasks'[Len(tasks) + 1] = t
      /\ \A k \in 1 .. Len(tasks) : tasks'[k] = tasks[k]
  BY <1>1, Appended
<1>3. TasksMove(0)
  BY <1>1, <1>2 DEF TasksMove, NoNewAnswers
<1> QED
  BY <1>3 DEF OnlyLostTasks

\* What the client does, but for the answers of its handlers.
LEMMA ClientLoses ==
  ASSUME RouterInv, Client, \A id \in QueryIds : ~Success(id) /\ ~Failure(id)
  PROVE  Loses
<1>1. UNCHANGED <<lastReq, heard, open, up, valid>>
  BY DEF Client, AddHandler, RemoveHandler, CancelPending, PostCancelPending,
    rendererVars, contentVars
<1>2. ASSUME NEW h \in Handlers, AddHandler(h)
      PROVE  Loses
  BY <1>1, <1>2, EndsLoses, StateTypes DEF AddHandler
<1>3. ASSUME NEW h \in Handlers, RemoveHandler(h)
      PROVE  Loses
  BY <1>1, <1>3, CancelsLose DEF RemoveHandler, CancelPendingFor
<1>4. ASSUME NEW b \in Browsers \cup {None}, NEW h \in Handlers \cup {None}, CancelPending(b, h)
      PROVE  Loses
  BY <1>1, <1>4, CancelsLose DEF CancelPending, CancelPendingFor
<1>5. ASSUME NEW b \in Browsers \cup {None}, NEW h \in Handlers \cup {None},
             PostCancelPending(b, h)
      PROVE  Loses
  <2>1. UNCHANGED <<callbacks, pending, down>>
        /\ tasks' = Append(tasks, [type |-> "cancel", browser |-> b, handler |-> h])
    BY <1>5 DEF PostCancelPending
  <2>2. [type |-> "cancel", browser |-> b, handler |-> h] \in Task
    BY DEF Task
  <2>3. OnlyLostTasks
    BY <2>1, <2>2, TaskPostedLoses
  <2>4. NoNewQueries /\ OnlyCancelsSent
    BY <1>1, <2>1, NothingSentUp, NothingSentDown, StateTypes
  <2> QED
    BY <1>1, <2>1, <2>3, <2>4, SameCallbacks DEF Loses
<1> QED
  BY <1>2, <1>3, <1>4, <1>5 DEF Client

LEMMA MessageTaken ==
  ASSUME RouterInv, NEW c \in Contexts, up[c] # <<>>, up' = [up EXCEPT ![c] = Tail(@)]
  PROVE  NoNewQueries
<1>1. /\ \A i \in 1 .. Len(up'[c]) : i + 1 \in 1 .. Len(up[c]) /\ up'[c][i] = up[c][i + 1]
      /\ \A d \in Contexts : d # c => up'[d] = up[d]
  BY MessageArrived, InvIsParts
<1> SUFFICES ASSUME NEW d \in Contexts, NEW i \in 1 .. Len(up'[d])
             PROVE  \E j \in 1 .. Len(up[d]) : up[d][j] = up'[d][i]
  BY DEF NoNewQueries
<1>2. CASE d = c
  BY <1>1, <1>2
<1>3. CASE d # c
  <2>1. up'[d] = up[d]
    BY <1>1, <1>3
  <2> QED
    BY <2>1
<1> QED
  BY <1>2, <1>3

\* One message is sent to a frame that is valid.
LEMMA MessageSentDown ==
  ASSUME RouterInv, NEW c \in Contexts, NEW m \in Downward, down' = SendToRenderer(c, m)
  PROVE  /\ \A d \in Contexts : d # c \/ c \notin valid => down'[d] = down[d]
         /\ c \in valid =>
              /\ Len(down[c]) \in Nat /\ Len(down'[c]) = Len(down[c]) + 1
              /\ \A i \in 1 .. Len(down[c]) : down'[c][i] = down[c][i]
              /\ down'[c][Len(down[c]) + 1] = m
<1>1. down \in [Contexts -> Seq(Downward)]
  BY StateTypes
<1>2. \A d \in Contexts : d # c \/ c \notin valid => down'[d] = down[d]
  BY <1>1 DEF SendToRenderer
<1>3. ASSUME c \in valid
      PROVE  /\ Len(down[c]) \in Nat /\ Len(down'[c]) = Len(down[c]) + 1
             /\ \A i \in 1 .. Len(down[c]) : down'[c][i] = down[c][i]
             /\ down'[c][Len(down[c]) + 1] = m
  <2>1. down[c] \in Seq(Downward) /\ down'[c] = Append(down[c], m)
    BY <1>1, <1>3 DEF SendToRenderer
  <2> QED
    BY <2>1, Appended, LenProperties
<1> QED
  BY <1>2, <1>3

LEMMA CancelSentDown ==
  ASSUME RouterInv, UNCHANGED open, NEW c \in Contexts, NEW m \in Downward,
         m.result = "canceled", down' = SendToRenderer(c, m)
  PROVE  OnlyCancelsSent
<1> SUFFICES ASSUME NEW d \in Contexts
             PROVE  /\ Len(down[d]) <= Len(down'[d])
                    /\ \A i \in 1 .. Len(down'[d]) :
                         IF i <= Len(down[d]) THEN down'[d][i] = down[d][i]
                         ELSE down'[d][i].result = "canceled"
  <2>1. \A r \in open' : r.context \in Contexts
    BY StateTypes
  <2> QED
    BY <2>1, Zenon DEF OnlyCancelsSent
<1>1. CASE d # c \/ c \notin valid
  <2>1. down'[d] = down[d] /\ Len(down[d]) \in Nat
    BY <1>1, MessageSentDown, AnswerTypes
  <2> QED
    BY <2>1
<1>2. CASE d = c /\ c \in valid
  BY <1>2, MessageSentDown
<1> QED
  BY <1>1, <1>2

LEMMA CancelTyped ==
  ASSUME NEW m \in Upward, m.type = "query"
  PROVE  Message(m, "canceled", 0) \in Downward /\ Message(m, "canceled", 0).result = "canceled"
<1>1. 0 \in 0 .. MaxAnswers
  BY RouterAssumption DEF RouterAssumption
<1> QED
  BY <1>1, NewCallbackTyped DEF Message, Downward, Upward

\* A cancellation arrives, or a query when there is no handler.
LEMMA MessageLoses ==
  ASSUME RouterInv, NEW c \in Contexts, OnProcessMessageReceived(c),
         Head(up[c]).type = "cancel" \/ UNCHANGED <<pending, callbacks>>
  PROVE  Loses
<1> DEFINE m == Head(up[c])
<1>1. UNCHANGED <<lastReq, heard, open, valid, tasks>> /\ NoNewQueries
  BY MessageTaken DEF OnProcessMessageReceived, rendererVars, contentVars
<1>2. m \in Upward
  BY FirstMessage, SentTypes DEF OnProcessMessageReceived
<1>3. OnlyLostTasks
  BY <1>1, TasksUntouched
<1>4. CASE \E ids : CancelQueries(ids, FALSE)
  BY <1>1, <1>3, <1>4, CancelLoses DEF Loses
<1>5. CASE m.type = "query" /\ DeclineQuery(c, m) /\ UNCHANGED callbacks
  <2>1. down' = SendToRenderer(c, Message(m, "canceled", 0)) /\ UNCHANGED pending
    BY <1>5 DEF DeclineQuery, CancelUnhandledQuery
  <2>2. Message(m, "canceled", 0) \in Downward /\ Message(m, "canceled", 0).result = "canceled"
    BY <1>2, <1>5, CancelTyped
  <2>3. OnlyCancelsSent
    BY <1>1, <2>1, <2>2, CancelSentDown
  <2> QED
    BY <1>1, <1>3, <1>5, <2>1, <2>3, SameCallbacks DEF Loses
<1>6. ASSUME NEW h, HandleQuery(c, m, h) \/ HandleAndLeave(c, m, h), UNCHANGED pending
      PROVE  FALSE
  <2>1. NewInfo(c, m, h) \in pending
    BY <1>6 DEF HandleQuery, HandleAndLeave
  <2>2. NewInfo(c, m, h).id = Len(callbacks) + 1 /\ Len(callbacks) \in Nat
    BY CallbackTypes DEF NewInfo
  <2> QED
    BY <2>1, <2>2 DEF RouterInv, IdsAreOwn
<1> QED
  BY <1>4, <1>5, <1>6 DEF OnProcessMessageReceived

\* The task runs for a query that is pending.
Completing(info) ==
  LET t == Head(tasks)
  IN  /\ t.type # "cancel" /\ info \in pending /\ info.id = t.id
      /\ down' = SendToRenderer(info.context, Message(info, t.type, t.n))
      /\ pending' = IF t.type = "failure" \/ ~info.persistent THEN Without({t.id}) ELSE pending

LEMMA TaskLoses ==
  ASSUME RouterInv, RunTask
  PROVE  \/ Loses
         \/ /\ \E info \in pending : Completing(info)
            /\ SameAnswers /\ Len(callbacks') = Len(callbacks)
<1> DEFINE t == Head(tasks)
<1>1. /\ UNCHANGED <<lastReq, heard, open, up, valid>>
      /\ tasks # <<>> /\ tasks' = Tail(tasks)
  BY DEF RunTask, rendererVars, contentVars
<1>2. NoNewQueries
  BY <1>1, NothingSentUp
<1>3. 1 \in 1 .. Len(tasks) /\ t = tasks[1]
  <2>1. tasks \in Seq(Task)
    BY InvIsParts DEF TaskInv, TaskTypes
  <2> QED
    BY <1>1, <2>1, RestOfMessages
<1>4. CASE t.type = "cancel" /\ CancelPendingFor(t.browser, t.handler, TRUE)
  <2>1. OnlyLostTasks
    BY <1>1, <1>4, TaskRun
  <2> QED
    BY <1>1, <1>2, <1>4, <2>1, CancelLoses DEF Loses, CancelPendingFor
<1>5. CASE t.type # "cancel" /\ ~callbacks[t.id].router /\ UNCHANGED <<pending, callbacks, down>>
  <2>1. t.id \in DOMAIN callbacks
    BY <1>3, <1>5, CallbackTypes DEF RouterInv, AnswersHaveCallbacks
  <2>2. t.id \notin Ids(pending)
    BY <1>5, <2>1 DEF RouterInv, CallbackMatchesQuery
  <2>3. OnlyLostTasks
    BY <1>1, <1>5, <2>2, TaskRun
  <2>4. OnlyCancelsSent
    BY <1>1, <1>5, NothingSentDown, StateTypes
  <2> QED
    BY <1>1, <1>2, <1>5, <2>3, <2>4, SameCallbacks DEF Loses
<1>6. CASE /\ t.type # "cancel" /\ callbacks[t.id].router /\ Complete(t)
           /\ callbacks' = callbacks \/ callbacks' = Detached({t.id})
  <2>1. t.id \in DOMAIN callbacks
    BY <1>3, <1>6, CallbackTypes DEF RouterInv, AnswersHaveCallbacks
  <2>2. t.id \in Ids(pending)
    BY <1>6, <2>1 DEF RouterInv, CallbackMatchesQuery
  <2>3. \E info \in pending : Completing(info)
    BY <1>6, <2>2 DEF Complete, Completing
  <2> QED
    BY <1>6, <2>3, SameCallbacks, DetachedAnswers
<1> QED
  BY <1>4, <1>5, <1>6 DEF RunTask, RunAnswer

-----------------------------------------------------------------------------
(* Steps that begin queries *)

\* The page asks: nothing was asked, sent or answered under the new number.
LEMMA AskKeepsAnswers ==
  ASSUME RouterInv, RouterInv', RequestInv, AnswerInv,
         NEW c \in Contexts, NEW persistent \in BOOLEAN, Query(c, persistent)
  PROVE  AnswerInv'
<1> DEFINE rid == LastReq(c) + 1
           new == [context |-> c, rid |-> rid, persistent |-> persistent]
           m == [type |-> "query", cid |-> GetIDForContext(c), rid |-> rid,
                 persistent |-> persistent]
<1>1. /\ UNCHANGED <<heard, down, valid, pending, callbacks, tasks>>
      /\ lastReq' = [lastReq EXCEPT ![ProcOf[c]] = rid]
      /\ open' = open \cup {new}
      /\ ToBrowser(c, m) /\ LastReq(c) < MaxQuery
  BY DEF Query, NextRequestId, LastReq, contentVars, routerVars
<1>2. /\ rid \in 1 .. MaxQuery /\ LastReq(c) \in Nat /\ ProcOf[c] \in Procs
      /\ GetIDForContext(c) \in Nat \ {Reserved}
  BY <1>1, SentTypes, StateTypes, ContextIds, InvIsParts
<1>3. m \in Upward /\ m.rid = rid /\ m.type = "query"
  BY <1>2 DEF Upward
<1>4. new.context = c /\ new.rid = rid
  OBVIOUS
<1>5. /\ CallbacksAreApart /\ CallbacksAreAsked /\ SentAreApart /\ SentIsUnanswered
      /\ RequestsAreApart /\ QueriesFitCallbacks /\ HeardIsGiven /\ SentInOrder
      /\ TasksAreGiven /\ PostedInOrder
  BY DEF AnswerInv
<1> HIDE DEF m, new
<1>6. \A d \in Contexts : \A i \in 1 .. Len(up'[d]) :
        \/ i \in 1 .. Len(up[d]) /\ up'[d][i] = up[d][i]
        \/ d = c /\ i = Len(up'[d]) /\ up'[d][i].rid = rid
  <2>1. CASE c \in valid
    <3>1. /\ Len(up'[c]) = Len(up[c]) + 1 /\ Len(up[c]) \in Nat
          /\ \A i \in 1 .. Len(up[c]) : up'[c][i] = up[c][i]
          /\ up'[c][Len(up[c]) + 1] = m
          /\ \A d \in Contexts : d # c => up'[d] = up[d]
      BY <1>1, <1>3, <2>1, MessageSent, InvIsParts
    <3> QED
      BY <1>3, <3>1
  <2>2. CASE c \notin valid
    BY <1>1, <2>2 DEF ToBrowser
  <2> QED
    BY <2>1, <2>2
<1>7. \A d \in Contexts : ProcOf[d] = ProcOf[c] => LastReq(d) = LastReq(c)
  BY DEF LastReq
<1>8. \A d \in Contexts : \A i \in 1 .. Len(up[d]) :
        ProcOf[d] = ProcOf[c] => up[d][i].rid # rid
  <2>1. \A d \in Contexts : \A i \in 1 .. Len(up[d]) :
          up[d][i].rid <= LastReq(d) /\ up[d][i].rid \in 0 .. MaxQuery
    BY SentTypes DEF RequestInv, Names, SentNamesContext
  <2> QED
    BY <1>2, <1>7, <2>1
<1>9. \A k \in 1 .. Len(callbacks) : callbacks[k].query # AskedBy(c, rid)
  <2>1. \A k \in 1 .. Len(callbacks) : callbacks[k].query[2] <= lastReq[callbacks[k].query[1]]
    BY <1>5 DEF CallbacksAreAsked
  <2> QED
    BY <1>2, <2>1 DEF AskedBy, LastReq
<1>10. \A r \in open : AskedBy(r.context, r.rid) # AskedBy(c, rid)
  <2>1. \A r \in open : r.context \in Contexts /\ r.rid <= LastReq(r.context)
                          /\ r.rid \in 1 .. MaxQuery
    BY StateTypes DEF RequestInv, Names, RequestsNameContext
  <2> QED
    BY <1>2, <1>7, <2>1 DEF AskedBy
<1>11. CallbacksAreAsked'
  <2>1. \A p \in Procs : lastReq[p] <= lastReq'[p]
    <3>1. \A p \in Procs : lastReq[p] \in 0 .. MaxQuery /\
            lastReq'[p] = IF p = ProcOf[c] THEN rid ELSE lastReq[p]
      BY <1>1, StateTypes
    <3> QED
      BY <1>2, <3>1 DEF LastReq
  <2>2. \A k \in 1 .. Len(callbacks) :
          callbacks[k].query[1] \in Procs /\ callbacks[k].query[2] \in 1 .. MaxQuery
    BY CallbackTypes DEF Queries
  <2>3. \A p \in Procs : lastReq[p] \in 0 .. MaxQuery /\ lastReq'[p] \in 0 .. MaxQuery
    BY StateTypes, InvIsPartsNext DEF RendererTypes
  <2>4. \A k \in 1 .. Len(callbacks) : callbacks[k].query[2] <= lastReq'[callbacks[k].query[1]]
    BY <1>5, <2>1, <2>2, <2>3, StateTypes DEF CallbacksAreAsked
  <2> QED
    BY <1>1, <2>4 DEF CallbacksAreAsked
<1>12. SentAreApart'
  <2> SUFFICES ASSUME NEW d \in Contexts, NEW e \in Contexts,
                      NEW i \in 1 .. Len(up'[d]), NEW j \in 1 .. Len(up'[e]),
                      IsQuery(d, i)', IsQuery(e, j)',
                      AskedBy(d, up'[d][i].rid) = AskedBy(e, up'[e][j].rid)
               PROVE  d = e
    BY DEF SentAreApart, AskedBy
  <2>1. ProcOf[d] = ProcOf[e] /\ up'[d][i].rid = up'[e][j].rid
    BY DEF AskedBy
  <2>2. CASE i \in 1 .. Len(up[d]) /\ up'[d][i] = up[d][i]
             /\ j \in 1 .. Len(up[e]) /\ up'[e][j] = up[e][j]
    BY <1>5, <2>2 DEF SentAreApart, IsQuery
  <2> QED
    BY <1>6, <1>8, <2>1, <2>2
<1>13. SentIsUnanswered'
  <2> SUFFICES ASSUME NEW d \in Contexts, NEW i \in 1 .. Len(up'[d]), IsQuery(d, i)',
                      NEW k \in 1 .. Len(callbacks)
               PROVE  callbacks[k].query # AskedBy(d, up'[d][i].rid)
    BY <1>1 DEF SentIsUnanswered, AskedBy
  <2>1. CASE i \in 1 .. Len(up[d]) /\ up'[d][i] = up[d][i]
    BY <1>5, <2>1 DEF SentIsUnanswered, IsQuery
  <2> QED
    BY <1>6, <1>9, <2>1
<1>14. RequestsAreApart'
  BY <1>1, <1>4, <1>5, <1>10 DEF RequestsAreApart, AskedBy
<1>15. CallbacksAreApart' /\ QueriesFitCallbacks' /\ TasksAreGiven'
  BY <1>1, <1>5 DEF CallbacksAreApart, QueriesFitCallbacks, TasksAreGiven, AskedBy, IsSuccess
<1>16. SameGiven
  BY <1>1, SameCallbacks, GivenStays
<1>17. HeardIsGiven'
  BY <1>1, <1>5, <1>16, HeardStays
<1>18. ASSUME NEW r \in open
       PROVE  SentFor(r)' /\ \A n : Sent(r.context, r.rid, n)' <=> Sent(r.context, r.rid, n)
  <2>1. SentMove(r, 0)
    <3>1. r.context \in Contexts /\ Len(down[r.context]) \in Nat
      BY StateTypes, AnswerTypes
    <3> QED
      BY <1>1, <3>1 DEF SentMove
  <2>2. SameFor(r) /\ SentFor(r)
    BY <1>1, <1>5, <1>16, SameForRequests DEF SameFor, SentInOrder
  <2> QED
    BY <2>1, <2>2, SentStaysFor
<1>19. \A j \in 1 .. Len(down[c]) : down[c][j].rid # rid
  <2>1. \A j \in 1 .. Len(down[c]) : down[c][j] \in Downs(c)
    BY DEF Downs
  <2>2. \A n \in Downs(c) : n.rid <= LastReq(c) /\ n.rid \in 1 .. MaxQuery
    BY AnswerTypes DEF RequestInv, Names, AnswersNameContext
  <2> QED
    BY <1>2, <2>1, <2>2
<1>20. ASSUME NEW r \in open', r \notin open
       PROVE  SentFor(r)'
  <2>1. r.context = c /\ r.rid = rid
    BY <1>1, <1>4, <1>20
  <2>2. \A j \in 1 .. Len(down'[r.context]) : down'[r.context][j].rid # r.rid
    BY <1>1, <1>19, <2>1
  <2> QED
    BY <2>2 DEF SentFor, IsAnswer, IsFailure
<1>21. SentInOrder'
  BY <1>1, <1>18, <1>20 DEF SentInOrder
<1>22. PostedInOrder'
  <2> SUFFICES ASSUME NEW r \in open', NEW info \in pending, Waits(r, info)'
               PROVE  PostedFor(r, info)'
    BY <1>1 DEF PostedInOrder
  <2>1. Waits(r, info)
    BY <1>1 DEF Waits
  <2>2. r # new
    <3>1. info.context \in Contexts /\ info.rid <= LastReq(info.context)
          /\ info.rid \in 1 .. MaxQuery
      BY StateTypes DEF RequestInv, Names, QueriesNameContext
    <3> QED
      BY <1>2, <1>4, <2>1, <3>1 DEF Waits
  <2>3. r \in open
    BY <1>1, <2>2
  <2>4. PostedMove(info.id, 0)
    <3>1. Len(tasks) \in Nat
      BY InvIsParts, LenProperties DEF TaskInv, TaskTypes
    <3> QED
      BY <1>1, <3>1 DEF PostedMove
  <2>5. SameFor(r) /\ PostedFor(r, info)
    BY <1>1, <1>5, <1>16, <2>1, <2>3, SameForRequests DEF SameFor, PostedInOrder
  <2> QED
    BY <1>18, <2>3, <2>4, <2>5, PostedStaysFor
<1> QED
  BY <1>11, <1>12, <1>13, <1>14, <1>15, <1>17, <1>21, <1>22 DEF AnswerInv

\* A handler is asked, or all decline: there is one callback more.
Takes(c) ==
  LET m == Head(up[c])
      id == Len(callbacks) + 1
  IN  /\ m.type = "query" /\ up[c] # <<>> /\ up' = [up EXCEPT ![c] = Tail(@)]
      /\ UNCHANGED <<rendererVars, contentVars, tasks>>
      /\ SameAnswers /\ Len(callbacks') = id /\ callbacks'[id].query = AskedBy(c, m.rid)
      /\ OnlyCancelsSent
      /\ \A info \in pending' :
           info \in pending \/ (info.id = id /\ info.context = c /\ info.rid = m.rid)

LEMMA CallbackAppended ==
  ASSUME RouterInv, NEW cbs, cbs = callbacks \/ \E ids : cbs = Detached(ids),
         NEW cb \in CallbackImpl, cb.given = 0, ~cb.failing,
         \A k \in 1 .. Len(callbacks) : callbacks[k].query # cb.query,
         callbacks' = Append(cbs, cb)
  PROVE  /\ SameAnswers /\ Len(callbacks') = Len(callbacks) + 1
         /\ callbacks'[Len(callbacks) + 1].query = cb.query
<1>1. /\ cbs \in Seq(CallbackImpl) /\ Len(cbs) = Len(callbacks) /\ Len(callbacks) \in Nat
      /\ \A k \in 1 .. Len(callbacks) : /\ cbs[k].query = callbacks[k].query
                                        /\ cbs[k].given = callbacks[k].given
                                        /\ cbs[k].failing <=> callbacks[k].failing
  <2>1. CASE cbs = callbacks
    BY <2>1, CallbackTypes
  <2>2. ASSUME NEW ids, cbs = Detached(ids)
        PROVE  /\ cbs \in Seq(CallbackImpl) /\ Len(cbs) = Len(callbacks) /\ Len(callbacks) \in Nat
               /\ \A k \in 1 .. Len(callbacks) : /\ cbs[k].query = callbacks[k].query
                                                 /\ cbs[k].given = callbacks[k].given
                                                 /\ cbs[k].failing <=> callbacks[k].failing
    BY <2>2, CallbackTypes, DetachedGive
  <2> QED
    BY <2>1, <2>2
<1>2. /\ Len(callbacks') = Len(callbacks) + 1 /\ callbacks'[Len(callbacks) + 1] = cb
      /\ \A k \in 1 .. Len(callbacks) : callbacks'[k] = cbs[k]
  BY <1>1, Appended
<1>3. \A k \in 1 .. Len(callbacks) :
        /\ callbacks'[k].query = callbacks[k].query
        /\ callbacks'[k].given = callbacks[k].given
        /\ callbacks'[k].failing <=> callbacks[k].failing
  BY <1>1, <1>2
<1>4. \A k \in 1 .. Len(callbacks') : k > Len(callbacks) => k = Len(callbacks) + 1
  BY <1>1, <1>2
<1>5. \A j \in 1 .. Len(callbacks') : j # Len(callbacks) + 1 =>
        callbacks'[j].query # callbacks'[Len(callbacks) + 1].query
  BY <1>1, <1>2, <1>3
<1>6. Len(callbacks) <= Len(callbacks')
  BY <1>1, <1>2
<1> QED
  BY <1>2, <1>3, <1>4, <1>5, <1>6 DEF SameAnswers

LEMMA MessageTakes ==
  ASSUME RouterInv, SentIsUnanswered, NEW c \in Contexts, OnProcessMessageReceived(c),
         Head(up[c]).type # "cancel", ~UNCHANGED <<pending, callbacks>>
  PROVE  Takes(c)
<1> DEFINE m == Head(up[c])
<1>1. /\ UNCHANGED <<rendererVars, contentVars, tasks>> /\ UNCHANGED open
      /\ up[c] # <<>> /\ up' = [up EXCEPT ![c] = Tail(@)]
  BY DEF OnProcessMessageReceived, rendererVars
<1>2. m \in Upward /\ m = up[c][1] /\ 1 \in 1 .. Len(up[c])
  BY <1>1, FirstMessage, SentTypes
<1>3. m.type = "query" /\ IsQuery(c, 1)
  BY <1>2, SentTypes DEF IsQuery, IsCancel
<1>4. \A k \in 1 .. Len(callbacks) : callbacks[k].query # AskedBy(c, m.rid)
  BY <1>2, <1>3 DEF SentIsUnanswered
<1>5. \A held \in BOOLEAN :
        /\ NewCallback(c, m, held) \in CallbackImpl
        /\ NewCallback(c, m, held).given = 0 /\ ~NewCallback(c, m, held).failing
        /\ NewCallback(c, m, held).query = AskedBy(c, m.rid)
  <2>1. \A held \in BOOLEAN : NewCallback(c, m, held) \in CallbackImpl
    BY <1>2, <1>3, NewCallbackTyped
  <2> QED
    BY <2>1 DEF NewCallback, AskedBy
<1> HIDE DEF m
<1>6. ASSUME NEW cbs, cbs = callbacks \/ \E ids : cbs = Detached(ids), NEW held \in BOOLEAN,
             callbacks' = Append(cbs, NewCallback(c, m, held))
      PROVE  /\ SameAnswers /\ Len(callbacks') = Len(callbacks) + 1
             /\ callbacks'[Len(callbacks) + 1].query = AskedBy(c, m.rid)
  <2> DEFINE cb == NewCallback(c, m, held)
  <2>1. /\ cb \in CallbackImpl /\ cb.given = 0 /\ ~cb.failing /\ cb.query = AskedBy(c, m.rid)
        /\ callbacks' = Append(cbs, cb)
    BY <1>5, <1>6
  <2> HIDE DEF cb
  <2> QED
    BY <1>4, <1>6, <2>1, CallbackAppended
<1>7. \A h : /\ NewInfo(c, m, h).id = Len(callbacks) + 1
             /\ NewInfo(c, m, h).context = c /\ NewInfo(c, m, h).rid = m.rid
  BY DEF NewInfo
<1>8. CASE DeclineQuery(c, m)
  <2>1. /\ down' = SendToRenderer(c, Message(m, "canceled", 0)) /\ UNCHANGED pending
        /\ callbacks' = Append(callbacks, NewCallback(c, m, FALSE))
    BY <1>8 DEF DeclineQuery, CancelUnhandledQuery, m
  <2>2. Message(m, "canceled", 0) \in Downward /\ Message(m, "canceled", 0).result = "canceled"
    BY <1>2, <1>3, CancelTyped
  <2>3. OnlyCancelsSent
    BY <1>1, <2>1, <2>2, CancelSentDown
  <2> QED
    BY <1>1, <1>3, <1>6, <2>1, <2>3 DEF Takes, m
<1>9. ASSUME NEW h, HandleQuery(c, m, h)
      PROVE  Takes(c)
  <2>1. /\ pending' = pending \cup {NewInfo(c, m, h)} /\ UNCHANGED down
        /\ callbacks' = Append(callbacks, NewCallback(c, m, TRUE))
    BY <1>9 DEF HandleQuery
  <2>2. OnlyCancelsSent
    BY <1>1, <2>1, NothingSentDown, StateTypes
  <2> QED
    BY <1>1, <1>3, <1>6, <1>7, <2>1, <2>2 DEF Takes, m
<1>10. ASSUME NEW h, HandleAndLeave(c, m, h)
       PROVE  Takes(c)
  <2> DEFINE ids == PendingFor(None, h)
  <2>1. /\ pending' = Without(ids) \cup {NewInfo(c, m, h)}
        /\ callbacks' = Append(Detached(ids), NewCallback(c, m, TRUE))
        /\ down' = [d \in Contexts |->
                      IF d \in valid THEN down[d] \o Notices(ids, d) ELSE down[d]]
    BY <1>10 DEF HandleAndLeave
  <2> HIDE DEF ids
  <2>2. OnlyCancelsSent
    BY <1>1, <2>1, NoticesAreCancels
  <2>3. Without(ids) \subseteq pending
    BY DEF Without
  <2> QED
    BY <1>1, <1>3, <1>6, <1>7, <2>1, <2>2, <2>3 DEF Takes, m
<1> QED
  BY <1>1, <1>3, <1>8, <1>9, <1>10 DEF OnProcessMessageReceived, m

LEMMA TakesKeeps ==
  ASSUME RouterInv, RouterInv', RequestInv, AnswerInv, NEW c \in Contexts, Takes(c)
  PROVE  AnswerInv'
<1> DEFINE m == Head(up[c])
           id == Len(callbacks) + 1
<1>1. /\ UNCHANGED <<lastReq, heard, open, valid, tasks>> /\ m.type = "query"
      /\ up[c] # <<>> /\ up' = [up EXCEPT ![c] = Tail(@)]
      /\ SameAnswers /\ Len(callbacks') = id /\ callbacks'[id].query = AskedBy(c, m.rid)
      /\ OnlyCancelsSent
      /\ \A info \in pending' :
           info \in pending \/ (info.id = id /\ info.context = c /\ info.rid = m.rid)
  BY DEF Takes, rendererVars, contentVars
<1>2. /\ m = up[c][1] /\ 1 \in 1 .. Len(up[c]) /\ IsQuery(c, 1)
      /\ \A i \in 1 .. Len(up'[c]) : i + 1 \in 1 .. Len(up[c]) /\ up'[c][i] = up[c][i + 1]
      /\ \A d \in Contexts : d # c => up'[d] = up[d]
  BY <1>1, MessageArrived, InvIsParts DEF IsQuery
<1>3. /\ CallbacksAreApart /\ CallbacksAreAsked /\ SentAreApart /\ SentIsUnanswered
      /\ RequestsAreApart /\ QueriesFitCallbacks /\ HeardIsGiven /\ SentInOrder
      /\ TasksAreGiven /\ PostedInOrder
  BY DEF AnswerInv
<1>4. NoNewQueries /\ OnlyLostTasks /\ SameGiven
  BY <1>1, MessageTaken, TasksUntouched, GivenStays
<1>5. Len(callbacks) \in Nat /\ id \in 1 .. Len(callbacks')
      /\ \A k \in 1 .. Len(callbacks') : k \in 1 .. Len(callbacks) \/ k = id
  BY <1>1, CallbackTypes
<1> HIDE DEF m
<1>6. CallbacksAreApart'
  <2>1. \A k \in 1 .. Len(callbacks) :
          callbacks'[k].query = callbacks[k].query /\ callbacks[k].query # AskedBy(c, m.rid)
    BY <1>1, <1>2, <1>3 DEF SameAnswers, SentIsUnanswered
  <2> QED
    BY <1>1, <1>3, <1>5, <2>1 DEF CallbacksAreApart
<1>7. CallbacksAreAsked'
  <2>1. m.rid <= lastReq[ProcOf[c]]
    BY <1>2 DEF RequestInv, Names, SentNamesContext, LastReq
  <2>2. AskedBy(c, m.rid)[1] = ProcOf[c] /\ AskedBy(c, m.rid)[2] = m.rid
    BY DEF AskedBy
  <2>3. \A k \in 1 .. Len(callbacks) : callbacks'[k].query = callbacks[k].query
    BY <1>1 DEF SameAnswers
  <2> QED
    BY <1>1, <1>3, <1>5, <2>1, <2>2, <2>3 DEF CallbacksAreAsked
<1>8. SentAreApart'
  BY <1>3, <1>4, SentApartKept
<1>9. SentIsUnanswered'
  <2> SUFFICES ASSUME NEW d \in Contexts, NEW i \in 1 .. Len(up'[d]), IsQuery(d, i)',
                      NEW k \in 1 .. Len(callbacks'),
                      callbacks'[k].query = AskedBy(d, up'[d][i].rid)
               PROVE  FALSE
    BY DEF SentIsUnanswered, AskedBy
  <2>1. PICK j \in 1 .. Len(up[d]) : up[d][j] = up'[d][i] /\ (d = c => j # 1)
    <3>1. CASE d = c
      BY <1>2, <3>1
    <3>2. CASE d # c
      BY <1>2, <3>2
    <3> QED
      BY <3>1, <3>2
  <2>2. IsQuery(d, j)
    BY <2>1 DEF IsQuery
  <2>3. k = id
    <3>1. ASSUME k \in 1 .. Len(callbacks)
          PROVE  FALSE
      BY <1>1, <1>3, <2>1, <2>2, <3>1 DEF SentIsUnanswered, SameAnswers
    <3> QED
      BY <1>5, <3>1
  <2>4. AskedBy(c, m.rid) = AskedBy(d, up[d][j].rid)
    BY <1>1, <2>1, <2>3
  <2>5. d = c
    BY <1>2, <1>3, <2>2, <2>4 DEF SentAreApart
  <2>6. up[c][j].rid = up[c][1].rid
    BY <1>2, <2>4, <2>5 DEF AskedBy
  <2> QED
    BY <1>2, <2>1, <2>2, <2>5, <2>6 DEF RequestInv, Unique, SentAreUnique
<1>10. RequestsAreApart'
  BY <1>1, <1>3 DEF RequestsAreApart, AskedBy
<1>11. QueriesFitCallbacks'
  <2> SUFFICES ASSUME NEW info \in pending'
               PROVE  callbacks'[info.id].query = AskedBy(info.context, info.rid)
    BY DEF QueriesFitCallbacks, AskedBy
  <2>1. CASE info \in pending
    <3>1. info.id \in 1 .. Len(callbacks)
      BY <2>1 DEF RouterInv, IdsAreOwn
    <3> QED
      BY <1>1, <1>3, <2>1, <3>1 DEF QueriesFitCallbacks, SameAnswers
  <2>2. CASE info.id = id /\ info.context = c /\ info.rid = m.rid
    BY <1>1, <2>2
  <2> QED
    BY <1>1, <2>1, <2>2
<1>12. HeardIsGiven' /\ SentInOrder'
  BY <1>1, <1>3, <1>4, HeardStays, SentStays
<1>13. TasksAreGiven'
  <2>1. PICK d \in {0, 1} : NoNewAnswers(d)
    BY <1>4 DEF OnlyLostTasks, TasksMove
  <2> QED
    BY <1>1, <1>3, <2>1, TasksStayGiven
<1>14. PostedInOrder'
  <2> SUFFICES ASSUME NEW r \in open', NEW info \in pending', Waits(r, info)'
               PROVE  PostedFor(r, info)'
    BY DEF PostedInOrder
  <2>1. CASE info \in pending
    <3>1. Waits(r, info)
      BY <1>1 DEF Waits
    <3> QED
      BY <1>1, <1>3, <1>4, <2>1, <3>1, PostedStays
  <2>2. CASE info.id = id /\ info.context = c /\ info.rid = m.rid
    <3>1. \A i \in 1 .. Len(tasks') : tasks'[i].type # "cancel" => tasks'[i].id # id
      <4>1. \A i \in 1 .. Len(tasks) : tasks[i].type # "cancel" => tasks[i].id \in 1 .. Len(callbacks)
        BY DEF RouterInv, AnswersHaveCallbacks
      <4> QED
        BY <1>1, <1>5, <4>1
    <3>2. r.context = c /\ r.rid = m.rid
      BY <2>2 DEF Waits
    <3>3. GivenTo(r)' = 0
      <4>1. \A k \in 1 .. Len(callbacks) : callbacks[k].query # AskedBy(c, m.rid)
        BY <1>2, <1>3 DEF SentIsUnanswered
      <4>2. Given(AskedBy(c, m.rid)) = 0
        BY <4>1, NothingGiven
      <4>3. GivenTo(r) = 0
        BY <3>2, <4>2 DEF GivenTo
      <4> QED
        BY <1>1, <1>4, <4>3, SameForRequests
    <3>4. HeardOf(r)' \in Nat
      <4>1. AskedBy(c, m.rid) \in Queries
        BY <1>2, SentTypes DEF AskedBy, Queries, Reserved
      <4>2. heard \in [Queries -> [got : 0 .. MaxAnswers, failed : BOOLEAN]] /\ MaxAnswers \in Nat
        BY InvIsParts, RouterAssumption DEF RendererTypes, RouterAssumption
      <4> QED
        BY <1>1, <3>2, <4>1, <4>2 DEF HeardOf, AskedBy
    <3>5. \A n : n \notin HeardOf(r)' + 1 .. GivenTo(r)'
      BY <3>3, <3>4
    <3> QED
      BY <2>2, <3>1, <3>5 DEF PostedFor, IsSuccess, IsGivenUp
  <2> QED
    BY <1>1, <2>1, <2>2
<1> QED
  BY <1>6, <1>7, <1>8, <1>9, <1>10, <1>11, <1>12, <1>13, <1>14 DEF AnswerInv

-----------------------------------------------------------------------------
(* The handler answers *)

\* A callback gives an answer more, or its failure, and posts it.
Gives(id) ==
  LET t == tasks'[Len(tasks) + 1]
  IN  /\ UNCHANGED <<rendererVars, up, down, valid, pending>>
      /\ id \in 1 .. Len(callbacks) /\ ~callbacks[id].failing
      /\ Len(callbacks') = Len(callbacks) /\ Len(tasks') = Len(tasks) + 1
      /\ \A k \in 1 .. Len(callbacks) :
           /\ callbacks'[k].query = callbacks[k].query
           /\ k # id => /\ callbacks'[k].given = callbacks[k].given
                        /\ callbacks'[k].failing <=> callbacks[k].failing
      /\ \A i \in 1 .. Len(tasks) : tasks'[i] = tasks[i]
      /\ t.id = id
      /\ \/ /\ t.type = "success" /\ t.n = callbacks[id].given + 1
            /\ callbacks'[id].given = t.n /\ ~callbacks'[id].failing
         \/ /\ t.type = "failure" /\ callbacks'[id].failing
            /\ callbacks'[id].given = callbacks[id].given

LEMMA AnswerGives ==
  ASSUME RouterInv, NEW id, Success(id) \/ Failure(id)
  PROVE  Gives(id)
<1>1. /\ callbacks \in Seq(CallbackImpl) /\ id \in 1 .. Len(callbacks)
      /\ callbacks[id] \in CallbackImpl /\ Len(callbacks) \in Nat
      /\ \A k \in 1 .. Len(callbacks) : callbacks[k] \in CallbackImpl
  BY CallbackTypes DEF Success, Failure
<1>2. /\ UNCHANGED <<rendererVars, up, down, valid, pending>> /\ ~callbacks[id].failing
  BY DEF Success, Failure, contentVars
<1>3. tasks \in Seq(Task) /\ Len(tasks) \in Nat /\ id \in Nat \ {0}
  BY <1>1, InvIsParts, LenProperties DEF TaskInv, TaskTypes
<1>4. ASSUME NEW t \in Task, tasks' = Append(tasks, t)
      PROVE  /\ Len(tasks') = Len(tasks) + 1 /\ tasks'[Len(tasks) + 1] = t
             /\ \A i \in 1 .. Len(tasks) : tasks'[i] = tasks[i]
  BY <1>3, <1>4, Appended
<1>5. ASSUME NEW impl \in CallbackImpl, callbacks' = [callbacks EXCEPT ![id] = impl]
      PROVE  /\ Len(callbacks') = Len(callbacks)
             /\ \A k \in 1 .. Len(callbacks) :
                  callbacks'[k] = IF k = id THEN impl ELSE callbacks[k]
  BY <1>1, <1>5, ExceptSeq
<1>6. CASE Success(id)
  <2> DEFINE impl == [callbacks[id] EXCEPT !.given = @ + 1]
             t == [type |-> "success", id |-> id, n |-> callbacks[id].given + 1]
  <2>1. callbacks[id].given + 1 \in 0 .. MaxAnswers
    BY <1>1, <1>6, RouterAssumption DEF Success, CallbackImpl, RouterAssumption
  <2>2. /\ impl \in CallbackImpl /\ impl.given = callbacks[id].given + 1
        /\ impl.failing = callbacks[id].failing /\ impl.query = callbacks[id].query
    BY <1>1, <2>1 DEF CallbackImpl
  <2>3. t \in Task /\ t.type = "success" /\ t.id = id /\ t.n = callbacks[id].given + 1
    BY <1>3, <2>1 DEF Task
  <2>4. callbacks' = [callbacks EXCEPT ![id] = impl] /\ tasks' = Append(tasks, t)
    BY <1>6 DEF Success
  <2> HIDE DEF impl, t
  <2>5. /\ Len(callbacks') = Len(callbacks)
        /\ \A k \in 1 .. Len(callbacks) : callbacks'[k] = IF k = id THEN impl ELSE callbacks[k]
    BY <1>5, <2>2, <2>4
  <2>6. /\ Len(tasks') = Len(tasks) + 1 /\ tasks'[Len(tasks) + 1] = t
        /\ \A i \in 1 .. Len(tasks) : tasks'[i] = tasks[i]
    BY <1>4, <2>3, <2>4
  <2> QED
    BY <1>1, <1>2, <2>2, <2>3, <2>5, <2>6 DEF Gives
<1>7. CASE Failure(id)
  <2> DEFINE impl == [callbacks[id] EXCEPT !.failing = TRUE]
             t == [type |-> "failure", id |-> id, n |-> 0]
  <2>1. 0 \in 0 .. MaxAnswers
    BY RouterAssumption DEF RouterAssumption
  <2>2. /\ impl \in CallbackImpl /\ impl.given = callbacks[id].given
        /\ impl.failing = TRUE /\ impl.query = callbacks[id].query
    BY <1>1 DEF CallbackImpl
  <2>3. t \in Task /\ t.type = "failure" /\ t.id = id
    BY <1>3, <2>1 DEF Task
  <2>4. callbacks' = [callbacks EXCEPT ![id] = impl] /\ tasks' = Append(tasks, t)
    BY <1>7 DEF Failure
  <2> HIDE DEF impl, t
  <2>5. /\ Len(callbacks') = Len(callbacks)
        /\ \A k \in 1 .. Len(callbacks) : callbacks'[k] = IF k = id THEN impl ELSE callbacks[k]
    BY <1>5, <2>2, <2>4
  <2>6. /\ Len(tasks') = Len(tasks) + 1 /\ tasks'[Len(tasks) + 1] = t
        /\ \A i \in 1 .. Len(tasks) : tasks'[i] = tasks[i]
    BY <1>4, <2>3, <2>4
  <2> QED
    BY <1>1, <1>2, <2>2, <2>3, <2>5, <2>6 DEF Gives
<1> QED
  BY <1>6, <1>7

\* What was given to the queries afterwards.
LEMMA GivenAfter ==
  ASSUME RouterInv, RouterInv', CallbacksAreApart, NEW id, Gives(id)
  PROVE  /\ CallbacksAreApart'
         /\ \A q : q # callbacks[id].query =>
              Given(q)' = Given(q) /\ (Failing(q)' <=> Failing(q))
         /\ \A q : q = callbacks[id].query =>
              /\ Given(q) = callbacks[id].given /\ Given(q)' = callbacks'[id].given
              /\ ~Failing(q) /\ (Failing(q)' <=> callbacks'[id].failing)
<1>1. /\ Len(callbacks') = Len(callbacks) /\ id \in 1 .. Len(callbacks)
      /\ \A k \in 1 .. Len(callbacks) :
           /\ callbacks'[k].query = callbacks[k].query
           /\ k # id => /\ callbacks'[k].given = callbacks[k].given
                        /\ callbacks'[k].failing <=> callbacks[k].failing
      /\ ~callbacks[id].failing
  BY DEF Gives
<1>2. CallbacksAreApart'
  BY <1>1 DEF CallbacksAreApart
<1>3. DOMAIN callbacks = 1 .. Len(callbacks) /\ DOMAIN callbacks' = 1 .. Len(callbacks)
  <2>1. callbacks' \in Seq(CallbackImpl)
    BY InvIsPartsNext DEF QueryInv, TableTypes
  <2> QED
    BY <1>1, <2>1, CallbackTypes, LenProperties
<1>4. ASSUME NEW k \in 1 .. Len(callbacks), NEW q, q = callbacks[k].query
      PROVE  /\ Given(q) = callbacks[k].given /\ Given(q)' = callbacks'[k].given
             /\ Failing(q) <=> callbacks[k].failing
             /\ Failing(q)' <=> callbacks'[k].failing
  <2>1. Answers(q) = {k} /\ Answers(q)' = {k}
    BY <1>1, <1>3, <1>4 DEF Answers, CallbacksAreApart
  <2>2. (CHOOSE i \in {k} : TRUE) = k
    OBVIOUS
  <2> QED
    BY <2>1, <2>2 DEF Given, Failing
<1>5. ASSUME NEW q, \A k \in 1 .. Len(callbacks) : callbacks[k].query # q
      PROVE  Given(q)' = Given(q) /\ (Failing(q)' <=> Failing(q))
  <2>1. Answers(q) = {} /\ Answers(q)' = {}
    BY <1>1, <1>3, <1>5 DEF Answers
  <2> QED
    BY <2>1 DEF Given, Failing
<1>6. ASSUME NEW q, q # callbacks[id].query
      PROVE  Given(q)' = Given(q) /\ (Failing(q)' <=> Failing(q))
  <2>1. CASE \E k \in 1 .. Len(callbacks) : callbacks[k].query = q
    <3>1. PICK k \in 1 .. Len(callbacks) : callbacks[k].query = q
      BY <2>1
    <3> QED
      BY <1>1, <1>4, <1>6, <3>1
  <2>2. CASE \A k \in 1 .. Len(callbacks) : callbacks[k].query # q
    BY <1>5, <2>2
  <2> QED
    BY <2>1, <2>2
<1> QED
  BY <1>1, <1>2, <1>4, <1>6

LEMMA HeardTypes ==
  ASSUME RouterInv
  PROVE  /\ \A q \in Queries : heard[q].got \in 0 .. MaxAnswers /\ heard[q].failed \in BOOLEAN
         /\ \A r \in open : /\ AskedBy(r.context, r.rid) \in Queries
                            /\ HeardOf(r) \in Nat /\ GivenTo(r) \in 0 .. MaxAnswers
         /\ MaxAnswers \in Nat
<1>1. /\ \A q \in Queries : heard[q].got \in 0 .. MaxAnswers /\ heard[q].failed \in BOOLEAN
      /\ MaxAnswers \in Nat
  BY InvIsParts, RouterAssumption DEF RendererTypes, RouterAssumption
<1>2. \A r \in open : AskedBy(r.context, r.rid) \in Queries
  <2>1. \A r \in open : r.context \in Contexts /\ r.rid \in 1 .. MaxQuery
    BY StateTypes
  <2> QED
    BY <2>1 DEF AskedBy, Queries, Procs
<1> QED
  BY <1>1, <1>2, GivenTypes DEF HeardOf, GivenTo

LEMMA GivesKeeps ==
  ASSUME RouterInv, RouterInv', AnswerInv, NEW id, Gives(id)
  PROVE  AnswerInv'
<1> DEFINE q0 == callbacks[id].query
           l == Len(tasks) + 1
<1>1. /\ UNCHANGED <<lastReq, heard, open, up, down, valid, pending>>
      /\ id \in 1 .. Len(callbacks) /\ ~callbacks[id].failing
      /\ Len(callbacks') = Len(callbacks) /\ Len(tasks') = l
      /\ \A k \in 1 .. Len(callbacks) :
           /\ callbacks'[k].query = callbacks[k].query
           /\ k # id => /\ callbacks'[k].given = callbacks[k].given
                        /\ callbacks'[k].failing <=> callbacks[k].failing
      /\ \A i \in 1 .. Len(tasks) : tasks'[i] = tasks[i]
      /\ tasks'[l].id = id
      /\ \/ /\ tasks'[l].type = "success" /\ tasks'[l].n = callbacks[id].given + 1
            /\ callbacks'[id].given = callbacks[id].given + 1 /\ ~callbacks'[id].failing
         \/ /\ tasks'[l].type = "failure" /\ callbacks'[id].failing
            /\ callbacks'[id].given = callbacks[id].given
  BY DEF Gives, rendererVars
<1>2. /\ CallbacksAreApart /\ CallbacksAreAsked /\ SentAreApart /\ SentIsUnanswered
      /\ RequestsAreApart /\ QueriesFitCallbacks /\ HeardIsGiven /\ SentInOrder
      /\ TasksAreGiven /\ PostedInOrder
  BY DEF AnswerInv
<1>3. /\ CallbacksAreApart'
      /\ \A q : q # q0 => Given(q)' = Given(q) /\ (Failing(q)' <=> Failing(q))
      /\ \A q : q = q0 =>
           /\ Given(q) = callbacks[id].given /\ Given(q)' = callbacks'[id].given
           /\ ~Failing(q) /\ (Failing(q)' <=> callbacks'[id].failing)
  BY <1>2, GivenAfter
<1>4. /\ callbacks[id].given \in Nat /\ Len(tasks) \in Nat /\ l \in 1 .. Len(tasks')
      /\ callbacks'[id].given \in Nat /\ callbacks[id].given <= callbacks'[id].given
      /\ \A i \in 1 .. Len(tasks') : i \in 1 .. Len(tasks) \/ i = l
  <2>1. Len(tasks) \in Nat
    BY InvIsParts, LenProperties DEF TaskInv, TaskTypes
  <2>2. callbacks[id].given \in Nat
    BY <1>1, CallbackTypes
  <2> QED
    BY <1>1, <2>1, <2>2
<1>5. \A q : Given(q) <= Given(q)' /\ Given(q) \in Nat /\ Given(q)' \in Nat
  <2>1. \A q : Given(q) \in 0 .. MaxAnswers
    BY GivenTypes
  <2> QED
    BY <1>3, <1>4, <2>1, HeardTypes
<1>6. CallbacksAreAsked' /\ SentIsUnanswered' /\ QueriesFitCallbacks'
  <2>1. \A info \in pending : info.id \in 1 .. Len(callbacks)
    BY DEF RouterInv, IdsAreOwn
  <2>2. CallbacksAreAsked'
    <3>1. /\ lastReq' = lastReq /\ Len(callbacks') = Len(callbacks)
          /\ \A k \in 1 .. Len(callbacks) : callbacks'[k].query = callbacks[k].query
      BY <1>1
    <3>2. \A k \in 1 .. Len(callbacks) : callbacks[k].query[2] <= lastReq[callbacks[k].query[1]]
      BY <1>2 DEF CallbacksAreAsked
    <3>3. \A k \in 1 .. Len(callbacks) :
            callbacks'[k].query[2] <= lastReq'[callbacks'[k].query[1]]
      BY <3>1, <3>2
    <3> QED
      BY <3>1, <3>3 DEF CallbacksAreAsked
  <2>3. SentIsUnanswered'
    <3>1. /\ up' = up /\ Len(callbacks') = Len(callbacks)
          /\ \A k \in 1 .. Len(callbacks) : callbacks'[k].query = callbacks[k].query
      BY <1>1
    <3> QED
      BY <1>2, <3>1 DEF SentIsUnanswered, IsQuery, AskedBy
  <2>4. QueriesFitCallbacks'
    <3>1. /\ pending' = pending
          /\ \A k \in 1 .. Len(callbacks) : callbacks'[k].query = callbacks[k].query
      BY <1>1
    <3> QED
      BY <1>2, <2>1, <3>1 DEF QueriesFitCallbacks, AskedBy
  <2> QED
    BY <2>2, <2>3, <2>4
<1>7. SentAreApart' /\ RequestsAreApart'
  BY <1>1, <1>2 DEF SentAreApart, RequestsAreApart, IsQuery, AskedBy
<1>8. HeardIsGiven'
  <2>1. \A q \in Queries : heard[q].got \in Nat
    BY HeardTypes
  <2> QED
    BY <1>1, <1>2, <1>5, <2>1 DEF HeardIsGiven
<1>9. \A r \in open : /\ HeardOf(r)' = HeardOf(r) /\ HeardOf(r) \in Nat
                      /\ GivenTo(r) <= GivenTo(r)' /\ GivenTo(r) \in Nat /\ GivenTo(r)' \in Nat
                      /\ HeardOf(r) <= GivenTo(r)
  BY <1>1, <1>2, <1>5, HeardTypes DEF HeardOf, GivenTo, AskedBy, HeardIsGiven
<1>10. \A r \in open : AskedBy(r.context, r.rid) # q0 => SameFor(r)
  BY <1>3, <1>9 DEF SameFor, GivenTo, FailingFor, AskedBy
<1>11. \A r \in open : AskedBy(r.context, r.rid) = q0 =>
         /\ GivenTo(r) = callbacks[id].given /\ GivenTo(r)' = callbacks'[id].given
         /\ ~FailingFor(r)
  BY <1>3 DEF GivenTo, FailingFor, AskedBy
<1>12. ASSUME NEW r \in open
       PROVE  SentMove(r, 0) /\ \A n : Sent(r.context, r.rid, n)' <=> Sent(r.context, r.rid, n)
  <2>1. r.context \in Contexts /\ Len(down[r.context]) \in Nat
    BY StateTypes, AnswerTypes
  <2> QED
    BY <1>1, <2>1 DEF SentMove, Sent, IsAnswer
<1> HIDE DEF q0, l
<1>13. ASSUME NEW r \in open
       PROVE  SentFor(r)'
  <2>1. SentFor(r)
    BY <1>2 DEF SentInOrder
  <2>2. CASE AskedBy(r.context, r.rid) # q0
    BY <1>10, <1>12, <2>1, <2>2, SentStaysFor
  <2>3. CASE AskedBy(r.context, r.rid) = q0
    <3>1. \A i \in 1 .. Len(down[r.context]) : ~IsFailure(r.context, i, r.rid)
      BY <1>11, <2>1, <2>3 DEF SentFor, FailureFits
    <3>2. \A n, i : SentBefore(r.context, r.rid, n, i)' <=> SentBefore(r.context, r.rid, n, i)
      BY <1>1 DEF SentBefore, IsAnswer
    <3>3. ASSUME NEW i \in 1 .. Len(down[r.context]), IsAnswer(r.context, i, r.rid)
          PROVE  AnswerFits(r, i)'
      <4>1. AnswerFits(r, i)
        BY <2>1, <3>3 DEF SentFor
      <4>2. down[r.context][i].n \in HeardOf(r)' + 1 .. GivenTo(r)'
        BY <1>9, <4>1 DEF AnswerFits
      <4> QED
        BY <1>1, <1>9, <3>2, <4>1, <4>2 DEF AnswerFits
    <3> QED
      BY <1>1, <2>1, <3>1, <3>3 DEF SentFor, IsAnswer, IsFailure
  <2> QED
    BY <2>2, <2>3
<1>14. \A i \in 1 .. Len(tasks) : tasks[i].type # "cancel" => tasks[i].id \in 1 .. Len(callbacks)
  BY DEF RouterInv, AnswersHaveCallbacks
<1>15. \A i \in 1 .. Len(tasks) :
         tasks[i].type = "success" /\ tasks[i].id = id => tasks[i].n \in 1 .. callbacks[id].given
  BY <1>2 DEF TasksAreGiven
<1>16. TasksAreGiven'
  <2> SUFFICES ASSUME NEW i \in 1 .. Len(tasks')
               PROVE  /\ tasks'[i].type = "success" =>
                           tasks'[i].n \in 1 .. callbacks'[tasks'[i].id].given
                      /\ tasks'[i].type = "failure" => callbacks'[tasks'[i].id].failing
                      /\ \A j \in 1 .. Len(tasks') :
                           i < j /\ tasks'[i].type = "success" /\ IsSuccess(j, tasks[i].id)'
                             => tasks'[i].n < tasks'[j].n
    BY DEF TasksAreGiven, IsSuccess
  <2>1. \A k \in 1 .. Len(callbacks) :
          /\ callbacks[k].given <= callbacks'[k].given
          /\ callbacks[k].given \in Nat /\ callbacks'[k].given \in Nat
          /\ callbacks[k].failing => callbacks'[k].failing
    <3>1. \A k \in 1 .. Len(callbacks) : callbacks[k].given \in Nat
      BY CallbackTypes
    <3> QED
      BY <1>1, <1>4, <3>1
  <2>2. CASE i \in 1 .. Len(tasks)
    <3>1. tasks'[i] = tasks[i]
      BY <1>1, <2>2
    <3>2. tasks'[i].type = "success" => tasks'[i].n \in 1 .. callbacks'[tasks'[i].id].given
      <4> SUFFICES ASSUME tasks[i].type = "success"
                   PROVE  tasks[i].n \in 1 .. callbacks'[tasks[i].id].given
        BY <3>1
      <4>1. tasks[i].id \in 1 .. Len(callbacks)
        BY <1>14, <2>2
      <4>2. tasks[i].n \in 1 .. callbacks[tasks[i].id].given
        BY <1>2, <2>2 DEF TasksAreGiven
      <4> QED
        BY <2>1, <4>1, <4>2
    <3>3. tasks'[i].type = "failure" => callbacks'[tasks'[i].id].failing
      BY <1>2, <1>14, <2>1, <2>2, <3>1 DEF TasksAreGiven
    <3>4. ASSUME NEW j \in 1 .. Len(tasks'), i < j, tasks'[i].type = "success",
                 IsSuccess(j, tasks[i].id)'
          PROVE  tasks'[i].n < tasks'[j].n
      <4>1. tasks'[j].type = "success" /\ tasks'[j].id = tasks[i].id
        BY <3>1, <3>4 DEF IsSuccess
      <4>2. CASE j \in 1 .. Len(tasks)
        <5>1. tasks'[j] = tasks[j]
          BY <1>1, <4>2
        <5> QED
          BY <1>2, <2>2, <3>1, <3>4, <4>1, <4>2, <5>1 DEF TasksAreGiven, IsSuccess
      <4>3. CASE j = l
        <5>1. tasks[i].id = id /\ tasks'[j].n = callbacks[id].given + 1
          BY <1>1, <4>1, <4>3
        <5>2. tasks[i].type = "success" /\ tasks[i].id = id
          BY <3>1, <3>4, <5>1
        <5>3. tasks[i].n \in 1 .. callbacks[id].given
          BY <1>15, <2>2, <5>2, Zenon
        <5>4. tasks[i].n < callbacks[id].given + 1
          BY <1>4, <5>3
        <5> QED
          BY <3>1, <5>1, <5>4
      <4> QED
        BY <1>4, <4>2, <4>3
    <3> QED
      BY <3>2, <3>3, <3>4
  <2>3. CASE i = l
    <3>1. \A j \in 1 .. Len(tasks') : ~(i < j)
      BY <1>1, <1>4, <2>3
    <3> QED
      BY <1>1, <1>4, <2>3, <3>1
  <2> QED
    BY <1>4, <2>2, <2>3
<1>17. ASSUME NEW r \in open, NEW info \in pending, Waits(r, info)
       PROVE  PostedFor(r, info)'
  <2>1. PostedFor(r, info) /\ SentFor(r)
    BY <1>2, <1>17 DEF PostedInOrder, SentInOrder
  <2>2. AskedBy(r.context, r.rid) = callbacks[info.id].query
        /\ info.id \in 1 .. Len(callbacks)
    BY <1>2, <1>17 DEF Waits, QueriesFitCallbacks, RouterInv, IdsAreOwn
  <2>3. CASE info.id # id
    <3>1. AskedBy(r.context, r.rid) # q0
      BY <1>1, <1>2, <2>2, <2>3 DEF CallbacksAreApart, q0
    <3>2. PostedMove(info.id, 0)
      <4>1. \A i \in 1 .. Len(tasks') : IsSuccess(i, info.id)' \/ IsGivenUp(i, info.id)' =>
              i \in 1 .. Len(tasks) /\ tasks'[i] = tasks[i]
        BY <1>1, <1>4, <2>3 DEF IsSuccess, IsGivenUp
      <4>2. \A i \in 1 .. Len(tasks) : i \in 1 .. Len(tasks') /\ tasks'[i] = tasks[i]
                                       /\ i + 0 = i /\ i - 0 = i
        BY <1>1, <1>4 DEF l
      <4>3. \A i \in 1 .. Len(tasks') : i + 0 = i
        BY <1>4
      <4> QED
        BY <4>1, <4>2, <4>3 DEF PostedMove
    <3> QED
      BY <1>10, <1>12, <2>1, <3>1, <3>2, PostedStaysFor
  <2>4. CASE info.id = id
    <3>1. /\ GivenTo(r) = callbacks[id].given /\ GivenTo(r)' = callbacks'[id].given
          /\ ~FailingFor(r) /\ HeardOf(r)' = HeardOf(r) /\ HeardOf(r) \in Nat
          /\ HeardOf(r) <= GivenTo(r) /\ GivenTo(r) \in Nat
      BY <1>9, <1>11, <2>2, <2>4 DEF q0
    <3>2. \A i \in 1 .. Len(tasks) : ~IsGivenUp(i, id)
      BY <1>1, <1>2 DEF TasksAreGiven, IsGivenUp
    <3>3. \A n, i : PostedBefore(id, n, i) => PostedBefore(id, n, i)'
      <4>1. \A j \in 1 .. Len(tasks) : j \in 1 .. Len(tasks') /\ tasks'[j] = tasks[j]
        BY <1>1, <1>4 DEF l
      <4> QED
        BY <4>1 DEF PostedBefore, IsSuccess
    <3>4. \A n \in HeardOf(r) + 1 .. GivenTo(r) :
            Sent(r.context, r.rid, n)' \/ \A i : i = l => PostedBefore(id, n, i)'
      <4>1. \A n, i : i = l /\ Posted(id, n) => PostedBefore(id, n, i)
        BY <1>4 DEF Posted, PostedBefore, l
      <4>2. \A n \in HeardOf(r) + 1 .. GivenTo(r) : Sent(r.context, r.rid, n) \/ Posted(id, n)
        BY <2>1, <2>4 DEF PostedFor
      <4> QED
        BY <1>12, <3>3, <4>1, <4>2
    <3>5. \A j \in 1 .. Len(down[r.context]) :
            IsAnswer(r.context, j, r.rid) => down[r.context][j].n \in HeardOf(r) + 1 .. GivenTo(r)
      BY <2>1 DEF SentFor, AnswerFits
    <3>6. ASSUME NEW i \in 1 .. Len(tasks'), IsSuccess(i, id)'
          PROVE  SuccessFits(r, info, i)'
      <4>1. CASE i \in 1 .. Len(tasks)
        <5>1. tasks'[i] = tasks[i] /\ IsSuccess(i, id)
          BY <1>1, <3>6, <4>1 DEF IsSuccess
        <5>2. SuccessFits(r, info, i)
          BY <2>1, <2>4, <4>1, <5>1 DEF PostedFor
        <5> QED
          BY <1>1, <1>12, <2>4, <3>1, <3>3, <5>1, <5>2 DEF SuccessFits, IsAnswer
      <4>2. CASE i = l
        <5>1. tasks'[i].type = "success" /\ tasks'[i].n = GivenTo(r) + 1
          BY <1>1, <3>1, <3>6, <4>2 DEF IsSuccess
        <5>2. HeardOf(r)' < tasks'[i].n /\ tasks'[i].n - 1 = GivenTo(r)
          BY <3>1, <5>1
        <5>3. \A j \in 1 .. Len(down'[r.context]) :
                IsAnswer(r.context, j, r.rid)' => down'[r.context][j].n < tasks'[i].n
          <6>1. down' = down /\ \A j : IsAnswer(r.context, j, r.rid)' <=> IsAnswer(r.context, j, r.rid)
            BY <1>1 DEF IsAnswer
          <6>2. \A k : k \in HeardOf(r) + 1 .. GivenTo(r) => k < GivenTo(r) + 1
            BY <3>1
          <6> QED
            BY <3>5, <5>1, <6>1, <6>2
        <5>4. \A n \in HeardOf(r)' + 1 .. tasks'[i].n - 1 :
                Sent(r.context, r.rid, n)' \/ PostedBefore(info.id, n, i)'
          <6>1. \A n \in HeardOf(r) + 1 .. GivenTo(r) :
                  Sent(r.context, r.rid, n)' \/ PostedBefore(id, n, i)'
            BY <3>4, <4>2
          <6> QED
            BY <2>4, <3>1, <5>2, <6>1
        <5> QED
          BY <5>2, <5>3, <5>4 DEF SuccessFits
      <4> QED
        BY <1>4, <4>1, <4>2
    <3>7. ASSUME NEW i \in 1 .. Len(tasks'), IsGivenUp(i, id)'
          PROVE  GivenUpFits(r, info, i)'
      <4>1. i = l
        BY <1>1, <1>4, <3>2, <3>7 DEF IsGivenUp
      <4>2. GivenTo(r)' = GivenTo(r)
        BY <1>1, <3>1, <3>7, <4>1 DEF IsGivenUp
      <4> QED
        <5>1. \A n \in HeardOf(r) + 1 .. GivenTo(r) :
                Sent(r.context, r.rid, n)' \/ PostedBefore(id, n, i)'
          BY <3>4, <4>1
        <5> QED
          BY <2>4, <3>1, <4>2, <5>1 DEF GivenUpFits
    <3>8. \A n \in HeardOf(r)' + 1 .. GivenTo(r)' :
            Sent(r.context, r.rid, n)' \/ Posted(info.id, n)'
      <4>1. \A n, i : PostedBefore(id, n, i)' => Posted(id, n)'
        BY DEF PostedBefore, Posted, IsSuccess
      <4>2. ASSUME NEW n \in HeardOf(r)' + 1 .. GivenTo(r)', n \notin HeardOf(r) + 1 .. GivenTo(r)
            PROVE  Posted(id, n)'
        <5>1. n = callbacks[id].given + 1 /\ callbacks'[id].given = callbacks[id].given + 1
          BY <1>1, <1>4, <3>1, <4>2
        <5>2. tasks'[l].type = "success" /\ tasks'[l].n = n /\ tasks'[l].id = id
          BY <1>1, <1>4, <5>1
        <5> QED
          BY <1>4, <5>2 DEF Posted, IsSuccess
      <4> QED
        BY <2>4, <3>4, <4>1, <4>2
    <3> QED
      BY <2>4, <3>6, <3>7, <3>8 DEF PostedFor
  <2> QED
    BY <2>3, <2>4
<1>18. SentInOrder' /\ PostedInOrder'
  BY <1>1, <1>13, <1>17 DEF SentInOrder, PostedInOrder, Waits
<1> QED
  BY <1>3, <1>6, <1>7, <1>8, <1>16, <1>18 DEF AnswerInv

-----------------------------------------------------------------------------
(* An answer is sent to the page *)

\* A message more for a request: an answer behind all the others, or the failure.
LEMMA SentGrowsFor ==
  ASSUME NEW r, SameFor(r), SentFor(r), Len(down[r.context]) \in Nat, NEW m,
         Len(down'[r.context]) = Len(down[r.context]) + 1,
         \A i \in 1 .. Len(down[r.context]) : down'[r.context][i] = down[r.context][i],
         down'[r.context][Len(down[r.context]) + 1] = m, m.rid = r.rid,
         m.result = "success" =>
           /\ m.n \in HeardOf(r) + 1 .. GivenTo(r)
           /\ \A n \in HeardOf(r) + 1 .. m.n - 1 : Sent(r.context, r.rid, n)
           /\ \A j \in 1 .. Len(down[r.context]) :
                IsAnswer(r.context, j, r.rid) => down[r.context][j].n < m.n,
         m.result = "failure" =>
           /\ FailingFor(r)
           /\ \A n \in HeardOf(r) + 1 .. GivenTo(r) : Sent(r.context, r.rid, n)
  PROVE  /\ SentFor(r)'
         /\ \A n : Sent(r.context, r.rid, n)' <=>
                     Sent(r.context, r.rid, n) \/ (m.result = "success" /\ n = m.n)
<1> DEFINE c == r.context
<1>1. \A i \in 1 .. Len(down[c]) :
        /\ i \in 1 .. Len(down'[c]) /\ i < Len(down[c]) + 1
        /\ IsAnswer(c, i, r.rid)' <=> IsAnswer(c, i, r.rid)
        /\ IsFailure(c, i, r.rid)' <=> IsFailure(c, i, r.rid)
  BY DEF IsAnswer, IsFailure
<1>2. \A i : i = Len(down[c]) + 1 =>
        /\ i \in 1 .. Len(down'[c]) /\ down'[c][i] = m
        /\ IsAnswer(c, i, r.rid)' <=> m.result = "success"
        /\ IsFailure(c, i, r.rid)' <=> m.result = "failure"
  BY DEF IsAnswer, IsFailure
<1>3. \A i \in 1 .. Len(down'[c]) : i \in 1 .. Len(down[c]) \/ i = Len(down[c]) + 1
  OBVIOUS
<1>4. ASSUME NEW n, NEW i, SentBefore(c, r.rid, n, i)
      PROVE  SentBefore(c, r.rid, n, i)'
  BY <1>1, <1>4 DEF SentBefore
<1>5. ASSUME NEW n, NEW i, i = Len(down[c]) + 1, Sent(c, r.rid, n)
      PROVE  SentBefore(c, r.rid, n, i)'
  BY <1>1, <1>5 DEF SentBefore, Sent
<1>6. ASSUME NEW i \in 1 .. Len(down'[c]), IsAnswer(c, i, r.rid)'
      PROVE  AnswerFits(r, i)'
  <2>1. CASE i \in 1 .. Len(down[c])
    <3>1. AnswerFits(r, i) /\ down'[c][i] = down[c][i]
      BY <1>1, <1>6, <2>1 DEF SentFor
    <3> QED
      BY <1>4, <3>1 DEF AnswerFits, SameFor
  <2>2. CASE i = Len(down[c]) + 1
    <3>1. down'[c][i] = m /\ m.result = "success"
      BY <1>2, <1>6, <2>2
    <3> QED
      BY <1>5, <2>2, <3>1 DEF AnswerFits, SameFor
  <2> QED
    BY <1>3, <2>1, <2>2
<1>7. ASSUME NEW i \in 1 .. Len(down'[c]), IsFailure(c, i, r.rid)'
      PROVE  FailureFits(r, i)'
  <2>1. CASE i \in 1 .. Len(down[c])
    <3>1. FailureFits(r, i)
      BY <1>1, <1>7, <2>1 DEF SentFor
    <3> QED
      BY <1>4, <3>1 DEF FailureFits, SameFor
  <2>2. CASE i = Len(down[c]) + 1
    <3>1. m.result = "failure"
      BY <1>2, <1>7, <2>2
    <3> QED
      BY <1>5, <2>2, <3>1 DEF FailureFits, SameFor
  <2> QED
    BY <1>3, <2>1, <2>2
<1>8. ASSUME NEW i \in 1 .. Len(down'[c]), NEW j \in 1 .. Len(down'[c]),
             i < j, IsAnswer(c, i, r.rid)', IsAnswer(c, j, r.rid)'
      PROVE  down'[c][i].n < down'[c][j].n
  <2>1. i \in 1 .. Len(down[c]) /\ IsAnswer(c, i, r.rid) /\ down'[c][i] = down[c][i]
    BY <1>1, <1>8
  <2>2. CASE j \in 1 .. Len(down[c])
    <3>1. IsAnswer(c, j, r.rid) /\ down'[c][j] = down[c][j]
      BY <1>1, <1>8, <2>2
    <3> QED
      BY <1>8, <2>1, <2>2, <3>1 DEF SentFor
  <2>3. CASE j = Len(down[c]) + 1
    <3>1. down'[c][j] = m /\ m.result = "success"
      BY <1>2, <1>8, <2>3
    <3> QED
      BY <2>1, <3>1
  <2> QED
    BY <1>3, <2>2, <2>3
<1>9. ASSUME NEW n
      PROVE  Sent(c, r.rid, n)' <=> Sent(c, r.rid, n) \/ (m.result = "success" /\ n = m.n)
  <2>1. ASSUME Sent(c, r.rid, n)'
        PROVE  Sent(c, r.rid, n) \/ (m.result = "success" /\ n = m.n)
    BY <1>1, <1>2, <1>3, <2>1 DEF Sent
  <2>2. ASSUME Sent(c, r.rid, n)
        PROVE  Sent(c, r.rid, n)'
    BY <1>1, <2>2 DEF Sent
  <2>3. ASSUME m.result = "success", n = m.n
        PROVE  Sent(c, r.rid, n)'
    BY <1>2, <2>3 DEF Sent
  <2> QED
    BY <2>1, <2>2, <2>3
<1> QED
  BY <1>6, <1>7, <1>8, <1>9 DEF SentFor

\* The first task of a query that stays pending is run.
LEMMA PostedFirstFor ==
  ASSUME NEW r, NEW info, SameFor(r), PostedFor(r, info), tasks \in Seq(Task), tasks # <<>>,
         tasks' = Tail(tasks), TasksAreGiven, IsSuccess(1, info.id),
         \A n : Sent(r.context, r.rid, n)' <=> Sent(r.context, r.rid, n) \/ n = tasks[1].n
  PROVE  PostedFor(r, info)'
<1>1. /\ 1 \in 1 .. Len(tasks)
      /\ \A i \in 1 .. Len(tasks') : i + 1 \in 1 .. Len(tasks) /\ tasks'[i] = tasks[i + 1]
      /\ \A i \in 1 .. Len(tasks) :
           i = 1 \/ (i - 1 \in 1 .. Len(tasks') /\ tasks'[i - 1] = tasks[i])
  BY RestOfMessages
<1>2. ASSUME NEW n, NEW i \in 1 .. Len(tasks'),
             Sent(r.context, r.rid, n) \/ PostedBefore(info.id, n, i + 1)
      PROVE  Sent(r.context, r.rid, n)' \/ PostedBefore(info.id, n, i)'
  <2>1. CASE Sent(r.context, r.rid, n)
    BY <2>1
  <2>2. CASE PostedBefore(info.id, n, i + 1)
    <3>1. PICK j \in 1 .. Len(tasks) : j < i + 1 /\ IsSuccess(j, info.id) /\ tasks[j].n = n
      BY <2>2 DEF PostedBefore
    <3>2. CASE j = 1
      BY <3>1, <3>2
    <3>3. CASE j # 1
      <4>1. j - 1 \in 1 .. Len(tasks') /\ tasks'[j - 1] = tasks[j] /\ j - 1 < i
        BY <1>1, <3>1, <3>3
      <4> QED
        BY <3>1, <4>1 DEF PostedBefore, IsSuccess
    <3> QED
      BY <3>2, <3>3
  <2> QED
    BY <1>2, <2>1, <2>2
<1>3. ASSUME NEW i \in 1 .. Len(tasks'), IsSuccess(i, info.id)'
      PROVE  SuccessFits(r, info, i)'
  <2>1. i + 1 \in 1 .. Len(tasks) /\ tasks'[i] = tasks[i + 1] /\ IsSuccess(i + 1, info.id)
    BY <1>1, <1>3 DEF IsSuccess
  <2>2. SuccessFits(r, info, i + 1)
    BY <2>1 DEF PostedFor
  <2>3. tasks[1].n < tasks'[i].n
    <3>1. 1 < i + 1 /\ tasks[1].id = info.id /\ tasks[1].type = "success"
      BY DEF IsSuccess
    <3> QED
      BY <1>1, <2>1, <3>1 DEF TasksAreGiven
  <2>4. \A j \in 1 .. Len(down'[r.context]) :
          IsAnswer(r.context, j, r.rid)' => down'[r.context][j].n < tasks'[i].n
    <3> SUFFICES ASSUME NEW n, NEW j \in 1 .. Len(down'[r.context]),
                        IsAnswer(r.context, j, r.rid)', n = down'[r.context][j].n
                 PROVE  n < tasks'[i].n
      OBVIOUS
    <3>1. Sent(r.context, r.rid, n)'
      BY DEF Sent
    <3>2. CASE Sent(r.context, r.rid, n)
      BY <2>1, <2>2, <3>2 DEF SuccessFits, Sent
    <3> QED
      BY <2>3, <3>1, <3>2
  <2> QED
    BY <1>2, <2>1, <2>2, <2>4 DEF SuccessFits, SameFor
<1>4. ASSUME NEW i \in 1 .. Len(tasks'), IsGivenUp(i, info.id)'
      PROVE  GivenUpFits(r, info, i)'
  <2>1. i + 1 \in 1 .. Len(tasks) /\ IsGivenUp(i + 1, info.id)
    BY <1>1, <1>4 DEF IsGivenUp
  <2>2. GivenUpFits(r, info, i + 1)
    BY <2>1 DEF PostedFor
  <2> QED
    BY <1>2, <2>2 DEF GivenUpFits, SameFor
<1>5. ASSUME NEW n \in HeardOf(r)' + 1 .. GivenTo(r)'
      PROVE  Sent(r.context, r.rid, n)' \/ Posted(info.id, n)'
  <2>1. Sent(r.context, r.rid, n) \/ Posted(info.id, n)
    BY <1>5 DEF PostedFor, SameFor
  <2>2. CASE Posted(info.id, n)
    <3>1. PICK j \in 1 .. Len(tasks) : IsSuccess(j, info.id) /\ tasks[j].n = n
      BY <2>2 DEF Posted
    <3>2. CASE j = 1
      BY <3>1, <3>2
    <3>3. CASE j # 1
      <4>1. j - 1 \in 1 .. Len(tasks') /\ tasks'[j - 1] = tasks[j]
        BY <1>1, <3>1, <3>3
      <4> QED
        BY <3>1, <4>1 DEF Posted, IsSuccess
    <3> QED
      BY <3>2, <3>3
  <2> QED
    BY <2>1, <2>2
<1> QED
  BY <1>3, <1>4, <1>5 DEF PostedFor

LEMMA CompletesKeeps ==
  ASSUME RouterInv, RouterInv', RequestInv, AnswerInv, RunTask,
         NEW info \in pending, Completing(info), SameAnswers, Len(callbacks') = Len(callbacks)
  PROVE  AnswerInv'
<1> DEFINE c == info.context
           t == Head(tasks)
           m == Message(info, t.type, t.n)
<1>1. /\ UNCHANGED <<lastReq, heard, open, up, valid>> /\ tasks # <<>> /\ tasks' = Tail(tasks)
      /\ t.type # "cancel" /\ info.id = t.id /\ down' = SendToRenderer(c, m)
      /\ pending' = IF t.type = "failure" \/ ~info.persistent THEN Without({t.id}) ELSE pending
  BY DEF RunTask, Completing, rendererVars, contentVars
<1>2. tasks \in Seq(Task)
  BY InvIsParts DEF TaskInv, TaskTypes
<1>3. /\ 1 \in 1 .. Len(tasks) /\ t = tasks[1]
      /\ \A i \in 1 .. Len(tasks') : i + 1 \in 1 .. Len(tasks) /\ tasks'[i] = tasks[i + 1]
      /\ \A i \in 1 .. Len(tasks) :
           i = 1 \/ (i - 1 \in 1 .. Len(tasks') /\ tasks'[i - 1] = tasks[i])
  BY <1>1, <1>2, RestOfMessages
<1>4. /\ t \in Task /\ t.type \in {"success", "failure"} /\ t.n \in 0 .. MaxAnswers
  BY <1>1, <1>2, <1>3, ElementOfSeq DEF Task
<1>5. /\ c \in Contexts /\ info.cid \in Nat \ {Reserved} /\ info.rid \in 1 .. MaxQuery
      /\ info.id \in 1 .. Len(callbacks)
  BY StateTypes DEF RouterInv, IdsAreOwn
<1>6. m \in Downward /\ m.rid = info.rid /\ m.result = t.type /\ m.n = t.n
  BY <1>4, <1>5 DEF Message, Downward
<1>7. pending' \subseteq pending /\ (info \in pending' => t.type = "success")
  BY <1>1, <1>4, <1>5 DEF Without
<1>8. /\ SentInOrder /\ PostedInOrder /\ TasksAreGiven /\ HeardIsGiven /\ CallbacksAreApart
      /\ QueriesFitCallbacks
  BY DEF AnswerInv
<1>9. NoNewQueries /\ NoNewAnswers(1)
  BY <1>1, <1>3, NothingSentUp DEF NoNewAnswers
<1>10. /\ CallbacksAreApart' /\ CallbacksAreAsked' /\ SentAreApart' /\ SentIsUnanswered'
       /\ RequestsAreApart' /\ QueriesFitCallbacks' /\ HeardIsGiven' /\ TasksAreGiven'
       /\ SameGiven
  <2>1. open' \subseteq open /\ 1 \in {0, 1}
    BY <1>1
  <2> QED
    BY <1>1, <1>7, <1>9, <2>1, TablesStay
<1>11. \A r \in open : /\ SameFor(r) /\ SentFor(r) /\ r.context \in Contexts
                       /\ Len(down[r.context]) \in Nat
  BY <1>1, <1>8, <1>10, SameForRequests, StateTypes, AnswerTypes DEF SameFor, SentInOrder
<1> HIDE DEF m
<1>12. /\ \A d \in Contexts : d # c \/ c \notin valid => down'[d] = down[d]
       /\ c \in valid =>
            /\ Len(down[c]) \in Nat /\ Len(down'[c]) = Len(down[c]) + 1
            /\ \A i \in 1 .. Len(down[c]) : down'[c][i] = down[c][i]
            /\ down'[c][Len(down[c]) + 1] = m
  BY <1>1, <1>5, <1>6, MessageSentDown
<1>13. ASSUME NEW r \in open, ~Waits(r, info)
       PROVE  /\ SentFor(r)'
              /\ \A n : Sent(r.context, r.rid, n)' <=> Sent(r.context, r.rid, n)
  <2>1. CASE r.context # c \/ c \notin valid
    <3>1. down'[r.context] = down[r.context]
      BY <1>11, <1>12, <2>1
    <3>2. SentMove(r, 0)
      BY <1>11, <3>1 DEF SentMove
    <3> QED
      BY <1>11, <3>2, SentStaysFor
  <2>2. CASE r.context = c /\ c \in valid
    <3>1. r.rid # info.rid
      BY <1>13, <2>2 DEF Waits
    <3>2. \A i \in 1 .. Len(down'[c]) :
            i \in 1 .. Len(down[c]) \/ (i = Len(down[c]) + 1 /\ down'[c][i].rid # r.rid)
      BY <1>6, <1>12, <2>2, <3>1
    <3>3. \A i \in 1 .. Len(down[c]) :
            i \in 1 .. Len(down'[c]) /\ down'[c][i] = down[c][i] /\ i + 0 = i /\ i - 0 = i
      BY <1>12, <2>2
    <3>4. SentMove(r, 0)
      BY <2>2, <3>2, <3>3 DEF SentMove, IsAnswer, IsFailure
    <3> QED
      BY <1>11, <3>4, SentStaysFor
  <2> QED
    BY <2>1, <2>2
<1>14. ASSUME NEW r \in open, Waits(r, info)
       PROVE  /\ SentFor(r)'
              /\ \A n : Sent(r.context, r.rid, n)' <=>
                          Sent(r.context, r.rid, n) \/ (m.result = "success" /\ n = m.n)
  <2>1. r.context = c /\ r.rid = info.rid /\ c \in valid
    BY <1>14 DEF Waits
  <2>2. PostedFor(r, info)
    BY <1>8, <1>14 DEF PostedInOrder
  <2>3. callbacks[info.id].query = AskedBy(r.context, r.rid)
    BY <1>8, <2>1 DEF QueriesFitCallbacks
  <2>4. /\ GivenTo(r) = callbacks[info.id].given
        /\ FailingFor(r) <=> callbacks[info.id].failing
    BY <1>5, <1>8, <2>3, GivenIs DEF GivenTo, FailingFor
  <2>5. HeardOf(r) \in Nat /\ GivenTo(r) \in 0 .. MaxAnswers
    BY HeardTypes
  <2>6. \A n : ~PostedBefore(info.id, n, 1)
    BY <1>3 DEF PostedBefore
  <2>7. ASSUME m.result = "success"
        PROVE  /\ m.n \in HeardOf(r) + 1 .. GivenTo(r)
               /\ \A n \in HeardOf(r) + 1 .. m.n - 1 : Sent(r.context, r.rid, n)
               /\ \A j \in 1 .. Len(down[r.context]) :
                    IsAnswer(r.context, j, r.rid) => down[r.context][j].n < m.n
    <3>1. IsSuccess(1, info.id) /\ tasks[1].n = m.n
      BY <1>1, <1>3, <1>6, <2>7 DEF IsSuccess
    <3>2. SuccessFits(r, info, 1)
      BY <1>3, <2>2, <3>1 DEF PostedFor
    <3>3. m.n \in 1 .. callbacks[info.id].given
      BY <1>3, <1>8, <3>1 DEF TasksAreGiven, IsSuccess
    <3>4. m.n \in HeardOf(r) + 1 .. GivenTo(r)
      BY <2>4, <2>5, <3>1, <3>2, <3>3 DEF SuccessFits
    <3> QED
      BY <2>6, <3>1, <3>2, <3>4 DEF SuccessFits
  <2>8. ASSUME m.result = "failure"
        PROVE  /\ FailingFor(r)
               /\ \A n \in HeardOf(r) + 1 .. GivenTo(r) : Sent(r.context, r.rid, n)
    <3>1. IsGivenUp(1, info.id)
      BY <1>1, <1>3, <1>6, <2>8 DEF IsGivenUp
    <3>2. GivenUpFits(r, info, 1)
      BY <1>3, <2>2, <3>1 DEF PostedFor
    <3>3. FailingFor(r)
      BY <1>3, <1>8, <2>4, <3>1 DEF TasksAreGiven, IsGivenUp
    <3> QED
      BY <2>6, <3>2, <3>3 DEF GivenUpFits
  <2>9. /\ SameFor(r) /\ SentFor(r) /\ Len(down[r.context]) \in Nat
        /\ Len(down'[r.context]) = Len(down[r.context]) + 1
        /\ \A i \in 1 .. Len(down[r.context]) : down'[r.context][i] = down[r.context][i]
        /\ down'[r.context][Len(down[r.context]) + 1] = m /\ m.rid = r.rid
    BY <1>6, <1>11, <1>12, <2>1
  <2>10. m.result = "success" =>
           /\ m.n \in HeardOf(r) + 1 .. GivenTo(r)
           /\ \A n \in HeardOf(r) + 1 .. m.n - 1 : Sent(r.context, r.rid, n)
           /\ \A j \in 1 .. Len(down[r.context]) :
                IsAnswer(r.context, j, r.rid) => down[r.context][j].n < m.n
    BY <2>7
  <2>11. m.result = "failure" =>
           /\ FailingFor(r)
           /\ \A n \in HeardOf(r) + 1 .. GivenTo(r) : Sent(r.context, r.rid, n)
    BY <2>8
  <2> QED
    BY <2>9, <2>10, <2>11, SentGrowsFor, ZenonT(60)
<1>15. SentInOrder'
  BY <1>1, <1>13, <1>14 DEF SentInOrder
<1>16. ASSUME NEW r \in open, NEW x \in pending', Waits(r, x)
       PROVE  PostedFor(r, x)'
  <2>1. x \in pending /\ PostedFor(r, x)
    BY <1>7, <1>8, <1>16 DEF PostedInOrder
  <2>2. CASE x = info
    <3>1. m.result = "success" /\ IsSuccess(1, info.id) /\ tasks[1].n = m.n
      BY <1>1, <1>3, <1>6, <1>7, <2>2 DEF IsSuccess
    <3> QED
      BY <1>1, <1>2, <1>8, <1>11, <1>14, <1>16, <2>1, <2>2, <3>1, PostedFirstFor
  <2>3. CASE x # info
    <3>1. x.id # info.id
      BY <2>1, <2>3 DEF RouterInv, IdsAreOwn
    <3>2. ~Waits(r, info)
      BY <1>16, <2>1, <2>3 DEF Waits, RequestInv, Unique, QueriesAreUnique
    <3>3. PostedMove(x.id, 1)
      BY <1>1, <1>3, <3>1 DEF PostedMove, IsSuccess, IsGivenUp
    <3> QED
      BY <1>11, <1>13, <2>1, <3>2, <3>3, PostedStaysFor
  <2> QED
    BY <2>2, <2>3
<1>17. PostedInOrder'
  BY <1>1, <1>16 DEF PostedInOrder, Waits
<1> QED
  BY <1>10, <1>15, <1>17 DEF AnswerInv

-----------------------------------------------------------------------------
(* The page hears *)

\* The first message is for no request that waits, or for one.
LEMMA WhatIsHeard ==
  ASSUME RouterInv, RequestInv, NEW c \in Contexts, RendererReceives(c),
         NEW m, m = Head(down[c])
  PROVE  /\ UNCHANGED <<lastReq, up, valid, pending, callbacks, tasks>>
         /\ m = down[c][1] /\ 1 \in 1 .. Len(down[c]) /\ m \in Downward
         /\ \A i \in 1 .. Len(down'[c]) : i + 1 \in 1 .. Len(down[c]) /\ down'[c][i] = down[c][i + 1]
         /\ \A i \in 1 .. Len(down[c]) :
              i = 1 \/ (i - 1 \in 1 .. Len(down'[c]) /\ down'[c][i - 1] = down[c][i])
         /\ \A d \in Contexts : d # c => down'[d] = down[d]
         /\ \/ /\ UNCHANGED <<open, heard>>
               /\ \A r \in open : ~(r.context = c /\ r.rid = m.rid)
            \/ \E r \in open : r.context = c /\ r.rid = m.rid /\ ExecuteCallback(r, m)
<1>1. /\ down[c] # <<>> /\ down' = [down EXCEPT ![c] = Tail(@)]
      /\ UNCHANGED <<lastReq, up, valid, pending, callbacks, tasks>>
      /\ IF Requests(c, m.cid, m.rid) = {} THEN UNCHANGED <<open, heard>>
         ELSE \E r \in Requests(c, m.cid, m.rid) : ExecuteCallback(r, m)
  BY DEF RendererReceives, contentVars, routerVars
<1> DEFINE s == down[c]
<1>2. /\ s \in Seq(Downward) /\ s # <<>> /\ down'[c] = Tail(s)
      /\ \A d \in Contexts : d # c => down'[d] = down[d]
  BY <1>1, StateTypes
<1> HIDE DEF s
<1>3. /\ 1 \in 1 .. Len(s) /\ Head(s) = s[1]
      /\ \A i \in 1 .. Len(Tail(s)) : i + 1 \in 1 .. Len(s) /\ Tail(s)[i] = s[i + 1]
      /\ \A i \in 1 .. Len(s) :
           i = 1 \/ (i - 1 \in 1 .. Len(Tail(s)) /\ Tail(s)[i - 1] = s[i])
  BY <1>2, RestOfMessages
<1> USE DEF s
<1>4. m = down[c][1] /\ m \in Downs(c) /\ m \in Downward
  BY <1>2, <1>3, ElementOfSeq DEF Downs
<1>5. m.cid = GetIDForContext(c) /\ m.rid # Reserved
  BY <1>4, AnswerTypes DEF RequestInv, Names, AnswersNameContext, GetIDForContext, Reserved
<1>6. Requests(c, m.cid, m.rid) = Own(c, m.rid)
  BY <1>5, RequestsAreOwn DEF RequestInv, Names
<1>7. \A r \in open : r \in Own(c, m.rid) <=> r.context = c /\ r.rid = m.rid
  BY <1>5 DEF Own
<1>8. /\ m = down[c][1] /\ 1 \in 1 .. Len(down[c]) /\ m \in Downward
      /\ \A i \in 1 .. Len(down'[c]) : i + 1 \in 1 .. Len(down[c]) /\ down'[c][i] = down[c][i + 1]
      /\ \A i \in 1 .. Len(down[c]) :
           i = 1 \/ (i - 1 \in 1 .. Len(down'[c]) /\ down'[c][i - 1] = down[c][i])
      /\ \A d \in Contexts : d # c => down'[d] = down[d]
  BY <1>2, <1>3, <1>4
<1>9. CASE Own(c, m.rid) = {}
  <2>1. \A r \in open : ~(r.context = c /\ r.rid = m.rid)
    BY <1>7, <1>9
  <2>2. UNCHANGED <<open, heard>>
    BY <1>1, <1>6, <1>9
  <2> QED
    BY <1>1, <1>8, <2>1, <2>2
<1>10. CASE Own(c, m.rid) # {}
  <2>1. PICK r \in Own(c, m.rid) : ExecuteCallback(r, m)
    BY <1>1, <1>6, <1>10
  <2>2. r \in open /\ r.context = c /\ r.rid = m.rid
    BY <1>7 DEF Own
  <2>3. \E x \in open : x.context = c /\ x.rid = m.rid /\ ExecuteCallback(x, m)
    BY <2>1, <2>2
  <2> QED
    BY <1>1, <1>8, <2>3
<1> QED
  BY <1>9, <1>10

\* The answer heard first is the next one, and the failure comes after them all.
LEMMA FirstAnswerFits ==
  ASSUME RouterInv, SentInOrder, NEW r \in open, 1 \in 1 .. Len(down[r.context])
  PROVE  /\ IsAnswer(r.context, 1, r.rid) =>
              down[r.context][1].n = HeardOf(r) + 1 /\ HeardOf(r) + 1 <= GivenTo(r)
         /\ IsFailure(r.context, 1, r.rid) => FailingFor(r) /\ GivenTo(r) <= HeardOf(r)
<1>1. HeardOf(r) \in Nat /\ GivenTo(r) \in Nat
  BY HeardTypes
<1>2. \A n : ~SentBefore(r.context, r.rid, n, 1)
  BY DEF SentBefore
<1>3. ASSUME IsAnswer(r.context, 1, r.rid)
      PROVE  down[r.context][1].n = HeardOf(r) + 1 /\ HeardOf(r) + 1 <= GivenTo(r)
  <2>1. AnswerFits(r, 1)
    BY <1>3 DEF SentInOrder, SentFor
  <2>2. \A n : n \notin HeardOf(r) + 1 .. down[r.context][1].n - 1
    BY <1>2, <2>1 DEF AnswerFits
  <2>3. down[r.context][1].n \in HeardOf(r) + 1 .. GivenTo(r)
    BY <2>1 DEF AnswerFits
  <2>4. HeardOf(r) + 1 \notin HeardOf(r) + 1 .. down[r.context][1].n - 1
    BY <2>2
  <2> QED
    BY <1>1, <2>3, <2>4
<1>4. ASSUME IsFailure(r.context, 1, r.rid)
      PROVE  FailingFor(r) /\ GivenTo(r) <= HeardOf(r)
  <2>1. FailureFits(r, 1)
    BY <1>4 DEF SentInOrder, SentFor
  <2>2. HeardOf(r) + 1 \notin HeardOf(r) + 1 .. GivenTo(r)
    BY <1>2, <2>1 DEF FailureFits
  <2> QED
    BY <1>1, <2>1, <2>2 DEF FailureFits
<1> QED
  BY <1>3, <1>4

LEMMA RangesBehind ==
  ASSUME NEW h \in Nat, NEW g \in Nat, NEW x \in h + 1 .. g, NEW k \in x + 1 .. g
  PROVE  \A n \in x + 1 .. k - 1 :
           n \in h + 1 .. k - 1 /\ n \in Nat /\ x < n /\ n \in x + 1 .. g
  OBVIOUS

\* What is left for a request that goes on to wait: the answers behind this one.
LEMMA SentHeardFor ==
  ASSUME NEW r, SentFor(r), 1 \in 1 .. Len(down[r.context]), IsAnswer(r.context, 1, r.rid),
         \A i \in 1 .. Len(down'[r.context]) :
           i + 1 \in 1 .. Len(down[r.context]) /\ down'[r.context][i] = down[r.context][i + 1],
         \A i \in 1 .. Len(down[r.context]) :
           \/ i = 1
           \/ i - 1 \in 1 .. Len(down'[r.context]) /\ down'[r.context][i - 1] = down[r.context][i],
         HeardOf(r) \in Nat, GivenTo(r) \in Nat, HeardOf(r)' = down[r.context][1].n,
         GivenTo(r)' = GivenTo(r), FailingFor(r)' <=> FailingFor(r)
  PROVE  /\ SentFor(r)' /\ HeardOf(r)' \in HeardOf(r) + 1 .. GivenTo(r)
         /\ \A n : Sent(r.context, r.rid, n)' => Sent(r.context, r.rid, n)
         /\ \A n \in HeardOf(r)' + 1 .. GivenTo(r)' :
              Sent(r.context, r.rid, n) => Sent(r.context, r.rid, n)'
<1> DEFINE c == r.context
<1>1. \A i \in 1 .. Len(down'[c]) :
        /\ IsAnswer(c, i, r.rid)' => IsAnswer(c, i + 1, r.rid)
        /\ IsFailure(c, i, r.rid)' => IsFailure(c, i + 1, r.rid)
  BY DEF IsAnswer, IsFailure
<1>2. \A i \in 1 .. Len(down[c]) : i # 1 /\ IsAnswer(c, i, r.rid) =>
        i - 1 \in 1 .. Len(down'[c]) /\ IsAnswer(c, i - 1, r.rid)'
        /\ down'[c][i - 1] = down[c][i]
  BY DEF IsAnswer
<1>3. HeardOf(r)' \in HeardOf(r) + 1 .. GivenTo(r)
  BY DEF SentFor, AnswerFits
<1>4. ASSUME NEW n \in Nat, HeardOf(r)' < n, NEW i \in Int, SentBefore(c, r.rid, n, i + 1)
      PROVE  SentBefore(c, r.rid, n, i)'
  <2>1. PICK j \in 1 .. Len(down[c]) :
               j < i + 1 /\ IsAnswer(c, j, r.rid) /\ down[c][j].n = n
    BY <1>4 DEF SentBefore
  <2>2. j # 1
    BY <1>3, <1>4, <2>1
  <2>3. /\ j - 1 \in 1 .. Len(down'[c]) /\ IsAnswer(c, j - 1, r.rid)'
        /\ down'[c][j - 1].n = n /\ j - 1 < i
    BY <1>2, <1>4, <2>1, <2>2
  <2> QED
    BY <2>3 DEF SentBefore
<1>5. ASSUME NEW i \in 1 .. Len(down'[c]), IsAnswer(c, i, r.rid)'
      PROVE  AnswerFits(r, i)'
  <2>1. /\ i + 1 \in 1 .. Len(down[c]) /\ IsAnswer(c, i + 1, r.rid) /\ 1 < i + 1
        /\ down'[c][i] = down[c][i + 1]
    BY <1>1, <1>5
  <2>2. AnswerFits(r, i + 1)
    BY <2>1 DEF SentFor
  <2>3. HeardOf(r)' < down'[c][i].n
    BY <2>1 DEF SentFor
  <2>4. down'[c][i].n \in HeardOf(r)' + 1 .. GivenTo(r)'
    <3>1. down'[c][i].n \in HeardOf(r) + 1 .. GivenTo(r)
      BY <2>1, <2>2 DEF AnswerFits
    <3>2. \A k \in HeardOf(r) + 1 .. GivenTo(r) :
            HeardOf(r)' < k => k \in HeardOf(r)' + 1 .. GivenTo(r)'
      BY <1>3
    <3> QED
      BY <2>3, <3>1, <3>2
  <2>5. \A n \in HeardOf(r)' + 1 .. down'[c][i].n - 1 :
          n \in HeardOf(r) + 1 .. down[c][i + 1].n - 1 /\ n \in Nat /\ HeardOf(r)' < n
    <3>1. PICK k : k = down'[c][i].n
      OBVIOUS
    <3>2. PICK z \in Nat : z = HeardOf(r)
      OBVIOUS
    <3>3. PICK g \in Nat : g = GivenTo(r)
      OBVIOUS
    <3>4. PICK h \in z + 1 .. g : h = HeardOf(r)'
      BY <1>3, <3>2, <3>3, Zenon
    <3>5. k \in h + 1 .. g /\ k = down[c][i + 1].n
      BY <2>1, <2>4, <3>1, <3>3, <3>4, Zenon
    <3>6. \A n \in h + 1 .. k - 1 : n \in z + 1 .. k - 1 /\ n \in Nat /\ h < n
      BY <3>4, <3>5, RangesBehind, SMTT(30)
    <3>7. k = down'[c][i].n /\ k = down[c][i + 1].n /\ z = HeardOf(r) /\ h = HeardOf(r)'
      BY <3>1, <3>2, <3>4, <3>5
    <3> QED
      BY <3>6, <3>7, ZenonT(30)
  <2>6. \A n \in HeardOf(r)' + 1 .. down'[c][i].n - 1 : SentBefore(c, r.rid, n, i)'
    <3> SUFFICES ASSUME NEW n \in HeardOf(r)' + 1 .. down'[c][i].n - 1
                 PROVE  SentBefore(c, r.rid, n, i)'
      OBVIOUS
    <3>1. n \in HeardOf(r) + 1 .. down[c][i + 1].n - 1 /\ n \in Nat /\ HeardOf(r)' < n
      BY <2>5, Zenon
    <3>2. SentBefore(c, r.rid, n, i + 1)
      BY <2>2, <3>1, Zenon DEF AnswerFits
    <3>3. i \in Int
      OBVIOUS
    <3> QED
      BY <1>4, <3>1, <3>2, <3>3, Zenon
  <2> QED
    BY <2>4, <2>6 DEF AnswerFits
<1>6. ASSUME NEW i \in 1 .. Len(down'[c]), IsFailure(c, i, r.rid)'
      PROVE  FailureFits(r, i)'
  <2>1. FailureFits(r, i + 1)
    BY <1>1, <1>6 DEF SentFor
  <2>2. \A n \in HeardOf(r)' + 1 .. GivenTo(r)' :
          n \in HeardOf(r) + 1 .. GivenTo(r) /\ n \in Nat /\ HeardOf(r)' < n
    BY <1>3
  <2>3. \A n \in HeardOf(r)' + 1 .. GivenTo(r)' : SentBefore(c, r.rid, n, i)'
    BY <1>4, <2>1, <2>2 DEF FailureFits
  <2> QED
    BY <2>1, <2>3 DEF FailureFits
<1>7. ASSUME NEW i \in 1 .. Len(down'[c]), NEW j \in 1 .. Len(down'[c]),
             i < j, IsAnswer(c, i, r.rid)', IsAnswer(c, j, r.rid)'
      PROVE  down'[c][i].n < down'[c][j].n
  <2>1. i + 1 < j + 1
    BY <1>7
  <2> QED
    BY <1>1, <1>7, <2>1 DEF SentFor
<1>8. ASSUME NEW n, Sent(c, r.rid, n)'
      PROVE  Sent(c, r.rid, n)
  <2>1. PICK j \in 1 .. Len(down'[c]) : IsAnswer(c, j, r.rid)' /\ down'[c][j].n = n
    BY <1>8 DEF Sent
  <2>2. /\ j + 1 \in 1 .. Len(down[c]) /\ IsAnswer(c, j + 1, r.rid)
        /\ down[c][j + 1].n = n
    BY <1>1, <2>1
  <2> QED
    BY <2>2 DEF Sent
<1>9. ASSUME NEW n \in HeardOf(r)' + 1 .. GivenTo(r)', Sent(c, r.rid, n)
      PROVE  Sent(c, r.rid, n)'
  <2>1. PICK j \in 1 .. Len(down[c]) : IsAnswer(c, j, r.rid) /\ down[c][j].n = n
    BY <1>9 DEF Sent
  <2>2. j # 1
    BY <1>3, <2>1
  <2> QED
    BY <1>2, <2>1, <2>2 DEF Sent
<1> QED
  BY <1>3, <1>5, <1>6, <1>7, <1>8, <1>9 DEF SentFor

LEMMA PostedHeardFor ==
  ASSUME NEW r, NEW info, PostedFor(r, info), TasksAreGiven, UNCHANGED tasks,
         1 \in 1 .. Len(down[r.context]), IsAnswer(r.context, 1, r.rid),
         HeardOf(r) \in Nat, GivenTo(r) \in Nat, HeardOf(r)' = down[r.context][1].n,
         HeardOf(r)' \in HeardOf(r) + 1 .. GivenTo(r), GivenTo(r)' = GivenTo(r),
         \A n : Sent(r.context, r.rid, n)' => Sent(r.context, r.rid, n),
         \A n \in HeardOf(r)' + 1 .. GivenTo(r)' :
           Sent(r.context, r.rid, n) => Sent(r.context, r.rid, n)',
         \A i \in 1 .. Len(tasks) : IsSuccess(i, info.id) => tasks[i].n \in 0 .. GivenTo(r)
  PROVE  PostedFor(r, info)'
<1>1. \A i : /\ IsSuccess(i, info.id)' <=> IsSuccess(i, info.id)
             /\ IsGivenUp(i, info.id)' <=> IsGivenUp(i, info.id)
  BY DEF IsSuccess, IsGivenUp
<1>2. \A n : /\ Posted(info.id, n)' <=> Posted(info.id, n)
             /\ \A i : PostedBefore(info.id, n, i)' <=> PostedBefore(info.id, n, i)
  BY <1>1 DEF Posted, PostedBefore
<1>3. ASSUME NEW i \in 1 .. Len(tasks), IsSuccess(i, info.id)
      PROVE  SuccessFits(r, info, i)'
  <2>1. SuccessFits(r, info, i)
    BY <1>3 DEF PostedFor
  <2>2. HeardOf(r)' < tasks'[i].n
    BY <2>1 DEF SuccessFits
  <2>3. \A j \in 1 .. Len(down'[r.context]) :
          IsAnswer(r.context, j, r.rid)' => down'[r.context][j].n < tasks'[i].n
    <3> SUFFICES ASSUME NEW n, NEW j \in 1 .. Len(down'[r.context]),
                        IsAnswer(r.context, j, r.rid)', n = down'[r.context][j].n
                 PROVE  n < tasks'[i].n
      OBVIOUS
    <3>1. Sent(r.context, r.rid, n)
      BY DEF Sent
    <3> QED
      BY <2>1, <3>1 DEF SuccessFits, Sent
  <2>4. \A n \in HeardOf(r)' + 1 .. tasks'[i].n - 1 :
          n \in HeardOf(r) + 1 .. tasks[i].n - 1 /\ n \in HeardOf(r)' + 1 .. GivenTo(r)'
    <3>1. PICK k : k = tasks[i].n
      OBVIOUS
    <3>2. tasks' = tasks /\ k \in 0 .. GivenTo(r)
      BY <1>3, <3>1
    <3>3. PICK h \in HeardOf(r) + 1 .. GivenTo(r) : h = HeardOf(r)'
      BY Zenon
    <3>4. \A n \in h + 1 .. k - 1 : n \in HeardOf(r) + 1 .. k - 1 /\ n \in h + 1 .. GivenTo(r)
      BY <3>2, <3>3, RangesBehind, SMTT(30)
    <3> QED
      BY <3>1, <3>2, <3>3, <3>4, Zenon
  <2>5. \A n \in HeardOf(r)' + 1 .. tasks'[i].n - 1 :
          Sent(r.context, r.rid, n)' \/ PostedBefore(info.id, n, i)'
    BY <1>2, <2>1, <2>4 DEF SuccessFits
  <2> QED
    BY <2>2, <2>3, <2>5 DEF SuccessFits
<1>4. \A n \in HeardOf(r)' + 1 .. GivenTo(r)' : n \in HeardOf(r) + 1 .. GivenTo(r)
  OBVIOUS
<1>5. ASSUME NEW i \in 1 .. Len(tasks), IsGivenUp(i, info.id)
      PROVE  GivenUpFits(r, info, i)'
  <2>1. GivenUpFits(r, info, i)
    BY <1>5 DEF PostedFor
  <2> QED
    BY <1>2, <1>4, <2>1 DEF GivenUpFits
<1>6. \A n \in HeardOf(r)' + 1 .. GivenTo(r)' : Sent(r.context, r.rid, n)' \/ Posted(info.id, n)'
  BY <1>2, <1>4 DEF PostedFor
<1> QED
  BY <1>1, <1>3, <1>5, <1>6 DEF PostedFor

LEMMA PageHearsKeeps ==
  ASSUME RouterInv, RouterInv', RequestInv, AnswerInv, NEW c \in Contexts, RendererReceives(c)
  PROVE  AnswerInv'
<1>1. PICK m : m = Head(down[c])
  OBVIOUS
<1>2. /\ UNCHANGED <<lastReq, up, valid, pending, callbacks, tasks>>
      /\ m = down[c][1] /\ 1 \in 1 .. Len(down[c]) /\ m \in Downward
      /\ \A i \in 1 .. Len(down'[c]) : i + 1 \in 1 .. Len(down[c]) /\ down'[c][i] = down[c][i + 1]
      /\ \A i \in 1 .. Len(down[c]) :
           i = 1 \/ (i - 1 \in 1 .. Len(down'[c]) /\ down'[c][i - 1] = down[c][i])
      /\ \A d \in Contexts : d # c => down'[d] = down[d]
  BY <1>1, WhatIsHeard
<1>3. \/ /\ UNCHANGED <<open, heard>>
         /\ \A r \in open : ~(r.context = c /\ r.rid = m.rid)
      \/ \E r \in open : r.context = c /\ r.rid = m.rid /\ ExecuteCallback(r, m)
  BY <1>1, WhatIsHeard
<1>4. /\ CallbacksAreApart /\ CallbacksAreAsked /\ SentAreApart /\ SentIsUnanswered
      /\ RequestsAreApart /\ QueriesFitCallbacks /\ HeardIsGiven /\ SentInOrder
      /\ TasksAreGiven /\ PostedInOrder
  BY DEF AnswerInv
<1>5. /\ CallbacksAreApart' /\ CallbacksAreAsked' /\ SentAreApart' /\ SentIsUnanswered'
      /\ QueriesFitCallbacks' /\ TasksAreGiven'
  <2>1. UNCHANGED <<lastReq, up, pending, callbacks, tasks>>
    BY <1>2
  <2>2. CallbacksAreApart' /\ CallbacksAreAsked' /\ QueriesFitCallbacks'
    BY <1>4, <2>1 DEF CallbacksAreApart, CallbacksAreAsked, QueriesFitCallbacks, AskedBy
  <2>3. SentAreApart' /\ SentIsUnanswered'
    BY <1>4, <2>1 DEF SentAreApart, SentIsUnanswered, IsQuery, AskedBy
  <2>4. TasksAreGiven'
    BY <1>4, <2>1 DEF TasksAreGiven, IsSuccess
  <2> QED
    BY <2>2, <2>3, <2>4
<1>6. SameGiven
  BY <1>2, SameCallbacks, GivenStays
\* Nothing changes for the requests that the message is not for.
<1>7. ASSUME NEW r \in open, ~(r.context = c /\ r.rid = m.rid), HeardOf(r)' = HeardOf(r)
      PROVE  /\ SentFor(r)'
             /\ \A info \in pending : Waits(r, info) => PostedFor(r, info)'
  <2>1. r.context \in Contexts /\ Len(down[r.context]) \in Nat
    BY StateTypes, AnswerTypes
  <2>2. SameFor(r) /\ SentFor(r)
    BY <1>4, <1>6, <1>7 DEF SameFor, SentInOrder, SameGiven, GivenTo, FailingFor, AskedBy
  <2>3. \E e \in {0, 1} : SentMove(r, e)
    <3>1. CASE r.context # c
      <4>1. down'[r.context] = down[r.context]
        BY <1>2, <2>1, <3>1
      <4>2. SentMove(r, 0)
        BY <2>1, <4>1 DEF SentMove
      <4> QED
        BY <4>2
    <3>2. CASE r.context = c
      <4>1. m.rid # r.rid
        BY <1>7, <3>2
      <4>2. SentMove(r, 1)
        BY <1>2, <3>2, <4>1 DEF SentMove, IsAnswer
      <4> QED
        BY <4>2
    <3> QED
      BY <3>1, <3>2
  <2>4. SentFor(r)' /\ \A n : Sent(r.context, r.rid, n)' <=> Sent(r.context, r.rid, n)
    BY <2>2, <2>3, SentStaysFor
  <2>5. ASSUME NEW info \in pending, Waits(r, info)
        PROVE  PostedFor(r, info)'
    <3>1. PostedFor(r, info)
      BY <1>4, <2>5 DEF PostedInOrder
    <3>2. PostedMove(info.id, 0)
      <4>1. Len(tasks) \in Nat
        BY InvIsParts, LenProperties DEF TaskInv, TaskTypes
      <4> QED
        BY <1>2, <4>1 DEF PostedMove
    <3> QED
      BY <2>2, <2>4, <3>1, <3>2, PostedStaysFor
  <2> QED
    BY <2>4, <2>5
<1>8. ASSUME UNCHANGED <<open, heard>>, \A r \in open : ~(r.context = c /\ r.rid = m.rid)
      PROVE  AnswerInv'
  <2>1. RequestsAreApart' /\ HeardIsGiven'
    BY <1>4, <1>6, <1>8, HeardStays DEF RequestsAreApart, AskedBy
  <2>2. \A r \in open : HeardOf(r)' = HeardOf(r)
    BY <1>8 DEF HeardOf, AskedBy
  <2>3. SentInOrder' /\ PostedInOrder'
    BY <1>2, <1>7, <1>8, <2>2 DEF SentInOrder, PostedInOrder, Waits
  <2> QED
    BY <1>5, <2>1, <2>3 DEF AnswerInv
<1>9. ASSUME NEW s \in open, s.context = c, s.rid = m.rid, ExecuteCallback(s, m)
      PROVE  AnswerInv'
  <2>1. PICK q : q = AskedBy(s.context, s.rid)
    OBVIOUS
  <2>2. /\ open' = IF m.result = "success" /\ s.persistent THEN open ELSE open \ {s}
        /\ heard' = [heard EXCEPT ![q] =
             [got |-> IF m.result = "success" THEN m.n ELSE @.got,
              failed |-> @.failed \/ m.result = "failure"]]
    BY <1>9, <2>1 DEF ExecuteCallback, AskedBy
  <2>3. q \in Queries /\ heard \in [Queries -> [got : 0 .. MaxAnswers, failed : BOOLEAN]]
    BY <2>1, HeardTypes, InvIsParts DEF RendererTypes
  <2>4. /\ \A x \in Queries : x # q => heard'[x] = heard[x]
        /\ m.result = "success" => heard'[q].got = m.n
        /\ m.result # "success" => heard'[q].got = heard[q].got
    BY <2>2, <2>3
  <2>5. open' \subseteq open /\ (s \in open' => m.result = "success")
    BY <2>2
  <2>6. RequestsAreApart'
    BY <1>4, <2>5 DEF RequestsAreApart, AskedBy
  <2>7. /\ HeardOf(s) \in Nat /\ GivenTo(s) \in Nat /\ GivenTo(s) = Given(q)
        /\ GivenTo(s)' = GivenTo(s) /\ (FailingFor(s)' <=> FailingFor(s))
    BY <1>6, <2>1, HeardTypes DEF SameGiven, GivenTo, FailingFor, AskedBy
  <2>8. ASSUME m.result = "success"
        PROVE  IsAnswer(s.context, 1, s.rid) /\ m.n = HeardOf(s) + 1 /\ m.n <= GivenTo(s)
    <3>1. IsAnswer(s.context, 1, s.rid)
      BY <1>2, <1>9, <2>8 DEF IsAnswer
    <3> QED
      BY <1>2, <1>4, <1>9, <3>1, FirstAnswerFits
  <2>9. HeardIsGiven'
    <3> SUFFICES ASSUME NEW x \in Queries
                 PROVE  heard'[x].got <= Given(x)'
      BY DEF HeardIsGiven
    <3>1. Given(x)' = Given(x) /\ heard[x].got <= Given(x)
      BY <1>4, <1>6 DEF SameGiven, HeardIsGiven
    <3>2. CASE x = q
      BY <2>4, <2>7, <2>8, <3>1, <3>2
    <3>3. CASE x # q
      BY <2>4, <3>1, <3>3
    <3> QED
      BY <3>2, <3>3
  <2>10. ASSUME NEW r \in open, r # s
         PROVE  ~(r.context = c /\ r.rid = m.rid) /\ HeardOf(r)' = HeardOf(r)
    <3>1. AskedBy(r.context, r.rid) # q
      BY <1>4, <2>1, <2>10 DEF RequestsAreApart
    <3>2. AskedBy(r.context, r.rid) \in Queries
      BY HeardTypes
    <3> QED
      BY <1>9, <2>1, <2>4, <3>1, <3>2 DEF HeardOf, AskedBy
  <2>11. ASSUME s \in open'
         PROVE  /\ SentFor(s)'
                /\ \A info \in pending : Waits(s, info) => PostedFor(s, info)'
    <3>1. IsAnswer(s.context, 1, s.rid) /\ HeardOf(s)' = down[s.context][1].n
      BY <1>2, <1>9, <2>1, <2>4, <2>5, <2>8, <2>11 DEF HeardOf, AskedBy
    <3>2. SentFor(s)
      BY <1>4 DEF SentInOrder
    <3>3. /\ SentFor(s)' /\ HeardOf(s)' \in HeardOf(s) + 1 .. GivenTo(s)
          /\ \A n : Sent(s.context, s.rid, n)' => Sent(s.context, s.rid, n)
          /\ \A n \in HeardOf(s)' + 1 .. GivenTo(s)' :
               Sent(s.context, s.rid, n) => Sent(s.context, s.rid, n)'
      BY <1>2, <1>9, <2>7, <3>1, <3>2, SentHeardFor
    <3>4. ASSUME NEW info \in pending, Waits(s, info)
          PROVE  PostedFor(s, info)'
      <4>1. PostedFor(s, info)
        BY <1>4, <3>4 DEF PostedInOrder
      <4>2. \A i \in 1 .. Len(tasks) : IsSuccess(i, info.id) => tasks[i].n \in 0 .. GivenTo(s)
        <5>1. callbacks[info.id].query = q /\ info.id \in 1 .. Len(callbacks)
          BY <1>4, <2>1, <3>4 DEF QueriesFitCallbacks, Waits, RouterInv, IdsAreOwn
        <5>2. Given(q) = callbacks[info.id].given
          BY <1>4, <5>1, GivenIs
        <5>3. \A i \in 1 .. Len(tasks) :
                IsSuccess(i, info.id) => tasks[i].n \in 1 .. callbacks[info.id].given
          BY <1>4 DEF TasksAreGiven, IsSuccess
        <5> QED
          BY <2>7, <5>2, <5>3
      <4> QED
        BY <1>2, <1>4, <1>9, <2>7, <3>1, <3>3, <4>1, <4>2, PostedHeardFor
    <3> QED
      BY <3>3, <3>4
  <2>12. SentInOrder' /\ PostedInOrder'
    <3>1. \A r \in open' : /\ SentFor(r)'
                           /\ \A info \in pending : Waits(r, info) => PostedFor(r, info)'
      BY <1>7, <2>5, <2>10, <2>11
    <3> QED
      BY <1>2, <3>1 DEF SentInOrder, PostedInOrder, Waits
  <2> QED
    BY <1>5, <2>6, <2>9, <2>12 DEF AnswerInv
<1> QED
  BY <1>3, <1>8, <1>9

-----------------------------------------------------------------------------
(* The invariant of the answers *)

LEMMA AnswersKept ==
  ASSUME RouterInv, RouterInv', RequestInv, AnswerInv, [Next]_vars
  PROVE  AnswerInv'
<1>1. CASE JavaScript
  BY <1>1, AskKeepsAnswers, CancelQueryLoses, LosesKeeps, PagesAct
<1>2. CASE Client
  BY <1>2, AnswerGives, GivesKeeps, ClientLoses, LosesKeeps
<1>3. CASE Content
  BY <1>3, ContentLoses, LosesKeeps
<1>4. ASSUME NEW c \in Contexts, OnProcessMessageReceived(c)
      PROVE  AnswerInv'
  <2>1. CASE Head(up[c]).type = "cancel" \/ UNCHANGED <<pending, callbacks>>
    BY <1>4, <2>1, MessageLoses, LosesKeeps
  <2>2. CASE Head(up[c]).type # "cancel" /\ ~UNCHANGED <<pending, callbacks>>
    BY <1>4, <2>2, MessageTakes, TakesKeeps DEF AnswerInv
  <2> QED
    BY <2>1, <2>2
<1>5. CASE RunTask
  BY <1>5, TaskLoses, LosesKeeps, CompletesKeeps
<1>6. CASE Delivery
  BY <1>4, <1>5, <1>6, PageHearsKeeps DEF Delivery
<1>7. CASE UNCHANGED vars
  <2>1. UNCHANGED <<lastReq, heard, callbacks, tasks, pending, open, up, down, valid>>
    BY <1>7 DEF vars, rendererVars, contentVars, routerVars
  <2>2. \A r \in open : r.context \in Contexts
    BY StateTypes
  <2>3. Loses
    BY <2>1, <2>2, EndsLoses
  <2> QED
    BY <2>3, LosesKeeps
<1> QED
  BY <1>1, <1>2, <1>3, <1>6, <1>7 DEF Next

LEMMA AnswersStart ==
  ASSUME Init
  PROVE  AnswerInv
<1>1. /\ open = {} /\ pending = {} /\ callbacks = <<>> /\ tasks = <<>>
      /\ \A c \in Contexts : up[c] = <<>> /\ down[c] = <<>>
      /\ \A q \in Queries : heard[q].got = 0
  BY DEF Init
<1>2. Len(<<>>) = 0 /\ 1 .. 0 = {}
  OBVIOUS
<1>3. RouterInv
  BY InitKeeps
<1>4. CallbacksAreApart /\ CallbacksAreAsked /\ TasksAreGiven
  BY <1>1, <1>2 DEF CallbacksAreApart, CallbacksAreAsked, TasksAreGiven
<1>5. SentAreApart /\ SentIsUnanswered
  BY <1>1, <1>2 DEF SentAreApart, SentIsUnanswered
<1>6. RequestsAreApart /\ QueriesFitCallbacks /\ SentInOrder /\ PostedInOrder
  BY <1>1 DEF RequestsAreApart, QueriesFitCallbacks, SentInOrder, PostedInOrder
<1>7. HeardIsGiven
  <2>1. \A q : Given(q) \in 0 .. MaxAnswers
    BY <1>3, GivenTypes
  <2>2. MaxAnswers \in Nat
    BY RouterAssumption DEF RouterAssumption
  <2> QED
    BY <1>1, <2>1, <2>2 DEF HeardIsGiven
<1> QED
  BY <1>4, <1>5, <1>6, <1>7 DEF AnswerInv

\* In every reachable state the answers of a handler are on their way to the page
\* in the order they were given, none is missing between them and none comes
\* twice, while the page waits and can be told; its failure comes behind them.
THEOREM AnswersStayOrdered == Spec => []AnswerInv
<1>1. RouterInv /\ RouterInv' /\ RequestInv /\ AnswerInv /\ [Next]_vars => AnswerInv'
  BY AnswersKept
<1>2. Init => AnswerInv
  BY AnswersStart
<1> QED
  BY <1>1, <1>2, RouterCorrect, RequestsFit, PTL DEF Spec

-----------------------------------------------------------------------------
(* The router implements QueryPromise. *)

SameHeard == \A q \in Queries : /\ heard'[q].got = heard[q].got
                                /\ heard'[q].failed = heard[q].failed

SamePhases == \A q \in Queries : Phase(q)' = Phase(q)

\* What a step of the router is in QueryPromise, from what it does to the queries.
LEMMA StepAsks ==
  ASSUME NEW q \in Queries, NEW kind \in {"once", "persistent"}, Phase(q) = "new",
         \A x \in Queries : Phase(x)' = IF x = q THEN kind ELSE Phase(x), SameGiven, SameHeard
  PROVE  Promise!Next
<1>1. Promise!Ask(q, kind)
  BY DEF Promise!Ask, SameGiven, SameHeard, Failing
<1> QED
  BY <1>1 DEF Promise!Next

LEMMA StepAnswers ==
  ASSUME NEW q \in Queries, SamePhases, SameHeard, Phase(q) # "new", ~Failing(q),
         Given(q) < MaxAnswers, Given(q)' = Given(q) + 1,
         \A x \in Queries : x # q => Given(x)' = Given(x),
         \A x \in Queries : Failing(x)' <=> Failing(x)
  PROVE  Promise!Next
<1>1. Promise!Answer(q)
  BY DEF Promise!Answer, SamePhases, SameHeard, Failing
<1> QED
  BY <1>1 DEF Promise!Next

LEMMA StepFails ==
  ASSUME NEW q \in Queries, SamePhases, SameHeard, Phase(q) # "new", ~Failing(q), Failing(q)',
         \A x \in Queries : Given(x)' = Given(x),
         \A x \in Queries : x # q => (Failing(x)' <=> Failing(x))
  PROVE  Promise!Next
<1>1. Promise!Fail(q)
  BY DEF Promise!Fail, SamePhases, SameHeard, Failing
<1> QED
  BY <1>1 DEF Promise!Next

LEMMA StepDelivers ==
  ASSUME NEW q \in Queries, SameGiven, Phase(q) \in {"once", "persistent"},
         \A x \in Queries :
           Phase(x)' = IF x = q /\ Phase(q) = "once" THEN "ended" ELSE Phase(x),
         heard[q].got < Given(q), heard'[q].got = heard[q].got + 1,
         \A x \in Queries : x # q => heard'[x].got = heard[x].got,
         \A x \in Queries : heard'[x].failed = heard[x].failed
  PROVE  Promise!Next
<1>1. Promise!Deliver(q)
  BY DEF Promise!Deliver, Promise!Open, SameGiven, Failing
<1> QED
  BY <1>1 DEF Promise!Next

LEMMA StepDeliversFailure ==
  ASSUME NEW q \in Queries, SameGiven, Phase(q) \in {"once", "persistent"},
         \A x \in Queries : Phase(x)' = IF x = q THEN "ended" ELSE Phase(x),
         Failing(q), heard[q].got = Given(q), heard'[q].failed = TRUE,
         \A x \in Queries : x # q => heard'[x].failed = heard[x].failed,
         \A x \in Queries : heard'[x].got = heard[x].got
  PROVE  Promise!Next
<1>1. Promise!DeliverFailure(q)
  BY DEF Promise!DeliverFailure, Promise!Open, SameGiven, Failing
<1> QED
  BY <1>1 DEF Promise!Next

LEMMA StepCancels ==
  ASSUME NEW gone \in SUBSET Queries, \A q \in gone : Phase(q) \in {"once", "persistent"},
         \A q \in Queries : Phase(q)' = IF q \in gone THEN "ended" ELSE Phase(q),
         SameGiven, SameHeard
  PROVE  Promise!Next
<1>1. Promise!Cancel(gone)
  BY DEF Promise!Cancel, Promise!Open, SameGiven, SameHeard, Failing
<1> QED
  BY <1>1 DEF Promise!Next

\* A query waits with one request at most, and only when it was asked.
LEMMA WaitsWithOne ==
  ASSUME RouterInv, RequestInv, RequestsAreApart, NEW r \in open,
         NEW q, q = AskedBy(r.context, r.rid)
  PROVE  /\ Waiting(q) = {r} /\ q \in Queries /\ q[2] <= lastReq[q[1]]
         /\ Phase(q) = IF r.persistent THEN "persistent" ELSE "once"
<1>1. Waiting(q) = {r}
  BY DEF Waiting, RequestsAreApart, AskedBy
<1>2. q \in Queries
  BY HeardTypes
<1>3. r.rid <= LastReq(r.context)
  BY DEF RequestInv, Names, RequestsNameContext
<1>4. q[1] = ProcOf[r.context] /\ q[2] = r.rid
  BY DEF AskedBy
<1>5. q[2] <= lastReq[q[1]]
  BY <1>3, <1>4 DEF LastReq
<1>6. ~(q[2] > lastReq[q[1]])
  <2>1. lastReq[q[1]] \in Nat /\ q[2] \in Nat
    BY <1>2, StateTypes DEF Queries
  <2> QED
    BY <1>5, <2>1
<1>7. Phase(q) = IF r.persistent THEN "persistent" ELSE "once"
  BY <1>1, <1>6 DEF Phase
<1> QED
  BY <1>1, <1>2, <1>5, <1>7

LEMMA WaitingIsAsked ==
  ASSUME RouterInv, RequestInv, RequestsAreApart, NEW q, Waiting(q) # {}
  PROVE  \E r \in open : /\ q = AskedBy(r.context, r.rid) /\ Waiting(q) = {r}
                         /\ q[2] <= lastReq[q[1]] /\ Phase(q) \in {"once", "persistent"}
<1>1. PICK r \in open : <<ProcOf[r.context], r.rid>> = q
  BY DEF Waiting
<1>2. q = AskedBy(r.context, r.rid)
  BY <1>1 DEF AskedBy
<1> QED
  BY <1>2, WaitsWithOne

\* What ends when requests do.
LEMMA PhasesEnd ==
  ASSUME RouterInv, RequestInv, RequestsAreApart, UNCHANGED lastReq, open' \subseteq open
  PROVE  \A q \in Queries :
           /\ Phase(q)' = IF Waiting(q) # {} /\ Waiting(q)' = {} THEN "ended" ELSE Phase(q)
           /\ Waiting(q) # {} => Phase(q) \in {"once", "persistent"}
<1> SUFFICES ASSUME NEW q \in Queries
             PROVE  /\ Phase(q)' = IF Waiting(q) # {} /\ Waiting(q)' = {} THEN "ended"
                                   ELSE Phase(q)
                    /\ Waiting(q) # {} => Phase(q) \in {"once", "persistent"}
  OBVIOUS
<1>1. Waiting(q)' \subseteq Waiting(q)
  BY DEF Waiting
<1>2. CASE Waiting(q) = {}
  <2>1. Waiting(q)' = Waiting(q)
    BY <1>1, <1>2
  <2> QED
    BY <1>2, <2>1 DEF Phase
<1>3. CASE Waiting(q) # {}
  <2>1. PICK r \in open : /\ Waiting(q) = {r} /\ q[2] <= lastReq[q[1]]
                          /\ Phase(q) \in {"once", "persistent"}
    BY <1>3, WaitingIsAsked
  <2>2. ~(q[2] > lastReq[q[1]])
    <3>1. lastReq[q[1]] \in Nat /\ q[2] \in Nat
      BY StateTypes DEF Queries
    <3> QED
      BY <2>1, <3>1
  <2>3. CASE Waiting(q)' = {}
    BY <1>3, <2>1, <2>2, <2>3 DEF Phase
  <2>4. CASE Waiting(q)' # {}
    <3>1. Waiting(q)' = Waiting(q)
      BY <1>1, <2>1, <2>4
    <3> QED
      BY <2>1, <2>4, <3>1 DEF Phase
  <2> QED
    BY <2>1, <2>3, <2>4
<1> QED
  BY <1>2, <1>3

\* A step that answers nothing cancels the queries it ends, if any.
LEMMA QuietStep ==
  ASSUME RouterInv, RouterInv', RequestInv, RequestsAreApart, UNCHANGED <<lastReq, heard>>,
         open' \subseteq open, SameAnswers
  PROVE  Promise!Next
<1> DEFINE gone == {q \in Queries : Waiting(q) # {} /\ Waiting(q)' = {}}
<1>1. SameGiven /\ SameHeard
  BY GivenStays DEF SameHeard
<1>2. /\ \A q \in gone : Phase(q) \in {"once", "persistent"}
      /\ \A q \in Queries : Phase(q)' = IF q \in gone THEN "ended" ELSE Phase(q)
      /\ gone \in SUBSET Queries
  BY PhasesEnd
<1> HIDE DEF gone
<1> QED
  BY <1>1, <1>2, StepCancels

LEMMA QueryStep ==
  ASSUME RouterInv, RouterInv', RequestInv, AnswerInv,
         NEW c \in Contexts, NEW persistent \in BOOLEAN, Query(c, persistent)
  PROVE  Promise!Next
<1> DEFINE rid == LastReq(c) + 1
           new == [context |-> c, rid |-> rid, persistent |-> persistent]
<1>1. /\ UNCHANGED <<heard, callbacks>> /\ open' = open \cup {new} /\ LastReq(c) < MaxQuery
      /\ lastReq' = [lastReq EXCEPT ![ProcOf[c]] = rid]
  BY DEF Query, NextRequestId, LastReq, routerVars
<1>2. /\ rid \in 1 .. MaxQuery /\ LastReq(c) \in Nat /\ ProcOf[c] \in Procs
      /\ lastReq \in [Procs -> 0 .. MaxQuery] /\ LastReq(c) = lastReq[ProcOf[c]]
  BY <1>1, SentTypes, StateTypes DEF LastReq
<1>3. new.context = c /\ new.rid = rid /\ new.persistent = persistent
  OBVIOUS
<1> HIDE DEF new
<1>4. SameGiven /\ SameHeard
  BY <1>1, SameCallbacks, GivenStays DEF SameHeard
<1>5. PICK q : q = AskedBy(c, rid)
  OBVIOUS
<1>6. q \in Queries /\ q[1] = ProcOf[c] /\ q[2] = rid
  BY <1>2, <1>5 DEF AskedBy, Queries
<1>7. Phase(q) = "new"
  <2>1. q[2] > lastReq[q[1]]
    BY <1>2, <1>6
  <2> QED
    BY <2>1 DEF Phase
<1>8. Waiting(q) = {}
  <2>1. ASSUME Waiting(q) # {}
        PROVE  FALSE
    <3>1. q[2] <= lastReq[q[1]]
      BY <2>1, WaitingIsAsked DEF AnswerInv
    <3> QED
      BY <1>2, <1>6, <3>1
  <2> QED
    BY <2>1
<1>9. Waiting(q)' = {new}
  BY <1>1, <1>3, <1>5, <1>8 DEF Waiting, AskedBy
<1>10. Phase(q)' = IF persistent THEN "persistent" ELSE "once"
  <2>1. lastReq'[q[1]] = rid /\ ~(q[2] > lastReq'[q[1]])
    BY <1>1, <1>2, <1>6
  <2> QED
    BY <1>3, <1>9, <2>1 DEF Phase
<1>11. ASSUME NEW x \in Queries, x # q
       PROVE  Phase(x)' = Phase(x)
  <2>1. Waiting(x)' = Waiting(x)
    BY <1>1, <1>3, <1>5, <1>11 DEF Waiting, AskedBy
  <2>2. x[2] > lastReq'[x[1]] <=> x[2] > lastReq[x[1]]
    <3>1. CASE x[1] = ProcOf[c]
      <4>1. x[2] \in Nat /\ x = <<x[1], x[2]>>
        BY StateTypes DEF Queries
      <4>2. x[2] # rid
        BY <1>5, <1>11, <3>1, <4>1 DEF AskedBy
      <4>3. lastReq'[x[1]] = rid /\ lastReq[x[1]] = LastReq(c)
        BY <1>1, <1>2, <3>1
      <4> QED
        BY <1>2, <4>1, <4>2, <4>3
    <3>2. CASE x[1] # ProcOf[c]
      BY <1>1, <1>2, <3>2
    <3> QED
      BY <3>1, <3>2
  <2> QED
    BY <2>1, <2>2 DEF Phase
<1>12. PICK kind \in {"once", "persistent"} : Phase(q)' = kind
  BY <1>10
<1> QED
  BY <1>4, <1>6, <1>7, <1>11, <1>12, StepAsks

LEMMA HandlerStep ==
  ASSUME RouterInv, RouterInv', AnswerInv, NEW id, Gives(id)
  PROVE  Promise!Next
<1>1. PICK q : q = callbacks[id].query
  OBVIOUS
<1>2. /\ UNCHANGED <<lastReq, heard, open>> /\ id \in 1 .. Len(callbacks)
      /\ \/ callbacks'[id].given = callbacks[id].given + 1 /\ ~callbacks'[id].failing
         \/ callbacks'[id].given = callbacks[id].given /\ callbacks'[id].failing
      /\ Len(callbacks') = Len(callbacks)
  BY DEF Gives, rendererVars
<1>3. CallbacksAreApart /\ CallbacksAreAsked
  BY DEF AnswerInv
<1>4. /\ \A x \in Queries : x # q => Given(x)' = Given(x) /\ (Failing(x)' <=> Failing(x))
      /\ Given(q) = callbacks[id].given /\ Given(q)' = callbacks'[id].given
      /\ ~Failing(q) /\ (Failing(q)' <=> callbacks'[id].failing)
  BY <1>1, <1>3, GivenAfter
<1>5. SameHeard /\ SamePhases
  BY <1>2 DEF SameHeard, SamePhases, Phase, Waiting
<1>6. q \in Queries /\ callbacks[id].given \in Nat /\ callbacks'[id].given \in 0 .. MaxAnswers
  <2>1. callbacks' \in Seq(CallbackImpl)
    BY InvIsPartsNext DEF QueryInv, TableTypes
  <2>2. callbacks'[id] \in CallbackImpl
    BY <1>2, <2>1, ElementOfSeq
  <2> QED
    BY <1>1, <1>2, <2>2, CallbackTypes DEF CallbackImpl
<1>7. Phase(q) # "new"
  <2>1. q[2] <= lastReq[q[1]]
    BY <1>1, <1>2, <1>3 DEF CallbacksAreAsked
  <2>2. lastReq[q[1]] \in Nat /\ q[2] \in Nat
    BY <1>6, StateTypes DEF Queries
  <2>3. ~(q[2] > lastReq[q[1]])
    BY <2>1, <2>2
  <2> QED
    BY <2>3 DEF Phase
<1>8. CASE callbacks'[id].given = callbacks[id].given + 1 /\ ~callbacks'[id].failing
  <2>1. Given(q)' = Given(q) + 1 /\ Given(q) < MaxAnswers
    BY <1>4, <1>6, <1>8, CallbackTypes
  <2>2. \A x \in Queries : Failing(x)' <=> Failing(x)
    BY <1>4, <1>8
  <2> QED
    BY <1>4, <1>5, <1>6, <1>7, <2>1, <2>2, StepAnswers
<1>9. CASE callbacks'[id].given = callbacks[id].given /\ callbacks'[id].failing
  <2>1. \A x \in Queries : Given(x)' = Given(x)
    BY <1>4, <1>9
  <2> QED
    BY <1>4, <1>5, <1>6, <1>7, <1>9, <2>1, StepFails
<1> QED
  BY <1>2, <1>8, <1>9

LEMMA PageStep ==
  ASSUME RouterInv, RouterInv', RequestInv, AnswerInv, NEW c \in Contexts, RendererReceives(c)
  PROVE  Promise!Next
<1>1. PICK m : m = Head(down[c])
  OBVIOUS
<1>2. /\ UNCHANGED <<lastReq, callbacks>>
      /\ m = down[c][1] /\ 1 \in 1 .. Len(down[c]) /\ m \in Downward
      /\ \/ UNCHANGED <<open, heard>>
         \/ \E r \in open : r.context = c /\ r.rid = m.rid /\ ExecuteCallback(r, m)
  BY <1>1, WhatIsHeard
<1>3. SameAnswers /\ SameGiven /\ RequestsAreApart /\ SentInOrder /\ HeardIsGiven
  BY <1>2, SameCallbacks, GivenStays DEF AnswerInv
<1>4. CASE UNCHANGED <<open, heard>>
  BY <1>2, <1>3, <1>4, QuietStep
<1>5. ASSUME NEW r \in open, r.context = c, r.rid = m.rid, ExecuteCallback(r, m)
      PROVE  Promise!Next
  <2>1. PICK q : q = AskedBy(r.context, r.rid)
    OBVIOUS
  <2>2. /\ open' = IF m.result = "success" /\ r.persistent THEN open ELSE open \ {r}
        /\ heard' = [heard EXCEPT ![q] =
             [got |-> IF m.result = "success" THEN m.n ELSE @.got,
              failed |-> @.failed \/ m.result = "failure"]]
    BY <1>5, <2>1 DEF ExecuteCallback, AskedBy
  <2>3. /\ Waiting(q) = {r} /\ q \in Queries
        /\ Phase(q) = IF r.persistent THEN "persistent" ELSE "once"
    BY <1>3, <2>1, WaitsWithOne
  <2>4. heard \in [Queries -> [got : 0 .. MaxAnswers, failed : BOOLEAN]]
    BY InvIsParts DEF RendererTypes
  <2>5. /\ \A x \in Queries : x # q => heard'[x] = heard[x]
        /\ heard'[q].got = IF m.result = "success" THEN m.n ELSE heard[q].got
        /\ heard'[q].failed = (heard[q].failed \/ m.result = "failure")
    BY <2>2, <2>3, <2>4
  <2>6. \A x \in Queries : x # q => Waiting(x)' = Waiting(x)
    <3>1. \A x \in Queries : x # q => <<ProcOf[r.context], r.rid>> # x
      BY <2>1 DEF AskedBy
    <3>2. \A y : y \in open' <=> y \in open /\ (y # r \/ (m.result = "success" /\ r.persistent))
      BY <2>2
    <3> QED
      BY <3>1, <3>2 DEF Waiting
  <2>7. open' \subseteq open
    BY <2>2
  <2>8. \A x \in Queries :
          Phase(x)' = IF Waiting(x) # {} /\ Waiting(x)' = {} THEN "ended" ELSE Phase(x)
    BY <1>2, <1>3, <2>7, PhasesEnd
  <2>9. \A x \in Queries : x # q => Phase(x)' = Phase(x)
    BY <2>6, <2>8
  <2>10. Waiting(q)' = IF m.result = "success" /\ r.persistent THEN {r} ELSE {}
    <3>1. CASE m.result = "success" /\ r.persistent
      <4>1. open' = open
        BY <2>2, <3>1
      <4> QED
        BY <2>3, <3>1, <4>1 DEF Waiting
    <3>2. CASE ~(m.result = "success" /\ r.persistent)
      <4>1. open' = open \ {r}
        BY <2>2, <3>2
      <4> QED
        BY <2>3, <3>2, <4>1 DEF Waiting
    <3> QED
      BY <3>1, <3>2
  <2>11. Phase(q)' = IF m.result = "success" /\ r.persistent THEN Phase(q) ELSE "ended"
    BY <2>3, <2>8, <2>10
  <2>12. r.context \in Contexts /\ GivenTo(r) = Given(q) /\ HeardOf(r) = heard[q].got
         /\ (FailingFor(r) <=> Failing(q)) /\ heard[q].got \in Nat /\ Given(q) \in Nat
    BY <2>1, StateTypes, HeardTypes DEF GivenTo, HeardOf, FailingFor
  <2>13. CASE m.result = "success"
    <3>1. IsAnswer(r.context, 1, r.rid)
      BY <1>2, <1>5, <2>13 DEF IsAnswer
    <3>2. m.n = HeardOf(r) + 1 /\ HeardOf(r) + 1 <= GivenTo(r)
      BY <1>2, <1>3, <1>5, <3>1, FirstAnswerFits
    <3>3. heard[q].got < Given(q) /\ heard'[q].got = heard[q].got + 1
      BY <2>5, <2>12, <2>13, <3>2
    <3>4. \A x \in Queries : heard'[x].failed = heard[x].failed
      <4>1. heard'[q].failed = heard[q].failed
        BY <2>3, <2>4, <2>5, <2>13
      <4> QED
        BY <2>5, <4>1
    <3>5. \A x \in Queries : x # q => heard'[x].got = heard[x].got
      BY <2>5
    <3>6. \A x \in Queries :
            Phase(x)' = IF x = q /\ Phase(q) = "once" THEN "ended" ELSE Phase(x)
      BY <2>3, <2>9, <2>11, <2>13
    <3>7. Phase(q) \in {"once", "persistent"}
      BY <2>3
    <3> QED
      BY <1>3, <2>3, <3>3, <3>4, <3>5, <3>6, <3>7, StepDelivers
  <2>14. CASE m.result = "failure"
    <3>1. IsFailure(r.context, 1, r.rid)
      BY <1>2, <1>5, <2>14 DEF IsFailure
    <3>2. FailingFor(r) /\ GivenTo(r) <= HeardOf(r)
      BY <1>2, <1>3, <1>5, <3>1, FirstAnswerFits
    <3>3. Failing(q) /\ heard[q].got = Given(q)
      <4>1. heard[q].got <= Given(q)
        BY <1>3, <2>3 DEF HeardIsGiven
      <4> QED
        BY <2>12, <3>2, <4>1
    <3>4. heard'[q].failed = TRUE
      BY <2>5, <2>14
    <3>5. /\ \A x \in Queries : x # q => heard'[x].failed = heard[x].failed
          /\ \A x \in Queries : heard'[x].got = heard[x].got
      BY <2>5, <2>14
    <3>6. \A x \in Queries : Phase(x)' = IF x = q THEN "ended" ELSE Phase(x)
      BY <2>9, <2>11, <2>14
    <3>7. Phase(q) \in {"once", "persistent"}
      BY <2>3
    <3> QED
      BY <1>3, <2>3, <3>3, <3>4, <3>5, <3>6, <3>7, StepDeliversFailure
  <2>15. CASE m.result = "canceled"
    <3>1. heard'[q].failed = heard[q].failed /\ heard'[q].got = heard[q].got
      BY <2>3, <2>4, <2>5, <2>15
    <3>2. SameHeard
      BY <2>5, <3>1 DEF SameHeard
    <3>3. \A x \in Queries : Phase(x)' = IF x \in {q} THEN "ended" ELSE Phase(x)
      BY <2>9, <2>11, <2>15
    <3>4. \A x \in {q} : Phase(x) \in {"once", "persistent"}
      BY <2>3
    <3>5. {q} \in SUBSET Queries
      BY <2>3
    <3> QED
      BY <1>3, <3>2, <3>3, <3>4, <3>5, StepCancels
  <2> QED
    BY <1>2, <2>13, <2>14, <2>15 DEF Downward
<1> QED
  BY <1>2, <1>4, <1>5

LEMMA PromiseSteps ==
  ASSUME RouterInv, RouterInv', RequestInv, AnswerInv, [Next]_vars
  PROVE  Promise!Next
<1>1. RequestsAreApart /\ SentIsUnanswered
  BY DEF AnswerInv
<1>2. ASSUME Loses
      PROVE  Promise!Next
  BY <1>1, <1>2, QuietStep DEF Loses
<1>3. CASE JavaScript
  BY <1>2, <1>3, QueryStep, CancelQueryLoses, PagesAct
<1>4. CASE Client
  BY <1>2, <1>4, AnswerGives, HandlerStep, ClientLoses
<1>5. CASE Content
  BY <1>2, <1>5, ContentLoses
<1>6. ASSUME NEW c \in Contexts, OnProcessMessageReceived(c)
      PROVE  Promise!Next
  <2>1. CASE Head(up[c]).type = "cancel" \/ UNCHANGED <<pending, callbacks>>
    BY <1>2, <1>6, <2>1, MessageLoses
  <2>2. CASE Head(up[c]).type # "cancel" /\ ~UNCHANGED <<pending, callbacks>>
    <3>1. Takes(c)
      BY <1>1, <1>6, <2>2, MessageTakes
    <3> QED
      BY <1>1, <3>1, QuietStep DEF Takes, rendererVars
  <2> QED
    BY <2>1, <2>2
<1>7. CASE RunTask
  <2>1. UNCHANGED <<lastReq, heard, open>>
    BY <1>7 DEF RunTask, rendererVars
  <2> QED
    BY <1>1, <1>2, <1>7, <2>1, TaskLoses, QuietStep
<1>8. CASE Delivery
  BY <1>6, <1>7, <1>8, PageStep DEF Delivery
<1>9. CASE UNCHANGED vars
  <2>1. UNCHANGED <<lastReq, heard, open, callbacks>>
    BY <1>9 DEF vars, rendererVars, routerVars
  <2> QED
    BY <1>1, <2>1, QuietStep, SameCallbacks
<1> QED
  BY <1>3, <1>4, <1>5, <1>8, <1>9 DEF Next

LEMMA PromiseStarts ==
  ASSUME Init
  PROVE  Promise!Init
<1>1. /\ open = {} /\ callbacks = <<>> /\ lastReq = [p \in Procs |-> 0]
      /\ heard = [q \in Queries |-> [got |-> 0, failed |-> FALSE]]
  BY DEF Init
<1>2. \A q \in Queries : Answers(q) = {}
  BY <1>1 DEF Answers
<1>3. \A q \in Queries : Phase(q) = "new"
  <2>1. \A q \in Queries : q[1] \in Procs /\ q[2] \in Nat \ {0}
    BY RouterAssumption DEF Queries, RouterAssumption
  <2>2. \A q \in Queries : q[2] > lastReq[q[1]]
    BY <1>1, <2>1
  <2> QED
    BY <2>2 DEF Phase
<1>4. \A q \in Queries : Given(q) = 0
  BY <1>2 DEF Given
<1> QED
  BY <1>1, <1>2, <1>3, <1>4 DEF Promise!Init

\* The router keeps the promise of QueryPromise to every page: whatever the
\* processes, messages and tasks in between do, the answers of the handler are
\* heard in order, each once and none skipped, the failure last, and nothing is
\* heard of a query that ended.
THEOREM RouterKeepsPromise == Spec => PromiseKept
<1>1. RouterInv /\ RouterInv' /\ RequestInv /\ AnswerInv /\ [Next]_vars
        => [Promise!Next]_(Promise!vars)
  BY PromiseSteps
<1>2. Init => Promise!Init
  BY PromiseStarts
<1> QED
  BY <1>1, <1>2, RouterCorrect, RequestsFit, AnswersStayOrdered, PTL
    DEF Spec, PromiseKept, Promise!Spec
=============================================================================
