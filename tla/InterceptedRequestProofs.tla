---------------------- MODULE InterceptedRequestProofs ----------------------
(***************************************************************************)
(* Requests, their loaders and the handlers that answer them, proved for any *)
(* number of loads, bytes, ranges and redirects, and every order of tasks,   *)
(* messages and answers.                                                     *)
(***************************************************************************)
EXTENDS InterceptedRequest, SequenceTheorems, TLAPS

-----------------------------------------------------------------------------
(* A load.                                                                   *)

WorkOps == {"open", "cancelOpen", "openAnswered", "detach", "skip", "skipMore",
            "skipAnswered", "read", "readAnswered"}
BackOps == {"opened", "openFailed", "process", "readResponse", "skipDone", "readDone"}

WorkTasks == [op : WorkOps, id : Int, n : Int, at : Int]
BackTasks == [op : BackOps, id : Int, n : Int, at : Int]
Messages  == [op : {"response", "redirect", "size", "complete"}, ok : BOOLEAN]
Callbacks == [op : {"open", "response", "skip", "read"}, id : Int]

LoadTypes ==
  [stage : Stages, first : Firsts \cup {NoRange}, stream : BOOLEAN,
   hdr : {"none", "ok", "redirect"}, out : Seq(Messages), body : Seq(Int),
   cb : BOOLEAN, canceled : BOOLEAN, pending : Int, next : Nat, left : 0 .. Size,
   work : Seq(WorkTasks), back : Seq(BackTasks),
   life : {"none", "attached", "detached", "canceled"}, at : 0 .. Size,
   held : SUBSET Callbacks, bad : {{}}]

\* The first byte the client gets.
Base(x) == IF x.first = NoRange THEN 0 ELSE x.first

\* Where the handler is when the client has all that was read.
InPlace(x)  == x.at = Base(x) + Len(x.body)
Skips(x)    == x.left >= 1 /\ x.at + x.left = x.first
Reads(x, t) == t.n > 0 => t.at = Base(x) + Len(x.body) /\ x.at = t.at + t.n

\* What stands for the skip or the read that is under way: a task that begins or
\* ends it, a callback or an answer that carries its number.
InWork(t, p)  == \/ t.op \in {"skip", "skipMore", "read"}
                 \/ t.op \in {"skipAnswered", "readAnswered"} /\ t.id = p
InBack(t)     == t.op \in {"readResponse", "skipDone", "readDone"}
InHand(cb, p) == cb.op \in {"response", "skip", "read"} /\ cb.id = p

HasWork(x) == \E k \in 1 .. Len(x.work) : InWork(x.work[k], x.pending)
HasBack(x) == \E k \in 1 .. Len(x.back) : InBack(x.back[k])
HasHand(x) == \E cb \in x.held : InHand(cb, x.pending)

\* There is one at most.
OneWay(x) ==
  /\ \A j, k \in 1 .. Len(x.work) :
       InWork(x.work[j], x.pending) /\ InWork(x.work[k], x.pending) => j = k
  /\ \A j, k \in 1 .. Len(x.back) : InBack(x.back[j]) /\ InBack(x.back[k]) => j = k
  /\ \A a, b \in x.held : InHand(a, x.pending) /\ InHand(b, x.pending) => a = b
  /\ ~(HasWork(x) /\ HasBack(x)) /\ ~(HasWork(x) /\ HasHand(x)) /\ ~(HasBack(x) /\ HasHand(x))
  /\ HasWork(x) \/ HasBack(x) \/ HasHand(x) =>
       x.stage \in {"skipping", "reading", "done"} /\ ~x.cb

Numbered(x, id) == 1 <= id /\ id <= x.next

WorkFits(x, t) ==
  /\ t.op = "skip" => x.pending = None /\ x.at = 0 /\ t.n = x.first /\ x.first # NoRange
  /\ t.op = "skipMore" => Skips(x)
  /\ t.op = "read" => x.pending = None /\ InPlace(x)
  /\ t.op \in {"skipAnswered", "readAnswered"} => Numbered(x, t.id)
  /\ t.op = "skipAnswered" /\ t.id = x.pending /\ t.n > 0 =>
       t.n <= x.left /\ x.at + x.left - t.n = x.first
  /\ t.op = "readAnswered" /\ t.id = x.pending => Reads(x, t)

BackFits(x, t) ==
  /\ t.op = "readResponse" => t.id = x.pending /\ Numbered(x, t.id) /\ InPlace(x)
  /\ t.op = "skipDone" => x.pending = None /\ (t.n = x.first => x.at = x.first)
  /\ t.op = "readDone" => x.pending = None /\ Reads(x, t)

HandFits(x, cb) ==
  /\ cb.op # "open" => Numbered(x, cb.id)
  /\ cb.op = "response" => cb.id = x.pending
  /\ cb.op = "skip" /\ cb.id = x.pending => Skips(x)
  /\ cb.op \in {"response", "read"} /\ cb.id = x.pending => InPlace(x)

StageFits(x) ==
  /\ x.pending = None \/ x.pending = x.next
  /\ x.cb => x.stage \in {"opening", "done"}
  /\ x.stage \in {"asking", "opening", "net"} => x.at = 0 /\ x.pending = None
  /\ x.stage \in {"answering", "responding", "ready"} /\ x.stream => x.pending = None
  /\ x.stage \in {"asking", "opening", "skipping", "answering", "responding", "net"} =>
       x.body = <<>>
  /\ x.stage = "skipping" => x.first # NoRange
  /\ x.stage \in {"answering", "responding", "ready"} /\ x.stream => InPlace(x)
  /\ x.stage = "net" => x.first = NoRange
  /\ x.stage = "none" => x.work = <<>> /\ x.back = <<>> /\ x.held = {}

BodyFits(x) == \A k \in 1 .. Len(x.body) : x.body[k] = k - 1 + Base(x)

LoadFits(x) ==
  /\ x \in LoadTypes
  /\ OneWay(x)
  /\ \A k \in 1 .. Len(x.work) : WorkFits(x, x.work[k])
  /\ \A k \in 1 .. Len(x.back) : BackFits(x, x.back[k])
  /\ \A cb \in x.held : HandFits(x, cb)
  /\ StageFits(x)
  /\ BodyFits(x)

-----------------------------------------------------------------------------
(* A request and what its client was told.                                   *)

Words == {"redirect", "response", "success", "failure", "follow"}

RequestTypes ==
  [life : Lives, load : 0 .. MaxLoads, via : {"none", "stream", "network"},
   paused : BOOLEAN, client : BOOLEAN, completed : BOOLEAN, gotError : BOOLEAN,
   limit : 0 .. RedirectLimit, rip : BOOLEAN, hredir : BOOLEAN, curh : 0 .. MaxLoads,
   hcb : BOOLEAN, only : BOOLEAN, cont : [to : Continuations, url : BOOLEAN],
   hop : BOOLEAN, tried : BOOLEAN, ready : BOOLEAN, down : BOOLEAN, state : BOOLEAN,
   handler : {"none", "handler", "scheme"}, completes : {0, 1},
   bad : SUBSET {"proxy_url_loader_factory.cc:392",
                 "resource_request_handler_wrapper.cc:486"}]

SaidIn(t, what) == t # <<>> /\ t[Len(t)] = what
WaitsIn(t) == t = <<>> \/ SaidIn(t, "follow")
EndedIn(t) == SaidIn(t, "success") \/ SaidIn(t, "failure")

\* How far the load x is, of which the client heard nothing, or a response that
\* is still to be passed on, or a redirect, or a response.
Unheard(x, via) ==
  \/ x.stage \in {"asking", "opening", "skipping"} /\ x.out = <<>> /\ via = "stream"
  \/ x.stage = "net" /\ x.out = <<>> /\ via = "network"
  \/ x.stage = "answering" /\ x.out = <<>> /\ (via = "stream" \/ HeaderClient)
  \/ x.stage = "responding" /\ x.out = <<Message("response", TRUE)>> /\ via = "stream"
  \/ x.stage = "netBody" /\ x.out = <<Message("response", TRUE)>> /\ via = "network"
  \/ x.stage = "done" /\ x.out = <<Message("complete", FALSE)>>
  \/ x.stage = "done" /\ \E ok \in BOOLEAN : x.out = <<Message("redirect", ok)>>
  \/ x.stage = "done" /\ via = "network" /\
       \E ok \in BOOLEAN : x.out = <<Message("response", TRUE), Message("complete", ok)>>

Responds(x, via) ==
  \/ x.stage = "responding" /\ x.out = <<>> /\ via = "stream"
  \/ x.stage = "netBody" /\ x.out = <<>> /\ via = "network"
  \/ x.stage = "done" /\ via = "network" /\
       \E ok \in BOOLEAN : x.out = <<Message("complete", ok)>>

IsOver(x) == x.stage = "done" /\ x.out = <<>>

HasBody(x) ==
  /\ x.stage \in {"ready", "reading", "netBody", "done"}
  /\ \A k \in 1 .. Len(x.out) : x.out[k].op \in {"size", "complete"}

\* A live request whose loader's messages are received, and one without.
BoundFits(q, x, t) ==
  /\ q.state /\ ~q.hop
  /\ \/ q.cont.to = "none" /\ ~q.paused /\ WaitsIn(t) /\ Unheard(x, q.via)
     \/ /\ q.cont.to = "headers" /\ q.paused /\ q.hcb /\ q.curh = q.load /\ WaitsIn(t)
        /\ x.stage = "answering" /\ x.out = <<>> /\ (q.via = "stream" \/ HeaderClient)
     \/ q.cont.to = "response" /\ q.paused /\ WaitsIn(t) /\ Responds(x, q.via)
     \/ q.cont.to = "redirect" /\ q.paused /\ WaitsIn(t) /\ IsOver(x)
     \/ q.cont.to = "none" /\ ~q.paused /\ SaidIn(t, "redirect") /\ IsOver(x)
     \/ q.cont.to = "none" /\ ~q.paused /\ SaidIn(t, "response") /\ HasBody(x)

FreeFits(q, t) ==
  /\ ~q.paused
  /\ q.cont.to \in {"none", "init", "cookies", "resource", "redirect"}
  /\ q.cont.to \in {"cookies", "resource", "redirect"} => q.state
  /\ q.hop => q.cont.to = "none"
  /\ WaitsIn(t) \/ (SaidIn(t, "redirect") /\ q.cont.to = "none" /\ ~q.hop)

\* The URL the header client asked for is used up before the next load.
UrlFits(q, x, t) == q.hredir /\ ~HeaderClient =>
  /\ q.via = "stream" /\ WaitsIn(t) /\ x.stage = "done"
  /\ x.out = <<>> \/ \E ok \in BOOLEAN : x.out = <<Message("redirect", ok)>>

LiveFits(q, x, t) ==
  /\ q.client /\ ~q.completed /\ q.limit > 0
  /\ IF q.via = "none" THEN FreeFits(q, t) ELSE BoundFits(q, x, t)
  /\ UrlFits(q, x, t)

\* InterceptedRequestHandlerWrapper and the handler.
WrapperFits(q) ==
  /\ q.state => q.ready /\ ~q.down /\ q.completes = 0
  /\ q.down => q.ready
  /\ q.hop => q.ready
  /\ q.cont.to = "init" => ~q.ready
  /\ q.handler = "handler" /\ ~q.state => q.completes = 1
  /\ q.completes = 1 => q.down \/ q.life = "gone"

LifeFits(w) ==
  /\ w.q.load = 0 <=> w.q.life = "none"
  /\ w.q.via # "none" => w.q.life = "live"
  /\ w.q.curh <= w.q.load
  /\ w.q.life = "none" =>
       w.q = [NewRequest EXCEPT !.ready = w.q.ready, !.down = w.q.down] /\ w.told = <<>>
  /\ w.q.life = "live" => LiveFits(w.q, Load(w), w.told)
  /\ w.q.life \in {"waiting", "gone"} => ~w.q.client /\ EndedIn(w.told)
  /\ w.q.life = "gone" => ~w.q.state /\ w.q.cont.to = "none"

LoadsFit(w) == \A i \in 1 .. MaxLoads :
  /\ LoadFits(w.ls[i])
  /\ i # w.q.load => w.ls[i].stage \in {"none", "gone"}
  /\ i > w.q.load => w.ls[i] = NewLoad

WTypes == [q : RequestTypes, ls : [1 .. MaxLoads -> LoadTypes], told : Seq(Words)]

Fits(w) == w \in WTypes /\ LoadsFit(w) /\ LifeFits(w) /\ WrapperFits(w.q)

-----------------------------------------------------------------------------
(* Tasks and callbacks come and go.                                          *)

\* The skip or the read is over, or is being passed on.
Idle(x)   == ~HasWork(x) /\ ~HasBack(x) /\ ~HasHand(x)
Active(x) == x.stage \in {"skipping", "reading", "done"} /\ ~x.cb

\* What tasks and callbacks are judged by.
Alike(x, y) ==
  /\ y.pending = x.pending /\ y.next = x.next /\ y.left = x.left /\ y.at = x.at
  /\ y.body = x.body /\ y.first = x.first

LEMMA AlikeFits ==
  ASSUME NEW x, NEW y, Alike(x, y)
  PROVE  /\ \A t : WorkFits(x, t) => WorkFits(y, t)
         /\ \A t : BackFits(x, t) => BackFits(y, t)
         /\ \A cb : HandFits(x, cb) => HandFits(y, cb)
         /\ BodyFits(x) => BodyFits(y)
<1> USE DEF Alike, Skips, Reads, InPlace, Base, Numbered
<1>1. \A t : WorkFits(x, t) => WorkFits(y, t)
  BY DEF WorkFits
<1>2. \A t : BackFits(x, t) => BackFits(y, t)
  BY DEF BackFits
<1>3. \A cb : HandFits(x, cb) => HandFits(y, cb)
  BY DEF HandFits
<1>4. BodyFits(x) => BodyFits(y)
  BY DEF BodyFits
<1> QED
  BY <1>1, <1>2, <1>3, <1>4

LEMMA TypedFields ==
  ASSUME NEW x \in LoadTypes
  PROVE  /\ x.work \in Seq(WorkTasks) /\ Len(x.work) \in Nat
         /\ x.back \in Seq(BackTasks) /\ Len(x.back) \in Nat
         /\ x.out \in Seq(Messages) /\ Len(x.out) \in Nat
         /\ x.body \in Seq(Int) /\ Len(x.body) \in Nat
         /\ x.held \subseteq Callbacks
         /\ x.pending \in Int /\ x.next \in Nat
         /\ Size \in Nat \ {0}
         /\ x.left \in Nat /\ x.left <= Size /\ x.at \in Nat /\ x.at <= Size
         /\ x.first \in -1 .. Size
<1>1. /\ x.work \in Seq(WorkTasks) /\ x.back \in Seq(BackTasks) /\ x.out \in Seq(Messages)
      /\ x.body \in Seq(Int)
      /\ x.held \subseteq Callbacks /\ x.pending \in Int /\ x.next \in Nat
      /\ x.left \in 0 .. Size /\ x.at \in 0 .. Size /\ x.first \in Firsts \cup {NoRange}
  BY DEF LoadTypes
<1>2. Size \in Nat \ {0} /\ Firsts \subseteq -1 .. Size
  BY LoaderAssumption
<1>3. \A S : \A s \in Seq(S) : Len(s) \in Nat
  BY LenProperties
<1>4. x.first \in -1 .. Size
  <2>1. NoRange \in -1 .. Size
    BY <1>2 DEF NoRange
  <2> QED
    BY <1>1, <1>2, <2>1
<1>5. /\ Len(x.work) \in Nat /\ Len(x.back) \in Nat /\ Len(x.out) \in Nat
      /\ Len(x.body) \in Nat
  BY <1>1, <1>3
<1>6. x.left \in Nat /\ x.left <= Size /\ x.at \in Nat /\ x.at <= Size
  BY <1>1, <1>2
<1> QED
  BY <1>1, <1>2, <1>4, <1>5, <1>6

LEMMA TypedTasks ==
  ASSUME NEW x \in LoadTypes
  PROVE  /\ \A k \in 1 .. Len(x.work) : x.work[k] \in WorkTasks /\ x.work[k].id \in Int
         /\ \A k \in 1 .. Len(x.back) : x.back[k] \in BackTasks /\ x.back[k].id \in Int
<1>1. x.work \in Seq(WorkTasks) /\ x.back \in Seq(BackTasks)
  BY TypedFields
<1>2. \A k \in 1 .. Len(x.work) : x.work[k] \in WorkTasks
  BY <1>1, ElementOfSeq
<1>3. \A k \in 1 .. Len(x.back) : x.back[k] \in BackTasks
  BY <1>1, ElementOfSeq
<1> QED
  BY <1>2, <1>3 DEF WorkTasks, BackTasks

LEMMA SameFits ==
  ASSUME NEW x, LoadFits(x), NEW y \in LoadTypes, Alike(x, y),
         y.work = x.work, y.back = x.back, y.held = x.held, StageFits(y),
         y.stage = x.stage \/ y.stage = "done", y.cb => x.cb
  PROVE  LoadFits(y) /\ (Idle(x) => Idle(y))
<1>1. /\ HasWork(y) <=> HasWork(x)
      /\ HasBack(y) <=> HasBack(x)
      /\ HasHand(y) <=> HasHand(x)
  BY DEF HasWork, HasBack, HasHand, Alike
<1>2. OneWay(y)
  BY <1>1 DEF OneWay, LoadFits, Alike
<1> QED
  BY <1>1, <1>2, AlikeFits DEF LoadFits, Idle

\* With nothing under way, place, number and stage may change.
LEMMA IdleFits ==
  ASSUME NEW x, LoadFits(x), Idle(x), NEW y \in LoadTypes,
         y.work = x.work, y.back = x.back, y.held = x.held,
         y.pending = None \/ (y.pending = x.pending /\ y.next = x.next) \/ y.pending > x.next,
         y.next >= x.next, StageFits(y), BodyFits(y)
  PROVE  LoadFits(y) /\ Idle(y)
<1>1. x \in LoadTypes /\ None = -1
  BY DEF LoadFits, None
<1>2. /\ x.next \in Nat /\ y.next \in Nat /\ x.pending \in Int /\ y.pending \in Int
      /\ x.work \in Seq(WorkTasks) /\ x.back \in Seq(BackTasks) /\ x.held \subseteq Callbacks
  BY <1>1, TypedFields
<1>3. ASSUME NEW k \in 1 .. Len(x.work)
      PROVE  ~InWork(x.work[k], y.pending) /\ WorkFits(y, x.work[k])
  <2> DEFINE t == x.work[k]
  <2>1. ~InWork(t, x.pending) /\ WorkFits(x, t)
    BY <1>3 DEF Idle, HasWork, LoadFits
  <2>2. t.op \in {"skipAnswered", "readAnswered"} => t.id # y.pending /\ Numbered(y, t.id)
    <3>1. t.id \in Int
      BY <1>1, <1>3, TypedTasks
    <3> QED
      BY <1>1, <1>2, <2>1, <3>1 DEF WorkFits, Numbered, InWork
  <2>3. t.op \notin {"skip", "skipMore", "read"}
    BY <2>1 DEF InWork
  <2> QED
    BY <2>2, <2>3 DEF InWork, WorkFits
<1>4. ASSUME NEW k \in 1 .. Len(x.back)
      PROVE  ~InBack(x.back[k]) /\ BackFits(y, x.back[k])
  BY <1>4 DEF Idle, HasBack, InBack, BackFits
<1>5. ASSUME NEW cb \in x.held
      PROVE  ~InHand(cb, y.pending) /\ HandFits(y, cb)
  <2>1. ~InHand(cb, x.pending) /\ HandFits(x, cb)
    BY <1>5 DEF Idle, HasHand, LoadFits
  <2>2. cb.op \in {"open", "response", "skip", "read"} /\ cb.id \in Int
    BY <1>2, <1>5 DEF Callbacks
  <2>3. cb.op # "open" => cb.id # y.pending /\ Numbered(y, cb.id)
    BY <1>1, <1>2, <2>1, <2>2 DEF HandFits, Numbered, InHand
  <2>4. cb.op # "response"
    BY <2>1 DEF InHand, HandFits
  <2> QED
    BY <2>2, <2>3, <2>4 DEF InHand, HandFits
<1>6. Idle(y)
  BY <1>3, <1>4, <1>5 DEF Idle, HasWork, HasBack, HasHand
<1>7. OneWay(y)
  BY <1>3, <1>4, <1>5, <1>6 DEF OneWay, Idle
<1> QED
  BY <1>3, <1>4, <1>5, <1>6, <1>7 DEF LoadFits

LEMMA HeadIs ==
  ASSUME NEW S, NEW s \in Seq(S), s # <<>>, NEW u, u = Tail(s)
  PROVE  /\ u \in Seq(S) /\ Len(s) \in Nat \ {0} /\ Len(u) = Len(s) - 1
         /\ Head(s) = s[1] /\ Head(s) \in S
         /\ \A k \in 1 .. Len(u) : k + 1 \in 1 .. Len(s) /\ u[k] = s[k + 1] /\ k + 1 # 1
<1>1. u \in Seq(S) /\ Len(u) = Len(s) - 1 /\ Head(s) \in S /\ Head(s) = s[1]
  BY HeadTailProperties
<1>2. Len(s) \in Nat \ {0}
  BY EmptySeq
<1>3. \A k \in 1 .. Len(u) : u[k] = s[k + 1]
  BY HeadTailProperties
<1> QED
  BY <1>1, <1>2, <1>3

\* The work sequence takes its first task.
WorkTakes(x, y, t) == x.work # <<>> /\ y = [x EXCEPT !.work = Tail(@)] /\ t = Head(x.work)

\* Everything but the queues and the callbacks is the same.
Keeps(x, y) ==
  /\ Alike(x, y) /\ y.stage = x.stage /\ y.out = x.out /\ y.cb = x.cb /\ y.hdr = x.hdr
  /\ y.canceled = x.canceled /\ y.life = x.life /\ y.stream = x.stream /\ y.bad = x.bad

\* A task t was taken from x, of which y is left.
Taken(x, y, t) ==
  /\ y \in LoadTypes /\ LoadFits(y) /\ Keeps(x, y)
  /\ t.id \in Int /\ t.n \in Int /\ t.at \in Int
  /\ x.stage # "none"

LEMMA KeepsStage ==
  ASSUME NEW x, NEW y, Keeps(x, y), StageFits(x), x.stage # "none"
  PROVE  StageFits(y)
BY DEF Keeps, Alike, StageFits, InPlace, Base

LEMMA WorkTaken ==
  ASSUME NEW x, LoadFits(x), NEW y, NEW t, WorkTakes(x, y, t)
  PROVE  /\ Taken(x, y, t) /\ t.op \in WorkOps /\ WorkFits(y, t)
         /\ InWork(t, y.pending) => Idle(y) /\ Active(y)
<1> DEFINE s == x.work
           u == y.work
<1>1. x \in LoadTypes /\ s \in Seq(WorkTasks) /\ s # <<>> /\ t = Head(s)
  BY TypedFields DEF WorkTakes, LoadFits
<1>2. u = Tail(s) /\ y.back = x.back /\ y.held = x.held /\ Keeps(x, y)
  BY <1>1 DEF WorkTakes, LoadTypes, Keeps, Alike
<1>3. /\ u \in Seq(WorkTasks) /\ Len(s) \in Nat \ {0} /\ Len(u) = Len(s) - 1
      /\ t = s[1] /\ t \in WorkTasks
      /\ \A k \in 1 .. Len(u) : k + 1 \in 1 .. Len(s) /\ u[k] = s[k + 1] /\ k + 1 # 1
  BY <1>1, <1>2, HeadIs
<1>4. y \in LoadTypes
  BY <1>1, <1>3 DEF WorkTakes, LoadTypes
<1>5. y.pending = x.pending /\ y.stage = x.stage /\ y.cb = x.cb
  BY <1>2 DEF Keeps, Alike
<1>6. 1 \in 1 .. Len(s)
  BY <1>3
<1> HIDE DEF s, u
<1>7. InWork(t, x.pending) => HasWork(x)
  BY <1>3, <1>6 DEF HasWork, s
<1>8. HasWork(y) => HasWork(x) /\ ~InWork(t, x.pending)
  <2> SUFFICES ASSUME NEW k \in 1 .. Len(u), InWork(u[k], y.pending)
               PROVE  HasWork(x) /\ ~InWork(t, x.pending)
    BY DEF HasWork, u
  <2>1. k + 1 \in 1 .. Len(s) /\ InWork(s[k + 1], x.pending) /\ k + 1 # 1
    BY <1>3, <1>5
  <2> QED
    BY <1>3, <1>6, <2>1 DEF HasWork, OneWay, LoadFits, s
<1>9. /\ HasBack(y) <=> HasBack(x)
      /\ HasHand(y) <=> HasHand(x)
  BY <1>2, <1>5 DEF HasBack, HasHand
<1>10. InWork(t, y.pending) => Idle(y) /\ Active(y)
  BY <1>5, <1>7, <1>8, <1>9 DEF Idle, OneWay, LoadFits, Active
<1>11. \A j, k \in 1 .. Len(u) :
         InWork(u[j], y.pending) /\ InWork(u[k], y.pending) => j = k
  <2> SUFFICES ASSUME NEW j \in 1 .. Len(u), NEW k \in 1 .. Len(u),
                      InWork(u[j], y.pending), InWork(u[k], y.pending)
               PROVE  j = k
    OBVIOUS
  <2>1. /\ j + 1 \in 1 .. Len(s) /\ InWork(s[j + 1], x.pending)
        /\ k + 1 \in 1 .. Len(s) /\ InWork(s[k + 1], x.pending)
    BY <1>3, <1>5
  <2>2. j + 1 = k + 1
    BY <2>1 DEF LoadFits, OneWay, s
  <2> QED
    BY <2>2
<1>12. OneWay(y)
  BY <1>2, <1>5, <1>8, <1>9, <1>11 DEF OneWay, LoadFits, u
<1>13. WorkFits(x, t) /\ \A k \in 1 .. Len(u) : WorkFits(x, u[k])
  BY <1>3, <1>6 DEF LoadFits, s
<1>14. Alike(x, y)
  BY <1>2 DEF Keeps
<1>15. WorkFits(y, t) /\ \A k \in 1 .. Len(u) : WorkFits(y, u[k])
  BY <1>13, <1>14, AlikeFits
<1>16. (\A k \in 1 .. Len(y.back) : BackFits(y, y.back[k])) /\ (\A cb \in y.held : HandFits(y, cb))
  BY <1>2, <1>14, AlikeFits DEF LoadFits
<1>17. x.stage # "none"
  BY <1>1 DEF LoadFits, StageFits, s
<1>18. StageFits(y)
  BY <1>2, <1>17, KeepsStage DEF LoadFits
<1>19. BodyFits(y)
  BY <1>14, AlikeFits DEF LoadFits
<1>20. LoadFits(y)
  BY <1>4, <1>12, <1>15, <1>16, <1>18, <1>19 DEF LoadFits, u
<1> QED
  BY <1>2, <1>3, <1>4, <1>10, <1>15, <1>17, <1>20 DEF Taken, WorkTasks

\* The IO thread takes the first task posted to it.
BackTakes(x, y, t) == x.back # <<>> /\ y = [x EXCEPT !.back = Tail(@)] /\ t = Head(x.back)

LEMMA BackTaken ==
  ASSUME NEW x, LoadFits(x), NEW y, NEW t, BackTakes(x, y, t)
  PROVE  /\ Taken(x, y, t) /\ t.op \in BackOps /\ BackFits(y, t)
         /\ InBack(t) => Idle(y) /\ Active(y)
<1> DEFINE s == x.back
           u == y.back
<1>1. x \in LoadTypes /\ s \in Seq(BackTasks) /\ s # <<>> /\ t = Head(s)
  BY TypedFields DEF BackTakes, LoadFits
<1>2. u = Tail(s) /\ y.work = x.work /\ y.held = x.held /\ Keeps(x, y)
  BY <1>1 DEF BackTakes, LoadTypes, Keeps, Alike
<1>3. /\ u \in Seq(BackTasks) /\ Len(s) \in Nat \ {0} /\ Len(u) = Len(s) - 1
      /\ t = s[1] /\ t \in BackTasks
      /\ \A k \in 1 .. Len(u) : k + 1 \in 1 .. Len(s) /\ u[k] = s[k + 1] /\ k + 1 # 1
  BY <1>1, <1>2, HeadIs
<1>4. y \in LoadTypes
  BY <1>1, <1>3 DEF BackTakes, LoadTypes
<1>5. y.pending = x.pending /\ y.stage = x.stage /\ y.cb = x.cb
  BY <1>2 DEF Keeps, Alike
<1>6. 1 \in 1 .. Len(s)
  BY <1>3
<1> HIDE DEF s, u
<1>7. InBack(t) => HasBack(x)
  BY <1>3, <1>6 DEF HasBack, s
<1>8. HasBack(y) => HasBack(x) /\ ~InBack(t)
  <2> SUFFICES ASSUME NEW k \in 1 .. Len(u), InBack(u[k])
               PROVE  HasBack(x) /\ ~InBack(t)
    BY DEF HasBack, u
  <2>1. k + 1 \in 1 .. Len(s) /\ InBack(s[k + 1]) /\ k + 1 # 1
    BY <1>3, <1>5
  <2> QED
    BY <1>3, <1>6, <2>1 DEF HasBack, OneWay, LoadFits, s
<1>9. /\ HasWork(y) <=> HasWork(x)
      /\ HasHand(y) <=> HasHand(x)
  BY <1>2, <1>5 DEF HasWork, HasHand
<1>10. InBack(t) => Idle(y) /\ Active(y)
  BY <1>5, <1>7, <1>8, <1>9 DEF Idle, OneWay, LoadFits, Active
<1>11. \A j, k \in 1 .. Len(u) : InBack(u[j]) /\ InBack(u[k]) => j = k
  <2> SUFFICES ASSUME NEW j \in 1 .. Len(u), NEW k \in 1 .. Len(u),
                      InBack(u[j]), InBack(u[k])
               PROVE  j = k
    OBVIOUS
  <2>1. /\ j + 1 \in 1 .. Len(s) /\ InBack(s[j + 1])
        /\ k + 1 \in 1 .. Len(s) /\ InBack(s[k + 1])
    BY <1>3
  <2>2. j + 1 = k + 1
    BY <2>1 DEF LoadFits, OneWay, s
  <2> QED
    BY <2>2
<1>12. OneWay(y)
  BY <1>2, <1>5, <1>8, <1>9, <1>11 DEF OneWay, LoadFits, u
<1>13. BackFits(x, t) /\ \A k \in 1 .. Len(u) : BackFits(x, u[k])
  BY <1>3, <1>6 DEF LoadFits, s
<1>14. Alike(x, y)
  BY <1>2 DEF Keeps
<1>15. BackFits(y, t) /\ \A k \in 1 .. Len(u) : BackFits(y, u[k])
  BY <1>13, <1>14, AlikeFits
<1>16. (\A k \in 1 .. Len(y.work) : WorkFits(y, y.work[k])) /\ (\A cb \in y.held : HandFits(y, cb))
  BY <1>2, <1>14, AlikeFits DEF LoadFits
<1>17. x.stage # "none"
  BY <1>1 DEF LoadFits, StageFits, s
<1>18. StageFits(y)
  BY <1>2, <1>17, KeepsStage DEF LoadFits
<1>19. BodyFits(y)
  BY <1>14, AlikeFits DEF LoadFits
<1>20. LoadFits(y)
  BY <1>4, <1>12, <1>15, <1>16, <1>18, <1>19 DEF LoadFits, u
<1> QED
  BY <1>2, <1>3, <1>4, <1>10, <1>15, <1>17, <1>20 DEF Taken, BackTasks

\* The elements of u are t and those of s.
OneMore(s, t, u) ==
  /\ \A j \in 1 .. Len(u) : u[j] = t \/ \E m \in 1 .. Len(s) : u[j] = s[m]
  /\ \A j, k \in 1 .. Len(u) : j # k =>
       \/ u[j] = t /\ \E m \in 1 .. Len(s) : u[k] = s[m]
       \/ u[k] = t /\ \E m \in 1 .. Len(s) : u[j] = s[m]
       \/ \E m, n \in 1 .. Len(s) : m # n /\ u[j] = s[m] /\ u[k] = s[n]

LEMMA LonelyTasks ==
  ASSUME NEW S, NEW s \in Seq(S), NEW t \in S, NEW u, u = Append(s, t) \/ u = <<t>> \o s
  PROVE  u \in Seq(S) /\ OneMore(s, t, u)
<1>0. Len(s) \in Nat
  OBVIOUS
<1>1. CASE u = Append(s, t)
  <2>1. /\ u \in Seq(S) /\ Len(u) = Len(s) + 1
        /\ \A j \in 1 .. Len(u) : (j = Len(u) /\ u[j] = t) \/ (j \in 1 .. Len(s) /\ u[j] = s[j])
    BY <1>0, <1>1
  <2> QED
    BY <2>1 DEF OneMore
<1>2. CASE u = <<t>> \o s
  <2>1. /\ <<t>> \in Seq(S) /\ Len(<<t>>) = 1 /\ <<t>>[1] = t
    OBVIOUS
  <2>2. /\ u \in Seq(S) /\ Len(u) = 1 + Len(s)
        /\ \A j \in 1 .. Len(u) : u[j] = IF j <= 1 THEN <<t>>[j] ELSE s[j - 1]
    BY <1>2, <2>1, ConcatProperties
  <2>3. \A j \in 1 .. Len(u) : (j = 1 /\ u[j] = t) \/ (j # 1 /\ j - 1 \in 1 .. Len(s) /\ u[j] = s[j - 1])
    BY <1>0, <2>1, <2>2
  <2>4. \A j \in 1 .. Len(u) : u[j] = t \/ \E m \in 1 .. Len(s) : u[j] = s[m]
    BY <2>3
  <2>5. ASSUME NEW j \in 1 .. Len(u), NEW k \in 1 .. Len(u), j # k
        PROVE  \/ u[j] = t /\ \E m \in 1 .. Len(s) : u[k] = s[m]
               \/ u[k] = t /\ \E m \in 1 .. Len(s) : u[j] = s[m]
               \/ \E m, n \in 1 .. Len(s) : m # n /\ u[j] = s[m] /\ u[k] = s[n]
    <3>1. CASE j = 1 \/ k = 1
      BY <2>3, <2>5, <3>1
    <3>2. CASE j # 1 /\ k # 1
      <4>1. /\ j - 1 \in 1 .. Len(s) /\ u[j] = s[j - 1] /\ k - 1 \in 1 .. Len(s)
            /\ u[k] = s[k - 1] /\ j - 1 # k - 1
        BY <2>2, <2>3, <2>5, <3>2
      <4> QED
        BY <4>1
    <3> QED
      BY <3>1, <3>2
  <2> QED
    BY <2>2, <2>4, <2>5 DEF OneMore
<1> QED
  BY <1>1, <1>2

LEMMA WorkAdded ==
  ASSUME NEW x, LoadFits(x), x.stage # "none", NEW t \in WorkTasks, WorkFits(x, t),
         InWork(t, x.pending) => Idle(x) /\ Active(x),
         NEW y, y = Post(x, t) \/ y = RunNext(x, t)
  PROVE  /\ LoadFits(y) /\ Keeps(x, y)
         /\ Idle(x) /\ ~InWork(t, x.pending) => Idle(y)
<1> DEFINE s == x.work
           u == y.work
<1>1. x \in LoadTypes /\ s \in Seq(WorkTasks)
  BY TypedFields DEF LoadFits
<1>2. /\ u = Append(s, t) \/ u = <<t>> \o s
      /\ y = [x EXCEPT !.work = u]
      /\ y.back = x.back /\ y.held = x.held /\ Keeps(x, y)
  BY <1>1 DEF Post, RunNext, LoadTypes, Keeps, Alike
<1> HIDE DEF s, u
<1>3. u \in Seq(WorkTasks) /\ OneMore(s, t, u)
  BY <1>1, <1>2, LonelyTasks
<1>4. y \in LoadTypes
  BY <1>1, <1>2, <1>3 DEF LoadTypes
<1>5. y.pending = x.pending /\ y.stage = x.stage /\ y.cb = x.cb
  BY <1>2 DEF Keeps, Alike
<1>6. HasWork(y) => HasWork(x) \/ InWork(t, x.pending)
  BY <1>3, <1>5 DEF HasWork, OneMore, s, u
<1>7. /\ HasBack(y) <=> HasBack(x)
      /\ HasHand(y) <=> HasHand(x)
  BY <1>2, <1>5 DEF HasBack, HasHand
<1>8. \A j, k \in 1 .. Len(u) :
         InWork(u[j], y.pending) /\ InWork(u[k], y.pending) => j = k
  <2> SUFFICES ASSUME NEW j \in 1 .. Len(u), NEW k \in 1 .. Len(u), j # k,
                      InWork(u[j], x.pending), InWork(u[k], x.pending)
               PROVE  FALSE
    BY <1>5
  <2>1. \A m \in 1 .. Len(s) : InWork(s[m], x.pending) => ~InWork(t, x.pending)
    BY DEF Idle, HasWork, s
  <2>2. \A m, n \in 1 .. Len(s) :
          InWork(s[m], x.pending) /\ InWork(s[n], x.pending) => m = n
    BY DEF LoadFits, OneWay, s
  <2> QED
    BY <1>3, <2>1, <2>2 DEF OneMore
<1>9. OneWay(y)
  BY <1>2, <1>5, <1>6, <1>7, <1>8 DEF OneWay, LoadFits, Idle, Active, u
<1>10. \A k \in 1 .. Len(u) : WorkFits(x, u[k])
  BY <1>3 DEF LoadFits, OneMore, s
<1>11. Alike(x, y)
  BY <1>2 DEF Keeps
<1>12. \A k \in 1 .. Len(u) : WorkFits(y, u[k])
  BY <1>10, <1>11, AlikeFits
<1>13. (\A k \in 1 .. Len(y.back) : BackFits(y, y.back[k])) /\ (\A cb \in y.held : HandFits(y, cb))
  BY <1>2, <1>11, AlikeFits DEF LoadFits
<1>14. StageFits(y) /\ BodyFits(y)
  BY <1>2, <1>11, KeepsStage, AlikeFits DEF LoadFits
<1>15. LoadFits(y)
  BY <1>4, <1>9, <1>12, <1>13, <1>14 DEF LoadFits, u
<1> QED
  BY <1>2, <1>6, <1>7, <1>15 DEF Idle

LEMMA BackAdded ==
  ASSUME NEW x, LoadFits(x), x.stage # "none", NEW t \in BackTasks, BackFits(x, t),
         InBack(t) => Idle(x) /\ Active(x), NEW y, y = ToIO(x, t)
  PROVE  /\ LoadFits(y) /\ Keeps(x, y)
         /\ Idle(x) /\ ~InBack(t) => Idle(y)
<1> DEFINE s == x.back
           u == y.back
<1>1. x \in LoadTypes /\ s \in Seq(BackTasks)
  BY TypedFields DEF LoadFits
<1>2. /\ u = Append(s, t) \/ u = <<t>> \o s
      /\ y = [x EXCEPT !.back = u]
      /\ y.work = x.work /\ y.held = x.held /\ Keeps(x, y)
  BY <1>1 DEF ToIO, LoadTypes, Keeps, Alike
<1> HIDE DEF s, u
<1>3. u \in Seq(BackTasks) /\ OneMore(s, t, u)
  BY <1>1, <1>2, LonelyTasks
<1>4. y \in LoadTypes
  BY <1>1, <1>2, <1>3 DEF LoadTypes
<1>5. y.pending = x.pending /\ y.stage = x.stage /\ y.cb = x.cb
  BY <1>2 DEF Keeps, Alike
<1>6. HasBack(y) => HasBack(x) \/ InBack(t)
  BY <1>3 DEF HasBack, OneMore, s, u
<1>7. /\ HasWork(y) <=> HasWork(x)
      /\ HasHand(y) <=> HasHand(x)
  BY <1>2, <1>5 DEF HasWork, HasHand
<1>8. \A j, k \in 1 .. Len(u) : InBack(u[j]) /\ InBack(u[k]) => j = k
  <2> SUFFICES ASSUME NEW j \in 1 .. Len(u), NEW k \in 1 .. Len(u), j # k,
                      InBack(u[j]), InBack(u[k])
               PROVE  FALSE
    OBVIOUS
  <2>1. \A m \in 1 .. Len(s) : InBack(s[m]) => ~InBack(t)
    BY DEF Idle, HasBack, s
  <2>2. \A m, n \in 1 .. Len(s) : InBack(s[m]) /\ InBack(s[n]) => m = n
    BY DEF LoadFits, OneWay, s
  <2> QED
    BY <1>3, <2>1, <2>2 DEF OneMore
<1>9. OneWay(y)
  BY <1>2, <1>5, <1>6, <1>7, <1>8 DEF OneWay, LoadFits, Idle, Active, u
<1>10. \A k \in 1 .. Len(u) : BackFits(x, u[k])
  BY <1>3 DEF LoadFits, OneMore, s
<1>11. Alike(x, y)
  BY <1>2 DEF Keeps
<1>12. \A k \in 1 .. Len(u) : BackFits(y, u[k])
  BY <1>10, <1>11, AlikeFits
<1>13. (\A k \in 1 .. Len(y.work) : WorkFits(y, y.work[k])) /\ (\A cb \in y.held : HandFits(y, cb))
  BY <1>2, <1>11, AlikeFits DEF LoadFits
<1>14. StageFits(y) /\ BodyFits(y)
  BY <1>2, <1>11, KeepsStage, AlikeFits DEF LoadFits
<1>15. LoadFits(y)
  BY <1>4, <1>9, <1>12, <1>13, <1>14 DEF LoadFits, u
<1> QED
  BY <1>2, <1>6, <1>7, <1>15 DEF Idle

\* The handler's callbacks.
LEMMA HandAdded ==
  ASSUME NEW x, LoadFits(x), x.stage # "none", NEW cb \in Callbacks, HandFits(x, cb),
         InHand(cb, x.pending) => Idle(x) /\ Active(x), NEW y, y = Keep(x, cb)
  PROVE  /\ LoadFits(y) /\ Keeps(x, y)
         /\ Idle(x) /\ ~InHand(cb, x.pending) => Idle(y)
<1>1. x \in LoadTypes /\ x.held \subseteq Callbacks
  BY TypedFields DEF LoadFits
<1>2. /\ y.held = x.held \cup {cb} /\ y = [x EXCEPT !.held = @ \cup {cb}]
      /\ y.work = x.work /\ y.back = x.back /\ Keeps(x, y)
  BY <1>1 DEF Keep, LoadTypes, Keeps, Alike
<1>3. y \in LoadTypes
  BY <1>1, <1>2 DEF LoadTypes
<1>4. y.pending = x.pending /\ y.stage = x.stage /\ y.cb = x.cb
  BY <1>2 DEF Keeps, Alike
<1>5. /\ HasWork(y) <=> HasWork(x)
      /\ HasBack(y) <=> HasBack(x)
      /\ HasHand(y) => HasHand(x) \/ InHand(cb, x.pending)
  BY <1>2, <1>4 DEF HasWork, HasBack, HasHand
<1>6. \A a, b \in y.held : InHand(a, y.pending) /\ InHand(b, y.pending) => a = b
  BY <1>2, <1>4 DEF Idle, HasHand, LoadFits, OneWay
<1>7. OneWay(y)
  BY <1>2, <1>4, <1>5, <1>6 DEF OneWay, LoadFits, Idle, Active
<1>8. Alike(x, y) /\ \A a \in y.held : HandFits(x, a)
  BY <1>2 DEF Keeps, LoadFits
<1>9. /\ \A k \in 1 .. Len(y.work) : WorkFits(y, y.work[k])
      /\ \A k \in 1 .. Len(y.back) : BackFits(y, y.back[k])
      /\ \A a \in y.held : HandFits(y, a)
  BY <1>2, <1>8, AlikeFits DEF LoadFits
<1>10. StageFits(y) /\ BodyFits(y)
  BY <1>2, <1>8, KeepsStage, AlikeFits DEF LoadFits
<1>11. LoadFits(y)
  BY <1>3, <1>7, <1>9, <1>10 DEF LoadFits
<1> QED
  BY <1>2, <1>5, <1>11 DEF Idle

LEMMA HandTaken ==
  ASSUME NEW x, LoadFits(x), NEW cb \in x.held, NEW y, y = [x EXCEPT !.held = @ \ {cb}]
  PROVE  /\ LoadFits(y) /\ Keeps(x, y) /\ x.stage # "none"
         /\ cb \in Callbacks /\ HandFits(y, cb)
         /\ InHand(cb, y.pending) => Idle(y) /\ Active(y)
<1>1. x \in LoadTypes /\ x.held \subseteq Callbacks
  BY TypedFields DEF LoadFits
<1>2. /\ y.held = x.held \ {cb}
      /\ y.work = x.work /\ y.back = x.back /\ Keeps(x, y)
  BY <1>1 DEF LoadTypes, Keeps, Alike
<1>3. y \in LoadTypes
  BY <1>1 DEF LoadTypes
<1>4. y.pending = x.pending /\ y.stage = x.stage /\ y.cb = x.cb
  BY <1>2 DEF Keeps, Alike
<1>5. /\ HasWork(y) <=> HasWork(x)
      /\ HasBack(y) <=> HasBack(x)
      /\ InHand(cb, x.pending) => HasHand(x) /\ ~HasHand(y)
      /\ HasHand(y) => HasHand(x)
  BY <1>2, <1>4 DEF HasWork, HasBack, HasHand, LoadFits, OneWay
<1>6. OneWay(y)
  BY <1>2, <1>4, <1>5 DEF OneWay, LoadFits
<1>7. Alike(x, y) /\ x.stage # "none" /\ HandFits(x, cb)
  BY <1>2 DEF Keeps, LoadFits, StageFits
<1>8. /\ \A k \in 1 .. Len(y.work) : WorkFits(y, y.work[k])
      /\ \A k \in 1 .. Len(y.back) : BackFits(y, y.back[k])
      /\ \A a \in y.held : HandFits(y, a)
      /\ HandFits(y, cb)
  <2>1. \A a \in y.held : HandFits(x, a)
    BY <1>2 DEF LoadFits
  <2>2. \A k \in 1 .. Len(y.work) : WorkFits(x, y.work[k])
    BY <1>2 DEF LoadFits
  <2>3. \A k \in 1 .. Len(y.back) : BackFits(x, y.back[k])
    BY <1>2 DEF LoadFits
  <2> QED
    BY <1>7, <2>1, <2>2, <2>3, AlikeFits
<1>9. StageFits(y) /\ BodyFits(y)
  BY <1>2, <1>7, KeepsStage, AlikeFits DEF LoadFits
<1>10. LoadFits(y)
  BY <1>3, <1>6, <1>8, <1>9 DEF LoadFits
<1> QED
  <2>1. InHand(cb, y.pending) => Idle(y) /\ Active(y)
    BY <1>4, <1>5 DEF Idle, Active, OneWay, LoadFits
  <2> QED
    BY <1>1, <1>2, <1>7, <1>8, <1>10, <2>1

-----------------------------------------------------------------------------
(* The work sequence.                                                        *)

\* Neither the stage nor the messages change.
Quiet(x, y) == LoadFits(y) /\ y.stage = x.stage /\ y.out = x.out

\* The number, the bytes to skip and the place after a step of the reader.
Placed(x, p, n, l, a) == [x EXCEPT !.pending = p, !.next = n, !.left = l, !.at = a]

PlacedIs(x, y, p, n, l, a) ==
  /\ LoadFits(y) /\ Idle(y) /\ Active(y) /\ y.stage # "none"
  /\ y.pending = p /\ y.next = n /\ y.left = l /\ y.at = a
  /\ y.stage = x.stage /\ y.out = x.out /\ y.body = x.body /\ y.first = x.first
  /\ y.life = x.life

LEMMA PlacedFits ==
  ASSUME NEW x, LoadFits(x), Idle(x), Active(x), NEW p, NEW n, NEW l \in 0 .. Size,
         NEW a \in 0 .. Size,
         \/ p = None /\ n = x.next
         \/ p = x.pending /\ n = x.next
         \/ p = x.next + 1 /\ n = x.next + 1,
         NEW y, y = Placed(x, p, n, l, a)
  PROVE  PlacedIs(x, y, p, n, l, a)
<1>1. x \in LoadTypes /\ x.next \in Nat /\ x.pending \in Int
  BY TypedFields DEF LoadFits
<1>2. p \in Int /\ n \in Nat /\ n >= x.next
  BY <1>1 DEF None
<1>3. y \in LoadTypes
  BY <1>1, <1>2 DEF Placed, LoadTypes
<1>4. /\ y.pending = p /\ y.next = n /\ y.left = l /\ y.at = a
      /\ y.stage = x.stage /\ y.out = x.out /\ y.body = x.body /\ y.first = x.first
      /\ y.life = x.life /\ y.cb = x.cb /\ y.stream = x.stream
      /\ y.work = x.work /\ y.back = x.back /\ y.held = x.held
  BY <1>1 DEF Placed, LoadTypes
<1>5. StageFits(y)
  BY <1>1, <1>4 DEF StageFits, LoadFits, Active
<1>6. BodyFits(y)
  BY <1>4 DEF BodyFits, Base, LoadFits
<1>7. LoadFits(y) /\ Idle(y)
  BY <1>1, <1>2, <1>3, <1>4, <1>5, <1>6, IdleFits
<1> QED
  BY <1>4, <1>7 DEF PlacedIs, Active

LEMMA TaskIs ==
  ASSUME NEW op, NEW id \in Int, NEW n \in Int, NEW at \in Int
  PROVE  /\ op \in WorkOps => Task(op, id, n, at) \in WorkTasks
         /\ op \in BackOps => Task(op, id, n, at) \in BackTasks
         /\ Task(op, id, n, at).op = op /\ Task(op, id, n, at).id = id
         /\ Task(op, id, n, at).n = n /\ Task(op, id, n, at).at = at
BY DEF Task, WorkTasks, BackTasks

LEMMA ReadResponseIs ==
  ASSUME NEW id \in Int
  PROVE  LET t == Task("readResponse", id, 1, 0)
         IN  t \in BackTasks /\ t.op = "readResponse" /\ t.id = id
<1> DEFINE t == Task("readResponse", id, 1, 0)
<1>1. t = [op |-> "readResponse", id |-> id, n |-> 1, at |-> 0]
  BY Zenon DEF Task
<1>2. "readResponse" \in BackOps /\ 0 \in Int /\ 1 \in Int
  BY DEF BackOps
<1> HIDE DEF t
<1>3. t \in BackTasks
  BY <1>1, <1>2, Zenon DEF BackTasks
<1> QED
  BY <1>1, <1>3 DEF t

LEMMA HeldIs ==
  ASSUME NEW op \in {"open", "response", "skip", "read"}, NEW id \in Int
  PROVE  Held(op, id) \in Callbacks /\ Held(op, id).op = op /\ Held(op, id).id = id
BY DEF Held, Callbacks

\* Tasks that belong to no skip or read.
LEMMA PlainWork ==
  ASSUME NEW x, LoadFits(x), x.stage # "none",
         NEW op \in {"open", "cancelOpen", "openAnswered", "detach"}, NEW n \in Int,
         NEW y, y = Post(x, Task(op, 0, n, 0)) \/ y = RunNext(x, Task(op, 0, n, 0))
  PROVE  LoadFits(y) /\ Keeps(x, y)
<1> DEFINE t == Task(op, 0, n, 0)
<1>1. t \in WorkTasks /\ t.op = op
  BY TaskIs DEF WorkOps
<1>2. y = Post(x, t) \/ y = RunNext(x, t)
  OBVIOUS
<1> HIDE DEF t
<1>3. WorkFits(x, t) /\ ~InWork(t, x.pending)
  BY <1>1 DEF WorkFits, InWork
<1> QED
  BY <1>1, <1>2, <1>3, WorkAdded

LEMMA PlainBack ==
  ASSUME NEW x, LoadFits(x), x.stage # "none",
         NEW op \in {"opened", "openFailed", "process"},
         NEW y, y = ToIO(x, Task(op, 0, 0, 0))
  PROVE  LoadFits(y) /\ Keeps(x, y)
<1> DEFINE t == Task(op, 0, 0, 0)
<1>1. t \in BackTasks /\ t.op = op
  BY TaskIs DEF BackOps
<1>2. y = ToIO(x, t)
  OBVIOUS
<1> HIDE DEF t
<1>3. BackFits(x, t) /\ ~InBack(t)
  BY <1>1 DEF BackFits, InBack
<1> QED
  BY <1>1, <1>2, <1>3, BackAdded

LEMMA PlainHand ==
  ASSUME NEW x, LoadFits(x), x.stage # "none", NEW y, y = Keep(x, Held("open", 0))
  PROVE  LoadFits(y) /\ Keeps(x, y)
<1> DEFINE cb == Held("open", 0)
<1>1. cb \in Callbacks /\ cb.op = "open"
  BY HeldIs
<1>2. y = Keep(x, cb)
  OBVIOUS
<1> HIDE DEF cb
<1>3. HandFits(x, cb) /\ ~InHand(cb, x.pending)
  BY <1>1 DEF HandFits, InHand
<1> QED
  BY <1>1, <1>2, <1>3, HandAdded

\* The handler is detached, or was canceled before it could open.
LEMMA DetachKeeps ==
  ASSUME NEW x, LoadFits(x),
         NEW y, y = Detach(x) \/ y = [x EXCEPT !.canceled = TRUE] \/ y = [x EXCEPT !.life = "detached"]
  PROVE  /\ LoadFits(y) /\ Alike(x, y) /\ y.stage = x.stage /\ y.out = x.out /\ y.cb = x.cb
         /\ y.stream = x.stream /\ y.bad = x.bad
<1>1. x \in LoadTypes
  BY DEF LoadFits
<1>2. y \in LoadTypes
  <2>1. CASE y = [x EXCEPT !.canceled = TRUE]
    BY <1>1, <2>1 DEF LoadTypes
  <2>2. CASE y = Detach(x) \/ y = [x EXCEPT !.life = "detached"]
    <3>1. PICK v \in {"none", "attached", "detached", "canceled"} : y = [x EXCEPT !.life = v]
      BY <1>1, <2>2 DEF Detach, LoadTypes
    <3> QED
      BY <1>1, <3>1 DEF LoadTypes
  <2> QED
    BY <2>1, <2>2
<1>3. /\ Alike(x, y) /\ y.stage = x.stage /\ y.out = x.out /\ y.cb = x.cb
      /\ y.stream = x.stream /\ y.bad = x.bad
      /\ y.work = x.work /\ y.back = x.back /\ y.held = x.held
  BY <1>1 DEF Detach, LoadTypes, Alike
<1>4. StageFits(y)
  BY <1>3 DEF StageFits, LoadFits, Alike, InPlace, Base
<1> QED
  BY <1>2, <1>3, <1>4, SameFits

LEMMA ExecuteOpenKeeps ==
  ASSUME NEW x, LoadFits(x), x.stage # "none", NEW opened, NEW y, y = ExecuteOpen(x, opened)
  PROVE  Quiet(x, y)
<1>1. CASE opened
  <2>1. y = ToIO(x, Task("opened", 0, 0, 0))
    BY <1>1 DEF ExecuteOpen
  <2> QED
    BY <2>1, PlainBack DEF Quiet, Keeps
<1>2. CASE ~opened
  <2> DEFINE m == RunNext(x, Task("detach", 0, 0, 0))
  <2>1. y = ToIO(m, Task("openFailed", 0, 0, 0))
    BY <1>2 DEF ExecuteOpen
  <2>2. LoadFits(m) /\ Keeps(x, m)
    BY PlainWork
  <2> HIDE DEF m
  <2>3. m.stage # "none"
    BY <2>2 DEF Keeps
  <2>4. LoadFits(y) /\ Keeps(m, y)
    BY <2>1, <2>2, <2>3, PlainBack
  <2> QED
    BY <2>2, <2>4 DEF Quiet, Keeps
<1> QED
  BY <1>1, <1>2

LEMMA OpenKeeps ==
  ASSUME NEW x, LoadFits(x), x.stage # "none", NEW y \in OpenOnWorkThread(x)
  PROVE  Quiet(x, y)
<1>1. \/ y = x \/ y = ExecuteOpen(x, TRUE) \/ y = ExecuteOpen(x, FALSE)
      \/ y = Keep(x, Held("open", 0)) \/ y = ToIO(x, Task("process", 0, 0, 0))
  BY DEF OpenOnWorkThread
<1>2. CASE y = x
  BY <1>2 DEF Quiet
<1>3. CASE y = Keep(x, Held("open", 0))
  BY <1>3, PlainHand DEF Quiet, Keeps
<1>4. CASE y = ToIO(x, Task("process", 0, 0, 0))
  BY <1>4, PlainBack DEF Quiet, Keeps
<1> QED
  BY <1>1, <1>2, <1>3, <1>4, ExecuteOpenKeeps

LEMMA CancelOpenKeeps ==
  ASSUME NEW x, LoadFits(x), x.stage # "none", NEW y, y = CancelOnWorkThread(x)
  PROVE  Quiet(x, y)
<1>1. CASE y = x
  BY <1>1 DEF Quiet
<1>2. CASE y # x
  <2> DEFINE m == [x EXCEPT !.canceled = TRUE]
  <2>1. y = ToIO(m, Task("openFailed", 0, 0, 0))
    BY <1>2 DEF CancelOnWorkThread
  <2>2. LoadFits(m) /\ m.stage = x.stage /\ m.out = x.out
    BY DetachKeeps
  <2> HIDE DEF m
  <2> QED
    BY <2>1, <2>2, PlainBack DEF Quiet, Keeps
<1> QED
  BY <1>1, <1>2

LEMMA QuietChain ==
  ASSUME NEW x, NEW y, NEW z, y.stage = x.stage, y.out = x.out, Quiet(y, z)
  PROVE  Quiet(x, z)
BY DEF Quiet

\* The answer of a skip is posted once no callback is pending.
LEMMA SkipDoneAdded ==
  ASSUME NEW x, LoadFits(x), Idle(x), Active(x), x.stage # "none", x.pending = None,
         NEW n \in Int, n = x.first => x.at = x.first,
         NEW y, y = ToIO(x, Task("skipDone", 0, n, 0))
  PROVE  Quiet(x, y)
<1> DEFINE t == Task("skipDone", 0, n, 0)
<1>1. t \in BackTasks /\ t.op = "skipDone" /\ t.n = n
  BY TaskIs DEF BackOps
<1>2. y = ToIO(x, t)
  OBVIOUS
<1> HIDE DEF t
<1>3. BackFits(x, t)
  BY <1>1 DEF BackFits
<1> QED
  BY <1>1, <1>2, <1>3, BackAdded DEF Quiet, Keeps

LEMMA RunSkipKeeps ==
  ASSUME NEW x, LoadFits(x), Idle(x), Active(x), x.stage # "none", x.pending # None,
         NEW n \in Int, n = x.first => x.at = x.first,
         NEW y, y = RunSkipCallback(x, n)
  PROVE  Quiet(x, y)
<1>1. x \in LoadTypes /\ 0 \in 0 .. Size /\ x.at \in 0 .. Size
  BY LoaderAssumption DEF LoadFits, LoadTypes
<1> DEFINE m == Placed(x, None, x.next, 0, x.at)
<1>2. y = ToIO(m, Task("skipDone", 0, n, 0))
  <2>1. FailedIf(x, x.pending = None, "stream_reader_url_loader.cc:430") = x
    BY <1>1 DEF FailedIf, LoadTypes
  <2>2. [x EXCEPT !.pending = None, !.left = 0] = m
    BY <1>1 DEF Placed, LoadTypes
  <2> QED
    BY <2>1, <2>2 DEF RunSkipCallback
<1>3. PlacedIs(x, m, None, x.next, 0, x.at)
  BY <1>1, PlacedFits
<1> HIDE DEF m
<1>4. Quiet(m, y)
  BY <1>2, <1>3, SkipDoneAdded DEF PlacedIs
<1> QED
  BY <1>3, <1>4, QuietChain DEF PlacedIs

\* A callback the handler keeps though the answer was given.
LEMMA LateSkipKeeps ==
  ASSUME NEW x, LoadFits(x), Idle(x), Active(x), x.stage # "none", x.pending # None,
         1 <= x.pending, x.pending <= x.next, x.first # Failed,
         NEW y, y = RunSkipCallback(Keep(x, Held("skip", x.pending)), Failed)
  PROVE  Quiet(x, y)
<1>1. x \in LoadTypes /\ 0 \in 0 .. Size /\ x.at \in 0 .. Size /\ x.pending \in Int /\ Failed \in Int
  BY LoaderAssumption DEF LoadFits, LoadTypes, Failed
<1> DEFINE cb == Held("skip", x.pending)
           m == Placed(x, None, x.next, 0, x.at)
           k == Keep(m, cb)
<1>2. cb \in Callbacks /\ cb.op = "skip" /\ cb.id = x.pending
  BY <1>1, HeldIs
<1>3. y = ToIO(k, Task("skipDone", 0, Failed, 0))
  <2> HIDE DEF cb
  <2>1. Keep(x, cb).pending = x.pending
    BY <1>1 DEF Keep, LoadTypes
  <2>2. FailedIf(Keep(x, cb), Keep(x, cb).pending = None, "stream_reader_url_loader.cc:430")
          = Keep(x, cb)
    BY <1>1, <2>1 DEF FailedIf, Keep, LoadTypes
  <2>3. [Keep(x, cb) EXCEPT !.pending = None, !.left = 0] = k
    BY <1>1 DEF Placed, Keep, LoadTypes
  <2>4. y = RunSkipCallback(Keep(x, cb), Failed)
    BY DEF cb
  <2> HIDE DEF k
  <2> QED
    BY <2>2, <2>3, <2>4 DEF RunSkipCallback
<1>4. PlacedIs(x, m, None, x.next, 0, x.at)
  BY <1>1, PlacedFits
<1> HIDE DEF m, cb
<1>5. HandFits(m, cb) /\ ~InHand(cb, m.pending)
  BY <1>1, <1>2, <1>4 DEF PlacedIs, HandFits, Numbered, InHand, None
<1>6. LoadFits(k) /\ Keeps(m, k) /\ Idle(k)
  BY <1>2, <1>4, <1>5, HandAdded DEF PlacedIs
<1> HIDE DEF k
<1>7. /\ k.pending = None /\ k.stage = x.stage /\ k.out = x.out /\ k.stage # "none"
      /\ Active(k) /\ k.first = x.first
  BY <1>4, <1>6 DEF PlacedIs, Keeps, Alike, Active
<1>8. Quiet(k, y)
  BY <1>1, <1>3, <1>6, <1>7, SkipDoneAdded
<1> QED
  BY <1>7, <1>8, QuietChain

\* The bytes that are left are skipped.
LEMMA SkipKeeps ==
  ASSUME NEW x, LoadFits(x), Idle(x), Active(x), x.stage # "none", Skips(x),
         NEW y \in SkipToRequestedRange(x)
  PROVE  Quiet(x, y)
<1> DEFINE p == x.next + 1
           m == NextCallback(x)
           SkippedNow(n) == [m EXCEPT !.at = @ + n, !.left = @ - n]
           cb == Held("skip", m.pending)
<1>1. /\ x \in LoadTypes /\ x.next \in Nat /\ x.at \in 0 .. Size /\ x.left \in 0 .. Size
      /\ x.first \in -1 .. Size /\ Size \in Nat
  BY TypedFields DEF LoadFits
<1>2. x.at + x.left = x.first /\ x.left >= 1 /\ x.first # Failed /\ Failed \in Int
  BY <1>1 DEF Skips, Failed
<1>3. m = Placed(x, p, p, x.left, x.at)
  BY <1>1 DEF NextCallback, Placed, LoadTypes
<1>4. PlacedIs(x, m, p, p, x.left, x.at) /\ m \in LoadTypes
  <2>1. PlacedIs(x, m, p, p, x.left, x.at)
    BY <1>1, <1>3, PlacedFits
  <2> QED
    BY <2>1 DEF PlacedIs, LoadFits
<1>5. \/ y = RunSkipCallback(m, Failed)
      \/ y = Keep(m, cb)
      \/ y = RunSkipCallback(Keep(m, cb), Failed)
      \/ \E n \in 1 .. m.left - 1 : y = RunNext(SkippedNow(n), Task("skipMore", 0, 0, 0))
      \/ y = RunSkipCallback(SkippedNow(m.left), m.first)
  BY DEF SkipToRequestedRange
<1> HIDE DEF m
<1>6. /\ LoadFits(m) /\ Idle(m) /\ Active(m) /\ m.stage # "none" /\ m.stage = x.stage
      /\ m.out = x.out /\ m.pending = p /\ m.next = p /\ m.left = x.left /\ m.at = x.at
      /\ m.first = x.first /\ m.pending # None
  BY <1>1, <1>4 DEF PlacedIs, None
<1>7. CASE y = RunSkipCallback(m, Failed)
  <2>1. m.first # Failed
    BY <1>2, <1>6
  <2>2. Quiet(m, y)
    BY <1>2, <1>6, <1>7, <2>1, RunSkipKeeps
  <2> QED
    BY <1>6, <2>2, QuietChain
<1>8. CASE y = Keep(m, cb)
  <2>1. cb \in Callbacks /\ cb.op = "skip" /\ cb.id = m.pending
    BY <1>1, <1>6, HeldIs
  <2> HIDE DEF cb
  <2>2. HandFits(m, cb)
    BY <1>1, <1>2, <1>6, <2>1 DEF HandFits, Numbered, Skips
  <2>3. Quiet(m, y)
    BY <1>6, <1>8, <2>1, <2>2, HandAdded DEF Quiet, Keeps
  <2> QED
    BY <1>6, <2>3, QuietChain
<1>9. CASE y = RunSkipCallback(Keep(m, cb), Failed)
  <2>1. 1 <= m.pending /\ m.pending <= m.next /\ m.first # Failed
    BY <1>1, <1>2, <1>6
  <2>2. Quiet(m, y)
    BY <1>6, <1>9, <2>1, LateSkipKeeps
  <2> QED
    BY <1>6, <2>2, QuietChain
<1>10. CASE \E n \in 1 .. m.left - 1 : y = RunNext(SkippedNow(n), Task("skipMore", 0, 0, 0))
  <2>1. PICK n \in 1 .. m.left - 1 : y = RunNext(SkippedNow(n), Task("skipMore", 0, 0, 0))
    BY <1>10
  <2> DEFINE l == m.left - n
             a == m.at + n
             k == Placed(m, m.pending, m.next, l, a)
             t == Task("skipMore", 0, 0, 0)
  <2>2. l \in 0 .. Size /\ a \in 0 .. Size /\ l >= 1 /\ a + l = m.first
    BY <1>1, <1>2, <1>6, <2>1
  <2>3. SkippedNow(n) = k
    BY <1>4 DEF Placed, LoadTypes
  <2>4. t \in WorkTasks /\ t.op = "skipMore"
    BY TaskIs DEF WorkOps
  <2>5. y = RunNext(k, t)
    BY <2>1, <2>3
  <2> HIDE DEF l, a, t
  <2>6. PlacedIs(m, k, m.pending, m.next, l, a)
    BY <1>6, <2>2, PlacedFits
  <2> HIDE DEF k
  <2>7. WorkFits(k, t)
    BY <2>2, <2>4, <2>6 DEF WorkFits, Skips, PlacedIs
  <2>8. LoadFits(y) /\ Keeps(k, y)
    BY <2>4, <2>5, <2>6, <2>7, WorkAdded DEF PlacedIs
  <2> QED
    BY <1>6, <2>6, <2>8 DEF Quiet, Keeps, PlacedIs
<1>11. CASE y = RunSkipCallback(SkippedNow(m.left), m.first)
  <2> DEFINE a == m.at + m.left
             k == Placed(m, m.pending, m.next, 0, a)
  <2>1. a \in 0 .. Size /\ 0 \in 0 .. Size /\ a = m.first /\ m.first \in Int /\ m.left - m.left = 0
    BY <1>1, <1>2, <1>6
  <2>2. SkippedNow(m.left) = k
    BY <1>4, <2>1 DEF Placed, LoadTypes
  <2> HIDE DEF a
  <2>3. PlacedIs(m, k, m.pending, m.next, 0, a)
    BY <1>6, <2>1, PlacedFits
  <2> HIDE DEF k
  <2>4. y = RunSkipCallback(k, m.first)
    BY <1>11, <2>2
  <2>5. Quiet(k, y)
    BY <1>6, <2>1, <2>3, <2>4, RunSkipKeeps DEF PlacedIs
  <2> QED
    BY <1>6, <2>3, <2>5, QuietChain DEF PlacedIs
<1> QED
  BY <1>5, <1>7, <1>8, <1>9, <1>10, <1>11

LEMMA SkipTaskKeeps ==
  ASSUME NEW x, LoadFits(x), Idle(x), Active(x), x.stage # "none", x.pending = None,
         x.at = 0, x.first # NoRange, NEW y \in SkipOnWorkThread(x, x.first)
  PROVE  Quiet(x, y)
<1>1. /\ x \in LoadTypes /\ x.first \in -1 .. Size /\ Size \in Nat /\ x.at \in 0 .. Size
  BY TypedFields DEF LoadFits
<1>2. FailedIf(x, x.pending # None, "stream_reader_url_loader.cc:276") = x
  BY <1>1 DEF FailedIf, LoadTypes
<1>3. CASE x.first <= 0
  <2>1. y = ToIO(x, Task("skipDone", 0, 0, 0))
    BY <1>2, <1>3 DEF SkipOnWorkThread
  <2> QED
    BY <2>1, SkipDoneAdded
<1>4. CASE ~(x.first <= 0)
  <2> DEFINE m == Placed(x, None, x.next, x.first, x.at)
  <2>1. [x EXCEPT !.left = x.first] = m
    BY <1>1 DEF Placed, LoadTypes
  <2>2. y \in SkipToRequestedRange(m)
    BY <1>2, <1>4, <2>1 DEF SkipOnWorkThread
  <2>3. x.first \in 0 .. Size /\ x.first >= 1
    BY <1>1, <1>4
  <2>4. PlacedIs(x, m, None, x.next, x.first, x.at)
    BY <1>1, <2>3, PlacedFits
  <2> HIDE DEF m
  <2>5. Skips(m)
    BY <1>1, <2>3, <2>4 DEF Skips, PlacedIs
  <2>6. Quiet(m, y)
    BY <2>2, <2>4, <2>5, SkipKeeps DEF PlacedIs
  <2> QED
    BY <2>4, <2>6, QuietChain DEF PlacedIs
<1> QED
  BY <1>3, <1>4

LEMMA SkipAnsweredKeeps ==
  ASSUME NEW x, LoadFits(x), x.stage # "none", NEW id \in Int, NEW n \in Int, Numbered(x, id),
         id = x.pending => Idle(x) /\ Active(x),
         id = x.pending /\ n > 0 => n <= x.left /\ x.at + x.left - n = x.first,
         NEW y, y = ContinueSkipCallbackOnWorkThread(x, id, n)
  PROVE  Quiet(x, y)
<1>1. /\ x \in LoadTypes /\ x.first \in -1 .. Size /\ Size \in Nat /\ x.at \in 0 .. Size
      /\ x.left \in 0 .. Size /\ Failed \in Int /\ x.first # Failed /\ x.pending \in Int
  BY TypedFields DEF LoadFits, Failed
<1>2. CASE x.pending # id
  BY <1>2 DEF ContinueSkipCallbackOnWorkThread, Quiet
<1>3. CASE x.pending = id /\ n <= 0
  <2>1. x.pending # None
    BY <1>1, <1>3 DEF Numbered, None
  <2>2. y = RunSkipCallback(x, Failed)
    BY <1>3 DEF ContinueSkipCallbackOnWorkThread
  <2> QED
    BY <1>1, <1>3, <2>1, <2>2, RunSkipKeeps
<1>4. CASE x.pending = id /\ ~(n <= 0) /\ n < x.left
  <2> DEFINE l == x.left - n
             k == Placed(x, x.pending, x.next, l, x.at)
             t == Task("skipMore", 0, 0, 0)
  <2>1. l \in 0 .. Size /\ l >= 1 /\ x.at + l = x.first
    BY <1>1, <1>4
  <2>2. [x EXCEPT !.left = @ - n] = k
    BY <1>1 DEF Placed, LoadTypes
  <2>3. t \in WorkTasks /\ t.op = "skipMore"
    BY TaskIs DEF WorkOps
  <2>4. y = Post(k, t)
    BY <1>4, <2>2 DEF ContinueSkipCallbackOnWorkThread
  <2> HIDE DEF l, t
  <2>5. PlacedIs(x, k, x.pending, x.next, l, x.at)
    BY <1>1, <1>4, <2>1, PlacedFits
  <2> HIDE DEF k
  <2>6. WorkFits(k, t)
    BY <2>1, <2>3, <2>5 DEF WorkFits, Skips, PlacedIs
  <2>7. LoadFits(y) /\ Keeps(k, y)
    BY <2>3, <2>4, <2>5, <2>6, WorkAdded DEF PlacedIs
  <2> QED
    BY <2>5, <2>7 DEF Quiet, Keeps, PlacedIs
<1>5. CASE x.pending = id /\ ~(n <= 0) /\ ~(n < x.left)
  <2>1. x.pending # None /\ x.at = x.first /\ x.first \in Int
    BY <1>1, <1>5 DEF Numbered, None
  <2>2. y = RunSkipCallback(x, x.first)
    BY <1>5 DEF ContinueSkipCallbackOnWorkThread
  <2> QED
    BY <1>5, <2>1, <2>2, RunSkipKeeps
<1> QED
  BY <1>2, <1>3, <1>4, <1>5

\* The answer of a read.
LEMMA ReadDoneAdded ==
  ASSUME NEW x, LoadFits(x), Idle(x), Active(x), x.stage # "none", x.pending = None,
         NEW n \in Int, NEW at \in Int,
         n > 0 => at = Base(x) + Len(x.body) /\ x.at = at + n,
         NEW y, y = ToIO(x, Task("readDone", 0, n, at))
  PROVE  Quiet(x, y)
<1> DEFINE t == Task("readDone", 0, n, at)
<1>1. t \in BackTasks /\ t.op = "readDone" /\ t.n = n /\ t.at = at
  BY TaskIs DEF BackOps
<1>2. y = ToIO(x, t)
  OBVIOUS
<1> HIDE DEF t
<1>3. BackFits(x, t)
  BY <1>1 DEF BackFits, Reads
<1> QED
  BY <1>1, <1>2, <1>3, BackAdded DEF Quiet, Keeps

LEMMA RunReadKeeps ==
  ASSUME NEW x, LoadFits(x), Idle(x), Active(x), x.stage # "none", x.pending # None,
         NEW n \in Int, NEW at \in Int,
         n > 0 => at = Base(x) + Len(x.body) /\ x.at = at + n,
         NEW y, y = RunReadCallback(x, n, at)
  PROVE  Quiet(x, y)
<1>1. x \in LoadTypes /\ x.left \in 0 .. Size /\ x.at \in 0 .. Size
  BY DEF LoadFits, LoadTypes
<1> DEFINE m == Placed(x, None, x.next, x.left, x.at)
<1>2. y = ToIO(m, Task("readDone", 0, n, at))
  <2>1. FailedIf(x, x.pending = None, "stream_reader_url_loader.cc:444") = x
    BY <1>1 DEF FailedIf, LoadTypes
  <2>2. [x EXCEPT !.pending = None] = m
    BY <1>1 DEF Placed, LoadTypes
  <2> QED
    BY <2>1, <2>2 DEF RunReadCallback
<1>3. PlacedIs(x, m, None, x.next, x.left, x.at)
  BY <1>1, PlacedFits
<1> HIDE DEF m
<1>4. n > 0 => at = Base(m) + Len(m.body) /\ m.at = at + n
  BY <1>3 DEF PlacedIs, Base
<1>5. Quiet(m, y)
  BY <1>2, <1>3, <1>4, ReadDoneAdded DEF PlacedIs
<1> QED
  BY <1>3, <1>5, QuietChain DEF PlacedIs

LEMMA LateReadKeeps ==
  ASSUME NEW x, LoadFits(x), Idle(x), Active(x), x.stage # "none", x.pending # None,
         1 <= x.pending, x.pending <= x.next, NEW n \in {0, Failed},
         NEW y, y = RunReadCallback(Keep(x, Held("read", x.pending)), n, 0)
  PROVE  Quiet(x, y)
<1>1. /\ x \in LoadTypes /\ x.left \in 0 .. Size /\ x.at \in 0 .. Size /\ x.pending \in Int
      /\ n \in Int /\ 0 \in Int /\ ~(n > 0)
  BY DEF LoadFits, LoadTypes, Failed
<1> DEFINE cb == Held("read", x.pending)
           m == Placed(x, None, x.next, x.left, x.at)
           k == Keep(m, cb)
<1>2. cb \in Callbacks /\ cb.op = "read" /\ cb.id = x.pending
  BY <1>1, HeldIs
<1>3. y = ToIO(k, Task("readDone", 0, n, 0))
  <2> HIDE DEF cb
  <2>1. Keep(x, cb).pending = x.pending
    BY <1>1 DEF Keep, LoadTypes
  <2>2. FailedIf(Keep(x, cb), Keep(x, cb).pending = None, "stream_reader_url_loader.cc:444")
          = Keep(x, cb)
    BY <1>1, <2>1 DEF FailedIf, Keep, LoadTypes
  <2>3. [Keep(x, cb) EXCEPT !.pending = None] = k
    BY <1>1 DEF Placed, Keep, LoadTypes
  <2>4. y = RunReadCallback(Keep(x, cb), n, 0)
    BY DEF cb
  <2> HIDE DEF k
  <2> QED
    BY <2>2, <2>3, <2>4 DEF RunReadCallback
<1>4. PlacedIs(x, m, None, x.next, x.left, x.at)
  BY <1>1, PlacedFits
<1> HIDE DEF m, cb
<1>5. HandFits(m, cb) /\ ~InHand(cb, m.pending)
  BY <1>1, <1>2, <1>4 DEF PlacedIs, HandFits, Numbered, InHand, None
<1>6. LoadFits(k) /\ Keeps(m, k) /\ Idle(k)
  BY <1>2, <1>4, <1>5, HandAdded DEF PlacedIs
<1> HIDE DEF k
<1>7. /\ k.pending = None /\ k.stage = x.stage /\ k.out = x.out /\ k.stage # "none" /\ Active(k)
  BY <1>4, <1>6 DEF PlacedIs, Keeps, Alike, Active
<1>8. Quiet(k, y)
  BY <1>1, <1>3, <1>6, <1>7, ReadDoneAdded
<1> QED
  BY <1>7, <1>8, QuietChain

LEMMA ReadKeeps ==
  ASSUME NEW x, LoadFits(x), Idle(x), Active(x), x.stage # "none", x.pending = None, InPlace(x),
         NEW y \in ReadOnWorkThread(x)
  PROVE  Quiet(x, y)
<1> DEFINE p == x.next + 1
           m == NextCallback(x)
           cb == Held("read", m.pending)
           t == Task("readResponse", m.pending, 0, 0)
<1>1. /\ x \in LoadTypes /\ x.next \in Nat /\ x.at \in 0 .. Size /\ x.left \in 0 .. Size
      /\ Size \in Nat
  BY TypedFields DEF LoadFits
<1>2. m = Placed(x, p, p, x.left, x.at)
  BY <1>1 DEF NextCallback, Placed, LoadTypes
<1>3. PlacedIs(x, m, p, p, x.left, x.at) /\ m \in LoadTypes
  <2>1. PlacedIs(x, m, p, p, x.left, x.at)
    BY <1>1, <1>2, PlacedFits
  <2> QED
    BY <2>1 DEF PlacedIs, LoadFits
<1>4. \/ y = RunReadCallback(m, Failed, 0)
      \/ y = Keep(m, cb)
      \/ \E n \in {0, Failed} : y = RunReadCallback(Keep(m, cb), n, 0)
      \/ y = ToIO(m, t)
      \/ \E n \in 1 .. Size - m.at : y = RunReadCallback([m EXCEPT !.at = @ + n], n, m.at)
  <2>1. FailedIf(x, x.pending # None, "stream_reader_url_loader.cc:296") = x
    BY <1>1 DEF FailedIf, LoadTypes
  <2> HIDE DEF m
  <2> QED
    BY <2>1 DEF ReadOnWorkThread, m
<1> HIDE DEF m
<1>5. /\ LoadFits(m) /\ Idle(m) /\ Active(m) /\ m.stage # "none" /\ m.stage = x.stage
      /\ m.out = x.out /\ m.pending = p /\ m.next = p /\ m.left = x.left /\ m.at = x.at
      /\ m.first = x.first /\ m.pending # None /\ m.body = x.body
      /\ m.pending \in Int /\ Numbered(m, m.pending) /\ InPlace(m)
  BY <1>1, <1>3 DEF PlacedIs, None, Numbered, InPlace, Base
<1>6. CASE y = RunReadCallback(m, Failed, 0)
  <2>1. Failed \in Int /\ 0 \in Int /\ ~(Failed > 0)
    BY DEF Failed
  <2>2. Quiet(m, y)
    BY <1>5, <1>6, <2>1, RunReadKeeps
  <2> QED
    BY <1>5, <2>2, QuietChain
<1>7. CASE y = Keep(m, cb)
  <2>1. cb \in Callbacks /\ cb.op = "read" /\ cb.id = m.pending
    BY <1>5, HeldIs
  <2> HIDE DEF cb
  <2>2. HandFits(m, cb)
    BY <1>5, <2>1 DEF HandFits
  <2>3. Quiet(m, y)
    BY <1>5, <1>7, <2>1, <2>2, HandAdded DEF Quiet, Keeps
  <2> QED
    BY <1>5, <2>3, QuietChain
<1>8. CASE \E n \in {0, Failed} : y = RunReadCallback(Keep(m, cb), n, 0)
  <2>1. PICK n \in {0, Failed} : y = RunReadCallback(Keep(m, cb), n, 0)
    BY <1>8
  <2>2. 1 <= m.pending /\ m.pending <= m.next
    BY <1>5 DEF Numbered
  <2>3. Quiet(m, y)
    BY <1>5, <2>1, <2>2, LateReadKeeps
  <2> QED
    BY <1>5, <2>3, QuietChain
<1>9. CASE y = ToIO(m, t)
  <2>1. t \in BackTasks /\ t.op = "readResponse" /\ t.id = m.pending
    BY <1>5, TaskIs DEF BackOps
  <2> HIDE DEF t
  <2>2. BackFits(m, t)
    BY <1>5, <2>1 DEF BackFits
  <2>3. Quiet(m, y)
    BY <1>5, <1>9, <2>1, <2>2, BackAdded DEF Quiet, Keeps
  <2> QED
    BY <1>5, <2>3, QuietChain
<1>10. CASE \E n \in 1 .. Size - m.at : y = RunReadCallback([m EXCEPT !.at = @ + n], n, m.at)
  <2>1. PICK n \in 1 .. Size - m.at : y = RunReadCallback([m EXCEPT !.at = @ + n], n, m.at)
    BY <1>10
  <2> DEFINE a == m.at + n
             k == Placed(m, m.pending, m.next, m.left, a)
  <2>2. a \in 0 .. Size /\ m.left \in 0 .. Size /\ n \in Int /\ m.at \in Int
    BY <1>1, <1>5, <2>1
  <2>3. [m EXCEPT !.at = @ + n] = k
    BY <1>3 DEF Placed, LoadTypes
  <2>4. a = m.at + n
    OBVIOUS
  <2> HIDE DEF a
  <2>5. PlacedIs(m, k, m.pending, m.next, m.left, a)
    BY <1>5, <2>2, PlacedFits
  <2>6. y = RunReadCallback(k, n, m.at)
    BY <2>1, <2>3
  <2> HIDE DEF k
  <2>7. m.at = Base(k) + Len(k.body) /\ k.at = m.at + n
    BY <1>5, <2>4, <2>5 DEF PlacedIs, InPlace, Base
  <2>8. Quiet(k, y)
    BY <1>5, <2>2, <2>5, <2>6, <2>7, RunReadKeeps DEF PlacedIs
  <2> QED
    BY <1>5, <2>5, <2>8, QuietChain DEF PlacedIs
<1> QED
  BY <1>4, <1>6, <1>7, <1>8, <1>9, <1>10

LEMMA ReadAnsweredKeeps ==
  ASSUME NEW x, LoadFits(x), x.stage # "none", NEW id \in Int, NEW n \in Int, NEW at \in Int,
         Numbered(x, id), id = x.pending => Idle(x) /\ Active(x),
         id = x.pending /\ n > 0 => at = Base(x) + Len(x.body) /\ x.at = at + n,
         NEW y, y = ContinueReadCallbackOnWorkThread(x, id, n, at)
  PROVE  Quiet(x, y)
<1>1. CASE x.pending # id
  BY <1>1 DEF ContinueReadCallbackOnWorkThread, Quiet
<1>2. CASE x.pending = id
  <2>1. x.pending # None
    BY <1>2 DEF Numbered, None
  <2>2. y = RunReadCallback(x, n, at)
    BY <1>2 DEF ContinueReadCallbackOnWorkThread
  <2> QED
    BY <1>2, <2>1, <2>2, RunReadKeeps
<1> QED
  BY <1>1, <1>2

\* A task of the work sequence changes neither the stage nor the messages.
LEMMA WorkKeeps ==
  ASSUME NEW x, LoadFits(x), x.work # <<>>, NEW y \in Work(x)
  PROVE  Quiet(x, y)
<1> DEFINE t == Head(x.work)
           m == [x EXCEPT !.work = Tail(@)]
<1>1. WorkTakes(x, m, t)
  BY DEF WorkTakes
<1>2. /\ t.op = "open"         => y \in OpenOnWorkThread(m)
      /\ t.op = "cancelOpen"   => y = CancelOnWorkThread(m)
      /\ t.op = "openAnswered" => y = ExecuteOpen(m, t.n = 1)
      /\ t.op = "detach"       => y = Detach(m)
      /\ t.op = "skip"         => y \in SkipOnWorkThread(m, t.n)
      /\ t.op = "skipMore"     => y \in SkipToRequestedRange(m)
      /\ t.op = "skipAnswered" => y = ContinueSkipCallbackOnWorkThread(m, t.id, t.n)
      /\ t.op = "read"         => y \in ReadOnWorkThread(m)
      /\ t.op = "readAnswered" => y = ContinueReadCallbackOnWorkThread(m, t.id, t.n, t.at)
  <2> DEFINE W == Work(x)
  <2>1. y \in W
    OBVIOUS
  <2>2. /\ t.op = "open"         => W = OpenOnWorkThread(m)
        /\ t.op = "cancelOpen"   => W = {CancelOnWorkThread(m)}
        /\ t.op = "openAnswered" => W = {ExecuteOpen(m, t.n = 1)}
        /\ t.op = "detach"       => W = {Detach(m)}
        /\ t.op = "skip"         => W = SkipOnWorkThread(m, t.n)
        /\ t.op = "skipMore"     => W = SkipToRequestedRange(m)
        /\ t.op = "skipAnswered" => W = {ContinueSkipCallbackOnWorkThread(m, t.id, t.n)}
        /\ t.op = "read"         => W = ReadOnWorkThread(m)
        /\ t.op = "readAnswered" => W = {ContinueReadCallbackOnWorkThread(m, t.id, t.n, t.at)}
    BY DEF Work
  <2> HIDE DEF W, t, m
  <2> QED
    BY <2>1, <2>2
<1> HIDE DEF t, m
<1>3. /\ Taken(x, m, t) /\ t.op \in WorkOps /\ WorkFits(m, t)
      /\ InWork(t, m.pending) => Idle(m) /\ Active(m)
  BY <1>1, WorkTaken
<1>4. /\ LoadFits(m) /\ m.stage # "none" /\ m.stage = x.stage /\ m.out = x.out
      /\ t.id \in Int /\ t.n \in Int /\ t.at \in Int
  BY <1>3 DEF Taken, Keeps
<1>5. CASE t.op = "open"
  BY <1>2, <1>4, <1>5, OpenKeeps, QuietChain
<1>6. CASE t.op = "cancelOpen"
  BY <1>2, <1>4, <1>6, CancelOpenKeeps, QuietChain
<1>7. CASE t.op = "openAnswered"
  BY <1>2, <1>4, <1>7, ExecuteOpenKeeps, QuietChain
<1>8. CASE t.op = "detach"
  BY <1>2, <1>4, <1>8, DetachKeeps DEF Quiet
<1>9. CASE t.op = "skip"
  <2>1. m.pending = None /\ m.at = 0 /\ t.n = m.first /\ m.first # NoRange /\ Idle(m) /\ Active(m)
    BY <1>3, <1>9 DEF WorkFits, InWork
  <2>2. y \in SkipOnWorkThread(m, m.first)
    BY <1>2, <1>9, <2>1
  <2> QED
    BY <1>4, <2>1, <2>2, SkipTaskKeeps, QuietChain
<1>10. CASE t.op = "skipMore"
  <2>1. Skips(m) /\ Idle(m) /\ Active(m)
    BY <1>3, <1>10 DEF WorkFits, InWork
  <2> QED
    BY <1>2, <1>4, <1>10, <2>1, SkipKeeps, QuietChain
<1>11. CASE t.op = "skipAnswered"
  <2>1. /\ Numbered(m, t.id)
        /\ t.id = m.pending => Idle(m) /\ Active(m)
        /\ t.id = m.pending /\ t.n > 0 => t.n <= m.left /\ m.at + m.left - t.n = m.first
    BY <1>3, <1>11 DEF WorkFits, InWork
  <2> QED
    BY <1>2, <1>4, <1>11, <2>1, SkipAnsweredKeeps, QuietChain
<1>12. CASE t.op = "read"
  <2>1. m.pending = None /\ InPlace(m) /\ Idle(m) /\ Active(m)
    BY <1>3, <1>12 DEF WorkFits, InWork
  <2> QED
    BY <1>2, <1>4, <1>12, <2>1, ReadKeeps, QuietChain
<1>13. CASE t.op = "readAnswered"
  <2>1. /\ Numbered(m, t.id)
        /\ t.id = m.pending => Idle(m) /\ Active(m)
        /\ t.id = m.pending /\ t.n > 0 => t.at = Base(m) + Len(m.body) /\ m.at = t.at + t.n
    BY <1>3, <1>13 DEF WorkFits, InWork, Reads
  <2> QED
    BY <1>2, <1>4, <1>13, <2>1, ReadAnsweredKeeps, QuietChain
<1> QED
  BY <1>3, <1>5, <1>6, <1>7, <1>8, <1>9, <1>10, <1>11, <1>12, <1>13 DEF WorkOps

\* An answer of the handler, with the number of what it answers.
LEMMA AnsweredAdded ==
  ASSUME NEW x, LoadFits(x), x.stage # "none", NEW op \in {"skipAnswered", "readAnswered"},
         NEW id \in Int, NEW n \in Int, NEW at \in Int, Numbered(x, id),
         id = x.pending => Idle(x) /\ Active(x),
         op = "skipAnswered" /\ id = x.pending /\ n > 0 =>
           n <= x.left /\ x.at + x.left - n = x.first,
         op = "readAnswered" /\ id = x.pending /\ n > 0 =>
           at = Base(x) + Len(x.body) /\ x.at = at + n,
         NEW y, y = Post(x, Task(op, id, n, at))
  PROVE  Quiet(x, y)
<1> DEFINE t == Task(op, id, n, at)
<1>1. t \in WorkTasks /\ t.op = op /\ t.id = id /\ t.n = n /\ t.at = at
  BY TaskIs DEF WorkOps
<1>2. y = Post(x, t)
  OBVIOUS
<1> HIDE DEF t
<1>3. WorkFits(x, t)
  BY <1>1 DEF WorkFits, Reads
<1>4. InWork(t, x.pending) => Idle(x) /\ Active(x)
  BY <1>1 DEF InWork
<1> QED
  BY <1>1, <1>2, <1>3, <1>4, WorkAdded DEF Quiet, Keeps

\* A callback that is run or released changes neither.
LEMMA AnswerKeeps ==
  ASSUME NEW x, LoadFits(x), NEW cb \in x.held, NEW y \in Answer(x, cb)
  PROVE  Quiet(x, y)
<1> DEFINE m == [x EXCEPT !.held = @ \ {cb}]
           Moved(n) == IF cb.id = x.pending THEN [m EXCEPT !.at = @ + n] ELSE m
           room == IF cb.id # x.pending THEN 1
                   ELSE IF cb.op = "skip" THEN x.left ELSE Size - x.at
           A == Answer(x, cb)
<1>1. /\ cb.op = "open" => A = {Post(m, Task("openAnswered", 0, n, 0)) : n \in {0, 1}}
      /\ cb.op = "response" => A = {ToIO(m, Task("readResponse", cb.id, 1, 0)),
                                    Post(m, Task("readAnswered", cb.id, Failed, 0))}
      /\ cb.op = "skip" => A = {Post(Moved(n), Task("skipAnswered", cb.id, n, 0)) :
                                  n \in 1 .. room} \cup
                               {Post(m, Task("skipAnswered", cb.id, Failed, 0))}
      /\ cb.op = "read" => A = {Post(Moved(n), Task("readAnswered", cb.id, n, x.at)) :
                                  n \in 1 .. room} \cup
                               {Post(m, Task("readAnswered", cb.id, n, 0)) : n \in {0, Failed}}
  BY DEF Answer
<1>2. y \in A
  OBVIOUS
<1>3. /\ LoadFits(m) /\ Keeps(x, m) /\ m.stage # "none" /\ m.stage = x.stage /\ m.out = x.out
      /\ cb \in Callbacks /\ HandFits(m, cb)
      /\ InHand(cb, m.pending) => Idle(m) /\ Active(m)
  <2>1. m = [x EXCEPT !.held = @ \ {cb}]
    OBVIOUS
  <2> HIDE DEF m
  <2>2. /\ LoadFits(m) /\ Keeps(x, m) /\ x.stage # "none" /\ cb \in Callbacks /\ HandFits(m, cb)
        /\ InHand(cb, m.pending) => Idle(m) /\ Active(m)
    BY <2>1, HandTaken
  <2> QED
    BY <2>2 DEF Keeps
<1>4. m.pending = x.pending /\ m.left = x.left /\ m.at = x.at
  BY <1>3 DEF Keeps, Alike
<1>5. /\ m \in LoadTypes /\ m.at \in 0 .. Size /\ m.left \in 0 .. Size /\ Size \in Nat
      /\ m.first \in -1 .. Size /\ m.pending \in Int
  BY <1>3, TypedFields DEF LoadFits
<1>6. cb.id \in Int /\ cb.op \in {"open", "response", "skip", "read"}
      /\ Failed \in Int /\ ~(Failed > 0)
  BY <1>3 DEF Callbacks, Failed
<1> HIDE DEF A
<1>7. CASE cb.op = "open"
  <2>1. PICK n \in {0, 1} : y = Post(m, Task("openAnswered", 0, n, 0))
    BY <1>1, <1>2, <1>7
  <2> HIDE DEF m
  <2>2. n \in Int
    BY <2>1
  <2>3. LoadFits(y) /\ Keeps(m, y)
    BY <1>3, <2>1, <2>2, PlainWork
  <2> QED
    BY <1>3, <2>3 DEF Quiet, Keeps
<1>8. CASE cb.op = "response"
  <2>1. \/ y = ToIO(m, Task("readResponse", cb.id, 1, 0))
        \/ y = Post(m, Task("readAnswered", cb.id, Failed, 0))
    BY <1>1, <1>2, <1>8
  <2> HIDE DEF m
  <2>2. cb.id = m.pending /\ Numbered(m, cb.id) /\ InPlace(m) /\ Idle(m) /\ Active(m)
    BY <1>3, <1>8 DEF HandFits, InHand
  <2>3. CASE y = ToIO(m, Task("readResponse", cb.id, 1, 0))
    <3> DEFINE t == Task("readResponse", cb.id, 1, 0)
    <3>1. t \in BackTasks /\ t.op = "readResponse" /\ t.id = cb.id
      BY <1>6, ReadResponseIs
    <3>2. t = Task("readResponse", cb.id, 1, 0)
      OBVIOUS
    <3> HIDE DEF t
    <3>3. BackFits(m, t)
      BY <2>2, <3>1 DEF BackFits
    <3>4. y = ToIO(m, t)
      BY <2>3, <3>2
    <3> QED
      BY <1>3, <2>2, <3>1, <3>3, <3>4, BackAdded DEF Quiet, Keeps
  <2>4. CASE y = Post(m, Task("readAnswered", cb.id, Failed, 0))
    <3>1. Quiet(m, y)
      BY <1>3, <1>6, <2>2, <2>4, AnsweredAdded
    <3> QED
      BY <1>3, <3>1, QuietChain
  <2> QED
    BY <2>1, <2>3, <2>4
<1>9. CASE cb.op \in {"skip", "read"}
  <2>1. /\ Numbered(m, cb.id)
        /\ cb.id = m.pending => Idle(m) /\ Active(m)
        /\ cb.op = "skip" /\ cb.id = m.pending => m.left >= 1 /\ m.at + m.left = m.first
        /\ cb.op = "read" /\ cb.id = m.pending => m.at = Base(m) + Len(m.body)
    BY <1>3, <1>9 DEF HandFits, InHand, Skips, InPlace
  <2> DEFINE op == IF cb.op = "skip" THEN "skipAnswered" ELSE "readAnswered"
             at == IF cb.op = "skip" THEN 0 ELSE m.at
  <2>2. \/ \E n \in 1 .. room : y = Post(Moved(n), Task(op, cb.id, n, at))
        \/ \E n \in {0, Failed} : y = Post(m, Task(op, cb.id, n, 0))
    <3>1. CASE cb.op = "skip"
      <4>1. \/ \E n \in 1 .. room : y = Post(Moved(n), Task("skipAnswered", cb.id, n, 0))
            \/ y = Post(m, Task("skipAnswered", cb.id, Failed, 0))
        <5> HIDE DEF m, room, Moved
        <5> QED
          BY <1>1, <1>2, <3>1
      <4>2. op = "skipAnswered" /\ at = 0
        BY <3>1
      <4> HIDE DEF m, room, Moved, op, at
      <4> QED
        BY <4>1, <4>2
    <3>2. CASE cb.op = "read"
      <4>1. \/ \E n \in 1 .. room : y = Post(Moved(n), Task("readAnswered", cb.id, n, x.at))
            \/ \E n \in {0, Failed} : y = Post(m, Task("readAnswered", cb.id, n, 0))
        <5> HIDE DEF m, room, Moved
        <5> QED
          BY <1>1, <1>2, <3>2
      <4>2. op = "readAnswered" /\ at = x.at
        BY <1>4, <3>2
      <4> HIDE DEF m, room, Moved, op, at
      <4> QED
        BY <4>1, <4>2
    <3> QED
      BY <1>9, <3>1, <3>2
  <2>3. op \in {"skipAnswered", "readAnswered"} /\ at \in Int
    BY <1>5
  <2>4. CASE \E n \in {0, Failed} : y = Post(m, Task(op, cb.id, n, 0))
    <3>1. PICK n \in {0, Failed} : y = Post(m, Task(op, cb.id, n, 0))
      BY <2>4
    <3>2. n \in Int /\ ~(n > 0)
      BY <1>6, <3>1
    <3> HIDE DEF m, op
    <3>3. Quiet(m, y)
      BY <1>3, <1>6, <2>1, <2>3, <3>1, <3>2, AnsweredAdded
    <3> QED
      BY <1>3, <3>3, QuietChain
  <2>5. CASE \E n \in 1 .. room : y = Post(Moved(n), Task(op, cb.id, n, at))
    <3>1. PICK n \in 1 .. room : y = Post(Moved(n), Task(op, cb.id, n, at))
      BY <2>5
    <3>2. CASE cb.id # m.pending
      <4>1. y = Post(m, Task(op, cb.id, n, at)) /\ n \in Int
        BY <1>4, <3>1, <3>2
      <4> HIDE DEF m, op, at
      <4>2. Quiet(m, y)
        BY <1>3, <1>6, <2>1, <2>3, <3>2, <4>1, AnsweredAdded
      <4> QED
        BY <1>3, <4>2, QuietChain
    <3>3. CASE cb.id = m.pending
      <4> DEFINE a == m.at + n
                 k == Placed(m, m.pending, m.next, m.left, a)
      <4>1. room = IF cb.op = "skip" THEN m.left ELSE Size - m.at
        BY <1>4, <3>3
      <4>2. /\ n \in Int /\ n >= 1 /\ a \in 0 .. Size /\ a = m.at + n
            /\ cb.op = "skip" => n <= m.left /\ a + m.left - n = m.first
        <5>1. n \in 1 .. (IF cb.op = "skip" THEN m.left ELSE Size - m.at)
          BY <3>1, <4>1
        <5> HIDE DEF m, room
        <5> QED
          BY <1>5, <2>1, <3>3, <5>1
      <4>3. Moved(n) = k
        <5>1. Moved(n) = [m EXCEPT !.at = @ + n]
          BY <1>4, <3>3
        <5> HIDE DEF m, Moved
        <5> QED
          BY <1>5, <5>1 DEF Placed, LoadTypes
      <4>4. y = Post(k, Task(op, cb.id, n, at))
        BY <3>1, <4>3
      <4> HIDE DEF m, a, room
      <4>5. Idle(m) /\ Active(m)
        BY <2>1, <3>3
      <4>6. PlacedIs(m, k, m.pending, m.next, m.left, a)
        BY <1>3, <1>5, <4>2, <4>5, PlacedFits
      <4> HIDE DEF k
      <4>7. /\ LoadFits(k) /\ k.stage # "none" /\ Numbered(k, cb.id) /\ Idle(k) /\ Active(k)
            /\ k.pending = m.pending /\ k.left = m.left /\ k.at = a /\ k.first = m.first
            /\ k.body = m.body /\ k.stage = m.stage /\ k.out = m.out /\ Base(k) = Base(m)
        BY <2>1, <4>6 DEF PlacedIs, Numbered, Base
      <4>8. op = "skipAnswered" /\ n > 0 => n <= k.left /\ k.at + k.left - n = k.first
        BY <4>2, <4>7 DEF op
      <4>9. op = "readAnswered" /\ n > 0 => at = Base(k) + Len(k.body) /\ k.at = at + n
        BY <1>9, <2>1, <3>3, <4>2, <4>7 DEF op, at
      <4> HIDE DEF op, at
      <4>10. Quiet(k, y)
        BY <1>6, <2>3, <4>2, <4>4, <4>7, <4>8, <4>9, AnsweredAdded
      <4> QED
        BY <1>3, <4>7, <4>10, QuietChain
    <3> QED
      BY <3>2, <3>3
  <2> QED
    BY <2>2, <2>4, <2>5
<1> QED
  BY <1>6, <1>7, <1>8, <1>9

-----------------------------------------------------------------------------
(* The IO thread.                                                            *)

\* What the loader does with a task posted to it.
Moves(x, y) ==
  /\ LoadFits(y)
  /\ \/ y.stage = x.stage /\ (y.out = x.out \/ x.stage = "gone")
     \/ x.stage = "opening" /\ y.stage = "skipping" /\ y.out = x.out
     \/ x.stage \in {"opening", "skipping"} /\ y.stage = "answering" /\ y.out = x.out
     \/ /\ x.stage \in {"opening", "skipping"} /\ y.stage = "done"
        /\ y.out = Append(x.out, Message("complete", FALSE))
     \/ /\ x.stage = "reading" /\ y.stage = "ready"
        /\ y.out = Append(x.out, Message("size", TRUE))
     \/ /\ x.stage = "reading" /\ y.stage = "done"
        /\ \E ok \in BOOLEAN : y.out = Append(x.out, Message("complete", ok))

LEMMA MessageIs ==
  ASSUME NEW op \in {"response", "redirect", "size", "complete"}, NEW ok \in BOOLEAN
  PROVE  /\ Message(op, ok) \in Messages
         /\ Message(op, ok).op = op /\ Message(op, ok).ok = ok
BY DEF Message, Messages

LEMMA CompleteKeeps ==
  ASSUME NEW x, LoadFits(x), NEW ok \in BOOLEAN, NEW y, y = RequestComplete(x, ok)
  PROVE  /\ LoadFits(y) /\ y.stage = "done" /\ y.out = Append(x.out, Message("complete", ok))
<1> DEFINE u == Append(x.out, Message("complete", ok))
<1>1. x \in LoadTypes /\ u \in Seq(Messages) /\ "done" \in Stages
  BY MessageIs DEF LoadFits, LoadTypes, Stages
<1>2. y = [x EXCEPT !.stage = "done", !.out = u]
  BY <1>1 DEF RequestComplete, CleanUp, LoadTypes
<1> HIDE DEF u
<1>3. y \in LoadTypes
  BY <1>1, <1>2 DEF LoadTypes
<1>4. /\ Alike(x, y) /\ y.stage = "done" /\ y.out = u /\ y.cb = x.cb
      /\ y.work = x.work /\ y.back = x.back /\ y.held = x.held
  BY <1>1, <1>2 DEF LoadTypes, Alike
<1>5. StageFits(y)
  BY <1>4 DEF StageFits, LoadFits, Alike
<1>6. LoadFits(y)
  BY <1>3, <1>4, <1>5, SameFits
<1> QED
  BY <1>4, <1>6 DEF u

LEMMA HeadersKeep ==
  ASSUME NEW x, LoadFits(x), Idle(x), ~x.cb, x.body = <<>>,
         x.stream => InPlace(x) /\ x.pending = None,
         NEW y \in HeadersComplete(x)
  PROVE  /\ LoadFits(y)
         /\ \/ y.stage = "done" /\ y.out = Append(x.out, Message("complete", FALSE))
            \/ y.stage = "answering" /\ y.out = x.out
<1>1. x \in LoadTypes
  BY DEF LoadFits
<1>2. \/ y = RequestComplete(x, FALSE)
      \/ \E h \in {"ok", "redirect"} : y = [x EXCEPT !.stage = "answering", !.hdr = h]
  BY DEF HeadersComplete
<1>3. CASE y = RequestComplete(x, FALSE)
  BY <1>3, CompleteKeeps
<1>4. CASE \E h \in {"ok", "redirect"} : y = [x EXCEPT !.stage = "answering", !.hdr = h]
  <2>1. PICK h \in {"ok", "redirect"} : y = [x EXCEPT !.stage = "answering", !.hdr = h]
    BY <1>4
  <2>2. y \in LoadTypes
    BY <1>1, <2>1 DEF LoadTypes, Stages
  <2>3. /\ Alike(x, y) /\ y.stage = "answering" /\ y.out = x.out /\ y.cb = x.cb
        /\ y.work = x.work /\ y.back = x.back /\ y.held = x.held /\ y.stream = x.stream
    BY <1>1, <2>1 DEF LoadTypes, Alike
  <2>4. StageFits(y)
    BY <2>3 DEF StageFits, LoadFits, Alike, InPlace, Base
  <2>5. /\ y.pending = x.pending /\ y.next = x.next /\ y.next >= x.next
    BY <1>1, <2>3 DEF Alike, LoadTypes
  <2>6. BodyFits(y)
    BY <2>3, AlikeFits DEF LoadFits
  <2> QED
    BY <2>2, <2>3, <2>4, <2>5, <2>6, IdleFits
<1> QED
  BY <1>2, <1>3, <1>4

\* The callback of the stream's opening is taken, or dropped.
LEMMA CbTaken ==
  ASSUME NEW x, LoadFits(x), x.stage # "none", NEW y, y = [x EXCEPT !.cb = FALSE]
  PROVE  /\ LoadFits(y) /\ Alike(x, y) /\ y.stage = x.stage /\ y.out = x.out /\ y.cb = FALSE
         /\ y.stream = x.stream /\ y.life = x.life
<1>1. x \in LoadTypes
  BY DEF LoadFits
<1>2. y \in LoadTypes
  BY <1>1 DEF LoadTypes
<1>3. /\ Alike(x, y) /\ y.stage = x.stage /\ y.out = x.out /\ y.cb = FALSE
      /\ y.stream = x.stream /\ y.life = x.life
      /\ y.work = x.work /\ y.back = x.back /\ y.held = x.held
  BY <1>1 DEF LoadTypes, Alike
<1>4. StageFits(y)
  BY <1>3 DEF StageFits, LoadFits, Alike, InPlace, Base
<1>5. LoadFits(y)
  BY <1>2, <1>3, <1>4, SameFits
<1> QED
  BY <1>3, <1>5

\* A loader with a stream skips to the range's start, or goes on to the headers.
LEMMA OpenedKeeps ==
  ASSUME NEW x, LoadFits(x), x.stage = "opening", ~x.cb, NEW opened \in BOOLEAN,
         NEW y \in OnInputStreamOpened(x, opened)
  PROVE  Moves(x, y)
<1>1. x \in LoadTypes /\ x.first \in -1 .. Size /\ Size \in Nat
  BY TypedFields DEF LoadFits
<1>2. /\ Idle(x) /\ x.at = 0 /\ x.pending = None /\ x.body = <<>>
  BY DEF LoadFits, OneWay, Idle, StageFits
<1>3. CASE opened /\ x.first # NoRange
  <2> DEFINE m == [x EXCEPT !.stream = TRUE, !.stage = "skipping"]
             t == Task("skip", 0, x.first, 0)
  <2>1. y = Post(m, t)
    BY <1>3 DEF OnInputStreamOpened
  <2>2. t \in WorkTasks /\ t.op = "skip" /\ t.n = x.first
    BY <1>1, TaskIs DEF WorkOps
  <2>3. m \in LoadTypes
    BY <1>1 DEF LoadTypes, Stages
  <2>4. /\ Alike(x, m) /\ m.stage = "skipping" /\ m.out = x.out /\ m.cb = x.cb
        /\ m.work = x.work /\ m.back = x.back /\ m.held = x.held
    BY <1>1 DEF LoadTypes, Alike
  <2> HIDE DEF m, t
  <2>5. StageFits(m) /\ BodyFits(m)
    <3>1. StageFits(m)
      BY <1>2, <1>3, <2>4 DEF StageFits, Alike
    <3> QED
      BY <2>4, <3>1, AlikeFits DEF LoadFits
  <2>6. LoadFits(m) /\ Idle(m)
    <3>1. m.pending = None /\ m.next >= x.next
      BY <1>1, <1>2, <2>4 DEF Alike, LoadTypes
    <3> QED
      BY <1>2, <2>3, <2>4, <2>5, <3>1, IdleFits
  <2>7. WorkFits(m, t)
    BY <1>2, <1>3, <2>2, <2>4 DEF WorkFits, Alike
  <2>8. LoadFits(y) /\ Keeps(m, y)
    <3>1. Active(m)
      BY <2>4 DEF Active
    <3> QED
      BY <2>1, <2>2, <2>4, <2>6, <2>7, <3>1, WorkAdded
  <2> QED
    BY <2>4, <2>8 DEF Moves, Keeps
<1>4. CASE ~(opened /\ x.first # NoRange)
  <2> DEFINE m == [x EXCEPT !.stream = opened]
  <2>1. y \in HeadersComplete(m)
    BY <1>4 DEF OnInputStreamOpened
  <2>2. m \in LoadTypes
    BY <1>1 DEF LoadTypes
  <2>3. /\ Alike(x, m) /\ m.stage = "opening" /\ m.out = x.out /\ m.cb = x.cb
        /\ m.work = x.work /\ m.back = x.back /\ m.held = x.held /\ m.stream = opened
    BY <1>1 DEF LoadTypes, Alike
  <2> HIDE DEF m
  <2>4. StageFits(m)
    BY <1>2, <2>3 DEF StageFits, LoadFits, Alike
  <2>5. LoadFits(m) /\ Idle(m)
    BY <1>2, <2>2, <2>3, <2>4, SameFits
  <2>6. m.body = <<>> /\ ~m.cb /\ m.pending = None
    BY <1>2, <2>3 DEF Alike
  <2>7. m.stream => InPlace(m)
    <3>1. m.stream => m.first = NoRange
      BY <1>4, <2>3 DEF Alike
    <3>2. m.at = 0 /\ Len(m.body) = 0
      BY <1>2, <2>3, <2>6 DEF Alike
    <3> QED
      BY <3>1, <3>2 DEF InPlace, Base
  <2>8. /\ LoadFits(y)
        /\ \/ y.stage = "done" /\ y.out = Append(m.out, Message("complete", FALSE))
           \/ y.stage = "answering" /\ y.out = m.out
    BY <2>1, <2>5, <2>6, <2>7, HeadersKeep
  <2> QED
    BY <2>3, <2>8 DEF Moves
<1> QED
  BY <1>3, <1>4

LEMMA NewLoadTyped ==
  NewLoad \in LoadTypes
BY LoaderAssumption DEF NewLoad, LoadTypes, Stages, None, NoRange

\* A load that has done nothing yet, or does nothing any more.
Fresh(y, s, f, l) ==
  /\ s \in {"none", "asking", "net", "gone"} /\ f \in Firsts \cup {NoRange}
  /\ l \in {"none", "attached", "detached", "canceled"} /\ (s = "net" => f = NoRange)
  /\ y = [NewLoad EXCEPT !.stage = s, !.first = f, !.life = l]

FreshIs(y, s, f) ==
  /\ LoadFits(y) /\ y.stage = s /\ y.out = <<>> /\ y.body = <<>> /\ y.first = f
  /\ y.cb = FALSE /\ y.hdr = "none"

LEMMA FreshFits ==
  ASSUME NEW s, NEW f, NEW l, NEW y, Fresh(y, s, f, l)
  PROVE  FreshIs(y, s, f)
<1>0. /\ s \in {"none", "asking", "net", "gone"} /\ f \in Firsts \cup {NoRange}
      /\ l \in {"none", "attached", "detached", "canceled"} /\ (s = "net" => f = NoRange)
      /\ y = [NewLoad EXCEPT !.stage = s, !.first = f, !.life = l]
  BY DEF Fresh
<1>1. NewLoad \in LoadTypes
  BY NewLoadTyped
<1>2. y \in LoadTypes
  BY <1>0, <1>1 DEF LoadTypes, Stages
<1>3. /\ y.stage = s /\ y.out = <<>> /\ y.body = <<>> /\ y.first = f /\ y.work = <<>>
      /\ y.back = <<>> /\ y.held = {} /\ y.cb = FALSE /\ y.pending = None /\ y.at = 0
      /\ y.hdr = "none"
  <2>1. /\ NewLoad.out = <<>> /\ NewLoad.body = <<>> /\ NewLoad.work = <<>>
        /\ NewLoad.back = <<>> /\ NewLoad.held = {} /\ NewLoad.cb = FALSE
        /\ NewLoad.pending = None /\ NewLoad.at = 0 /\ NewLoad.hdr = "none"
    BY DEF NewLoad
  <2> QED
    BY <1>0, <1>1, <2>1 DEF LoadTypes
<1>4. Len(y.work) = 0 /\ Len(y.back) = 0 /\ Len(y.body) = 0
  BY <1>3
<1>5. OneWay(y) /\ BodyFits(y) /\ StageFits(y)
  BY <1>0, <1>3, <1>4 DEF OneWay, BodyFits, StageFits, HasWork, HasBack, HasHand
<1> QED
  BY <1>2, <1>3, <1>4, <1>5 DEF LoadFits, FreshIs

LEMMA RemainsFits ==
  ASSUME NEW x, LoadFits(x), NEW y, y = Remains(x)
  PROVE  /\ LoadFits(y) /\ y.stage = "gone" /\ y.out = <<>> /\ y.body = <<>>
<1> DEFINE l == x.life
<1>1. l \in {"none", "attached", "detached", "canceled"} /\ x.bad = {}
  BY DEF LoadFits, LoadTypes
<1>2. y = [NewLoad EXCEPT !.stage = "gone", !.life = l, !.bad = {}]
  BY <1>1 DEF Remains
<1> HIDE DEF l
<1>3. NewLoad.first = NoRange /\ NewLoad.bad = {}
  BY DEF NewLoad
<1> DEFINE g == "gone"
           f == NoRange
<1>4. /\ g \in {"none", "asking", "net", "gone"} /\ f \in Firsts \cup {NoRange}
      /\ (g = "net" => f = NoRange) /\ g = "gone"
  OBVIOUS
<1>5. y = [NewLoad EXCEPT !.stage = g, !.first = f, !.life = l]
  BY <1>2, <1>3, NewLoadTyped DEF LoadTypes
<1> HIDE DEF g, f
<1>6. Fresh(y, g, f, l)
  BY <1>1, <1>4, <1>5 DEF Fresh
<1>7. FreshIs(y, g, f)
  BY <1>6, FreshFits
<1> QED
  BY <1>4, <1>7 DEF FreshIs

LEMMA OpenAnswerKeeps ==
  ASSUME NEW x, LoadFits(x), x.stage # "none", NEW opened \in BOOLEAN,
         NEW y \in OnOpenCallback(x, opened)
  PROVE  Moves(x, y)
<1>1. CASE x.cb /\ x.stage = "opening"
  <2> DEFINE m == [x EXCEPT !.cb = FALSE]
  <2>1. y \in OnInputStreamOpened(m, opened)
    BY <1>1 DEF OnOpenCallback
  <2>2. /\ LoadFits(m) /\ m.stage = "opening" /\ m.out = x.out /\ m.cb = FALSE
    BY <1>1, CbTaken
  <2> HIDE DEF m
  <2>3. Moves(m, y)
    BY <2>1, <2>2, OpenedKeeps
  <2> QED
    BY <1>1, <2>2, <2>3 DEF Moves
<1>2. CASE ~(x.cb /\ x.stage = "opening") /\ x.stage = "gone"
  <2> DEFINE m == Detach(x)
  <2>1. y = Remains(m)
    BY <1>2 DEF OnOpenCallback
  <2>2. LoadFits(m)
    BY DetachKeeps
  <2> HIDE DEF m
  <2> QED
    BY <1>2, <2>1, <2>2, RemainsFits DEF Moves
<1>3. CASE ~(x.cb /\ x.stage = "opening") /\ x.stage # "gone"
  <2> DEFINE m == [x EXCEPT !.cb = FALSE]
  <2>1. y = Detach(m)
    BY <1>3 DEF OnOpenCallback
  <2>2. LoadFits(m) /\ m.stage = x.stage /\ m.out = x.out
    BY CbTaken
  <2> HIDE DEF m
  <2> QED
    BY <2>1, <2>2, DetachKeeps DEF Moves
<1> QED
  BY <1>1, <1>2, <1>3

LEMMA QuietMoves ==
  ASSUME NEW x, NEW y, Quiet(x, y)
  PROVE  Moves(x, y)
BY DEF Quiet, Moves

LEMMA ProcessKeeps ==
  ASSUME NEW x, LoadFits(x), x.stage # "none", NEW y \in CallProcessRequestOnIOThread(x)
  PROVE  Quiet(x, y)
<1>1. \/ \E n \in {0, 1} : y = Post(x, Task("openAnswered", 0, n, 0))
      \/ y = Keep(x, Held("open", 0))
  BY DEF CallProcessRequestOnIOThread
<1>2. CASE \E n \in {0, 1} : y = Post(x, Task("openAnswered", 0, n, 0))
  <2>1. PICK n \in {0, 1} : y = Post(x, Task("openAnswered", 0, n, 0))
    BY <1>2
  <2>2. n \in Int
    BY <2>1
  <2> QED
    BY <2>1, <2>2, PlainWork DEF Quiet, Keeps
<1>3. CASE y = Keep(x, Held("open", 0))
  BY <1>3, PlainHand DEF Quiet, Keeps
<1> QED
  BY <1>1, <1>2, <1>3

\* ReadResponse is asked, or asked again when it says so.
LEMMA DoReadKeeps ==
  ASSUME NEW x, LoadFits(x), x.stage # "none", Idle(x), Active(x), InPlace(x),
         NEW id \in Int, id = x.pending, Numbered(x, id), NEW again \in BOOLEAN,
         NEW y \in DoRead(x, id, again)
  PROVE  Quiet(x, y)
<1>1. /\ x \in LoadTypes /\ x.at \in 0 .. Size /\ Size \in Nat /\ x.left \in 0 .. Size
      /\ Failed \in Int /\ ~(Failed > 0) /\ 0 \in Int /\ ~(0 > 0) /\ x.at \in Int
  BY TypedFields DEF LoadFits, Failed
<1>2. \/ \E n \in {0, Failed} : y = Post(x, Task("readAnswered", id, n, 0))
      \/ y = Keep(x, Held("response", id))
      \/ \E n \in 1 .. Size - x.at :
           y = Post([x EXCEPT !.at = @ + n], Task("readAnswered", id, n, x.at))
  BY DEF DoRead
<1>3. CASE \E n \in {0, Failed} : y = Post(x, Task("readAnswered", id, n, 0))
  <2>1. PICK n \in {0, Failed} : y = Post(x, Task("readAnswered", id, n, 0))
    BY <1>3
  <2>2. n \in Int /\ ~(n > 0)
    BY <1>1, <2>1
  <2> QED
    BY <1>1, <2>1, <2>2, AnsweredAdded
<1>4. CASE y = Keep(x, Held("response", id))
  <2> DEFINE cb == Held("response", id)
  <2>1. cb \in Callbacks /\ cb.op = "response" /\ cb.id = id
    BY HeldIs
  <2>2. y = Keep(x, cb)
    BY <1>4
  <2> HIDE DEF cb
  <2>3. HandFits(x, cb)
    BY <2>1 DEF HandFits
  <2> QED
    BY <2>1, <2>2, <2>3, HandAdded DEF Quiet, Keeps
<1>5. CASE \E n \in 1 .. Size - x.at :
             y = Post([x EXCEPT !.at = @ + n], Task("readAnswered", id, n, x.at))
  <2>1. PICK n \in 1 .. Size - x.at :
          y = Post([x EXCEPT !.at = @ + n], Task("readAnswered", id, n, x.at))
    BY <1>5
  <2> DEFINE a == x.at + n
             m == Placed(x, x.pending, x.next, x.left, a)
  <2>2. a \in 0 .. Size /\ n \in Int /\ a = x.at + n
    BY <1>1, <2>1
  <2>3. [x EXCEPT !.at = @ + n] = m
    BY <1>1 DEF Placed, LoadTypes
  <2> HIDE DEF a
  <2>4. PlacedIs(x, m, x.pending, x.next, x.left, a)
    BY <1>1, <2>2, PlacedFits
  <2>5. y = Post(m, Task("readAnswered", id, n, x.at))
    BY <2>1, <2>3
  <2> HIDE DEF m
  <2>6. x.at = Base(m) + Len(m.body) /\ m.at = x.at + n /\ Numbered(m, id)
    BY <2>2, <2>4 DEF PlacedIs, InPlace, Base, Numbered
  <2>7. Quiet(m, y)
    BY <1>1, <2>2, <2>4, <2>5, <2>6, AnsweredAdded DEF PlacedIs
  <2> QED
    BY <2>4, <2>7, QuietChain DEF PlacedIs
<1> QED
  BY <1>2, <1>3, <1>4, <1>5

LEMMA SkipDoneMoves ==
  ASSUME NEW x, LoadFits(x), Idle(x), Active(x), x.stage = "skipping", x.pending = None,
         NEW n, n = x.first => x.at = x.first, NEW y \in OnReaderSkipCompleted(x, n)
  PROVE  Moves(x, y)
<1>1. CASE n = x.first
  <2>1. x.body = <<>> /\ x.first # NoRange
    BY DEF LoadFits, StageFits
  <2>2. InPlace(x)
    <3>1. Len(x.body) = 0 /\ x.at = x.first /\ x.first \in -1 .. Size /\ Size \in Nat
      BY <1>1, <2>1, TypedFields DEF LoadFits
    <3> QED
      BY <2>1, <3>1 DEF InPlace, Base
  <2>3. y \in HeadersComplete(x)
    BY <1>1 DEF OnReaderSkipCompleted
  <2>4. ~x.cb
    BY DEF Active
  <2>5. /\ LoadFits(y)
        /\ \/ y.stage = "done" /\ y.out = Append(x.out, Message("complete", FALSE))
           \/ y.stage = "answering" /\ y.out = x.out
    BY <2>1, <2>2, <2>3, <2>4, HeadersKeep
  <2> QED
    BY <2>5 DEF Moves
<1>2. CASE n # x.first
  <2>1. y = RequestComplete(x, FALSE)
    BY <1>2 DEF OnReaderSkipCompleted
  <2> QED
    BY <2>1, CompleteKeeps DEF Moves
<1> QED
  BY <1>1, <1>2

\* The bytes that were read follow those the client has.
LEMMA BytesFollow ==
  ASSUME NEW s \in Seq(Int), NEW b \in Int, \A k \in 1 .. Len(s) : s[k] = k - 1 + b,
         NEW n \in Nat, NEW at \in Int, at = b + Len(s),
         NEW u, u = s \o [i \in 1 .. n |-> at + i - 1]
  PROVE  /\ u \in Seq(Int) /\ Len(u) = Len(s) + n
         /\ \A k \in 1 .. Len(u) : u[k] = k - 1 + b
<1> DEFINE v == [i \in 1 .. n |-> at + i - 1]
<1>1. v \in Seq(Int) /\ Len(v) = n /\ \A i \in 1 .. n : v[i] = at + i - 1
  OBVIOUS
<1>2. u = s \o v
  OBVIOUS
<1> HIDE DEF v
<1>3. /\ u \in Seq(Int) /\ Len(u) = Len(s) + Len(v)
      /\ \A i \in 1 .. Len(s) + Len(v) : u[i] = IF i <= Len(s) THEN s[i] ELSE v[i - Len(s)]
  BY <1>1, <1>2, ConcatProperties
<1>4. Len(s) \in Nat
  OBVIOUS
<1>5. \A k \in 1 .. Len(u) : u[k] = k - 1 + b
  <2> SUFFICES ASSUME NEW k \in 1 .. Len(u) PROVE u[k] = k - 1 + b
    OBVIOUS
  <2> DEFINE m == Len(s)
  <2>1. m \in Nat /\ k \in 1 .. m + n /\ at = b + m
    BY <1>1, <1>3, <1>4
  <2>2. CASE k <= m
    <3>1. k \in 1 .. m /\ u[k] = s[k]
      BY <1>1, <1>3, <2>1, <2>2
    <3> QED
      BY <3>1
  <2>3. CASE ~(k <= m)
    <3>1. u[k] = v[k - m]
      BY <1>1, <1>3, <2>1, <2>3
    <3>2. k - m \in 1 .. n
      BY <2>1, <2>3
    <3>3. v[k - m] = at + (k - m) - 1
      BY <1>1, <3>2
    <3> HIDE DEF m
    <3> QED
      BY <2>1, <3>1, <3>3
  <2> QED
    BY <2>2, <2>3
<1> QED
  BY <1>1, <1>3, <1>5

LEMMA ReadDoneMoves ==
  ASSUME NEW x, LoadFits(x), Idle(x), Active(x), x.stage = "reading", x.pending = None,
         NEW n \in Int, NEW at \in Int,
         n > 0 => at = Base(x) + Len(x.body) /\ x.at = at + n,
         NEW y, y = OnReaderReadCompleted(x, n, at)
  PROVE  Moves(x, y)
<1>1. /\ x \in LoadTypes /\ x.body \in Seq(Int) /\ x.first \in -1 .. Size /\ Size \in Nat
      /\ x.out \in Seq(Messages)
  BY TypedFields DEF LoadFits
<1>2. CASE n <= 0
  <2>1. y = RequestComplete(x, n = 0) /\ (n = 0) \in BOOLEAN
    BY <1>2 DEF OnReaderReadCompleted
  <2> DEFINE ok == n = 0
  <2>2. y = RequestComplete(x, ok) /\ ok \in BOOLEAN
    BY <2>1
  <2> HIDE DEF ok
  <2> QED
    BY <2>2, CompleteKeeps DEF Moves
<1>3. CASE ~(n <= 0)
  <2> DEFINE u == x.body \o [i \in 1 .. n |-> at + i - 1]
             v == Append(x.out, Message("size", TRUE))
             b == Base(x)
  <2>1. y = [x EXCEPT !.stage = "ready", !.out = v, !.body = u]
    BY <1>1, <1>3 DEF OnReaderReadCompleted, LoadTypes
  <2>2. b \in Int /\ n \in Nat /\ at = b + Len(x.body) /\ x.at = at + n
    BY <1>1, <1>3 DEF Base
  <2>3. \A k \in 1 .. Len(x.body) : x.body[k] = k - 1 + b
    BY DEF LoadFits, BodyFits
  <2>4. u = x.body \o [i \in 1 .. n |-> at + i - 1]
    OBVIOUS
  <2> HIDE DEF u, b
  <2>5. /\ u \in Seq(Int) /\ Len(u) = Len(x.body) + n
        /\ \A k \in 1 .. Len(u) : u[k] = k - 1 + b
    BY <1>1, <2>2, <2>3, <2>4, BytesFollow
  <2>6. v \in Seq(Messages)
    <3> DEFINE msg == Message("size", TRUE)
    <3>1. msg \in Messages
      BY DEF Message, Messages
    <3>2. v = Append(x.out, msg)
      OBVIOUS
    <3> HIDE DEF msg, v
    <3> QED
      BY <1>1, <3>1, <3>2
  <2>7. v = Append(x.out, Message("size", TRUE))
    OBVIOUS
  <2> HIDE DEF v
  <2>8. y \in LoadTypes
    BY <1>1, <2>1, <2>5, <2>6, ZenonT(60) DEF LoadTypes, Stages
  <2>9. /\ y.stage = "ready" /\ y.out = v /\ y.body = u /\ y.first = x.first /\ y.cb = x.cb
        /\ y.at = x.at /\ y.pending = x.pending /\ y.next = x.next
        /\ y.work = x.work /\ y.back = x.back /\ y.held = x.held
    BY <1>1, <2>1 DEF LoadTypes
  <2>10. BodyFits(y)
    BY <2>5, <2>9 DEF BodyFits, Base, b
  <2>11. InPlace(y)
    <3>1. Base(y) = b
      BY <2>9 DEF Base, b
    <3> DEFINE d == Len(x.body)
               e == Len(y.body)
    <3>2. d \in Nat /\ e = d + n /\ at = b + d /\ y.at = at + n
      <4>1. d \in Nat
        BY <1>1
      <4>2. y.at = at + n /\ at = b + d
        BY <2>2, <2>9
      <4>3. e = d + n
        BY <2>5, <2>9
      <4> QED
        BY <4>1, <4>2, <4>3
    <3> HIDE DEF d
    <3>3. y.at = b + e
      <4> HIDE DEF e
      <4> QED
        BY <2>2, <3>2
    <3> QED
      BY <3>1, <3>3 DEF InPlace
  <2>12. StageFits(y)
    BY <2>9, <2>11 DEF StageFits, Active
  <2>13. LoadFits(y)
    <3>1. y.next >= x.next
      BY <1>1, <2>9 DEF LoadTypes
    <3> QED
      BY <2>8, <2>9, <2>10, <2>12, <3>1, IdleFits
  <2> QED
    BY <2>7, <2>9, <2>13 DEF Moves
<1> QED
  BY <1>2, <1>3

LEMMA MovesChain ==
  ASSUME NEW x, NEW y, NEW z, y.stage = x.stage, y.out = x.out, Moves(y, z)
  PROVE  Moves(x, z)
BY DEF Moves

\* A task posted to the IO thread.
LEMMA BackKeeps ==
  ASSUME NEW x, LoadFits(x), x.back # <<>>, NEW y \in Back(x)
  PROVE  Moves(x, y)
<1> DEFINE t == Head(x.back)
           m == [x EXCEPT !.back = Tail(@)]
           B == Back(x)
<1>1. BackTakes(x, m, t)
  BY DEF BackTakes
<1>2. y \in B
  OBVIOUS
<1>3. /\ t.op = "opened"       => B = OnOpenCallback(m, TRUE)
      /\ t.op = "openFailed"   => B = OnOpenCallback(m, FALSE)
      /\ t.op = "process"      => B = CallProcessRequestOnIOThread(m)
      /\ t.op = "readResponse" => B = DoRead(m, t.id, t.n = 1)
      /\ t.op = "skipDone"     =>
           B = IF m.stage = "skipping" THEN OnReaderSkipCompleted(m, t.n) ELSE {m}
      /\ t.op = "readDone"     =>
           B = IF m.stage = "reading" THEN {OnReaderReadCompleted(m, t.n, t.at)} ELSE {m}
  BY DEF Back
<1> HIDE DEF t, m, B
<1>4. /\ Taken(x, m, t) /\ t.op \in BackOps /\ BackFits(m, t)
      /\ InBack(t) => Idle(m) /\ Active(m)
  BY <1>1, BackTaken
<1>5. /\ LoadFits(m) /\ m.stage # "none" /\ m.stage = x.stage /\ m.out = x.out
      /\ t.id \in Int /\ t.n \in Int /\ t.at \in Int
  BY <1>4 DEF Taken, Keeps
<1>6. CASE t.op = "opened"
  <2>1. Moves(m, y)
    BY <1>2, <1>3, <1>5, <1>6, OpenAnswerKeeps
  <2> QED
    BY <1>5, <2>1, MovesChain
<1>7. CASE t.op = "openFailed"
  <2>1. Moves(m, y)
    BY <1>2, <1>3, <1>5, <1>7, OpenAnswerKeeps
  <2> QED
    BY <1>5, <2>1, MovesChain
<1>8. CASE t.op = "process"
  <2>1. Moves(m, y)
    BY <1>2, <1>3, <1>5, <1>8, ProcessKeeps, QuietMoves
  <2> QED
    BY <1>5, <2>1, MovesChain
<1>9. CASE t.op = "readResponse"
  <2>1. t.id = m.pending /\ Numbered(m, t.id) /\ InPlace(m) /\ Idle(m) /\ Active(m)
    BY <1>4, <1>9 DEF BackFits, InBack
  <2> DEFINE again == t.n = 1
  <2>2. again \in BOOLEAN /\ y \in DoRead(m, t.id, again)
    BY <1>2, <1>3, <1>9
  <2> HIDE DEF again
  <2>3. Moves(m, y)
    BY <1>5, <2>1, <2>2, DoReadKeeps, QuietMoves
  <2> QED
    BY <1>5, <2>3, MovesChain
<1>10. CASE t.op = "skipDone"
  <2>1. m.pending = None /\ Idle(m) /\ Active(m) /\ (t.n = m.first => m.at = m.first)
    BY <1>4, <1>10 DEF BackFits, InBack
  <2>2. CASE m.stage = "skipping"
    <3>1. y \in OnReaderSkipCompleted(m, t.n)
      BY <1>2, <1>3, <1>10, <2>2
    <3>2. Moves(m, y)
      BY <1>5, <2>1, <2>2, <3>1, SkipDoneMoves
    <3> QED
      BY <1>5, <3>2, MovesChain
  <2>3. CASE m.stage # "skipping"
    <3>1. y = m
      BY <1>2, <1>3, <1>10, <2>3
    <3> QED
      BY <1>5, <3>1 DEF Moves
  <2> QED
    BY <2>2, <2>3
<1>11. CASE t.op = "readDone"
  <2>1. /\ m.pending = None /\ Idle(m) /\ Active(m)
        /\ t.n > 0 => t.at = Base(m) + Len(m.body) /\ m.at = t.at + t.n
    BY <1>4, <1>11 DEF BackFits, InBack, Reads
  <2>2. CASE m.stage = "reading"
    <3>1. y = OnReaderReadCompleted(m, t.n, t.at)
      BY <1>2, <1>3, <1>11, <2>2
    <3>2. Moves(m, y)
      BY <1>5, <2>1, <2>2, <3>1, ReadDoneMoves
    <3> QED
      BY <1>5, <3>2, MovesChain
  <2>3. CASE m.stage # "reading"
    <3>1. y = m
      BY <1>2, <1>3, <1>11, <2>3
    <3> QED
      BY <1>5, <3>1 DEF Moves
  <2> QED
    BY <2>2, <2>3
<1> QED
  BY <1>4, <1>6, <1>7, <1>8, <1>9, <1>10, <1>11 DEF BackOps

-----------------------------------------------------------------------------
(* What a request does with a load.                                          *)

Restaged(y, s, o) == LoadFits(y) /\ y.stage = s /\ y.out = o

LEMMA IdleStage ==
  ASSUME NEW x, LoadFits(x), x.stage \notin {"skipping", "reading", "done"}
  PROVE  Idle(x)
BY DEF LoadFits, OneWay, Idle

LEMMA Restages ==
  ASSUME NEW x, LoadFits(x), Idle(x), NEW s \in Stages, NEW o \in Seq(Messages),
         NEW h \in {"none", "ok", "redirect"}, NEW c \in BOOLEAN,
         c => s \in {"opening", "done"},
         s \notin {"none", "asking", "net", "skipping"},
         s = "opening" => x.stage = "asking",
         s \in {"answering", "responding"} => x.stage \in {"net", "answering"},
         s = "ready" => x.stage = "responding",
         NEW y, y = [x EXCEPT !.stage = s, !.out = o, !.hdr = h, !.cb = c]
  PROVE  Restaged(y, s, o)
<1>1. x \in LoadTypes /\ x.next \in Nat /\ Len(x.body) \in Nat
  BY TypedFields DEF LoadFits
<1>2. y \in LoadTypes
  BY <1>1 DEF LoadTypes
<1>3. /\ Alike(x, y) /\ y.stage = s /\ y.out = o /\ y.cb = c /\ y.stream = x.stream
      /\ y.work = x.work /\ y.back = x.back /\ y.held = x.held
  BY <1>1 DEF LoadTypes, Alike
<1>4. x.stage = "net" => InPlace(x)
  <2> SUFFICES ASSUME x.stage = "net" PROVE InPlace(x)
    OBVIOUS
  <2>1. x.at = 0 /\ x.first = NoRange /\ x.body = <<>>
    BY DEF LoadFits, StageFits
  <2>2. Len(x.body) = 0
    BY <2>1
  <2> QED
    BY <2>1, <2>2 DEF InPlace, Base
<1>5. InPlace(x) => InPlace(y)
  BY <1>3 DEF Alike, InPlace, Base
<1>6. StageFits(y)
  BY <1>3, <1>4, <1>5 DEF StageFits, LoadFits, Alike
<1>7. BodyFits(y) /\ y.next >= x.next /\ y.pending = x.pending /\ y.next = x.next
  <2>1. BodyFits(y)
    BY <1>3, AlikeFits DEF LoadFits
  <2>2. y.pending = x.pending /\ y.next = x.next
    BY <1>3 DEF Alike
  <2> QED
    BY <1>1, <2>1, <2>2
<1>8. LoadFits(y)
  BY <1>2, <1>3, <1>6, <1>7, IdleFits
<1> QED
  BY <1>3, <1>8 DEF Restaged

\* The request headers are answered: the stream is opened.
LEMMA SendHeadersKeeps ==
  ASSUME NEW x, LoadFits(x), x.stage = "asking", NEW y, y = ContinueWithRequestHeaders(x)
  PROVE  Restaged(y, "opening", x.out)
<1>1. x \in LoadTypes
  BY DEF LoadFits
<1> DEFINE o == x.out
           h == x.hdr
           c == TRUE
           s == "opening"
           m == [x EXCEPT !.stage = s, !.out = o, !.hdr = h, !.cb = c]
<1>2. /\ o \in Seq(Messages) /\ h \in {"none", "ok", "redirect"} /\ c \in BOOLEAN
      /\ s \in Stages /\ s = "opening"
  BY <1>1 DEF LoadTypes, Stages
<1>3. y = Post(m, Task("open", 0, 0, 0))
  <2>1. m = [x EXCEPT !.stage = "opening", !.cb = TRUE]
    BY <1>1 DEF LoadTypes
  <2> QED
    BY <2>1 DEF ContinueWithRequestHeaders
<1>4. m = [x EXCEPT !.stage = s, !.out = o, !.hdr = h, !.cb = c]
  OBVIOUS
<1> HIDE DEF s, o, h, c, m
<1>5. Restaged(m, s, o)
  BY <1>1, <1>2, <1>4, IdleStage, Restages
<1>6. LoadFits(y) /\ Keeps(m, y)
  BY <1>2, <1>3, <1>5, PlainWork DEF Restaged
<1> QED
  BY <1>2, <1>5, <1>6 DEF Restaged, Keeps, o

\* The headers were answered by the header client, or the network's are there.
Headed(x, y, s, sure) ==
  \/ ~sure /\ Restaged(y, s, Append(x.out, Message("response", TRUE)))
  \/ \E ok \in BOOLEAN : Restaged(y, "done", Append(x.out, Message("redirect", ok)))

LEMMA HeadedKeeps ==
  ASSUME NEW x, LoadFits(x), x.stage \in {"answering", "net"}, ~x.cb, NEW redirect \in BOOLEAN,
         NEW s \in {"responding", "netBody"}, x.stage = "net" => s = "netBody",
         NEW y,
         y = IF redirect \/ x.hdr = "redirect"
             THEN [x EXCEPT !.stage = "done", !.hdr = "none",
                            !.out = Append(@, Message("redirect", x.hdr = "ok"))]
             ELSE [x EXCEPT !.stage = s, !.hdr = "none",
                            !.out = Append(@, Message("response", TRUE))]
  PROVE  Headed(x, y, s, redirect)
<1>1. x \in LoadTypes /\ x.out \in Seq(Messages) /\ x.cb = FALSE
  BY TypedFields DEF LoadFits, LoadTypes
<1>2. Idle(x)
  BY IdleStage
<1> DEFINE ok == x.hdr = "ok"
           yes == TRUE
           h == "none"
           c == FALSE
           r == Append(x.out, Message("redirect", ok))
           a == Append(x.out, Message("response", yes))
           d == "done"
<1>3. ok \in BOOLEAN /\ yes \in BOOLEAN /\ h \in {"none", "ok", "redirect"} /\ c \in BOOLEAN
      /\ d = "done" /\ d \in Stages /\ s \in Stages /\ c = FALSE
  BY DEF Stages
<1>4. CASE redirect \/ x.hdr = "redirect"
  <2>1. y = [x EXCEPT !.stage = d, !.out = r, !.hdr = h, !.cb = c]
    BY <1>1, <1>4 DEF LoadTypes
  <2> HIDE DEF ok
  <2>2. r \in Seq(Messages)
    BY <1>1, <1>3, MessageIs
  <2>3. r = Append(x.out, Message("redirect", ok))
    OBVIOUS
  <2> HIDE DEF r, h, c, d
  <2>4. Restaged(y, d, r)
    BY <1>2, <1>3, <2>1, <2>2, Restages
  <2> QED
    BY <1>3, <2>3, <2>4 DEF Headed
<1>5. CASE ~(redirect \/ x.hdr = "redirect")
  <2>1. y = [x EXCEPT !.stage = s, !.out = a, !.hdr = h, !.cb = c]
    BY <1>1, <1>5 DEF LoadTypes
  <2>2. a = Append(x.out, Message("response", TRUE))
    OBVIOUS
  <2> HIDE DEF yes
  <2>3. a \in Seq(Messages)
    BY <1>1, <1>3, MessageIs
  <2> HIDE DEF a, h, c
  <2>4. Restaged(y, s, a)
    BY <1>2, <1>3, <2>1, <2>3, Restages
  <2> QED
    BY <1>5, <2>2, <2>4 DEF Headed
<1> QED
  BY <1>4, <1>5

LEMMA ResponseHeadersKeep ==
  ASSUME NEW x, LoadFits(x), x.stage = "answering", NEW redirect \in BOOLEAN,
         NEW y, y = ContinueWithResponseHeaders(x, redirect)
  PROVE  Headed(x, y, "responding", redirect)
<1>1. ~x.cb /\ x \in LoadTypes
  BY DEF LoadFits, StageFits
<1> DEFINE s == "responding"
<1>2. y = IF redirect \/ x.hdr = "redirect"
          THEN [x EXCEPT !.stage = "done", !.hdr = "none",
                         !.out = Append(@, Message("redirect", x.hdr = "ok"))]
          ELSE [x EXCEPT !.stage = s, !.hdr = "none",
                         !.out = Append(@, Message("response", TRUE))]
  BY <1>1 DEF ContinueWithResponseHeaders, CleanUp, LoadTypes
<1>3. s \in {"responding", "netBody"} /\ x.stage # "net" /\ s = "responding"
  OBVIOUS
<1> HIDE DEF s
<1>4. Headed(x, y, s, redirect)
  BY <1>1, <1>2, <1>3, HeadedKeeps
<1> QED
  BY <1>3, <1>4

LEMMA NetworkHeadersKeep ==
  ASSUME NEW x, LoadFits(x), x.stage \in {"answering", "net"}, NEW redirect \in BOOLEAN,
         NEW y, y = NetworkHeaders(x, redirect)
  PROVE  Headed(x, y, "netBody", redirect)
<1>1. ~x.cb
  BY DEF LoadFits, StageFits
<1> DEFINE s == "netBody"
<1>2. y = IF redirect \/ x.hdr = "redirect"
          THEN [x EXCEPT !.stage = "done", !.hdr = "none",
                         !.out = Append(@, Message("redirect", x.hdr = "ok"))]
          ELSE [x EXCEPT !.stage = s, !.hdr = "none",
                         !.out = Append(@, Message("response", TRUE))]
  BY DEF NetworkHeaders
<1>3. s \in {"responding", "netBody"} /\ s = "netBody"
  OBVIOUS
<1> HIDE DEF s
<1>4. Headed(x, y, s, redirect)
  BY <1>1, <1>2, <1>3, HeadedKeeps
<1> QED
  BY <1>3, <1>4

\* The client goes on with the response, or does not.
LEMMA ContinueKeeps ==
  ASSUME NEW x, LoadFits(x), x.stage = "responding", NEW y, y = Continue(x)
  PROVE  Restaged(y, "ready", x.out)
<1>1. x \in LoadTypes /\ x.cb = FALSE /\ Idle(x)
  BY IdleStage DEF LoadFits, StageFits, LoadTypes
<1> DEFINE o == x.out
           h == x.hdr
           c == FALSE
           s == "ready"
<1>2. /\ o \in Seq(Messages) /\ h \in {"none", "ok", "redirect"} /\ c \in BOOLEAN /\ c = FALSE
      /\ s \in Stages /\ s = "ready" /\ o = x.out
  BY <1>1 DEF LoadTypes, Stages
<1>3. y = [x EXCEPT !.stage = s, !.out = o, !.hdr = h, !.cb = c]
  BY <1>1 DEF Continue, LoadTypes
<1> HIDE DEF s, o, h, c
<1>4. Restaged(y, s, o)
  BY <1>1, <1>2, <1>3, Restages
<1> QED
  BY <1>2, <1>4

LEMMA CleanUpKeeps ==
  ASSUME NEW x, LoadFits(x), NEW y, y = CleanUp(x)
  PROVE  Restaged(y, "done", x.out)
<1>1. x \in LoadTypes
  BY DEF LoadFits
<1>2. y \in LoadTypes
  BY <1>1 DEF CleanUp, LoadTypes, Stages
<1>3. /\ Alike(x, y) /\ y.stage = "done" /\ y.out = x.out /\ y.cb = x.cb
      /\ y.work = x.work /\ y.back = x.back /\ y.held = x.held
  BY <1>1 DEF CleanUp, LoadTypes, Alike
<1>4. StageFits(y)
  BY <1>3 DEF StageFits, LoadFits, Alike
<1> QED
  BY <1>2, <1>3, <1>4, SameFits DEF Restaged

LEMMA CancelKeeps ==
  ASSUME NEW x, LoadFits(x), x.stage = "responding", NEW y, y = Cancel(x)
  PROVE  Restaged(y, "done", x.out)
BY CleanUpKeeps DEF Cancel

\* A message is taken from the pipe.
LEMMA OutTaken ==
  ASSUME NEW x, LoadFits(x), x.out # <<>>, NEW y, y = [x EXCEPT !.out = Tail(@)]
  PROVE  /\ Restaged(y, x.stage, Tail(x.out))
         /\ Head(x.out) \in Messages
<1> DEFINE u == Tail(x.out)
<1>1. x \in LoadTypes /\ u \in Seq(Messages) /\ Head(x.out) \in Messages
  BY TypedFields, HeadIs DEF LoadFits
<1>2. y = [x EXCEPT !.out = u] /\ u = Tail(x.out)
  OBVIOUS
<1> HIDE DEF u
<1>3. y \in LoadTypes
  BY <1>1, <1>2 DEF LoadTypes
<1>4. /\ Alike(x, y) /\ y.stage = x.stage /\ y.out = u /\ y.cb = x.cb /\ y.stream = x.stream
      /\ y.work = x.work /\ y.back = x.back /\ y.held = x.held
  BY <1>1, <1>2 DEF LoadTypes, Alike
<1>5. StageFits(y)
  BY <1>4 DEF StageFits, LoadFits, Alike, InPlace, Base
<1> QED
  BY <1>1, <1>2, <1>3, <1>4, <1>5, SameFits DEF Restaged

\* The loader is deleted.
LEMMA DeleteKeeps ==
  ASSUME NEW x, LoadFits(x), NEW y, y = Delete(x)
  PROVE  LoadFits(y) /\ y.stage \in {"none", "gone"} /\ (x.stage # "none" => y.stage = "gone")
<1>1. x \in LoadTypes
  BY DEF LoadFits
<1>2. CASE x.stage \in {"none", "gone"}
  BY <1>2 DEF Delete
<1>3. CASE x.stage \notin {"none", "gone"} /\ x.cb
  <2> DEFINE m == [x EXCEPT !.stage = "gone", !.cb = FALSE]
  <2>1. y = Post(m, Task("cancelOpen", 0, 0, 0))
    BY <1>3 DEF Delete
  <2>2. m \in LoadTypes
    BY <1>1 DEF LoadTypes, Stages
  <2>3. /\ Alike(x, m) /\ m.stage = "gone" /\ m.cb = FALSE
        /\ m.work = x.work /\ m.back = x.back /\ m.held = x.held
    BY <1>1 DEF LoadTypes, Alike
  <2> HIDE DEF m
  <2>4. Idle(x)
    BY <1>3 DEF LoadFits, OneWay, Idle
  <2>5. StageFits(m) /\ BodyFits(m)
    <3>1. StageFits(m)
      BY <2>3 DEF StageFits, LoadFits, Alike
    <3> QED
      BY <2>3, <3>1, AlikeFits DEF LoadFits
  <2>6. m.pending = x.pending /\ m.next = x.next /\ m.next >= x.next
    BY <1>1, <2>3 DEF Alike, LoadTypes
  <2>7. LoadFits(m)
    BY <2>2, <2>3, <2>4, <2>5, <2>6, IdleFits
  <2>8. LoadFits(y) /\ Keeps(m, y)
    BY <2>1, <2>3, <2>7, PlainWork
  <2> QED
    BY <1>3, <2>3, <2>8 DEF Keeps
<1>4. CASE x.stage \notin {"none", "gone"} /\ ~x.cb
  <2> DEFINE m == Detach(x)
  <2>1. y = Remains(m)
    BY <1>4 DEF Delete
  <2>2. LoadFits(m)
    BY DetachKeeps
  <2> HIDE DEF m
  <2> QED
    BY <1>4, <2>1, <2>2, RemainsFits
<1> QED
  BY <1>2, <1>3, <1>4

\* More of the body is read, or the load ends.
LEMMA ReadMoreKeeps ==
  ASSUME NEW x, LoadFits(x), x.stage = "ready", NEW y \in ReadMore(x)
  PROVE  \/ Restaged(y, "reading", x.out)
         \/ \E ok \in BOOLEAN : Restaged(y, "done", Append(x.out, Message("complete", ok)))
<1>1. x \in LoadTypes /\ x.next \in Nat /\ x.stream \in BOOLEAN
  BY DEF LoadFits, LoadTypes
<1>2. Idle(x) /\ ~x.cb
  BY IdleStage DEF LoadFits, StageFits
<1>3. \/ \E ok \in BOOLEAN : y = RequestComplete(x, ok)
      \/ x.stream /\ y = Post([x EXCEPT !.stage = "reading"], Task("read", 0, 0, 0))
  BY <1>1 DEF ReadMore
<1>4. CASE \E ok \in BOOLEAN : y = RequestComplete(x, ok)
  BY <1>4, CompleteKeeps DEF Restaged
<1>5. CASE x.stream /\ y = Post([x EXCEPT !.stage = "reading"], Task("read", 0, 0, 0))
  <2> DEFINE m == [x EXCEPT !.stage = "reading"]
             t == Task("read", 0, 0, 0)
  <2>1. y = Post(m, t)
    BY <1>5
  <2>2. t \in WorkTasks /\ t.op = "read"
    BY TaskIs DEF WorkOps
  <2>3. m \in LoadTypes
    BY <1>1 DEF LoadTypes, Stages
  <2>4. /\ Alike(x, m) /\ m.stage = "reading" /\ m.cb = x.cb /\ m.out = x.out
        /\ m.work = x.work /\ m.back = x.back /\ m.held = x.held
    BY <1>1 DEF LoadTypes, Alike
  <2> HIDE DEF m, t
  <2>5. InPlace(m) /\ m.pending = None
    BY <1>5, <2>4 DEF LoadFits, StageFits, Alike, InPlace, Base
  <2>6. StageFits(m)
    BY <1>2, <2>4, <2>5 DEF StageFits
  <2>7. BodyFits(m) /\ m.next >= x.next
    <3>1. BodyFits(m) /\ m.next = x.next
      BY <2>4, AlikeFits DEF LoadFits, Alike
    <3> QED
      BY <1>1, <3>1
  <2>8. LoadFits(m) /\ Idle(m)
    BY <1>2, <2>3, <2>4, <2>5, <2>6, <2>7, IdleFits
  <2>9. WorkFits(m, t) /\ Active(m)
    BY <1>2, <2>2, <2>4, <2>5 DEF WorkFits, Active
  <2>10. LoadFits(y) /\ Keeps(m, y)
    BY <2>1, <2>2, <2>4, <2>8, <2>9, WorkAdded
  <2> QED
    BY <2>4, <2>10 DEF Restaged, Keeps
<1> QED
  BY <1>3, <1>4, <1>5

\* The handler drops the callbacks it has.
LEMMA HandlerCanceledKeeps ==
  ASSUME NEW x, LoadFits(x), NEW y, y = [x EXCEPT !.life = "canceled", !.held = {}]
  PROVE  Quiet(x, y)
<1>1. x \in LoadTypes
  BY DEF LoadFits
<1>2. y \in LoadTypes
  BY <1>1 DEF LoadTypes
<1>3. /\ Alike(x, y) /\ y.stage = x.stage /\ y.out = x.out /\ y.cb = x.cb
      /\ y.stream = x.stream /\ y.work = x.work /\ y.back = x.back /\ y.held = {}
  BY <1>1 DEF LoadTypes, Alike
<1>4. StageFits(y) /\ BodyFits(y)
  <2>1. StageFits(y)
    BY <1>3 DEF StageFits, LoadFits, Alike, InPlace, Base
  <2> QED
    BY <1>3, <2>1, AlikeFits DEF LoadFits
<1>5. OneWay(y)
  BY <1>3 DEF LoadFits, OneWay, HasWork, HasBack, HasHand, Alike
<1>6. /\ \A k \in 1 .. Len(y.work) : WorkFits(y, y.work[k])
      /\ \A k \in 1 .. Len(y.back) : BackFits(y, y.back[k])
      /\ \A cb \in y.held : HandFits(y, cb)
  <2>1. /\ \A k \in 1 .. Len(y.work) : WorkFits(x, y.work[k])
        /\ \A k \in 1 .. Len(y.back) : BackFits(x, y.back[k])
    BY <1>3 DEF LoadFits
  <2> QED
    BY <1>3, <2>1, AlikeFits
<1> QED
  BY <1>2, <1>3, <1>4, <1>5, <1>6 DEF Quiet, LoadFits

\* The network asks the header client.
LEMMA NetworkAsks ==
  ASSUME NEW x, LoadFits(x), x.stage = "net", NEW h \in {"ok", "redirect"},
         NEW y, y = [x EXCEPT !.stage = "answering", !.hdr = h]
  PROVE  Restaged(y, "answering", x.out)
<1>1. x \in LoadTypes /\ x.cb = FALSE /\ Idle(x)
  BY IdleStage DEF LoadFits, StageFits, LoadTypes
<1> DEFINE o == x.out
           c == FALSE
           s == "answering"
<1>2. /\ o \in Seq(Messages) /\ h \in {"none", "ok", "redirect"} /\ c \in BOOLEAN /\ c = FALSE
      /\ s \in Stages /\ s = "answering" /\ o = x.out
  BY <1>1 DEF LoadTypes, Stages
<1>3. y = [x EXCEPT !.stage = s, !.out = o, !.hdr = h, !.cb = c]
  BY <1>1 DEF LoadTypes
<1> HIDE DEF s, o, c
<1>4. Restaged(y, s, o)
  BY <1>1, <1>2, <1>3, Restages
<1> QED
  BY <1>2, <1>4

-----------------------------------------------------------------------------
(* The parts of a request.                                                   *)

\* r is a request p whose load is x and whose client was told t.
Formed(r, p, x, t) ==
  r \in WTypes /\ LoadsFit(r) /\ r.q = p /\ p.load # 0 /\ Load(r) = x /\ r.told = t

LEMMA FormedIs ==
  ASSUME NEW w, w \in WTypes, LoadsFit(w), w.q.load # 0
  PROVE  Formed(w, w.q, Load(w), w.told)
BY DEF Formed

LEMMA FormedTypes ==
  ASSUME NEW w, NEW p, NEW x, NEW t, Formed(w, p, x, t)
  PROVE  /\ p \in RequestTypes /\ LoadFits(x) /\ t \in Seq(Words)
         /\ p.load \in 1 .. MaxLoads /\ MaxLoads \in Nat
<1>1. p \in RequestTypes /\ t \in Seq(Words)
  BY DEF Formed, WTypes
<1>2. p.load \in 0 .. MaxLoads /\ MaxLoads \in Nat
  BY <1>1, RequestAssumption DEF RequestTypes
<1>3. p.load \in 1 .. MaxLoads
  BY <1>2 DEF Formed
<1>4. LoadFits(x)
  BY <1>3 DEF Formed, LoadsFit, Load
<1> QED
  BY <1>1, <1>2, <1>3, <1>4

LEMMA PutForms ==
  ASSUME NEW w, NEW p, NEW x, NEW t, Formed(w, p, x, t), NEW y, LoadFits(y)
  PROVE  Formed(Put(w, y), p, y, t)
<1> DEFINE n == w.q.load
           l == [w.ls EXCEPT ![n] = y]
           r == Put(w, y)
<1>1. /\ w \in WTypes /\ w.ls \in [1 .. MaxLoads -> LoadTypes] /\ w.q = p /\ w.told = t
      /\ y \in LoadTypes /\ n \in 1 .. MaxLoads /\ n = p.load /\ p.load # 0
  BY FormedTypes DEF Formed, WTypes, LoadFits
<1>2. r = [w EXCEPT !.ls = l]
  BY <1>1 DEF Put, WTypes
<1>3. l \in [1 .. MaxLoads -> LoadTypes] /\ l[n] = y /\ \A i \in 1 .. MaxLoads : i # n => l[i] = w.ls[i]
  BY <1>1
<1> HIDE DEF l, r
<1>4. r \in WTypes /\ r.q = p /\ r.told = t /\ r.ls = l
  BY <1>1, <1>2, <1>3 DEF WTypes
<1>5. Load(r) = y
  BY <1>1, <1>3, <1>4 DEF Load
<1>6. LoadsFit(r)
  <2> SUFFICES ASSUME NEW i \in 1 .. MaxLoads
               PROVE  /\ LoadFits(l[i])
                      /\ i # n => l[i].stage \in {"none", "gone"}
                      /\ i > n => l[i] = NewLoad
    BY <1>1, <1>4 DEF LoadsFit
  <2>1. CASE i = n
    BY <1>1, <1>3, <2>1
  <2>2. CASE i # n
    BY <1>1, <1>3, <2>2 DEF Formed, LoadsFit
  <2> QED
    BY <2>1, <2>2
<1> QED
  BY <1>1, <1>4, <1>5, <1>6 DEF Formed, r

LEMMA RequestForms ==
  ASSUME NEW w, NEW p, NEW x, NEW t, Formed(w, p, x, t),
         NEW o \in RequestTypes, o.load = p.load
  PROVE  Formed([w EXCEPT !.q = o], o, x, t)
<1> DEFINE r == [w EXCEPT !.q = o]
<1>1. w \in WTypes
  BY DEF Formed
<1>2. r \in WTypes /\ r.q = o /\ r.told = w.told /\ r.ls = w.ls
  BY <1>1 DEF WTypes
<1> HIDE DEF r
<1>3. LoadsFit(r) /\ Load(r) = Load(w)
  BY <1>2 DEF Formed, LoadsFit, Load
<1> QED
  BY <1>2, <1>3 DEF Formed, r

LEMMA TellForms ==
  ASSUME NEW w, NEW p, NEW x, NEW t, Formed(w, p, x, t), NEW what \in Words
  PROVE  Formed(Tell(w, what), p, x, Append(t, what))
<1> DEFINE u == Append(t, what)
           r == Tell(w, what)
<1>1. w \in WTypes /\ w.told = t /\ t \in Seq(Words)
  BY DEF Formed, WTypes
<1>2. r = [w EXCEPT !.told = u] /\ u \in Seq(Words)
  BY <1>1 DEF Tell, WTypes
<1> HIDE DEF u, r
<1>3. r \in WTypes /\ r.q = w.q /\ r.told = u /\ r.ls = w.ls
  BY <1>1, <1>2 DEF WTypes
<1>4. LoadsFit(r) /\ Load(r) = Load(w)
  BY <1>3 DEF Formed, LoadsFit, Load
<1> QED
  BY <1>3, <1>4 DEF Formed, r, u

\* A live request, and one that is over for its client.
LEMMA LiveForms ==
  ASSUME NEW w, NEW p, NEW x, NEW t, Formed(w, p, x, t), p.life = "live", p.curh <= p.load,
         LiveFits(p, x, t), WrapperFits(p)
  PROVE  Fits(w)
BY DEF Formed, Fits, LifeFits

LEMMA OverForms ==
  ASSUME NEW w, NEW p, NEW x, NEW t, Formed(w, p, x, t), p.life \in {"waiting", "gone"},
         p.curh <= p.load, p.via = "none", ~p.client, EndedIn(t),
         p.life = "gone" => ~p.state /\ p.cont.to = "none", WrapperFits(p)
  PROVE  Fits(w)
BY DEF Formed, Fits, LifeFits

\* What was told last.
LEMMA LastTold ==
  ASSUME NEW t \in Seq(Words), NEW what \in Words
  PROVE  /\ Append(t, what) \in Seq(Words)
         /\ \A v : SaidIn(Append(t, what), v) <=> v = what
         /\ SaidIn(Append(t, what), what)
         /\ Append(t, what) # <<>>
<1> DEFINE u == Append(t, what)
<1>1. u \in Seq(Words) /\ Len(u) = Len(t) + 1 /\ u[Len(u)] = what /\ Len(t) \in Nat
  OBVIOUS
<1> HIDE DEF u
<1>2. u # <<>>
  <2>1. Len(u) # 0
    BY <1>1
  <2> QED
    BY <2>1
<1> QED
  BY <1>1, <1>2 DEF SaidIn, u

LEMMA ToldApart ==
  ASSUME NEW t
  PROVE  /\ WaitsIn(t) => ~EndedIn(t) /\ ~SaidIn(t, "redirect") /\ ~SaidIn(t, "response")
         /\ SaidIn(t, "redirect") => ~EndedIn(t) /\ ~WaitsIn(t) /\ ~SaidIn(t, "response")
         /\ SaidIn(t, "response") => ~EndedIn(t) /\ ~WaitsIn(t) /\ ~SaidIn(t, "redirect")
BY DEF WaitsIn, SaidIn, EndedIn

-----------------------------------------------------------------------------
(* The request: its life, its wrapper, and what the client is told.          *)

-----------------------------------------------------------------------------
(* The end of a request keeps it well formed.                                *)

\* What the client may hear when a load begins, and when a message is read.
Starts(t, u) == u = t \/ u = Append(t, "redirect") \/ u = Append(t, "failure")
Says(t, u)   == Starts(t, u) \/ u = Append(t, "response")

Started(t, r)  == Fits(r) /\ Starts(t, r.told)
Answered(t, r) == Fits(r) /\ Says(t, r.told)

LEMMA NobodyIs ==
  Nobody \in [to : Continuations, url : BOOLEAN] /\ Nobody.to = "none"
BY DEF Nobody, Continuations

\* The wrapper forgets the request p.
LEMMA Forgets ==
  ASSUME NEW p \in RequestTypes, WrapperFits(p), NEW o, o = OnRequestComplete(p)
  PROVE  /\ o \in RequestTypes /\ ~o.state /\ o.cont = Nobody
         /\ o.handler = "handler" => o.completes = 1
         /\ o.load = p.load /\ o.curh = p.curh /\ o.ready = p.ready /\ o.down = p.down
         /\ o.hop = p.hop /\ o.via = p.via /\ o.life = p.life /\ o.client = p.client
         /\ o.paused = p.paused /\ o.completed = p.completed /\ o.limit = p.limit
         /\ o.hredir = p.hredir
<1> DEFINE a == CallHandlerOnComplete(p)
<1>1. /\ p.completes \in {0, 1} /\ (p.state => p.completes = 0) /\ p.state \in BOOLEAN
      /\ p.handler = "handler" /\ ~p.state => p.completes = 1
  BY DEF RequestTypes, WrapperFits
<1>2. a \in RequestTypes /\ a = [p EXCEPT !.completes = a.completes] /\ (a.handler = "handler" => a.completes = 1)
  <2>1. CASE p.state /\ p.handler = "handler"
    <3>1. a = [p EXCEPT !.completes = 1]
      BY <1>1, <2>1 DEF CallHandlerOnComplete, RequestTypes
    <3> QED
      BY <3>1 DEF RequestTypes
  <2>2. CASE ~(p.state /\ p.handler = "handler")
    BY <1>1, <2>2 DEF CallHandlerOnComplete, RequestTypes
  <2> QED
    BY <2>1, <2>2
<1>3. o = [a EXCEPT !.state = FALSE, !.cont = Nobody]
  BY DEF OnRequestComplete
<1> HIDE DEF a
<1>4. /\ a.load = p.load /\ a.curh = p.curh /\ a.ready = p.ready /\ a.down = p.down
      /\ a.hop = p.hop /\ a.via = p.via /\ a.life = p.life /\ a.client = p.client
      /\ a.paused = p.paused /\ a.completed = p.completed /\ a.limit = p.limit
      /\ a.hredir = p.hredir
  BY <1>2 DEF RequestTypes
<1>5. o \in RequestTypes /\ o.state = FALSE /\ o.cont = Nobody
  <2> DEFINE Conts == [to : Continuations, url : BOOLEAN]
             b == [a EXCEPT !.state = FALSE]
  <2>1. a \in RequestTypes /\ Nobody \in Conts
    BY <1>2, NobodyIs
  <2>2. b \in RequestTypes /\ b.state = FALSE
    BY <2>1 DEF RequestTypes
  <2>3. o = [b EXCEPT !.cont = Nobody]
    BY <2>1, <1>3 DEF RequestTypes
  <2> HIDE DEF b
  <2> QED
    BY <2>1, <2>2, <2>3 DEF RequestTypes
<1>6. /\ o.load = a.load /\ o.curh = a.curh /\ o.ready = a.ready /\ o.down = a.down
      /\ o.hop = a.hop /\ o.via = a.via /\ o.life = a.life /\ o.client = a.client
      /\ o.paused = a.paused /\ o.completed = a.completed /\ o.limit = a.limit
      /\ o.hredir = a.hredir /\ o.handler = a.handler /\ o.completes = a.completes
  BY <1>2, <1>3 DEF RequestTypes
<1> QED
  BY <1>2, <1>4, <1>5, <1>6

\* OnDestroy: the request is gone, and its client heard of the end once.
Gone(r, p, t, status) ==
  Fits(r) /\ r.told = IF p.client /\ ~p.completed THEN Append(t, status) ELSE t

LEMMA DestroyKeeps ==
  ASSUME NEW w, NEW p, NEW x, NEW t, Formed(w, p, x, t), WrapperFits(p),
         p.curh <= p.load, NEW status \in {"success", "failure"},
         (p.client /\ ~p.completed) \/ EndedIn(t),
         NEW r, r = OnDestroy(w, status)
  PROVE  Gone(r, p, t, status)
<1> DEFINE u == IF p.client /\ ~p.completed THEN Append(t, status) ELSE t
           last == IF w.q.client /\ ~w.q.completed THEN Tell(w, status) ELSE w
           c == OnRequestComplete(w.q)
           o == [c EXCEPT !.life = "gone", !.via = "none",
                          !.client = FALSE, !.paused = FALSE, !.hcb = FALSE]
           y == Delete(x)
<1>1. /\ w.q = p /\ p \in RequestTypes /\ LoadFits(x) /\ t \in Seq(Words) /\ w.q.load # 0
      /\ Load(w) = x
  BY FormedTypes DEF Formed
<1>2. Formed(last, p, x, u) /\ EndedIn(u)
  <2>0. status \in Words
    BY DEF Words
  <2>1. CASE p.client /\ ~p.completed
    <3>1. last = Tell(w, status) /\ u = Append(t, status)
      BY <1>1, <2>1
    <3>2. Formed(last, p, x, u)
      BY <3>1, <2>0, TellForms
    <3>3. SaidIn(u, status)
      BY <3>1, <2>0, <1>1, LastTold
    <3> QED
      BY <3>2, <3>3 DEF EndedIn
  <2>2. CASE ~(p.client /\ ~p.completed)
    <3>1. last = w /\ u = t
      BY <1>1, <2>2
    <3> QED
      BY <3>1, <2>2
  <2> QED
    BY <2>1, <2>2
<1>3. LoadFits(y)
  BY <1>1, DeleteKeeps
<1>4. /\ c \in RequestTypes /\ ~c.state /\ c.cont = Nobody /\ c.load = p.load /\ c.curh = p.curh
      /\ (c.handler = "handler" => c.completes = 1) /\ c.ready = p.ready /\ c.down = p.down /\ c.hop = p.hop
  BY <1>1, Forgets
<1>5. r = [Put(last, y) EXCEPT !.q = o]
  BY <1>1 DEF OnDestroy
<1> HIDE DEF c, y, last, u
<1>6. /\ o \in RequestTypes /\ o.load = p.load /\ o.curh = p.curh /\ o.life = "gone"
      /\ o.via = "none" /\ ~o.client /\ ~o.state /\ o.cont = Nobody
      /\ (o.handler = "handler" => o.completes = 1) /\ o.ready = p.ready /\ o.down = p.down /\ o.hop = p.hop
  BY <1>4, ZenonT(60) DEF RequestTypes, Lives
<1> HIDE DEF o
<1>7. Formed(Put(last, y), p, y, u)
  BY <1>2, <1>3, PutForms
<1>8. Formed(r, o, y, u)
  BY <1>5, <1>6, <1>7, RequestForms
<1>9. WrapperFits(o)
  BY <1>6, NobodyIs DEF WrapperFits
<1>10. Fits(r)
  BY <1>2, <1>6, <1>8, <1>9, NobodyIs, OverForms
<1> QED
  BY <1>8, <1>10 DEF Formed, Gone, u

\* A request whose client listens, and one that may go on with what its client
\* waits for.
Alive(p)      == p.life = "live" /\ p.client /\ ~p.completed /\ p.curh <= p.load /\ WrapperFits(p)
Expects(p, t) == Alive(p) /\ p.limit > 0 /\ p.cont.to = "none" /\ ~p.hop /\ WaitsIn(t)

LEMMA ErrorKeeps ==
  ASSUME NEW w, NEW p, NEW x, NEW t, Formed(w, p, x, t), Alive(p), NEW r, r = SendError(w)
  PROVE  Started(t, r) /\ r.told = Append(t, "failure")
<1> DEFINE status == "failure"
<1>1. status \in {"success", "failure"} /\ r = OnDestroy(w, status)
  BY DEF SendError
<1> HIDE DEF status
<1>2. Gone(r, p, t, status)
  BY <1>1, DestroyKeeps DEF Alive
<1> QED
  BY <1>2 DEF Gone, Started, Starts, Alive, status

\* What most steps of a live request leave alone.
SameCore(p, o) ==
  /\ o.life = p.life /\ o.load = p.load /\ o.client = p.client /\ o.completed = p.completed
  /\ o.ready = p.ready /\ o.down = p.down /\ o.state = p.state /\ o.handler = p.handler
  /\ o.completes = p.completes /\ o.hop = p.hop

\* The request waits for someone.
AwaitIs(p, o, to) ==
  /\ o \in RequestTypes /\ SameCore(p, o) /\ o.cont.to = to
  /\ o.limit = p.limit /\ o.via = p.via /\ o.hredir = p.hredir /\ o.curh = p.curh
  /\ o.hcb = p.hcb /\ o.only = p.only /\ o.paused = p.paused

LEMMA AwaitForms ==
  ASSUME NEW w, NEW p, NEW x, NEW t, Formed(w, p, x, t), NEW to \in Continuations,
         NEW url \in BOOLEAN, NEW r, r = Await(w, to, url)
  PROVE  \E o : AwaitIs(p, o, to) /\ Formed(r, o, x, t)
<1> DEFINE c == [to |-> to, url |-> url]
           o == [p EXCEPT !.cont = c]
           Conts == [to : Continuations, url : BOOLEAN]
<1>1. c \in Conts /\ c.to = to
  OBVIOUS
<1>2. p \in RequestTypes /\ w.q = p /\ w \in WTypes
  BY FormedTypes DEF Formed
<1>3. r = [w EXCEPT !.q = o]
  BY <1>2 DEF Await, WTypes
<1> HIDE DEF c
<1>4. o \in RequestTypes /\ o.cont = c
  BY <1>1, <1>2 DEF RequestTypes
<1>5. /\ SameCore(p, o) /\ o.limit = p.limit /\ o.via = p.via /\ o.hredir = p.hredir
      /\ o.curh = p.curh /\ o.hcb = p.hcb /\ o.only = p.only /\ o.paused = p.paused
      /\ o.load = p.load
  BY <1>2 DEF RequestTypes, SameCore
<1> HIDE DEF o
<1>6. Formed(r, o, x, t)
  BY <1>3, <1>4, <1>5, RequestForms
<1> QED
  BY <1>1, <1>4, <1>5, <1>6 DEF AwaitIs

LEMMA SameAlive ==
  ASSUME NEW p, NEW o, SameCore(p, o), Alive(p), o.curh <= o.load,
         o.cont.to = "init" => ~o.ready
  PROVE  Alive(o)
BY DEF Alive, WrapperFits, SameCore

LEMMA StillFits ==
  ASSUME NEW r, NEW o, NEW x, NEW t, Formed(r, o, x, t), Alive(o), LiveFits(o, x, t)
  PROVE  Started(t, r) /\ r.told = t /\ Fits(r)
<1>1. Fits(r)
  BY LiveForms DEF Alive
<1> QED
  BY <1>1 DEF Started, Starts, Formed

LEMMA ToldFits ==
  ASSUME NEW r, NEW o, NEW x, NEW t, NEW u, Formed(r, o, x, u), Alive(o), LiveFits(o, x, u)
  PROVE  /\ u = Append(t, "redirect") => Started(t, r)
         /\ u = Append(t, "response") => Answered(t, r)
<1>1. Fits(r)
  BY LiveForms DEF Alive
<1> QED
  BY <1>1 DEF Started, Starts, Formed, Answered, Says

LEMMA StartedAnswered ==
  ASSUME NEW t, NEW r, Started(t, r)
  PROVE  Answered(t, r)
BY DEF Started, Answered, Says

\* HandleResponseOrRedirectHeaders holds the messages back.
HeldBack(p, o) ==
  /\ o \in RequestTypes /\ SameCore(p, o)
  /\ o.limit = p.limit /\ o.via = p.via /\ o.hredir = p.hredir /\ o.curh = p.curh
  /\ o.hcb = p.hcb /\ o.only = p.only /\ o.cont = p.cont
  /\ o.paused <=> p.via # "none"

LEMMA HandlingForms ==
  ASSUME NEW w, NEW p, NEW x, NEW t, Formed(w, p, x, t), NEW redirect \in BOOLEAN,
         NEW r, r = Handling(w, redirect)
  PROVE  \E o : Formed(r, o, x, t) /\ HeldBack(p, o)
<1>1. p \in RequestTypes /\ w.q = p
  BY FormedTypes DEF Formed
<1>2. PICK u \in BOOLEAN : u = (w.q.rip \/ redirect)
  OBVIOUS
<1>3. PICK v \in BOOLEAN : v = (w.q.via # "none")
  OBVIOUS
<1> DEFINE o == [p EXCEPT !.rip = u, !.paused = v]
<1>4. r = [w EXCEPT !.q = o]
  BY <1>1, <1>2, <1>3 DEF Handling
<1>5. p \in RequestTypes
  BY <1>1
<1>6. o \in RequestTypes
  BY <1>5, Zenon DEF RequestTypes
<1>7. HeldBack(p, o)
  <2>1. o.paused = v
    BY <1>5 DEF RequestTypes
  <2>2. /\ SameCore(p, o) /\ o.limit = p.limit /\ o.via = p.via /\ o.hredir = p.hredir
        /\ o.curh = p.curh /\ o.hcb = p.hcb /\ o.only = p.only /\ o.cont = p.cont
    BY <1>5 DEF RequestTypes, SameCore
  <2> QED
    BY <1>1, <1>3, <1>6, <2>1, <2>2 DEF HeldBack
<1>8. Formed(r, o, x, t)
  <2>1. o.load = p.load
    BY <1>5 DEF RequestTypes
  <2> HIDE DEF o
  <2> QED
    BY <1>4, <1>6, <2>1, RequestForms
<1> QED
  BY <1>7, <1>8

LEMMA BeforeRedirectKeeps ==
  ASSUME NEW w, NEW p, NEW x, NEW t, Formed(w, p, x, t), Expects(p, t),
         p.via = "none" \/ (p.state /\ IsOver(x)), NEW r \in ContinueToBeforeRedirect(w)
  PROVE  Started(t, r)
<1> DEFINE o == [p EXCEPT !.rip = FALSE, !.hredir = FALSE, !.paused = FALSE]
           what == "redirect"
           u == Append(t, what)
           y == [w EXCEPT !.q = o]
<1>1. p \in RequestTypes /\ w.q = p /\ t \in Seq(Words) /\ what \in Words
  BY FormedTypes DEF Formed, Words
<1>2. r = Tell(y, what)
  BY <1>1 DEF ContinueToBeforeRedirect
<1>3. p \in RequestTypes
  BY <1>1
<1>4. o \in RequestTypes
  BY <1>3, Zenon DEF RequestTypes
<1>5. /\ SameCore(p, o) /\ o.limit = p.limit /\ o.via = p.via /\ o.hredir = FALSE
      /\ o.curh = p.curh /\ o.cont = p.cont /\ o.paused = FALSE /\ o.load = p.load
  BY <1>3 DEF RequestTypes, SameCore
<1> HIDE DEF o, what
<1>6. Formed(y, o, x, t)
  BY <1>4, <1>5, RequestForms
<1> HIDE DEF y
<1>7. Formed(r, o, x, u)
  BY <1>1, <1>2, <1>6, TellForms
<1>8. SaidIn(u, "redirect")
  BY <1>1, LastTold DEF what
<1>9. Alive(o)
  <2>1. Alive(p) /\ o.curh <= o.load /\ o.cont.to # "init"
    BY <1>5 DEF Expects, Alive
  <2> QED
    BY <1>5, <2>1, SameAlive
<1>10. LiveFits(o, x, u)
  <2>1. /\ ~o.paused /\ ~o.hop /\ o.cont.to = "none" /\ ~o.hredir /\ o.state = p.state
        /\ o.client /\ ~o.completed /\ o.limit > 0
    BY <1>5 DEF Expects, Alive, SameCore
  <2>2. CASE p.via = "none"
    BY <1>5, <1>8, <2>1, <2>2 DEF LiveFits, FreeFits, UrlFits
  <2>3. CASE p.via # "none"
    BY <1>5, <1>8, <2>1, <2>3 DEF LiveFits, BoundFits, UrlFits
  <2> QED
    BY <2>2, <2>3
<1> QED
  BY <1>7, <1>9, <1>10, ToldFits DEF what, u

\* What a request that is not paused may wait for, and one that is.
MayAwait(p, x, to) ==
  \/ /\ p.via = "none" /\ ~p.paused /\ to \in {"init", "cookies", "resource", "redirect"}
     /\ (to # "init" => p.state) /\ (to = "init" => ~p.ready)
  \/ /\ p.via # "none" /\ p.state /\ p.paused
     /\ \/ /\ to = "headers" /\ p.hcb /\ p.curh = p.load
           /\ x.stage = "answering" /\ x.out = <<>> /\ (p.via = "stream" \/ HeaderClient)
        \/ to = "response" /\ Responds(x, p.via)
        \/ to = "redirect" /\ IsOver(x)

LEMMA AwaitFits ==
  ASSUME NEW w, NEW p, NEW x, NEW t, Formed(w, p, x, t), Expects(p, t), UrlFits(p, x, t),
         NEW to \in Continuations, MayAwait(p, x, to), NEW url \in BOOLEAN,
         NEW r, r = Await(w, to, url)
  PROVE  Started(t, r) /\ r.told = t
<1>1. PICK o : AwaitIs(p, o, to) /\ Formed(r, o, x, t)
  BY AwaitForms
<1>2. /\ SameCore(p, o) /\ o.curh = p.curh /\ o.cont.to = to /\ o.hcb = p.hcb
      /\ o.limit = p.limit /\ o.via = p.via /\ o.hredir = p.hredir /\ o.paused = p.paused
  BY <1>1 DEF AwaitIs
<1>3. Alive(o)
  <2>1. Alive(p) /\ o.curh <= o.load /\ (o.cont.to = "init" => ~o.ready)
    BY <1>2 DEF Expects, Alive, SameCore, MayAwait
  <2> QED
    BY <1>2, <2>1, SameAlive
<1>4. LiveFits(o, x, t)
  <2>1. /\ ~o.hop /\ o.state = p.state /\ o.client /\ ~o.completed /\ o.limit > 0
        /\ o.load = p.load /\ WaitsIn(t)
    BY <1>2 DEF Expects, Alive, SameCore
  <2>2. UrlFits(o, x, t)
    BY <1>2 DEF UrlFits
  <2>3. CASE p.via = "none"
    BY <1>2, <2>1, <2>2, <2>3 DEF LiveFits, FreeFits, MayAwait
  <2>4. CASE p.via # "none"
    BY <1>2, <2>1, <2>2, <2>4 DEF LiveFits, BoundFits, MayAwait
  <2> QED
    BY <2>3, <2>4
<1> QED
  BY <1>1, <1>3, <1>4, StillFits

LEMMA HeldExpects ==
  ASSUME NEW p, NEW o, HeldBack(p, o), NEW t, Expects(p, t), NEW x, UrlFits(p, x, t)
  PROVE  /\ Expects(o, t) /\ UrlFits(o, x, t) /\ o.state = p.state /\ o.load = p.load
         /\ o.via = p.via /\ (o.paused <=> p.via # "none") /\ o.hcb = p.hcb /\ o.curh = p.curh
         /\ o.hredir = p.hredir /\ o.limit = p.limit
<1>1. /\ SameCore(p, o) /\ o.via = p.via /\ o.hredir = p.hredir /\ o.cont = p.cont
      /\ o.limit = p.limit /\ o.curh = p.curh
  BY DEF HeldBack
<1>2. Alive(o)
  <2>1. Alive(p) /\ o.curh <= o.load /\ o.cont.to # "init"
    BY <1>1 DEF Expects, Alive, SameCore
  <2> QED
    BY <1>1, <2>1, SameAlive
<1> QED
  BY <1>1, <1>2 DEF Expects, UrlFits, SameCore, HeldBack

LEMMA RedirectKeeps ==
  ASSUME NEW w, NEW p, NEW x, NEW t, Formed(w, p, x, t), Expects(p, t), UrlFits(p, x, t), p.state,
         p.via = "none" \/ IsOver(x), NEW r \in HandleRedirect(w, "redirect")
  PROVE  Started(t, r)
<1> DEFINE y == Handling(w, TRUE)
           to == "redirect"
           url == TRUE
<1>1. PICK o : Formed(y, o, x, t) /\ HeldBack(p, o)
  BY HandlingForms
<1>2. /\ Expects(o, t) /\ UrlFits(o, x, t) /\ o.state /\ o.via = p.via
      /\ (o.paused <=> p.via # "none")
  BY <1>1, HeldExpects
<1>3. w.q.state /\ to \in Continuations /\ url \in BOOLEAN
  BY DEF Formed, Continuations
<1>4. r = Await(y, to, url) \/ r \in ContinueToBeforeRedirect(y)
  BY <1>3 DEF HandleRedirect
<1>5. MayAwait(o, x, to)
  BY <1>2 DEF MayAwait
<1> HIDE DEF y, to, url
<1>6. CASE r = Await(y, to, url)
  BY <1>1, <1>2, <1>3, <1>5, <1>6, AwaitFits
<1>7. CASE r \in ContinueToBeforeRedirect(y)
  BY <1>1, <1>2, <1>7, BeforeRedirectKeeps
<1> QED
  BY <1>4, <1>6, <1>7

\* The headers of the load x are with the request.
AsksHeaders(p, x) ==
  /\ p.state /\ p.hcb /\ p.curh = p.load /\ x.stage = "answering" /\ x.out = <<>>
  /\ p.via = "stream" \/ (p.via = "network" /\ HeaderClient)

\* What a load with these headers becomes.
PassesOn(p, x, url) ==
  \/ ~url /\ Unheard(x, p.via)
  \/ x.stage = "done" /\ \E ok \in BOOLEAN : x.out = <<Message("redirect", ok)>>

LEMMA HeadersPass ==
  ASSUME NEW p, NEW x, LoadFits(x), AsksHeaders(p, x), NEW url \in BOOLEAN,
         NEW y, y = IF p.via = "stream" THEN ContinueWithResponseHeaders(x, url)
                    ELSE NetworkHeaders(x, url)
  PROVE  LoadFits(y) /\ PassesOn(p, y, url)
<1>1. x.stage = "answering" /\ x.stage \in {"answering", "net"} /\ x.out = <<>>
  BY DEF AsksHeaders
<1>2. \A m : Append(<<>>, m) = <<m>>
  OBVIOUS
<1>3. ASSUME NEW s, Headed(x, y, s, url),
             (p.via = "stream" /\ s = "responding") \/ (p.via = "network" /\ s = "netBody")
      PROVE  LoadFits(y) /\ PassesOn(p, y, url)
  <2> DEFINE m == Message("response", TRUE)
  <2>1. CASE ~url /\ Restaged(y, s, Append(x.out, m))
    <3> HIDE DEF m
    <3>1. LoadFits(y) /\ y.stage = s /\ y.out = <<m>>
      BY <1>1, <1>2, <2>1 DEF Restaged
    <3> QED
      BY <1>3, <2>1, <3>1 DEF PassesOn, Unheard, m
  <2>2. ASSUME NEW ok \in BOOLEAN, Restaged(y, "done", Append(x.out, Message("redirect", ok)))
        PROVE  LoadFits(y) /\ PassesOn(p, y, url)
    <3>1. LoadFits(y) /\ y.stage = "done" /\ y.out = <<Message("redirect", ok)>>
      BY <1>1, <1>2, <2>2 DEF Restaged
    <3> QED
      BY <3>1 DEF PassesOn
  <2> QED
    BY <1>3, <2>1, <2>2 DEF Headed
<1>4. CASE p.via = "stream"
  <2> DEFINE v == "responding"
  <2>1. Headed(x, y, v, url) /\ v = "responding"
    BY <1>1, <1>4, ResponseHeadersKeep
  <2> HIDE DEF v
  <2> QED
    BY <1>3, <1>4, <2>1
<1>5. CASE p.via # "stream"
  <2>1. p.via = "network" /\ y = NetworkHeaders(x, url)
    BY <1>5 DEF AsksHeaders
  <2> DEFINE v == "netBody"
  <2>2. Headed(x, y, v, url) /\ v = "netBody"
    BY <1>1, <2>1, NetworkHeadersKeep
  <2> HIDE DEF v
  <2> QED
    BY <1>3, <2>1, <2>2
<1> QED
  BY <1>4, <1>5

LEMMA OverrideKeeps ==
  ASSUME NEW w, NEW p, NEW x, NEW t, Formed(w, p, x, t), Expects(p, t), AsksHeaders(p, x),
         NEW url \in BOOLEAN, NEW r \in ContinueToHandleOverrideHeaders(w, url)
  PROVE  Started(t, r) /\ r.told = t
<1> DEFINE o == [p EXCEPT !.hredir = url, !.hcb = FALSE, !.paused = FALSE]
           z == IF p.via = "stream" THEN ContinueWithResponseHeaders(x, url)
                ELSE NetworkHeaders(x, url)
           y == Put(w, z)
<1>1. p \in RequestTypes /\ w.q = p /\ LoadFits(x) /\ Load(w) = x
  BY FormedTypes DEF Formed
<1>2. p.hcb
  BY DEF AsksHeaders
<1>3. r = [y EXCEPT !.q = o]
  BY <1>1, <1>2 DEF ContinueToHandleOverrideHeaders
<1>4. LoadFits(z) /\ PassesOn(p, z, url)
  BY <1>1, HeadersPass
<1>5. p \in RequestTypes
  BY <1>1
<1>6. o \in RequestTypes
  BY <1>5, Zenon DEF RequestTypes
<1>7. /\ SameCore(p, o) /\ o.limit = p.limit /\ o.via = p.via /\ o.hredir = url
      /\ o.curh = p.curh /\ o.cont = p.cont /\ o.paused = FALSE /\ o.load = p.load
  BY <1>5 DEF RequestTypes, SameCore
<1> HIDE DEF o, z
<1>8. Formed(y, p, z, t)
  BY <1>4, PutForms
<1> HIDE DEF y
<1>9. Formed(r, o, z, t)
  BY <1>3, <1>6, <1>7, <1>8, RequestForms
<1>10. Alive(o)
  <2>1. Alive(p) /\ o.curh <= o.load /\ o.cont.to # "init"
    BY <1>7 DEF Expects, Alive
  <2> QED
    BY <1>7, <2>1, SameAlive
<1>11. LiveFits(o, z, t)
  <2>1. /\ ~o.paused /\ ~o.hop /\ o.cont.to = "none" /\ o.state /\ o.client /\ ~o.completed
        /\ o.limit > 0 /\ WaitsIn(t) /\ o.via # "none" /\ o.via = p.via
    BY <1>7 DEF Expects, Alive, SameCore, AsksHeaders
  <2>2. Unheard(z, o.via)
    BY <1>4, <2>1 DEF PassesOn, Unheard
  <2>3. UrlFits(o, z, t)
    BY <1>4, <1>7, <2>1 DEF PassesOn, UrlFits, AsksHeaders
  <2> QED
    BY <2>1, <2>2, <2>3 DEF LiveFits, BoundFits
<1> QED
  BY <1>9, <1>10, <1>11, StillFits

LEMMA RedirectHeadersKeep ==
  ASSUME NEW w, NEW p, NEW x, NEW t, Formed(w, p, x, t), Expects(p, t), UrlFits(p, x, t),
         AsksHeaders(p, x), NEW r \in HandleRedirect(w, "headers")
  PROVE  Started(t, r)
<1> DEFINE y == Handling(w, TRUE)
           to == "headers"
           url == TRUE
<1>1. PICK o : Formed(y, o, x, t) /\ HeldBack(p, o)
  BY HandlingForms
<1>2. /\ Expects(o, t) /\ UrlFits(o, x, t) /\ o.state = p.state /\ o.via = p.via
      /\ (o.paused <=> p.via # "none") /\ o.hcb = p.hcb /\ o.curh = p.curh /\ o.load = p.load
  BY <1>1, HeldExpects
<1>3. w.q.state /\ to \in Continuations /\ url \in BOOLEAN
  BY DEF Formed, Continuations, AsksHeaders
<1>4. r = Await(y, to, url) \/ r \in ContinueToHandleOverrideHeaders(y, url)
  BY <1>3 DEF HandleRedirect
<1>5. MayAwait(o, x, to) /\ AsksHeaders(o, x)
  BY <1>2 DEF MayAwait, AsksHeaders
<1> HIDE DEF y, to, url
<1>6. CASE r = Await(y, to, url)
  BY <1>1, <1>2, <1>3, <1>5, <1>6, AwaitFits
<1>7. CASE r \in ContinueToHandleOverrideHeaders(y, url)
  BY <1>1, <1>2, <1>3, <1>5, <1>7, OverrideKeeps
<1> QED
  BY <1>4, <1>6, <1>7

\* No URL of the header client is left over.
NoUrl(p) == p.hredir => HeaderClient

LEMMA RespondKeeps ==
  ASSUME NEW w, NEW p, NEW x, NEW t, Formed(w, p, x, t), Expects(p, t), p.state, NoUrl(p),
         p.via # "none", HasBody(x),
         NEW r, r = Tell([w EXCEPT !.q = [p EXCEPT !.paused = FALSE]], "response")
  PROVE  Answered(t, r)
<1> DEFINE o == [p EXCEPT !.paused = FALSE]
           what == "response"
           u == Append(t, what)
           y == [w EXCEPT !.q = o]
<1>1. p \in RequestTypes /\ t \in Seq(Words) /\ what \in Words
  BY FormedTypes DEF Words
<1>2. r = Tell(y, what)
  OBVIOUS
<1>3. p \in RequestTypes
  BY <1>1
<1>4. o \in RequestTypes
  BY <1>3, Zenon DEF RequestTypes
<1>5. /\ SameCore(p, o) /\ o.limit = p.limit /\ o.via = p.via /\ o.hredir = p.hredir
      /\ o.curh = p.curh /\ o.cont = p.cont /\ o.paused = FALSE /\ o.load = p.load
  BY <1>3 DEF RequestTypes, SameCore
<1> HIDE DEF o, what
<1>6. Formed(y, o, x, t)
  BY <1>4, <1>5, RequestForms
<1> HIDE DEF y
<1>7. Formed(r, o, x, u)
  BY <1>1, <1>2, <1>6, TellForms
<1>8. SaidIn(u, "response")
  BY <1>1, LastTold DEF what
<1>9. Alive(o)
  <2>1. Alive(p) /\ o.curh <= o.load /\ o.cont.to # "init"
    BY <1>5 DEF Expects, Alive
  <2> QED
    BY <1>5, <2>1, SameAlive
<1>10. LiveFits(o, x, u)
  <2>1. /\ ~o.paused /\ ~o.hop /\ o.cont.to = "none" /\ (o.hredir => HeaderClient) /\ o.state
        /\ o.client /\ ~o.completed /\ o.limit > 0 /\ o.via # "none"
    BY <1>5 DEF Expects, Alive, SameCore, NoUrl
  <2> QED
    BY <1>8, <2>1 DEF LiveFits, BoundFits, UrlFits
<1> QED
  BY <1>7, <1>9, <1>10, ToldFits DEF what, u

LEMMA ResponseKeeps ==
  ASSUME NEW w, NEW p, NEW x, NEW t, Formed(w, p, x, t), Expects(p, t), p.state, NoUrl(p),
         Responds(x, p.via), NEW url \in BOOLEAN, NEW r \in ContinueToResponseStarted(w, url)
  PROVE  Answered(t, r)
<1> DEFINE o == [p EXCEPT !.paused = FALSE]
<1>1. p \in RequestTypes /\ w.q = p /\ LoadFits(x) /\ Load(w) = x
  BY FormedTypes DEF Formed
<1>2. UrlFits(p, x, t) /\ \A y : UrlFits(p, y, t)
  BY DEF UrlFits, NoUrl
<1>3. CASE p.via = "stream"
  <2> DEFINE z == Cancel(x)
             y == Put(w, z)
             b == Continue(x)
             v == Put(w, b)
  <2>1. x.stage = "responding" /\ x.out = <<>>
    BY <1>3 DEF Responds
  <2>2. LoadFits(z) /\ IsOver(z)
    BY <1>1, <2>1, CancelKeeps DEF Restaged, IsOver
  <2>3. LoadFits(b) /\ HasBody(b)
    <3>1. LoadFits(b) /\ b.stage = "ready" /\ b.out = <<>>
      BY <1>1, <2>1, ContinueKeeps DEF Restaged
    <3> QED
      BY <3>1 DEF HasBody
  <2>4. r \in HandleRedirect(y, "redirect") \/ r = SendError(y)
          \/ r = Tell([v EXCEPT !.q = o], "response")
    BY <1>1, <1>3 DEF ContinueToResponseStarted
  <2> HIDE DEF z, b, o
  <2>5. Formed(y, p, z, t) /\ Formed(v, p, b, t)
    BY <2>2, <2>3, PutForms
  <2> HIDE DEF y, v
  <2>6. CASE r \in HandleRedirect(y, "redirect")
    BY <1>2, <2>2, <2>5, <2>6, RedirectKeeps, StartedAnswered
  <2>7. CASE r = SendError(y)
    BY <2>5, <2>7, ErrorKeeps, StartedAnswered DEF Expects
  <2>8. CASE r = Tell([v EXCEPT !.q = o], "response")
    BY <1>3, <2>3, <2>5, <2>8, RespondKeeps DEF o
  <2> QED
    BY <2>4, <2>6, <2>7, <2>8
<1>4. CASE p.via # "stream"
  <2>1. p.via = "network" /\ r = Tell([w EXCEPT !.q = o], "response")
    BY <1>1, <1>4 DEF ContinueToResponseStarted, Responds
  <2>2. HasBody(x)
    <3>1. CASE x.stage = "netBody" /\ x.out = <<>>
      BY <3>1 DEF HasBody
    <3>2. ASSUME NEW ok \in BOOLEAN, x.stage = "done", x.out = <<Message("complete", ok)>>
          PROVE  HasBody(x)
      BY <3>2 DEF HasBody, Message
    <3> QED
      BY <1>4, <3>1, <3>2 DEF Responds
  <2> QED
    BY <2>1, <2>2, RespondKeeps
<1> QED
  BY <1>3, <1>4

\* A load begins: its loader is bound, nothing was heard of it.
LEMMA BeginKeeps ==
  ASSUME NEW w, NEW p, NEW x, NEW t, Formed(w, p, x, t), Expects(p, t), p.state, NoUrl(p),
         ~p.paused, NEW z, LoadFits(z), NEW via, Unheard(z, via), via \in {"stream", "network"},
         NEW r, r = [Put(w, z) EXCEPT !.q.via = via]
  PROVE  Started(t, r) /\ r.told = t
<1> DEFINE o == [p EXCEPT !.via = via]
           y == Put(w, z)
<1>1. Formed(y, p, z, t)
  BY PutForms
<1> HIDE DEF y
<1>2. p \in RequestTypes /\ y.q = p /\ y \in WTypes
  BY <1>1, FormedTypes DEF Formed
<1>3. r = [y EXCEPT !.q = o]
  BY <1>2 DEF WTypes, y
<1>4. p \in RequestTypes
  BY <1>2
<1>5. o \in RequestTypes
  BY <1>4, Zenon DEF RequestTypes
<1>6. /\ SameCore(p, o) /\ o.limit = p.limit /\ o.via = via /\ o.hredir = p.hredir
      /\ o.curh = p.curh /\ o.cont = p.cont /\ o.paused = p.paused /\ o.load = p.load
  BY <1>4 DEF RequestTypes, SameCore
<1> HIDE DEF o
<1>7. Formed(r, o, z, t)
  <2>1. o.load = p.load
    BY <1>6
  <2>2. Formed([y EXCEPT !.q = o], o, z, t)
    BY <1>1, <1>5, <2>1, RequestForms
  <2> QED
    BY <1>3, <2>2
<1>8. Alive(o)
  <2>1. Alive(p) /\ o.curh <= o.load /\ o.cont.to # "init"
    BY <1>6 DEF Expects, Alive
  <2> QED
    BY <1>6, <2>1, SameAlive
<1>9. LiveFits(o, z, t)
  <2>1. /\ ~o.paused /\ ~o.hop /\ o.cont.to = "none" /\ (o.hredir => HeaderClient) /\ o.state
        /\ o.client /\ ~o.completed /\ o.limit > 0 /\ o.via # "none" /\ WaitsIn(t)
        /\ Unheard(z, o.via)
    BY <1>6 DEF Expects, Alive, SameCore, NoUrl
  <2> QED
    BY <2>1 DEF LiveFits, BoundFits, UrlFits
<1> QED
  BY <1>7, <1>8, <1>9, StillFits

\* A request nobody loads for yet.
Undecided(p) == p.via = "none" /\ ~p.paused /\ NoUrl(p)

LEMMA OverrideInterceptKeeps ==
  ASSUME NEW w, NEW p, NEW x, NEW t, Formed(w, p, x, t), Expects(p, t), p.state, Undecided(p),
         NEW r \in ContinueAfterInterceptWithOverride(w)
  PROVE  Started(t, r)
<1> DEFINE old == \E i \in 1 .. w.q.load - 1 : w.ls[i].stage \notin {"none", "gone"}
           via == "stream"
<1>1. p.load \in 1 .. MaxLoads /\ MaxLoads \in Nat /\ w.q = p
  BY FormedTypes DEF Formed
<1>2. ~old
  <2> SUFFICES ASSUME NEW i \in 1 .. p.load - 1
               PROVE  w.ls[i].stage \in {"none", "gone"}
    BY <1>1
  <2>1. i \in 1 .. MaxLoads /\ i # w.q.load
    BY <1>1
  <2> QED
    BY <2>1 DEF Formed, LoadsFit
<1>3. PICK first \in Firsts : \E z \in Start(NewLoad, first) :
               r = [Put(w, z) EXCEPT !.q.via = via]
  BY <1>2 DEF ContinueAfterInterceptWithOverride
<1>4. PICK z \in Start(NewLoad, first) : r = [Put(w, z) EXCEPT !.q.via = via]
  BY <1>3
<1> DEFINE s == "asking"
           l == "attached"
           v == [NewLoad EXCEPT !.stage = s, !.first = first, !.life = l]
           no == FALSE
<1>5. Fresh(v, s, first, l)
  BY DEF Fresh
<1>6. z = v \/ z = RequestComplete(v, no)
  BY <1>4 DEF Start
<1>7. /\ no \in BOOLEAN /\ ~no
      /\ s \in {"asking", "opening", "skipping"}
  OBVIOUS
<1> HIDE DEF s, l, v, no
<1>8. LoadFits(v) /\ v.stage = s /\ v.out = <<>>
  <2>1. FreshIs(v, s, first)
    BY <1>5, FreshFits
  <2> QED
    BY <2>1 DEF FreshIs
<1>9. LoadFits(z) /\ Unheard(z, via) /\ via \in {"stream", "network"}
  <2>1. CASE z = v
    BY <1>7, <1>8, <2>1 DEF Unheard
  <2>2. CASE z = RequestComplete(v, no)
    <3>1. LoadFits(z) /\ z.stage = "done" /\ z.out = Append(v.out, Message("complete", no))
      BY <1>7, <1>8, <2>2, CompleteKeeps
    <3>2. z.out = <<Message("complete", FALSE)>>
      BY <1>7, <1>8, <3>1 DEF no
    <3> QED
      BY <3>1, <3>2 DEF Unheard
  <2> QED
    BY <1>6, <2>1, <2>2
<1> HIDE DEF via
<1> QED
  BY <1>4, <1>9, BeginKeeps DEF Undecided

LEMMA InterceptKeeps ==
  ASSUME NEW w, NEW p, NEW x, NEW t, Formed(w, p, x, t), Expects(p, t), p.state, Undecided(p),
         NEW r \in ContinueAfterIntercept(w)
  PROVE  Started(t, r)
<1> DEFINE via == "network"
           z == [NewLoad EXCEPT !.stage = "net"]
           s == "net"
           l == "none"
<1>1. w.q = p /\ p.via = "none"
  BY DEF Formed, Undecided
<1>2. r = SendError(w) \/ r = [Put(w, z) EXCEPT !.q.via = via]
  BY <1>1 DEF ContinueAfterIntercept
<1>3. Fresh(z, s, NoRange, l)
  <2>1. NewLoad.first = NoRange /\ NewLoad.life = "none"
    BY DEF NewLoad
  <2>2. z = [NewLoad EXCEPT !.stage = s, !.first = NoRange, !.life = l]
    BY <2>1, NewLoadTyped DEF LoadTypes
  <2> QED
    BY <2>2 DEF Fresh
<1> DEFINE n == NoRange
<1> HIDE DEF s, l, n
<1>4. FreshIs(z, s, n)
  BY <1>3, FreshFits DEF n
<1>5. LoadFits(z) /\ Unheard(z, via) /\ via \in {"stream", "network"}
  BY <1>4 DEF FreshIs, Unheard, s
<1> HIDE DEF z, via
<1>6. CASE r = SendError(w)
  BY <1>6, ErrorKeeps DEF Expects
<1>7. CASE r = [Put(w, z) EXCEPT !.q.via = via]
  BY <1>5, <1>7, BeginKeeps DEF Undecided
<1> QED
  BY <1>2, <1>6, <1>7

LEMMA ResourceKeeps ==
  ASSUME NEW w, NEW p, NEW x, NEW t, Formed(w, p, x, t), Expects(p, t), p.state, Undecided(p),
         NEW r \in ContinueShouldInterceptRequest(w)
  PROVE  Started(t, r)
<1>1. CASE r = SendError(w)
  BY <1>1, ErrorKeeps DEF Expects
<1>2. CASE r \in HandleRedirect(w, "redirect")
  <2>1. UrlFits(p, x, t) /\ p.via = "none"
    BY DEF Undecided, NoUrl, UrlFits
  <2> QED
    BY <1>2, <2>1, RedirectKeeps
<1>3. CASE r \in ContinueAfterInterceptWithOverride(w)
  BY <1>3, OverrideInterceptKeeps
<1>4. CASE r \in ContinueAfterIntercept(w)
  BY <1>4, InterceptKeeps
<1> QED
  BY <1>1, <1>2, <1>3, <1>4 DEF ContinueShouldInterceptRequest

LEMMA ShouldInterceptKeeps ==
  ASSUME NEW w, NEW p, NEW x, NEW t, Formed(w, p, x, t), Expects(p, t), p.state, Undecided(p),
         NEW r \in ShouldInterceptRequest(w)
  PROVE  Started(t, r)
<1> DEFINE to == "resource"
           url == FALSE
<1>1. w.q.state /\ to \in Continuations /\ url \in BOOLEAN
  BY DEF Formed, Continuations
<1>2. r = Await(w, to, url) \/ r \in ContinueShouldInterceptRequest(w)
  BY <1>1 DEF ShouldInterceptRequest
<1>3. MayAwait(p, x, to) /\ UrlFits(p, x, t)
  BY DEF MayAwait, Undecided, NoUrl, UrlFits
<1> HIDE DEF to, url
<1>4. CASE r = Await(w, to, url)
  BY <1>1, <1>3, <1>4, AwaitFits
<1>5. CASE r \in ContinueShouldInterceptRequest(w)
  BY <1>5, ResourceKeeps
<1> QED
  BY <1>2, <1>4, <1>5

\* OnBeforeRequest: with the observer there, the handler is asked for.
LEMMA AcceptKeeps ==
  ASSUME NEW w, NEW p, NEW x, NEW t, Formed(w, p, x, t), Expects(p, t), Undecided(p),
         p.ready, ~p.down, NEW r \in Accept(w)
  PROVE  Started(t, r)
<1>1. p \in RequestTypes /\ w.q = p /\ p.life = "live"
  BY FormedTypes DEF Formed, Expects, Alive
<1>2. PICK h \in {"none", "handler", "scheme"}, only \in BOOLEAN : r \in AcceptWith(w, h, only)
  BY DEF Accept
<1> DEFINE o == [p EXCEPT !.state = TRUE, !.handler = h, !.only = only, !.tried = FALSE]
           y == [w EXCEPT !.q = o]
           to == "cookies"
           url == FALSE
<1>3. \/ r \in ContinueAfterIntercept(y)
      \/ r = Await(y, to, url)
      \/ r \in ShouldInterceptRequest(y)
  BY <1>1, <1>2 DEF AcceptWith
<1>4. p \in RequestTypes
  BY <1>1
<1>5. o \in RequestTypes
  BY <1>4, Zenon DEF RequestTypes
<1>6. /\ o.life = p.life /\ o.load = p.load /\ o.client = p.client /\ o.completed = p.completed
      /\ o.ready = p.ready /\ o.down = p.down /\ o.state = TRUE /\ o.completes = p.completes
      /\ o.hop = p.hop /\ o.limit = p.limit /\ o.via = p.via /\ o.hredir = p.hredir
      /\ o.curh = p.curh /\ o.cont = p.cont /\ o.paused = p.paused
  BY <1>4 DEF RequestTypes
<1>7. to \in Continuations /\ url \in BOOLEAN
  BY DEF Continuations
<1> HIDE DEF o, to, url
<1>8. o.load = p.load
  BY <1>6
<1>9. Formed(y, o, x, t)
  BY <1>5, <1>8, RequestForms
<1> HIDE DEF y
<1>10. p.completes = 0
  BY <1>1 DEF Expects, Alive, WrapperFits, RequestTypes
<1>11. Expects(o, t)
  BY <1>6, <1>10 DEF Expects, Alive, WrapperFits
<1>12. o.state /\ Undecided(o) /\ MayAwait(o, x, to) /\ UrlFits(o, x, t)
  BY <1>6 DEF Undecided, NoUrl, MayAwait, UrlFits, to
<1>13. CASE r \in ContinueAfterIntercept(y)
  BY <1>9, <1>11, <1>12, <1>13, InterceptKeeps
<1>14. CASE r = Await(y, to, url)
  BY <1>7, <1>9, <1>11, <1>12, <1>14, AwaitFits
<1>15. CASE r \in ShouldInterceptRequest(y)
  BY <1>9, <1>11, <1>12, <1>15, ShouldInterceptKeeps
<1> QED
  BY <1>3, <1>13, <1>14, <1>15

LEMMA HopKeeps ==
  ASSUME NEW w, NEW p, NEW x, NEW t, Formed(w, p, x, t), Expects(p, t), Undecided(p), p.ready,
         NEW r, r = [w EXCEPT !.q.hop = TRUE]
  PROVE  Started(t, r)
<1> DEFINE o == [p EXCEPT !.hop = TRUE]
<1>1. p \in RequestTypes /\ w.q = p /\ w \in WTypes
  BY FormedTypes DEF Formed
<1>2. r = [w EXCEPT !.q = o]
  BY <1>1 DEF WTypes
<1>3. p \in RequestTypes
  BY <1>1
<1>4. o \in RequestTypes
  BY <1>3, Zenon DEF RequestTypes
<1>5. /\ o.life = p.life /\ o.load = p.load /\ o.client = p.client /\ o.completed = p.completed
      /\ o.ready = p.ready /\ o.down = p.down /\ o.state = p.state /\ o.completes = p.completes
      /\ o.hop = TRUE /\ o.limit = p.limit /\ o.via = p.via /\ o.hredir = p.hredir
      /\ o.curh = p.curh /\ o.cont = p.cont /\ o.paused = p.paused /\ o.handler = p.handler
  BY <1>3 DEF RequestTypes
<1> HIDE DEF o
<1>6. Formed(r, o, x, t)
  <2>1. o.load = p.load
    BY <1>5
  <2>2. Formed([w EXCEPT !.q = o], o, x, t)
    BY <1>4, <2>1, RequestForms
  <2> QED
    BY <1>2, <2>2
<1>7. Alive(o)
  BY <1>5 DEF Expects, Alive, WrapperFits
<1>8. LiveFits(o, x, t)
  BY <1>5 DEF LiveFits, FreeFits, UrlFits, Expects, Alive, Undecided, NoUrl
<1> QED
  BY <1>6, <1>7, <1>8, StillFits

LEMMA BeforeRequestKeeps ==
  ASSUME NEW w, NEW p, NEW x, NEW t, Formed(w, p, x, t), Expects(p, t), Undecided(p),
         NEW r \in OnBeforeRequest(w)
  PROVE  Started(t, r)
<1> DEFINE to == "init"
           url == FALSE
<1>1. w.q = p /\ p.life = "live" /\ to \in Continuations /\ url \in BOOLEAN
  BY DEF Formed, Expects, Alive, Continuations
<1>2. CASE p.down
  <2>1. r = SendError(w)
    BY <1>1, <1>2 DEF OnBeforeRequest, CancelRequest
  <2> QED
    BY <2>1, ErrorKeeps DEF Expects
<1>3. CASE ~p.down /\ ~p.ready
  <2>1. r = Await(w, to, url)
    BY <1>1, <1>3 DEF OnBeforeRequest
  <2>2. MayAwait(p, x, to) /\ UrlFits(p, x, t)
    BY <1>3 DEF MayAwait, Undecided, NoUrl, UrlFits
  <2> HIDE DEF to, url
  <2> QED
    BY <1>1, <2>1, <2>2, AwaitFits
<1>4. CASE ~p.down /\ p.ready
  <2>1. r \in Accept(w) \/ r = [w EXCEPT !.q.hop = TRUE]
    BY <1>1, <1>4 DEF OnBeforeRequest
  <2> QED
    BY <1>4, <2>1, AcceptKeeps, HopKeeps
<1> QED
  BY <1>2, <1>3, <1>4

\* A new loader takes the place of the one before.
LEMMA RestartForms ==
  ASSUME NEW w, w \in WTypes, LoadsFit(w), w.q.load < MaxLoads,
         NEW old, old = IF w.q.load = 0 THEN w ELSE Put(w, Delete(Load(w))),
         NEW o \in RequestTypes, o.load = w.q.load + 1
  PROVE  Formed([old EXCEPT !.q = o], o, NewLoad, w.told)
<1> DEFINE n == w.q.load
           y == [old EXCEPT !.q = o]
<1>1. /\ n \in Nat /\ MaxLoads \in Nat /\ w.ls \in [1 .. MaxLoads -> LoadTypes]
      /\ w.told \in Seq(Words) /\ o.load \in 1 .. MaxLoads /\ o.load = n + 1
  <2>1. w.q \in RequestTypes /\ w.ls \in [1 .. MaxLoads -> LoadTypes] /\ w.told \in Seq(Words)
    BY DEF WTypes
  <2>2. n \in Nat /\ MaxLoads \in Nat
    BY <2>1, RequestAssumption DEF RequestTypes
  <2> QED
    BY <2>1, <2>2
<1>2. /\ old \in WTypes /\ old.told = w.told
      /\ \A i \in 1 .. MaxLoads : /\ LoadFits(old.ls[i])
                                  /\ i <= n => old.ls[i].stage \in {"none", "gone"}
                                  /\ i > n => old.ls[i] = NewLoad
  <2>1. CASE n = 0
    <3>1. old = w
      BY <2>1
    <3>2. \A i \in 1 .. MaxLoads : i > n /\ ~(i <= n)
      BY <1>1, <2>1
    <3> QED
      BY <3>1, <3>2 DEF LoadsFit
  <2>2. CASE n # 0
    <3> DEFINE x == Load(w)
               z == Delete(x)
    <3>1. Formed(w, w.q, x, w.told)
      BY <2>2, FormedIs
    <3>2. LoadFits(z) /\ z.stage \in {"none", "gone"}
      <4>1. LoadFits(x)
        BY <3>1, FormedTypes
      <4> QED
        BY <4>1, DeleteKeeps
    <3>3. Formed(old, w.q, z, w.told)
      <4>1. old = Put(w, z)
        BY <2>2
      <4> HIDE DEF x, z
      <4> QED
        BY <3>1, <3>2, <4>1, PutForms
    <3>4. old \in WTypes /\ old.told = w.told /\ old.q = w.q /\ LoadsFit(old) /\ old.ls[n] = z
      BY <3>3 DEF Formed, Load
    <3> HIDE DEF x, z
    <3> SUFFICES ASSUME NEW i \in 1 .. MaxLoads
                 PROVE  /\ LoadFits(old.ls[i])
                        /\ i <= n => old.ls[i].stage \in {"none", "gone"}
                        /\ i > n => old.ls[i] = NewLoad
      BY <3>4
    <3> QED
      BY <1>1, <3>2, <3>4 DEF LoadsFit
  <2> QED
    BY <2>1, <2>2
<1>3. y \in WTypes /\ y.q = o /\ y.told = w.told /\ y.ls = old.ls
  BY <1>2 DEF WTypes
<1> HIDE DEF y
<1>4. Load(y) = NewLoad
  <2>1. o.load \in 1 .. MaxLoads /\ o.load > n
    BY <1>1
  <2>2. old.ls[o.load] = NewLoad
    BY <1>2, <2>1, Zenon
  <2>3. y.ls[y.q.load] = old.ls[o.load]
    BY <1>3, Zenon
  <2> QED
    BY <2>2, <2>3, Zenon DEF Load
<1>5. LoadsFit(y)
  <2> SUFFICES ASSUME NEW i \in 1 .. MaxLoads
               PROVE  /\ LoadFits(old.ls[i])
                      /\ i # o.load => old.ls[i].stage \in {"none", "gone"}
                      /\ i > o.load => old.ls[i] = NewLoad
    BY <1>3 DEF LoadsFit
  <2>1. NewLoad.stage = "none"
    BY DEF NewLoad
  <2>2. i <= n \/ i = o.load \/ i > o.load
    BY <1>1
  <2>3. i > n \/ i <= n
    BY <1>1
  <2> QED
    BY <1>1, <1>2, <2>1, <2>2, <2>3
<1> QED
  BY <1>1, <1>3, <1>4, <1>5 DEF Formed, y

LEMMA RestartKeeps ==
  ASSUME NEW w, w \in WTypes, LoadsFit(w), w.q.load < MaxLoads, NEW p, p = w.q, NEW t, t = w.told,
         Expects(p, t), NoUrl(p), NEW r \in Restart(w)
  PROVE  Started(t, r)
<1> DEFINE old == IF w.q.load = 0 THEN w ELSE Put(w, Delete(Load(w)))
           n == p.load + 1
           o == [p EXCEPT !.load = n, !.via = "none", !.paused = FALSE]
           y == [old EXCEPT !.q = o]
<1>1. p \in RequestTypes /\ p.load \in Nat /\ MaxLoads \in Nat /\ n \in 0 .. MaxLoads
  <2>1. p \in RequestTypes
    BY DEF WTypes
  <2>2. p.load \in Nat /\ MaxLoads \in Nat
    BY <2>1, RequestAssumption DEF RequestTypes
  <2> QED
    BY <2>1, <2>2
<1>2. old.q = p
  BY DEF Put, WTypes
<1>3. r = SendError(y) \/ r \in OnBeforeRequest(y)
  BY <1>2 DEF Restart
<1>4. o \in RequestTypes
  <2>1. p \in RequestTypes /\ n \in 0 .. MaxLoads
    BY <1>1
  <2> HIDE DEF n
  <2> QED
    BY <2>1, ZenonT(60) DEF RequestTypes
<1>5. /\ o.life = p.life /\ o.load = n /\ o.client = p.client /\ o.completed = p.completed
      /\ o.ready = p.ready /\ o.down = p.down /\ o.state = p.state /\ o.completes = p.completes
      /\ o.hop = p.hop /\ o.limit = p.limit /\ o.via = "none" /\ o.hredir = p.hredir
      /\ o.curh = p.curh /\ o.cont = p.cont /\ o.paused = FALSE /\ o.handler = p.handler
  BY <1>1 DEF RequestTypes
<1> HIDE DEF o, old
<1>6. Formed(y, o, NewLoad, t)
  <2>1. o.load = w.q.load + 1
    BY <1>5
  <2> QED
    BY <1>4, <2>1, RestartForms DEF old
<1> HIDE DEF y
<1>7. Expects(o, t) /\ Undecided(o)
  <2>1. p.curh \in Nat
    BY <1>1, RequestAssumption DEF RequestTypes
  <2>2. o.curh <= o.load
    BY <1>1, <1>5, <2>1 DEF Expects, Alive
  <2> QED
    BY <1>5, <2>2 DEF Expects, Alive, WrapperFits, Undecided, NoUrl
<1>8. CASE r = SendError(y)
  BY <1>6, <1>7, <1>8, ErrorKeeps DEF Expects
<1>9. CASE r \in OnBeforeRequest(y)
  BY <1>6, <1>7, <1>9, BeforeRequestKeeps
<1> QED
  BY <1>3, <1>8, <1>9

LEMMA HandleCases ==
  ASSUME NEW w, w.q.state, NEW to, NEW r \in HandleResponse(w, to)
  PROVE  \/ \E url \in BOOLEAN : \/ r = Await(Handling(w, FALSE), to, url)
                                \/ r \in ContinueTo(Handling(w, FALSE), to, url)
         \/ w.q.load < MaxLoads /\ r \in Restart(Handling(w, FALSE))
<1> DEFINE y == Handling(w, FALSE)
           urls == IF w.q.handler = "handler" THEN BOOLEAN ELSE {FALSE}
<1>1. \/ \E url \in urls : r \in MaybeSaveCookies(y, to, url)
      \/ w.q.load < MaxLoads /\ r \in Restart(y)
  BY DEF HandleResponse
<1>2. urls \subseteq BOOLEAN
  OBVIOUS
<1> HIDE DEF urls, y
<1> QED
  BY <1>1, <1>2 DEF MaybeSaveCookies, y

\* A restart forgets what the load before was asked.
LEMMA RestartedKeeps ==
  ASSUME NEW w, NEW p, NEW x, NEW t, Formed(w, p, x, t), Expects(p, t), NoUrl(p),
         p.load < MaxLoads, NEW r \in Restart(w)
  PROVE  Answered(t, r)
<1>1. w \in WTypes /\ LoadsFit(w) /\ w.q = p /\ w.told = t /\ w.q.load < MaxLoads
  BY DEF Formed
<1> QED
  BY <1>1, RestartKeeps, StartedAnswered

LEMMA HandleHeadersKeep ==
  ASSUME NEW w, NEW p, NEW x, NEW t, Formed(w, p, x, t), Expects(p, t), UrlFits(p, x, t), NoUrl(p),
         AsksHeaders(p, x), NEW r \in HandleResponse(w, "headers")
  PROVE  Answered(t, r)
<1> DEFINE y == Handling(w, FALSE)
           to == "headers"
<1>1. PICK o : Formed(y, o, x, t) /\ HeldBack(p, o)
  BY HandlingForms
<1>2. /\ Expects(o, t) /\ UrlFits(o, x, t) /\ o.state = p.state /\ o.via = p.via
      /\ (o.paused <=> p.via # "none") /\ o.hcb = p.hcb /\ o.curh = p.curh /\ o.load = p.load
      /\ o.hredir = p.hredir
  BY <1>1, HeldExpects
<1>3. w.q.state /\ w.q = p /\ to \in Continuations
  BY DEF Formed, Continuations, AsksHeaders
<1>4. MayAwait(o, x, to) /\ AsksHeaders(o, x) /\ NoUrl(o)
  BY <1>2 DEF MayAwait, AsksHeaders, NoUrl
<1>5. \A url : ContinueTo(y, to, url) = ContinueToHandleOverrideHeaders(y, url)
  BY DEF ContinueTo
<1>6. \/ \E url \in BOOLEAN : r = Await(y, to, url) \/ r \in ContinueTo(y, to, url)
      \/ w.q.load < MaxLoads /\ r \in Restart(y)
  <2>1. r \in HandleResponse(w, to)
    OBVIOUS
  <2> HIDE DEF to
  <2> QED
    BY <1>3, <2>1, HandleCases
<1> HIDE DEF y, to
<1>7. ASSUME NEW url \in BOOLEAN, r = Await(y, to, url)
      PROVE  Answered(t, r)
  BY <1>1, <1>2, <1>3, <1>4, <1>7, AwaitFits, StartedAnswered
<1>8. ASSUME NEW url \in BOOLEAN, r \in ContinueTo(y, to, url)
      PROVE  Answered(t, r)
  BY <1>1, <1>2, <1>4, <1>5, <1>8, OverrideKeeps, StartedAnswered
<1>9. CASE w.q.load < MaxLoads /\ r \in Restart(y)
  BY <1>1, <1>2, <1>3, <1>4, <1>9, RestartedKeeps
<1> QED
  BY <1>6, <1>7, <1>8, <1>9

LEMMA HandleResponseKeep ==
  ASSUME NEW w, NEW p, NEW x, NEW t, Formed(w, p, x, t), Expects(p, t), NoUrl(p), p.state,
         Responds(x, p.via), NEW r \in HandleResponse(w, "response")
  PROVE  Answered(t, r)
<1> DEFINE y == Handling(w, FALSE)
           to == "response"
<1>0. UrlFits(p, x, t)
  BY DEF UrlFits, NoUrl
<1>1. PICK o : Formed(y, o, x, t) /\ HeldBack(p, o)
  BY HandlingForms
<1>2. /\ Expects(o, t) /\ UrlFits(o, x, t) /\ o.state = p.state /\ o.via = p.via
      /\ (o.paused <=> p.via # "none") /\ o.load = p.load /\ o.hredir = p.hredir
  BY <1>0, <1>1, HeldExpects
<1>3. w.q.state /\ w.q = p /\ to \in Continuations
  BY DEF Formed, Continuations
<1>4. MayAwait(o, x, to) /\ Responds(x, o.via) /\ NoUrl(o)
  BY <1>2 DEF MayAwait, NoUrl, Responds
<1>5. \A url : ContinueTo(y, to, url) = ContinueToResponseStarted(y, url)
  BY DEF ContinueTo
<1>6. \/ \E url \in BOOLEAN : r = Await(y, to, url) \/ r \in ContinueTo(y, to, url)
      \/ w.q.load < MaxLoads /\ r \in Restart(y)
  <2>1. r \in HandleResponse(w, to)
    OBVIOUS
  <2> HIDE DEF to
  <2> QED
    BY <1>3, <2>1, HandleCases
<1> HIDE DEF y, to
<1>7. ASSUME NEW url \in BOOLEAN, r = Await(y, to, url)
      PROVE  Answered(t, r)
  BY <1>1, <1>2, <1>3, <1>4, <1>7, AwaitFits, StartedAnswered
<1>8. ASSUME NEW url \in BOOLEAN, r \in ContinueTo(y, to, url)
      PROVE  Answered(t, r)
  BY <1>1, <1>2, <1>4, <1>5, <1>8, ResponseKeeps
<1>9. CASE w.q.load < MaxLoads /\ r \in Restart(y)
  BY <1>1, <1>2, <1>3, <1>4, <1>9, RestartedKeeps
<1> QED
  BY <1>6, <1>7, <1>8, <1>9

\* A step a loader's client may take, and one that keeps the request.
Hears(t, u) ==
  \/ u = t
  \/ WaitsIn(t) /\ (u = Append(t, "redirect") \/ u = Append(t, "response"))
  \/ SaidIn(t, "response") /\ u = Append(t, "success")
  \/ ~EndedIn(t) /\ u = Append(t, "failure")
  \/ SaidIn(t, "redirect") /\
       \E answer \in {<<>>, <<"redirect">>, <<"failure">>} : u = t \o <<"follow">> \o answer

Kept(t, r) == Fits(r) /\ Hears(t, r.told)

LEMMA AnsweredKept ==
  ASSUME NEW t, NEW r, WaitsIn(t)
  PROVE  (Answered(t, r) => Kept(t, r)) /\ (Started(t, r) => Kept(t, r))
BY ToldApart DEF Answered, Started, Says, Starts, Kept, Hears

LEMMA ErrorKept ==
  ASSUME NEW w, NEW p, NEW x, NEW t, Formed(w, p, x, t), Alive(p), ~EndedIn(t),
         NEW r, r = SendError(w)
  PROVE  Kept(t, r)
<1>1. Started(t, r) /\ r.told = Append(t, "failure")
  BY ErrorKeeps
<1> QED
  BY <1>1 DEF Started, Kept, Hears

LEMMA CompleteKept ==
  ASSUME NEW w, NEW p, NEW x, NEW t, Formed(w, p, x, t), Alive(p),
         NEW status \in {"success", "failure"}, NEW wait \in BOOLEAN,
         NEW r, r = CallOnComplete(w, status, wait)
  PROVE  Fits(r) /\ r.told = Append(t, status)
<1> DEFINE u == Append(t, status)
           z == Tell(w, status)
           o == [p EXCEPT !.completed = TRUE]
           y == [z EXCEPT !.q = o]
           b == [o EXCEPT !.life = "waiting", !.client = FALSE, !.via = "none", !.paused = FALSE]
<1>1. p \in RequestTypes /\ w.q = p /\ p.client = TRUE /\ t \in Seq(Words) /\ status \in Words
  BY FormedTypes DEF Formed, Alive, RequestTypes, Words
<1>2. Formed(z, p, x, u) /\ EndedIn(u)
  <2>1. Formed(z, p, x, u)
    BY <1>1, TellForms
  <2>2. SaidIn(u, status)
    BY <1>1, LastTold
  <2> QED
    BY <2>1, <2>2 DEF EndedIn
<1>3. y = [IF w.q.client THEN Tell(w, status) ELSE w EXCEPT !.q.completed = TRUE]
  <2> HIDE DEF z
  <2>1. z.q = p /\ z \in WTypes
    BY <1>2 DEF Formed
  <2>2. y = [z EXCEPT !.q.completed = TRUE]
    BY <2>1 DEF WTypes
  <2> QED
    BY <1>1, <2>2 DEF z
<1>4. p \in RequestTypes
  BY <1>1
<1>5. o \in RequestTypes
  BY <1>4, Zenon DEF RequestTypes
<1>6. /\ o.load = p.load /\ o.curh = p.curh /\ o.completed = TRUE
      /\ o.life = p.life /\ o.handler = p.handler /\ o.state = p.state /\ o.cont = p.cont
      /\ o.ready = p.ready /\ o.down = p.down /\ o.hop = p.hop /\ o.completes = p.completes
  BY <1>4 DEF RequestTypes
<1> HIDE DEF o, z, u
<1>7. WrapperFits(o) /\ o.curh <= o.load
  BY <1>6 DEF Alive, WrapperFits
<1>8. Formed(y, o, x, u)
  <2>1. o.load = p.load
    BY <1>6
  <2> QED
    BY <1>2, <1>5, <2>1, RequestForms
<1> HIDE DEF y
<1>9. r = OnDestroy(y, status) \/ r = [y EXCEPT !.q = b]
  <2>1. y.q = o
    BY <1>8 DEF Formed
  <2> QED
    BY <1>3, <2>1 DEF CallOnComplete
<1>10. CASE r = OnDestroy(y, status)
  <2>1. Gone(r, o, u, status)
    BY <1>2, <1>7, <1>8, <1>10, DestroyKeeps
  <2> QED
    BY <1>6, <2>1 DEF Gone, u
<1>11. CASE r = [y EXCEPT !.q = b]
  <2>1. b \in RequestTypes
    BY <1>5, Zenon DEF RequestTypes, Lives
  <2>2. /\ b.load = o.load /\ b.curh = o.curh /\ b.life = "waiting" /\ b.client = FALSE
        /\ b.via = "none" /\ b.handler = o.handler /\ b.state = o.state /\ b.cont = o.cont
        /\ b.ready = o.ready /\ b.down = o.down /\ b.hop = o.hop /\ b.completes = o.completes
    BY <1>5 DEF RequestTypes
  <2> HIDE DEF b
  <2>3. b.load = o.load
    BY <2>2
  <2>4. Formed(r, b, x, u)
    BY <1>8, <1>11, <2>1, <2>3, RequestForms
  <2>5. WrapperFits(b)
    BY <1>6, <2>2 DEF Alive, WrapperFits
  <2>6. Fits(r)
    BY <1>2, <1>7, <2>2, <2>4, <2>5, OverForms
  <2> QED
    BY <2>4, <2>6 DEF Formed, u
<1> QED
  BY <1>9, <1>10, <1>11

\* Messages of the loader; x is the load without the message.
LEMMA ReceiveResponseKeeps ==
  ASSUME NEW w, NEW p, NEW x, NEW t, Formed(w, p, x, t), Expects(p, t), NoUrl(p), p.state,
         Responds(x, p.via), NEW r \in OnReceiveResponse(w)
  PROVE  Answered(t, r)
<1> DEFINE o == [p EXCEPT !.curh = 0]
           y == [w EXCEPT !.q = o]
           url == FALSE
<1>1. p \in RequestTypes /\ w.q = p /\ w \in WTypes /\ url \in BOOLEAN /\ p.load \in Nat
  BY FormedTypes DEF Formed
<1>2. [w EXCEPT !.q.curh = 0] = y
  BY <1>1 DEF WTypes
<1>3. r \in ContinueToResponseStarted(y, url) \/ r \in HandleResponse(w, "response")
  <2> HIDE DEF y
  <2> QED
    BY <1>2 DEF OnReceiveResponse
<1>4. p \in RequestTypes /\ 0 \in 0 .. MaxLoads
  BY <1>1, RequestAssumption
<1>5. o \in RequestTypes
  BY <1>4, Zenon DEF RequestTypes
<1>6. /\ SameCore(p, o) /\ o.limit = p.limit /\ o.via = p.via /\ o.hredir = p.hredir
      /\ o.curh = 0 /\ o.cont = p.cont /\ o.load = p.load
  BY <1>4 DEF RequestTypes, SameCore
<1> HIDE DEF o, url
<1>7. Formed(y, o, x, t)
  BY <1>5, <1>6, RequestForms
<1> HIDE DEF y
<1>8. Expects(o, t) /\ NoUrl(o) /\ o.state /\ Responds(x, o.via)
  <2>1. Alive(p) /\ o.curh <= o.load /\ o.cont.to # "init"
    BY <1>1, <1>6 DEF Expects, Alive
  <2>2. Alive(o)
    BY <1>6, <2>1, SameAlive
  <2> QED
    BY <1>6, <2>2 DEF Expects, NoUrl, SameCore
<1>9. CASE r \in ContinueToResponseStarted(y, url)
  BY <1>1, <1>7, <1>8, <1>9, ResponseKeeps
<1>10. CASE r \in HandleResponse(w, "response")
  BY <1>10, HandleResponseKeep
<1> QED
  BY <1>3, <1>9, <1>10

LEMMA ReceiveRedirectKeeps ==
  ASSUME NEW w, NEW p, NEW x, NEW t, Formed(w, p, x, t), Expects(p, t), UrlFits(p, x, t), p.state,
         p.via # "none", IsOver(x), NEW ok \in BOOLEAN, NEW r \in OnReceiveRedirect(w, ok)
  PROVE  Started(t, r)
<1> DEFINE c == IF UsesHeaderClient(w) THEN 0 ELSE w.q.curh
           n == w.q.limit - 1
           o == [w.q EXCEPT !.curh = c, !.limit = n]
           y == [w EXCEPT !.q = o]
<1>1. /\ p \in RequestTypes /\ w.q = p /\ p.limit \in 1 .. RedirectLimit /\ RedirectLimit \in Nat
      /\ p.curh \in 0 .. MaxLoads /\ p.load \in Nat /\ MaxLoads \in Nat
  <2>1. p \in RequestTypes /\ w.q = p /\ p.limit > 0 /\ p.load \in Nat /\ MaxLoads \in Nat
    BY FormedTypes DEF Formed, Expects
  <2>2. p.limit \in 0 .. RedirectLimit /\ p.curh \in 0 .. MaxLoads
    BY <2>1 DEF RequestTypes
  <2> QED
    BY <2>1, <2>2, RequestAssumption
<1>2. \/ r = SendError(y)
      \/ w.q.hredir /\ ~UsesHeaderClient(w)
      \/ r \in HandleRedirect(y, "redirect")
      \/ r \in ContinueToBeforeRedirect(y)
  BY DEF OnReceiveRedirect
<1>3. c \in 0 .. MaxLoads /\ c <= p.load /\ n \in 0 .. RedirectLimit
  BY <1>1 DEF Expects, Alive
<1> HIDE DEF c, n
<1>4. p \in RequestTypes
  BY <1>1
<1>5. o \in RequestTypes
  BY <1>1, <1>3, Zenon DEF RequestTypes
<1>6. /\ SameCore(p, o) /\ o.limit = n /\ o.via = p.via /\ o.hredir = p.hredir
      /\ o.curh = c /\ o.cont = p.cont /\ o.load = p.load
  BY <1>1 DEF RequestTypes, SameCore
<1> HIDE DEF o
<1>7. Formed(y, o, x, t)
  BY <1>5, <1>6, RequestForms
<1> HIDE DEF y
<1>8. Alive(o)
  <2>1. Alive(p) /\ o.curh <= o.load /\ o.cont.to # "init"
    BY <1>1, <1>3, <1>6 DEF Expects
  <2> QED
    BY <1>6, <2>1, SameAlive
<1>9. n = 0 => r = SendError(y)
  BY <1>6, <1>7 DEF OnReceiveRedirect, y, o, n, c, Formed
<1>10. CASE r = SendError(y)
  BY <1>7, <1>8, <1>10, ErrorKeeps
<1>11. CASE n # 0
  <2>1. Expects(o, t) /\ UrlFits(o, x, t) /\ o.state /\ IsOver(x)
    BY <1>3, <1>6, <1>8, <1>11 DEF Expects, UrlFits, SameCore
  <2>2. ~(w.q.hredir /\ ~UsesHeaderClient(w))
    BY <1>1 DEF UsesHeaderClient, UrlFits
  <2>3. CASE r \in HandleRedirect(y, "redirect")
    BY <1>7, <2>1, <2>3, RedirectKeeps
  <2>4. CASE r \in ContinueToBeforeRedirect(y)
    BY <1>7, <2>1, <2>4, BeforeRedirectKeeps
  <2> QED
    BY <1>2, <1>10, <2>2, <2>3, <2>4
<1> QED
  BY <1>9, <1>10, <1>11

\* A live request that fits is one to go on with.
LEMMA LiveIs ==
  ASSUME NEW w, Fits(w), w.q.life = "live"
  PROVE  /\ Formed(w, w.q, Load(w), w.told) /\ Alive(w.q) /\ LiveFits(w.q, Load(w), w.told)
         /\ w.q.limit > 0
<1>1. w \in WTypes /\ LoadsFit(w) /\ LifeFits(w) /\ WrapperFits(w.q)
  BY DEF Fits
<1>2. w.q.load # 0 /\ LiveFits(w.q, Load(w), w.told) /\ w.q.curh <= w.q.load
  BY <1>1 DEF LifeFits
<1>3. Formed(w, w.q, Load(w), w.told)
  BY <1>1, <1>2, FormedIs
<1> QED
  BY <1>1, <1>2, <1>3 DEF Alive, LiveFits

\* What the first message says about the load without it.
LEMMA UnheardHead ==
  ASSUME NEW x, LoadFits(x), NEW via, Unheard(x, via), x.out # <<>>,
         NEW z, z.stage = x.stage, z.out = Tail(x.out), NEW m, m = Head(x.out)
  PROVE  \/ m.op = "response" /\ Responds(z, via)
         \/ m.op = "redirect" /\ IsOver(z)
         \/ m.op = "complete" /\ m.ok = FALSE
<1>1. \A a : Head(<<a>>) = a /\ Tail(<<a>>) = <<>>
  OBVIOUS
<1>2. \A a, b : Head(<<a, b>>) = a /\ Tail(<<a, b>>) = <<b>>
  OBVIOUS
<1>3. \A op, ok : Message(op, ok).op = op /\ Message(op, ok).ok = ok
  BY DEF Message
<1>4. CASE x.out = <<Message("response", TRUE)>>
  <2> DEFINE a == Message("response", TRUE)
  <2>1. a.op = "response"
    BY <1>3
  <2> HIDE DEF a
  <2>2. m = a /\ z.out = <<>>
    BY <1>1, <1>4 DEF a
  <2>3. \/ x.stage = "responding" /\ via = "stream"
        \/ x.stage = "netBody" /\ via = "network"
    <3>1. \A c : <<c>> # <<>>
      OBVIOUS
    <3>2. ASSUME x.out = <<Message("complete", FALSE)>>
          PROVE  FALSE
      <4> DEFINE b == Message("complete", FALSE)
      <4>1. b.op = "complete"
        BY <1>3
      <4> HIDE DEF b
      <4>2. m = b
        BY <1>1, <3>2 DEF b
      <4> QED
        BY <2>1, <2>2, <4>1, <4>2
    <3>3. ASSUME NEW ok, x.out = <<Message("redirect", ok)>>
          PROVE  FALSE
      <4> DEFINE b == Message("redirect", ok)
      <4>1. b.op = "redirect"
        BY <1>3
      <4> HIDE DEF b
      <4>2. m = b
        BY <1>1, <3>3 DEF b
      <4> QED
        BY <2>1, <2>2, <4>1, <4>2
    <3>4. ASSUME NEW ok, x.out = <<Message("response", TRUE), Message("complete", ok)>>
          PROVE  FALSE
      <4> DEFINE b == Message("response", TRUE)
                 c == Message("complete", ok)
      <4> HIDE DEF b, c
      <4>1. z.out = <<c>>
        BY <1>2, <3>4 DEF b, c
      <4> QED
        BY <2>2, <3>1, <4>1
    <3>5. x.out # <<>>
      OBVIOUS
    <3> QED
      BY <3>2, <3>3, <3>4, <3>5 DEF Unheard
  <2> QED
    BY <2>1, <2>2, <2>3 DEF Responds
<1>5. CASE x.stage = "done" /\ x.out = <<Message("complete", FALSE)>>
  <2> DEFINE a == Message("complete", FALSE)
  <2>1. a.op = "complete" /\ a.ok = FALSE
    BY <1>3
  <2> HIDE DEF a
  <2>2. m = a
    BY <1>1, <1>5 DEF a
  <2> QED
    BY <2>1, <2>2
<1>6. ASSUME NEW ok \in BOOLEAN, x.stage = "done", x.out = <<Message("redirect", ok)>>
      PROVE  m.op = "redirect" /\ IsOver(z)
  <2> DEFINE a == Message("redirect", ok)
  <2>1. a.op = "redirect"
    BY <1>3
  <2> HIDE DEF a
  <2>2. m = a /\ z.out = <<>>
    BY <1>1, <1>6 DEF a
  <2> QED
    BY <1>6, <2>1, <2>2 DEF IsOver
<1>7. ASSUME NEW ok \in BOOLEAN, x.stage = "done", via = "network",
             x.out = <<Message("response", TRUE), Message("complete", ok)>>
      PROVE  m.op = "response" /\ Responds(z, via)
  <2> DEFINE a == Message("response", TRUE)
             b == Message("complete", ok)
  <2>1. a.op = "response"
    BY <1>3
  <2> HIDE DEF a, b
  <2>2. m = a /\ z.out = <<b>>
    BY <1>2, <1>7 DEF a, b
  <2> QED
    BY <1>7, <2>1, <2>2 DEF Responds, b
<1> QED
  BY <1>4, <1>5, <1>6, <1>7 DEF Unheard

LEMMA BodyHead ==
  ASSUME NEW x, LoadFits(x), HasBody(x), x.out # <<>>,
         NEW z, z.stage = x.stage, z.out = Tail(x.out), NEW m, m = Head(x.out)
  PROVE  HasBody(z) /\ m.op \in {"size", "complete"}
<1>1. x.out \in Seq(Messages)
  BY TypedFields DEF LoadFits
<1>2. /\ Len(x.out) \in Nat \ {0} /\ Len(z.out) = Len(x.out) - 1 /\ m = x.out[1]
      /\ \A k \in 1 .. Len(z.out) : k + 1 \in 1 .. Len(x.out) /\ z.out[k] = x.out[k + 1]
  BY <1>1, HeadIs
<1>3. 1 \in 1 .. Len(x.out)
  BY <1>2
<1> QED
  BY <1>2, <1>3 DEF HasBody

LEMMA OnCompleteKept ==
  ASSUME NEW w, NEW p, NEW x, NEW t, Formed(w, p, x, t), Alive(p), NEW ok \in BOOLEAN,
         ok = FALSE \/ SaidIn(t, "response"), ~EndedIn(t), NEW r \in OnComplete(w, ok)
  PROVE  Kept(t, r)
<1> DEFINE status == IF ok THEN "success" ELSE "failure"
           wait == w.q.via = "network" /\ ok
<1>1. r = CallOnComplete(w, status, wait)
  BY DEF OnComplete
<1>2. status \in {"success", "failure"} /\ wait \in BOOLEAN
  OBVIOUS
<1>3. \/ status = "failure"
      \/ status = "success" /\ SaidIn(t, "response")
  OBVIOUS
<1> HIDE DEF status, wait
<1>4. Fits(r) /\ r.told = Append(t, status)
  BY <1>1, <1>2, CompleteKept
<1> QED
  BY <1>3, <1>4 DEF Kept, Hears

\* The load of a live request without its first message.
LEMMA MessageFits ==
  ASSUME NEW w, NEW p, NEW x, NEW t, p = w.q, x = Load(w), t = w.told,
         Fits(w), p.via # "none", ~p.paused, x.out # <<>>,
         NEW z, z.stage = x.stage, z.out = Tail(x.out), NEW m, m = Head(x.out)
  PROVE  /\ p.state /\ p.cont.to = "none" /\ ~p.hop
         /\ \/ /\ Expects(p, t)
               /\ \/ m.op = "response" /\ Responds(z, p.via) /\ NoUrl(p)
                  \/ m.op = "redirect" /\ IsOver(z) /\ UrlFits(p, z, t)
                  \/ m.op = "complete" /\ m.ok = FALSE
            \/ /\ SaidIn(t, "response") /\ HasBody(z) /\ m.op \in {"size", "complete"}
               /\ NoUrl(p)
<1>1. p.life = "live"
  BY DEF Fits, LifeFits
<1>2. Formed(w, p, x, t) /\ Alive(p) /\ LiveFits(p, x, t) /\ p.limit > 0
  BY <1>1, LiveIs
<1>3. LoadFits(x)
  BY <1>2, FormedTypes
<1>4. BoundFits(p, x, t) /\ UrlFits(p, x, t)
  BY <1>2 DEF LiveFits
<1>5. /\ p.state /\ ~p.hop /\ p.cont.to = "none"
      /\ (WaitsIn(t) /\ Unheard(x, p.via)) \/ (SaidIn(t, "response") /\ HasBody(x))
  BY <1>4 DEF BoundFits, IsOver
<1>6. CASE WaitsIn(t) /\ Unheard(x, p.via)
  <2>1. Expects(p, t)
    BY <1>2, <1>5, <1>6 DEF Expects
  <2>2. \/ m.op = "response" /\ Responds(z, p.via)
        \/ m.op = "redirect" /\ IsOver(z)
        \/ m.op = "complete" /\ m.ok = FALSE
    BY <1>3, <1>6, UnheardHead
  <2>3. m.op = "response" => NoUrl(p)
    <3> SUFFICES ASSUME NEW ok \in BOOLEAN, x.out = <<Message("redirect", ok)>>
                 PROVE  m.op # "response"
      BY <1>4 DEF UrlFits, NoUrl
    <3> DEFINE a == Message("redirect", ok)
    <3>1. a.op = "redirect"
      BY DEF Message
    <3>2. \A c : Head(<<c>>) = c
      OBVIOUS
    <3> HIDE DEF a
    <3>3. m = a
      BY <3>2 DEF a
    <3> QED
      BY <3>1, <3>3
  <2>4. IsOver(z) => UrlFits(p, z, t)
    BY <1>4 DEF UrlFits, IsOver
  <2> QED
    BY <1>5, <2>1, <2>2, <2>3, <2>4
<1>7. CASE SaidIn(t, "response") /\ HasBody(x)
  <2>1. HasBody(z) /\ m.op \in {"size", "complete"}
    BY <1>3, <1>7, BodyHead
  <2>2. NoUrl(p)
    BY <1>4, <1>7, ToldApart DEF UrlFits, NoUrl
  <2> QED
    BY <1>5, <1>7, <2>1, <2>2
<1> QED
  BY <1>5, <1>6, <1>7

\* Receive: a message of the loader is read.
LEMMA MessageKept ==
  ASSUME NEW w, Fits(w), w.q.via # "none", ~w.q.paused, Load(w).out # <<>>,
         NEW r \in OnMessage(w)
  PROVE  Kept(w.told, r)
<1> DEFINE p == w.q
           x == Load(w)
           t == w.told
           m == Head(x.out)
           z == [x EXCEPT !.out = Tail(@)]
           y == Put(w, z)
<1>1. p.life = "live"
  BY DEF Fits, LifeFits
<1>2. Formed(w, p, x, t) /\ Alive(p) /\ LiveFits(p, x, t) /\ p.limit > 0
  BY <1>1, LiveIs
<1>3. LoadFits(x)
  BY <1>2, FormedTypes
<1>4. LoadFits(z) /\ z.stage = x.stage /\ z.out = Tail(x.out) /\ m \in Messages
  BY <1>3, OutTaken DEF Restaged
<1>5. /\ m.op = "response" => r \in OnReceiveResponse(y)
      /\ m.op = "redirect" => r \in OnReceiveRedirect(y, m.ok)
      /\ m.op = "size"     => r = y
      /\ m.op = "complete" => r \in OnComplete(y, m.ok)
  <2> HIDE DEF y
  <2>1. m.op \in {"response", "redirect", "size", "complete"}
    BY <1>4 DEF Messages
  <2> QED
    BY <2>1 DEF OnMessage, y
<1>6. m.ok \in BOOLEAN /\ p.via # "none" /\ ~p.paused
  BY <1>4 DEF Messages
<1> HIDE DEF z
<1>7. Formed(y, p, z, t)
  BY <1>2, <1>4, PutForms
<1>8. /\ p.state /\ p.cont.to = "none" /\ ~p.hop
      /\ \/ /\ Expects(p, t)
            /\ \/ m.op = "response" /\ Responds(z, p.via) /\ NoUrl(p)
               \/ m.op = "redirect" /\ IsOver(z) /\ UrlFits(p, z, t)
               \/ m.op = "complete" /\ m.ok = FALSE
         \/ /\ SaidIn(t, "response") /\ HasBody(z) /\ m.op \in {"size", "complete"}
            /\ NoUrl(p)
  BY <1>4, MessageFits
<1> HIDE DEF y, p, t, m, x
<1>9. CASE Expects(p, t) /\ m.op = "response" /\ Responds(z, p.via) /\ NoUrl(p)
  <2>1. Answered(t, r)
    BY <1>5, <1>7, <1>8, <1>9, ReceiveResponseKeeps
  <2> QED
    BY <1>9, <2>1, AnsweredKept DEF Expects, t
<1>10. CASE Expects(p, t) /\ m.op = "redirect" /\ IsOver(z) /\ UrlFits(p, z, t)
  <2>1. Started(t, r)
    BY <1>5, <1>6, <1>7, <1>8, <1>10, ReceiveRedirectKeeps
  <2> QED
    BY <1>10, <2>1, AnsweredKept DEF Expects, t
<1>11. CASE Expects(p, t) /\ m.op = "complete" /\ m.ok = FALSE
  <2>1. r \in OnComplete(y, m.ok) /\ ~EndedIn(t)
    BY <1>5, <1>11, ToldApart DEF Expects
  <2> QED
    BY <1>2, <1>6, <1>7, <1>11, <2>1, OnCompleteKept DEF t
<1>12. CASE SaidIn(t, "response") /\ m.op = "complete"
  <2>1. r \in OnComplete(y, m.ok) /\ ~EndedIn(t)
    BY <1>5, <1>12, ToldApart
  <2> QED
    BY <1>2, <1>6, <1>7, <1>12, <2>1, OnCompleteKept DEF t
<1>13. CASE SaidIn(t, "response") /\ m.op = "size" /\ HasBody(z) /\ NoUrl(p)
  <2>1. LiveFits(p, z, t)
    BY <1>2, <1>6, <1>8, <1>13 DEF LiveFits, BoundFits, UrlFits, NoUrl, Alive
  <2>2. Fits(r) /\ r.told = t
    BY <1>2, <1>5, <1>7, <1>13, <2>1, StillFits
  <2> QED
    BY <2>2 DEF Kept, Hears, t
<1> QED
  BY <1>8, <1>9, <1>10, <1>11, <1>12, <1>13

LEMMA LiveTold ==
  ASSUME NEW p, NEW x, NEW t, LiveFits(p, x, t)
  PROVE  ~EndedIn(t)
<1>1. WaitsIn(t) \/ SaidIn(t, "redirect") \/ SaidIn(t, "response")
  BY DEF LiveFits, FreeFits, BoundFits
<1> QED
  BY <1>1, ToldApart

\* ReceiveHeaders: the loader asks the header client about a response.
LEMMA HeadersReceivedKept ==
  ASSUME NEW w, Fits(w), w.q.via # "none", Load(w).stage = "answering", w.q.curh # w.q.load,
         NEW r \in OnHeadersReceived(w)
  PROVE  Kept(w.told, r)
<1> DEFINE p == w.q
           x == Load(w)
           t == w.told
           n == w.q.load
           o == [w.q EXCEPT !.curh = n, !.hcb = TRUE]
           y == [w EXCEPT !.q = o]
<1>1. p.life = "live"
  BY DEF Fits, LifeFits
<1>2. Formed(w, p, x, t) /\ Alive(p) /\ LiveFits(p, x, t) /\ p.limit > 0
  BY <1>1, LiveIs
<1>3. p \in RequestTypes /\ p.load \in Nat
  BY <1>2, FormedTypes
<1>4. BoundFits(p, x, t) /\ UrlFits(p, x, t)
  BY <1>2 DEF LiveFits
<1>5. /\ p.state /\ ~p.hop /\ p.cont.to = "none" /\ WaitsIn(t) /\ x.stage = "answering"
      /\ x.out = <<>> /\ (p.via = "stream" \/ HeaderClient)
  BY <1>4 DEF BoundFits, Unheard, IsOver, Responds, HasBody
<1>6. NoUrl(p) /\ p.via \in {"stream", "network"}
  BY <1>3, <1>4, <1>5 DEF UrlFits, NoUrl, RequestTypes
<1>7. r \in HandleRedirect(y, "headers") \/ r \in HandleResponse(y, "headers")
  BY DEF OnHeadersReceived
<1>8. n \in 0 .. MaxLoads
  BY DEF Fits, WTypes, RequestTypes
<1>8a. o \in RequestTypes
  <2>1. p \in RequestTypes
    BY <1>3
  <2> HIDE DEF n
  <2> QED
    BY <2>1, <1>8, Zenon DEF RequestTypes
<1>9. /\ SameCore(p, o) /\ o.limit = p.limit /\ o.via = p.via /\ o.hredir = p.hredir
      /\ o.curh = p.load /\ o.cont = p.cont /\ o.load = p.load /\ o.hcb = TRUE
  BY <1>3 DEF RequestTypes, SameCore
<1> HIDE DEF o, n
<1>10. Formed(y, o, x, t)
  <2>1. o.load = p.load
    BY <1>9
  <2> QED
    BY <1>2, <1>8a, <2>1, RequestForms
<1> HIDE DEF y, p, x, t
<1>11. Expects(o, t)
  <2>1. Alive(p) /\ o.curh <= o.load /\ o.cont.to # "init"
    BY <1>2, <1>3, <1>5, <1>9 DEF Expects
  <2>2. Alive(o)
    BY <1>9, <2>1, SameAlive
  <2> QED
    BY <1>2, <1>5, <1>9, <2>2 DEF Expects, SameCore
<1>12. UrlFits(o, x, t) /\ NoUrl(o) /\ AsksHeaders(o, x)
  BY <1>5, <1>6, <1>9 DEF UrlFits, NoUrl, AsksHeaders, SameCore
<1>13. CASE r \in HandleRedirect(y, "headers")
  <2>1. Started(t, r)
    BY <1>10, <1>11, <1>12, <1>13, RedirectHeadersKeep
  <2> QED
    BY <1>5, <2>1, AnsweredKept DEF t
<1>14. CASE r \in HandleResponse(y, "headers")
  <2>1. Answered(t, r)
    BY <1>10, <1>11, <1>12, <1>14, HandleHeadersKeep
  <2> QED
    BY <1>5, <2>1, AnsweredKept DEF t
<1> QED
  BY <1>7, <1>13, <1>14

\* The continuation is taken from the request.
LEMMA NobodyForms ==
  ASSUME NEW w, NEW p, NEW x, NEW t, Formed(w, p, x, t), NEW r, r = [w EXCEPT !.q.cont = Nobody]
  PROVE  \E o : AwaitIs(p, o, "none") /\ Formed(r, o, x, t)
<1> DEFINE o == [p EXCEPT !.cont = Nobody]
           Conts == [to : Continuations, url : BOOLEAN]
<1>1. p \in RequestTypes /\ w.q = p /\ w \in WTypes
  BY FormedTypes DEF Formed
<1>2. r = [w EXCEPT !.q = o]
  BY <1>1 DEF WTypes
<1>3. o \in RequestTypes
  <2>1. p \in RequestTypes /\ Nobody \in Conts
    BY <1>1, NobodyIs
  <2> QED
    BY <2>1 DEF RequestTypes
<1>4. /\ SameCore(p, o) /\ o.limit = p.limit /\ o.via = p.via /\ o.hredir = p.hredir
      /\ o.curh = p.curh /\ o.hcb = p.hcb /\ o.only = p.only /\ o.paused = p.paused
      /\ o.load = p.load /\ o.cont = Nobody
  BY <1>1 DEF RequestTypes, SameCore
<1>5. AwaitIs(p, o, "none")
  BY <1>3, <1>4, NobodyIs DEF AwaitIs
<1> HIDE DEF o
<1>6. Formed(r, o, x, t)
  <2>1. o.load = p.load
    BY <1>4
  <2>2. Formed([w EXCEPT !.q = o], o, x, t)
    BY <1>3, <2>1, RequestForms
  <2> QED
    BY <1>2, <2>2
<1> QED
  BY <1>5, <1>6

\* A request that is over for its client and stays so.
LEMMA OverKept ==
  ASSUME NEW w, NEW p, NEW x, NEW t, Formed(w, p, x, t), p.life \in {"waiting", "gone"},
         p.curh <= p.load, p.via = "none", ~p.client, EndedIn(t),
         p.life = "gone" => ~p.state /\ p.cont.to = "none", WrapperFits(p)
  PROVE  Kept(t, w)
<1>1. Fits(w)
  BY OverForms
<1> QED
  BY <1>1 DEF Kept, Hears, Formed

\* A request that is over for its client.
LEMMA OverIs ==
  ASSUME NEW w, Fits(w), w.q.life \in {"waiting", "gone"}
  PROVE  /\ Formed(w, w.q, Load(w), w.told) /\ w.q.curh <= w.q.load /\ w.q.via = "none"
         /\ ~w.q.client /\ EndedIn(w.told) /\ WrapperFits(w.q)
         /\ w.q.life = "gone" => ~w.q.state /\ w.q.cont.to = "none"
<1>1. w \in WTypes /\ LoadsFit(w) /\ LifeFits(w) /\ WrapperFits(w.q)
  BY DEF Fits
<1>2. w.q.load # 0
  BY <1>1 DEF LifeFits
<1> QED
  BY <1>1, <1>2, FormedIs DEF LifeFits

LEMMA TooLateKept ==
  ASSUME NEW w, NEW p, NEW x, NEW t, Formed(w, p, x, t), p.life = "waiting",
         p.curh <= p.load, p.via = "none", ~p.client, EndedIn(t), WrapperFits(p),
         NEW r \in AnswerTooLate(w)
  PROVE  Kept(t, r)
<1> DEFINE z == [x EXCEPT !.life = "detached"]
           y == Put(w, z)
<1>1. LoadFits(x) /\ Load(w) = x
  BY FormedTypes DEF Formed
<1>2. LoadFits(z)
  BY <1>1, DetachKeeps
<1>3. r = w \/ r = y
  BY <1>1 DEF AnswerTooLate
<1> HIDE DEF z
<1>4. Formed(y, p, z, t)
  BY <1>2, PutForms
<1> HIDE DEF y
<1>5. CASE r = w
  BY <1>5, OverKept
<1>6. CASE r = y
  BY <1>4, <1>6, OverKept
<1> QED
  BY <1>3, <1>5, <1>6

\* CookiesDone and ResourceDecided, for a live request.
LEMMA ContinuedLive ==
  ASSUME NEW w, NEW p, NEW x, NEW t, Formed(w, p, x, t), Expects(p, t), UrlFits(p, x, t),
         NEW to \in {"cookies", "resource", "headers", "response", "redirect"},
         MayAwait(p, x, to), NEW url \in BOOLEAN,
         NEW r,
         \/ to = "cookies" /\ r \in ShouldInterceptRequest(w)
         \/ to = "resource" /\ r \in ContinueShouldInterceptRequest(w)
         \/ to \in {"headers", "response", "redirect"} /\ r \in ContinueTo(w, to, url)
  PROVE  Kept(t, r)
<1>0. WaitsIn(t)
  BY DEF Expects
<1>1. CASE to = "cookies" \/ to = "resource"
  <2>1. p.state /\ Undecided(p)
    BY <1>1 DEF MayAwait, Undecided, UrlFits, NoUrl
  <2>2. r \in ShouldInterceptRequest(w) \/ r \in ContinueShouldInterceptRequest(w)
    BY <1>1
  <2>3. Started(t, r)
    BY <2>1, <2>2, ShouldInterceptKeeps, ResourceKeeps
  <2> QED
    BY <1>0, <2>3, AnsweredKept
<1>2. CASE to = "headers"
  <2>1. r \in ContinueToHandleOverrideHeaders(w, url)
    BY <1>2 DEF ContinueTo
  <2>2. p \in RequestTypes
    BY FormedTypes
  <2>3. AsksHeaders(p, x)
    BY <1>2, <2>2 DEF MayAwait, AsksHeaders, RequestTypes
  <2>4. Started(t, r)
    BY <2>1, <2>3, OverrideKeeps
  <2> QED
    BY <1>0, <2>4, AnsweredKept
<1>3. CASE to = "response"
  <2>1. r \in ContinueToResponseStarted(w, url)
    BY <1>3 DEF ContinueTo
  <2>2. p.state /\ Responds(x, p.via)
    BY <1>3 DEF MayAwait
  <2>3. NoUrl(p)
    <3>1. CASE x.stage # "done"
      BY <3>1 DEF UrlFits, NoUrl
    <3>2. CASE x.stage = "done"
      BY <2>2, <3>2 DEF Responds, UrlFits, NoUrl
    <3> QED
      BY <3>1, <3>2
  <2>4. Answered(t, r)
    BY <2>1, <2>2, <2>3, ResponseKeeps
  <2> QED
    BY <1>0, <2>4, AnsweredKept
<1>4. CASE to = "redirect"
  <2>1. r \in ContinueToBeforeRedirect(w)
    BY <1>4 DEF ContinueTo
  <2>2. p.via = "none" \/ (p.state /\ IsOver(x))
    BY <1>4 DEF MayAwait
  <2>3. Started(t, r)
    BY <2>1, <2>2, BeforeRedirectKeeps
  <2> QED
    BY <1>0, <2>3, AnsweredKept
<1> QED
  BY <1>1, <1>2, <1>3, <1>4

LEMMA ContinuedKept ==
  ASSUME NEW w, Fits(w),
         w.q.cont.to \in {"cookies", "resource", "headers", "response", "redirect"},
         NEW r \in Continued(w)
  PROVE  Kept(w.told, r)
<1> DEFINE p == w.q
           x == Load(w)
           t == w.told
           c == p.cont
           y == [w EXCEPT !.q.cont = Nobody]
<1>1. p \in RequestTypes /\ c.to # "none" /\ c.url \in BOOLEAN
  <2>1. p \in RequestTypes
    BY DEF Fits, WTypes
  <2> QED
    BY <2>1 DEF RequestTypes
<1>2. p.life \in {"live", "waiting"}
  <2>1. p.life \in Lives
    BY <1>1 DEF RequestTypes
  <2>2. p.life = "none" => c.to = "none"
    BY NobodyIs DEF Fits, LifeFits, NewRequest
  <2>3. p.life = "gone" => c.to = "none"
    BY DEF Fits, LifeFits
  <2> QED
    BY <1>1, <2>1, <2>2, <2>3 DEF Lives
<1>3. CASE p.life = "waiting"
  <2>1. /\ Formed(w, p, x, t) /\ p.curh <= p.load /\ p.via = "none" /\ ~p.client /\ EndedIn(t)
        /\ WrapperFits(p)
    BY <1>3, OverIs
  <2>2. PICK o : AwaitIs(p, o, "none") /\ Formed(y, o, x, t)
    BY <2>1, NobodyForms
  <2>3. /\ o.life = "waiting" /\ o.curh <= o.load /\ o.via = "none" /\ ~o.client
        /\ WrapperFits(o)
    BY <1>3, <2>1, <2>2 DEF AwaitIs, SameCore, WrapperFits
  <2>4. r \in AnswerTooLate(y) \/ r = y
    BY <1>3 DEF Continued
  <2> HIDE DEF y, p, t, x
  <2>5. CASE r \in AnswerTooLate(y)
    BY <2>1, <2>2, <2>3, <2>5, TooLateKept DEF t
  <2>6. CASE r = y
    BY <2>1, <2>2, <2>3, <2>6, OverKept DEF t
  <2> QED
    BY <2>4, <2>5, <2>6
<1>4. CASE p.life = "live"
  <2>1. Formed(w, p, x, t) /\ Alive(p) /\ LiveFits(p, x, t) /\ p.limit > 0
    BY <1>4, LiveIs
  <2>2. /\ \/ p.via = "none" /\ FreeFits(p, t)
           \/ p.via # "none" /\ BoundFits(p, x, t)
        /\ UrlFits(p, x, t)
    BY <2>1 DEF LiveFits
  <2>3. ~p.hop /\ WaitsIn(t)
    BY <1>1, <2>2 DEF FreeFits, BoundFits
  <2>4. PICK o : AwaitIs(p, o, "none") /\ Formed(y, o, x, t)
    BY <2>1, NobodyForms
  <2>5. Expects(o, t)
    <3>1. Alive(p) /\ SameCore(p, o) /\ o.curh <= o.load /\ o.cont.to # "init"
      BY <2>1, <2>4 DEF AwaitIs, SameCore, Alive
    <3>2. Alive(o)
      BY <3>1, SameAlive
    <3> QED
      BY <2>1, <2>3, <2>4, <3>2 DEF Expects, AwaitIs, SameCore
  <2>6. MayAwait(p, x, c.to) /\ UrlFits(o, x, t)
    BY <1>1, <2>2, <2>4 DEF MayAwait, FreeFits, BoundFits, UrlFits, AwaitIs
  <2>7. MayAwait(o, x, c.to)
    BY <2>4, <2>6 DEF MayAwait, AwaitIs, SameCore
  <2>8. \/ c.to = "cookies" /\ r \in ShouldInterceptRequest(y)
        \/ c.to = "resource" /\ r \in ContinueShouldInterceptRequest(y)
        \/ c.to \in {"headers", "response", "redirect"} /\ r \in ContinueTo(y, c.to, c.url)
    <3> HIDE DEF y
    <3> QED
      BY <1>4 DEF Continued, y
  <2> DEFINE to == c.to
             url == c.url
  <2>9. to \in {"cookies", "resource", "headers", "response", "redirect"} /\ url \in BOOLEAN
    BY <1>1
  <2> HIDE DEF y, p, t, x, to, url, c
  <2> QED
    BY <2>4, <2>5, <2>6, <2>7, <2>8, <2>9, ContinuedLive DEF t, to, url
<1> QED
  BY <1>2, <1>3, <1>4

-----------------------------------------------------------------------------
(* The wrapper: its state arrives, the browser goes, an observer comes back. *)

\* A request that was not started.
NotStarted(p) == p = [NewRequest EXCEPT !.ready = p.ready, !.down = p.down]

LEMMA NotStartedIs ==
  ASSUME NEW p, NotStarted(p)
  PROVE  /\ p.life = "none" /\ p.load = 0 /\ p.via = "none" /\ ~p.paused /\ p.client = TRUE
         /\ p.completed = FALSE /\ p.limit = RedirectLimit /\ p.hredir = FALSE /\ p.curh = 0
         /\ p.cont = Nobody /\ p.cont.to = "none" /\ p.hop = FALSE /\ p.state = FALSE
         /\ p.handler = "none" /\ p.completes = 0
<1>1. p = [NewRequest EXCEPT !.ready = p.ready, !.down = p.down]
  BY DEF NotStarted
<1> DEFINE a == p.ready
           b == p.down
<1>2. p = [NewRequest EXCEPT !.ready = a, !.down = b]
  BY <1>1
<1> HIDE DEF a, b
<1> QED
  BY <1>2, NobodyIs DEF NewRequest

LEMMA NotStartedFits ==
  ASSUME NEW w, w \in WTypes, LoadsFit(w), NotStarted(w.q), w.told = <<>>,
         w.q.down => w.q.ready
  PROVE  Fits(w)
<1>1. /\ w.q.life = "none" /\ w.q.load = 0 /\ w.q.via = "none" /\ w.q.curh = 0
      /\ w.q.cont.to = "none" /\ ~w.q.hop /\ ~w.q.state /\ w.q.completes = 0
      /\ w.q.handler = "none"
  BY NotStartedIs
<1>2. WrapperFits(w.q)
  BY <1>1 DEF WrapperFits
<1>3. LifeFits(w)
  <2>1. w.q = [NewRequest EXCEPT !.ready = w.q.ready, !.down = w.q.down]
    BY DEF NotStarted
  <2>2. w.q.curh <= w.q.load
    BY <1>1
  <2> QED
    BY <1>1, <2>1, <2>2 DEF LifeFits
<1> QED
  BY <1>2, <1>3 DEF Fits

LEMMA NotStartedWas ==
  ASSUME NEW w, Fits(w), w.q.life = "none"
  PROVE  NotStarted(w.q) /\ w.told = <<>> /\ w \in WTypes /\ LoadsFit(w)
BY DEF Fits, LifeFits, NotStarted

\* The wrapper is there, or shut down, for a request that was not started.
LEMMA UnstartedKept ==
  ASSUME NEW w, Fits(w), w.q.life = "none", NEW a \in BOOLEAN, NEW b \in BOOLEAN, b => a,
         NEW o, o = [w.q EXCEPT !.down = b, !.ready = a], NEW r, r = [w EXCEPT !.q = o]
  PROVE  Kept(w.told, r)
<1> DEFINE p == w.q
<1>1. NotStarted(p) /\ w.told = <<>> /\ w \in WTypes /\ LoadsFit(w)
  BY NotStartedWas
<1>2. p \in RequestTypes
  BY <1>1 DEF WTypes
<1>3. o = [p EXCEPT !.down = b, !.ready = a]
  OBVIOUS
<1> HIDE DEF p
<1>4. o \in RequestTypes
  BY <1>2, <1>3, ZenonT(60) DEF RequestTypes
<1>5. o.ready = a /\ o.down = b /\ o.load = p.load
  BY <1>2, <1>3 DEF RequestTypes
<1>6. NotStarted(o)
  <2> DEFINE c == p.ready
             d == p.down
  <2>1. p = [NewRequest EXCEPT !.ready = c, !.down = d]
    BY <1>1 DEF NotStarted, p
  <2> HIDE DEF c, d
  <2>2. o = [NewRequest EXCEPT !.ready = a, !.down = b]
    BY <1>3, <2>1 DEF NewRequest
  <2> QED
    BY <1>5, <2>2 DEF NotStarted
<1>7. r \in WTypes /\ r.q = o /\ r.ls = w.ls /\ r.told = w.told
  BY <1>1, <1>4 DEF WTypes
<1>8. LoadsFit(r)
  BY <1>1, <1>5, <1>7 DEF LoadsFit, p
<1> QED
  BY <1>1, <1>5, <1>6, <1>7, <1>8, NotStartedFits DEF Kept, Hears

\* Destroyed: the wrapper of the request p is gone.
ShutDown(p) == [OnRequestComplete(p) EXCEPT !.down = TRUE, !.ready = TRUE]

LEMMA ShutDownIs ==
  ASSUME NEW p \in RequestTypes, WrapperFits(p), NEW o, o = ShutDown(p)
  PROVE  /\ o \in RequestTypes /\ ~o.state /\ o.cont = Nobody /\ o.ready /\ o.down
         /\ o.load = p.load /\ o.curh = p.curh /\ o.hop = p.hop /\ o.via = p.via
         /\ o.life = p.life /\ o.client = p.client /\ o.paused = p.paused
         /\ o.completed = p.completed /\ o.limit = p.limit /\ o.hredir = p.hredir
         /\ WrapperFits(o)
<1> DEFINE c == OnRequestComplete(p)
<1>1. /\ c \in RequestTypes /\ ~c.state /\ c.cont = Nobody
      /\ c.handler = "handler" => c.completes = 1
      /\ c.load = p.load /\ c.curh = p.curh /\ c.hop = p.hop /\ c.via = p.via
      /\ c.life = p.life /\ c.client = p.client /\ c.paused = p.paused
      /\ c.completed = p.completed /\ c.limit = p.limit /\ c.hredir = p.hredir
  BY Forgets
<1>2. o = [c EXCEPT !.down = TRUE, !.ready = TRUE]
  BY DEF ShutDown
<1> HIDE DEF c
<1>3. o \in RequestTypes
  BY <1>1, <1>2, ZenonT(60) DEF RequestTypes
<1>4. /\ o.state = c.state /\ o.cont = c.cont /\ o.ready = TRUE /\ o.down = TRUE
      /\ o.load = c.load /\ o.curh = c.curh /\ o.hop = c.hop /\ o.via = c.via
      /\ o.life = c.life /\ o.client = c.client /\ o.paused = c.paused
      /\ o.completed = c.completed /\ o.limit = c.limit /\ o.hredir = c.hredir
      /\ o.handler = c.handler /\ o.completes = c.completes
  BY <1>1, <1>2 DEF RequestTypes
<1>5. WrapperFits(o)
  BY <1>1, <1>4, NobodyIs DEF WrapperFits
<1> QED
  BY <1>1, <1>3, <1>4, <1>5

LEMMA DestroyedKept ==
  ASSUME NEW w, Fits(w), NEW r, r = Destroyed(w)
  PROVE  Kept(w.told, r)
<1> DEFINE p == w.q
           x == Load(w)
           t == w.told
           o == ShutDown(p)
           y == [w EXCEPT !.q = o]
           asked == p.state \/ p.cont.to = "init"
<1>1. w \in WTypes /\ p \in RequestTypes /\ WrapperFits(p) /\ LoadsFit(w) /\ LifeFits(w)
  BY DEF Fits, WTypes
<1>2. r = IF asked THEN CancelRequest(y) ELSE y
  BY <1>1 DEF Destroyed, ShutDown, WTypes
<1>3. /\ o \in RequestTypes /\ ~o.state /\ o.cont = Nobody /\ o.ready /\ o.down
      /\ o.load = p.load /\ o.curh = p.curh /\ o.hop = p.hop /\ o.via = p.via
      /\ o.life = p.life /\ o.client = p.client /\ o.paused = p.paused
      /\ o.completed = p.completed /\ o.limit = p.limit /\ o.hredir = p.hredir
      /\ WrapperFits(o)
  BY <1>1, ShutDownIs
<1>4. y.q = o
  BY <1>1 DEF WTypes
<1>5. CASE p.life = "none"
  <2>1. NotStarted(p)
    BY <1>5, NotStartedWas
  <2>2. p.state = FALSE /\ p.cont = Nobody /\ p.cont.to = "none"
    BY <2>1, NotStartedIs
  <2>3. r = y
    BY <1>2, <2>2
  <2>4. o = [p EXCEPT !.down = TRUE, !.ready = TRUE]
    <3> HIDE DEF p
    <3>1. OnRequestComplete(p) = p
      <4>1. CallHandlerOnComplete(p) = p
        BY <2>2 DEF CallHandlerOnComplete
      <4>2. OnRequestComplete(p) = [p EXCEPT !.state = FALSE, !.cont = Nobody]
        BY <4>1 DEF OnRequestComplete
      <4>3. [p EXCEPT !.state = FALSE] = p
        BY <1>1, <2>2 DEF RequestTypes
      <4>4. [p EXCEPT !.cont = Nobody] = p
        BY <1>1, <2>2 DEF RequestTypes
      <4>5. OnRequestComplete(p) = [[p EXCEPT !.state = FALSE] EXCEPT !.cont = Nobody]
        BY <1>1, <4>2 DEF RequestTypes
      <4> QED
        BY <4>3, <4>4, <4>5
    <3> QED
      BY <3>1 DEF ShutDown
  <2> DEFINE a == TRUE
  <2>5. a \in BOOLEAN /\ o = [p EXCEPT !.down = a, !.ready = a]
    BY <2>4
  <2> HIDE DEF a, o
  <2> QED
    BY <1>5, <2>3, <2>5, UnstartedKept
<1>6. CASE p.life = "live"
  <2>1. Formed(w, p, x, t) /\ Alive(p) /\ LiveFits(p, x, t)
    BY <1>6, LiveIs
  <2> HIDE DEF o
  <2>2. Formed(y, o, x, t)
    <3>1. o.load = p.load
      BY <1>3
    <3> QED
      BY <1>3, <2>1, <3>1, RequestForms
  <2>3. Alive(o)
    BY <1>3, <2>1 DEF Alive
  <2>4. ~EndedIn(t)
    BY <2>1, LiveTold
  <2>5. CASE asked
    <3>1. r = SendError(y)
      BY <1>2, <1>3, <1>4, <1>6, <2>5 DEF CancelRequest
    <3> QED
      BY <2>2, <2>3, <2>4, <3>1, ErrorKept
  <2>6. CASE ~asked
    <3>1. r = y
      BY <1>2, <2>6
    <3>2. p.via = "none" /\ FreeFits(p, t) /\ p.cont.to = "none"
      BY <2>1, <2>6 DEF LiveFits, BoundFits, FreeFits
    <3>3. FreeFits(o, t)
      BY <1>3, <3>2, NobodyIs DEF FreeFits
    <3>4. LiveFits(o, x, t)
      BY <1>3, <2>1, <3>2, <3>3 DEF LiveFits, UrlFits
    <3> HIDE DEF y
    <3>5. Fits(r) /\ r.told = t
      BY <2>2, <2>3, <3>1, <3>4, StillFits
    <3> QED
      BY <3>5 DEF Kept, Hears
  <2> QED
    BY <2>5, <2>6
<1>7. CASE p.life \in {"waiting", "gone"}
  <2>1. /\ Formed(w, p, x, t) /\ p.curh <= p.load /\ p.via = "none" /\ ~p.client /\ EndedIn(t)
    BY <1>7, OverIs
  <2> HIDE DEF o
  <2>2. Formed(y, o, x, t)
    <3>1. o.load = p.load
      BY <1>3
    <3> QED
      BY <1>3, <2>1, <3>1, RequestForms
  <2>3. r = y
    BY <1>2, <1>3, <1>4, <1>7 DEF CancelRequest
  <2> HIDE DEF y
  <2> QED
    BY <1>3, <1>7, <2>1, <2>2, <2>3, NobodyIs, OverKept
<1> QED
  BY <1>1, <1>5, <1>6, <1>7 DEF RequestTypes, Lives

\* What the wrapper's steps leave alone.
SameLoad(p, o) ==
  /\ o.life = p.life /\ o.load = p.load /\ o.client = p.client /\ o.completed = p.completed
  /\ o.limit = p.limit /\ o.via = p.via /\ o.hredir = p.hredir /\ o.curh = p.curh
  /\ o.paused = p.paused /\ o.down = p.down

\* A request p that is over for its client.
Over(p, t) ==
  /\ p.life \in {"waiting", "gone"} /\ p.curh <= p.load /\ p.via = "none" /\ ~p.client
  /\ EndedIn(t) /\ (p.life = "gone" => ~p.state /\ p.cont.to = "none")

LEMMA OverStays ==
  ASSUME NEW w, NEW p, NEW x, NEW t, Formed(w, p, x, t), Over(p, t), WrapperFits(p)
  PROVE  Kept(t, w)
BY OverKept DEF Over

LEMMA OverHas ==
  ASSUME NEW w, Fits(w), w.q.life \in {"waiting", "gone"}
  PROVE  Formed(w, w.q, Load(w), w.told) /\ Over(w.q, w.told) /\ WrapperFits(w.q)
BY OverIs DEF Over

\* The two lines that may fail, and a request that differs in the lines that did.
Lines == {"proxy_url_loader_factory.cc:392", "resource_request_handler_wrapper.cc:486"}
SameRequest(p, o) ==
  /\ SameLoad(p, o) /\ o.cont = p.cont /\ o.hop = p.hop /\ o.state = p.state
  /\ o.handler = p.handler /\ o.completes = p.completes /\ o.ready = p.ready

LEMMA FailsForms ==
  ASSUME NEW w, NEW p, NEW x, NEW t, Formed(w, p, x, t), NEW line \in Lines,
         NEW r, r = Fails(w, line)
  PROVE  \E o : Formed(r, o, x, t) /\ SameRequest(p, o)
<1> DEFINE lines == p.bad \cup {line}
           o == [p EXCEPT !.bad = lines]
<1>1. p \in RequestTypes /\ w.q = p /\ w \in WTypes
  BY FormedTypes DEF Formed
<1>2. r = [w EXCEPT !.q = o]
  BY <1>1 DEF Fails, WTypes
<1>3. lines \in SUBSET {"proxy_url_loader_factory.cc:392",
                        "resource_request_handler_wrapper.cc:486"}
  BY <1>1 DEF RequestTypes, Lines
<1> HIDE DEF lines
<1>4. p \in RequestTypes
  BY <1>1
<1>5. o \in RequestTypes
  BY <1>3, <1>4, Zenon DEF RequestTypes
<1>6. SameRequest(p, o)
  BY <1>4 DEF RequestTypes, SameLoad, SameRequest
<1> HIDE DEF o
<1>7. Formed(r, o, x, t)
  <2>1. o.load = p.load
    BY <1>6 DEF SameRequest, SameLoad
  <2> QED
    BY <1>2, <1>5, <2>1, RequestForms
<1> QED
  BY <1>6, <1>7

\* A request that waits for its end is asked about all the same.
LEMMA WaitingAccept ==
  ASSUME NEW w, NEW p, NEW x, NEW t, Formed(w, p, x, t), Over(p, t), WrapperFits(p),
         p.life = "waiting", p.ready, ~p.down, p.cont.to # "init", NEW r \in Accept(w)
  PROVE  Kept(t, r)
<1>1. p \in RequestTypes /\ w.q = p /\ p.life # "live"
  BY FormedTypes DEF Formed
<1>2. PICK h \in {"none", "handler", "scheme"}, only \in BOOLEAN : r \in AcceptWith(w, h, only)
  BY DEF Accept
<1> DEFINE o == [p EXCEPT !.state = TRUE, !.handler = h, !.only = only, !.tried = FALSE]
<1>3. r = [w EXCEPT !.q = o]
  BY <1>1, <1>2 DEF AcceptWith
<1>4. p \in RequestTypes
  BY <1>1
<1>5. o \in RequestTypes
  BY <1>4, Zenon DEF RequestTypes
<1>6. /\ o.state = TRUE /\ o.cont = p.cont /\ o.hop = p.hop /\ o.ready = p.ready
      /\ o.completes = p.completes /\ SameLoad(p, o)
  BY <1>4 DEF RequestTypes, SameLoad
<1> HIDE DEF o
<1>7. Formed(r, o, x, t)
  <2>1. o.load = p.load
    BY <1>6 DEF SameLoad
  <2> QED
    BY <1>3, <1>5, <2>1, RequestForms
<1>8. p.completes = 0
  BY <1>4 DEF WrapperFits, RequestTypes
<1>9. WrapperFits(o) /\ Over(o, t)
  BY <1>6, <1>8 DEF WrapperFits, Over, SameLoad
<1> QED
  BY <1>7, <1>9, OverStays

LEMMA WaitingHop ==
  ASSUME NEW w, NEW p, NEW x, NEW t, Formed(w, p, x, t), Over(p, t), WrapperFits(p), p.ready,
         NEW r, r = [w EXCEPT !.q.hop = TRUE]
  PROVE  Kept(t, r)
<1> DEFINE o == [p EXCEPT !.hop = TRUE]
<1>1. p \in RequestTypes /\ w.q = p /\ w \in WTypes
  BY FormedTypes DEF Formed
<1>2. r = [w EXCEPT !.q = o]
  BY <1>1 DEF WTypes
<1>3. p \in RequestTypes
  BY <1>1
<1>4. o \in RequestTypes
  BY <1>3, Zenon DEF RequestTypes
<1>5. /\ o.state = p.state /\ o.cont = p.cont /\ o.hop = TRUE /\ o.ready = p.ready
      /\ o.completes = p.completes /\ o.handler = p.handler /\ SameLoad(p, o)
  BY <1>3 DEF RequestTypes, SameLoad
<1> HIDE DEF o
<1>6. Formed(r, o, x, t)
  <2>1. o.load = p.load
    BY <1>5 DEF SameLoad
  <2>2. Formed([w EXCEPT !.q = o], o, x, t)
    BY <1>4, <2>1, RequestForms
  <2> QED
    BY <1>2, <2>2
<1>7. WrapperFits(o) /\ Over(o, t)
  BY <1>5 DEF WrapperFits, Over, SameLoad
<1> QED
  BY <1>6, <1>7, OverStays

LEMMA WaitingBeforeRequest ==
  ASSUME NEW w, NEW p, NEW x, NEW t, Formed(w, p, x, t), Over(p, t), WrapperFits(p),
         p.life = "waiting", p.ready, p.cont.to # "init", NEW r \in OnBeforeRequest(w)
  PROVE  Kept(t, r)
<1>1. w.q = p
  BY DEF Formed
<1>2. CASE p.down
  <2>1. r = w
    BY <1>1, <1>2 DEF OnBeforeRequest, CancelRequest
  <2> QED
    BY <2>1, OverStays
<1>3. CASE ~p.down
  <2>1. r \in Accept(w) \/ r = [w EXCEPT !.q.hop = TRUE]
    BY <1>1, <1>3 DEF OnBeforeRequest
  <2> QED
    BY <1>3, <2>1, WaitingAccept, WaitingHop
<1> QED
  BY <1>2, <1>3

LEMMA ObserverCreatedKept ==
  ASSUME NEW w, Fits(w), w.q.hop, NEW r \in ObserverCreated(w)
  PROVE  Kept(w.told, r)
<1> DEFINE p == w.q
           x == Load(w)
           t == w.told
           o == [p EXCEPT !.hop = FALSE, !.tried = TRUE]
           y == [w EXCEPT !.q = o]
<1>1. p \in RequestTypes /\ WrapperFits(p)
  BY DEF Fits, WTypes
<1>2. p.life \in {"live", "waiting", "gone"} /\ p.ready
  <2>1. p.life # "none"
    BY NotStartedWas, NotStartedIs
  <2> QED
    BY <1>1, <2>1 DEF RequestTypes, Lives, WrapperFits
<1>3. Formed(w, p, x, t)
  <2>1. p.life = "live" => Formed(w, p, x, t)
    BY LiveIs
  <2>2. p.life \in {"waiting", "gone"} => Formed(w, p, x, t)
    BY OverHas
  <2> QED
    BY <1>2, <2>1, <2>2
<1>4. \/ p.down /\ r = CancelRequest(y)
      \/ ~p.down /\ p.life = "gone" /\ r = Fails(y, "resource_request_handler_wrapper.cc:486")
      \/ ~p.down /\ p.life # "gone" /\ r \in OnBeforeRequest(y)
  BY DEF ObserverCreated
<1>5. p \in RequestTypes
  BY <1>1
<1>6. o \in RequestTypes
  <2> HIDE DEF p
  <2> QED
    BY <1>5, Zenon DEF RequestTypes
<1>7. /\ o.state = p.state /\ o.cont = p.cont /\ o.hop = FALSE /\ o.ready = p.ready
      /\ o.completes = p.completes /\ o.handler = p.handler /\ SameLoad(p, o)
  <2> HIDE DEF p
  <2> QED
    BY <1>5 DEF RequestTypes, SameLoad
<1> HIDE DEF o
<1>8. Formed(y, o, x, t)
  <2>1. o.load = p.load
    BY <1>7 DEF SameLoad
  <2> QED
    BY <1>3, <1>6, <2>1, RequestForms
<1>9. WrapperFits(o)
  BY <1>1, <1>7 DEF WrapperFits, SameLoad
<1>10. y.q = o
  BY <1>8 DEF Formed
<1>11. CASE p.life \in {"waiting", "gone"}
  <2>1. Over(p, t)
    BY <1>11, OverHas
  <2>2. Over(o, t)
    BY <1>7, <2>1 DEF Over, SameLoad
  <2>3. CASE p.down
    <3>1. r = y
      BY <1>4, <1>7, <1>10, <1>11, <2>3 DEF CancelRequest, SameLoad
    <3> HIDE DEF y
    <3> QED
      BY <1>8, <1>9, <2>2, <3>1, OverStays
  <2>4. CASE ~p.down /\ p.life = "gone"
    <3> DEFINE line == "resource_request_handler_wrapper.cc:486"
    <3>1. r = Fails(y, line)
      BY <1>4, <2>4
    <3>2. line \in Lines
      BY DEF Lines
    <3> HIDE DEF line, y, p, x, t
    <3>3. PICK d : Formed(r, d, x, t) /\ SameRequest(o, d)
      BY <1>8, <3>1, <3>2, FailsForms
    <3>4. WrapperFits(d) /\ Over(d, t)
      BY <1>9, <2>2, <3>3 DEF WrapperFits, Over, SameLoad, SameRequest
    <3> QED
      BY <3>3, <3>4, OverStays DEF t
  <2>5. CASE ~p.down /\ p.life # "gone"
    <3>1. r \in OnBeforeRequest(y)
      BY <1>4, <2>5
    <3>2. o.life = "waiting" /\ o.ready /\ o.cont.to # "init"
      BY <1>1, <1>2, <1>7, <1>11, <2>5 DEF SameLoad, WrapperFits
    <3> HIDE DEF y, p, x, t
    <3> QED
      BY <1>8, <1>9, <2>2, <3>1, <3>2, WaitingBeforeRequest DEF t
  <2> QED
    BY <2>3, <2>4, <2>5
<1>12. CASE p.life = "live"
  <2>1. Alive(p) /\ LiveFits(p, x, t) /\ p.limit > 0
    BY <1>12, LiveIs
  <2>2. p.via = "none" /\ FreeFits(p, t) /\ UrlFits(p, x, t)
    BY <2>1 DEF LiveFits, BoundFits
  <2>3. p.cont.to = "none" /\ WaitsIn(t) /\ ~p.paused
    BY <2>2 DEF FreeFits
  <2>4. Alive(o)
    BY <1>7, <1>9, <2>1 DEF Alive, SameLoad
  <2>5. Expects(o, t) /\ Undecided(o)
    BY <1>7, <2>1, <2>2, <2>3, <2>4 DEF Expects, Undecided, NoUrl, UrlFits, SameLoad
  <2>6. CASE p.down
    <3>1. r = SendError(y)
      BY <1>4, <1>7, <1>10, <1>12, <2>6 DEF CancelRequest, SameLoad
    <3>2. ~EndedIn(t)
      BY <2>1, LiveTold
    <3> HIDE DEF y, p, x, t
    <3> QED
      BY <1>8, <2>4, <3>1, <3>2, ErrorKept DEF t
  <2>7. CASE ~p.down
    <3>1. r \in OnBeforeRequest(y)
      BY <1>4, <1>12, <2>7
    <3> HIDE DEF y, p, x, t
    <3>2. Started(t, r)
      BY <1>8, <2>5, <3>1, BeforeRequestKeeps
    <3> QED
      BY <2>3, <3>2, AnsweredKept DEF t
  <2> QED
    BY <2>6, <2>7
<1> QED
  BY <1>2, <1>11, <1>12

\* SetInitialized, of a wrapper whose browser is still there.
Ready(w) == [w EXCEPT !.q.ready = TRUE]

LEMMA ReadyForms ==
  ASSUME NEW w, NEW p, NEW x, NEW t, Formed(w, p, x, t)
  PROVE  \E o : /\ Formed(Ready(w), o, x, t) /\ SameLoad(p, o) /\ o.cont = p.cont
                /\ o.hop = p.hop /\ o.state = p.state /\ o.handler = p.handler
                /\ o.completes = p.completes /\ o.ready
<1> DEFINE o == [p EXCEPT !.ready = TRUE]
<1>1. p \in RequestTypes /\ w.q = p /\ w \in WTypes
  BY FormedTypes DEF Formed
<1>2. Ready(w) = [w EXCEPT !.q = o]
  BY <1>1 DEF Ready, WTypes
<1>3. p \in RequestTypes
  BY <1>1
<1>4. o \in RequestTypes
  BY <1>3, Zenon DEF RequestTypes
<1>5. /\ SameLoad(p, o) /\ o.cont = p.cont /\ o.hop = p.hop /\ o.state = p.state
      /\ o.handler = p.handler /\ o.completes = p.completes /\ o.ready = TRUE
  BY <1>3 DEF RequestTypes, SameLoad
<1> HIDE DEF o
<1>6. Formed(Ready(w), o, x, t)
  <2>1. o.load = p.load
    BY <1>5 DEF SameLoad
  <2> QED
    BY <1>2, <1>4, <2>1, RequestForms
<1> QED
  BY <1>5, <1>6

LEMMA InitializedKept ==
  ASSUME NEW w, Fits(w), ~w.q.ready,
         NEW r, r \in IF w.q.cont.to = "init"
                      THEN OnBeforeRequest([Ready(w) EXCEPT !.q.cont = Nobody]) ELSE {Ready(w)}
  PROVE  Kept(w.told, r)
<1> DEFINE p == w.q
           x == Load(w)
           t == w.told
           y == Ready(w)
           z == [y EXCEPT !.q.cont = Nobody]
<1>1. p \in RequestTypes /\ WrapperFits(p) /\ w \in WTypes
  BY DEF Fits, WTypes
<1>2. ~p.state /\ ~p.down /\ ~p.hop
  BY <1>1 DEF WrapperFits
<1>3. CASE p.life = "none"
  <2>1. p.cont.to = "none" /\ p.down = FALSE
    BY <1>1, <1>2, <1>3, NotStartedWas, NotStartedIs DEF RequestTypes
  <2> DEFINE a == TRUE
             b == FALSE
             o == [p EXCEPT !.down = b, !.ready = a]
  <2>2. r = [w EXCEPT !.q = o]
    <3>1. r = [w EXCEPT !.q = [p EXCEPT !.ready = TRUE]]
      BY <1>1, <2>1 DEF Ready, WTypes
    <3>2. [p EXCEPT !.down = FALSE] = p
      BY <1>1, <2>1 DEF RequestTypes
    <3>3. o = [[p EXCEPT !.down = FALSE] EXCEPT !.ready = TRUE]
      BY <1>1 DEF RequestTypes
    <3> QED
      BY <3>1, <3>2, <3>3
  <2>3. a \in BOOLEAN /\ b \in BOOLEAN /\ (b => a)
    OBVIOUS
  <2>4. o = [p EXCEPT !.down = b, !.ready = a]
    OBVIOUS
  <2> HIDE DEF a, b, o
  <2> QED
    BY <1>3, <2>2, <2>3, <2>4, UnstartedKept
<1>4. CASE p.life # "none"
  <2>1. p.life \in {"live", "waiting", "gone"}
    BY <1>1, <1>4 DEF RequestTypes, Lives
  <2>2. Formed(w, p, x, t)
    <3>1. p.life = "live" => Formed(w, p, x, t)
      BY LiveIs
    <3>2. p.life \in {"waiting", "gone"} => Formed(w, p, x, t)
      BY OverHas
    <3> QED
      BY <2>1, <3>1, <3>2
  <2>3. PICK o : /\ Formed(y, o, x, t) /\ SameLoad(p, o) /\ o.cont = p.cont
                 /\ o.hop = p.hop /\ o.state = p.state /\ o.handler = p.handler
                 /\ o.completes = p.completes /\ o.ready
    BY <2>2, ReadyForms
  <2>4. CASE p.cont.to = "init"
    <3>1. r \in OnBeforeRequest(z)
      BY <2>4
    <3>2. PICK d : AwaitIs(o, d, "none") /\ Formed(z, d, x, t)
      <4> HIDE DEF y
      <4> QED
        BY <2>3, NobodyForms
    <3>3. WrapperFits(d) /\ d.ready /\ d.cont.to = "none" /\ ~d.hop
      BY <1>1, <1>2, <2>3, <3>2 DEF WrapperFits, AwaitIs, SameCore, SameLoad
    <3> HIDE DEF z, y
    <3>4. CASE p.life \in {"waiting", "gone"}
      <4>1. Over(p, t)
        BY <3>4, OverHas
      <4>2. Over(d, t) /\ d.life = "waiting"
        BY <2>3, <2>4, <3>2, <3>4, <4>1 DEF Over, SameLoad, AwaitIs, SameCore
      <4> HIDE DEF p, x, t
      <4> QED
        BY <3>1, <3>2, <3>3, <4>2, WaitingBeforeRequest DEF t
    <3>5. CASE p.life = "live"
      <4>1. Alive(p) /\ LiveFits(p, x, t) /\ p.limit > 0
        BY <3>5, LiveIs
      <4>2. p.via = "none" /\ FreeFits(p, t) /\ UrlFits(p, x, t)
        BY <2>4, <4>1 DEF LiveFits, BoundFits
      <4>3. WaitsIn(t) /\ ~p.paused
        BY <2>4, <4>2 DEF FreeFits
      <4>4. Alive(d)
        BY <2>3, <3>2, <3>3, <4>1 DEF Alive, SameLoad, AwaitIs, SameCore
      <4>5. Expects(d, t) /\ Undecided(d)
        BY <2>3, <3>2, <3>3, <4>1, <4>2, <4>3, <4>4
           DEF Expects, Undecided, NoUrl, UrlFits, SameLoad, AwaitIs, SameCore
      <4> HIDE DEF p, x, t
      <4>6. Started(t, r)
        BY <3>1, <3>2, <4>5, BeforeRequestKeeps
      <4> QED
        BY <4>3, <4>6, AnsweredKept DEF t
    <3> QED
      BY <2>1, <3>4, <3>5
  <2>5. CASE p.cont.to # "init"
    <3>1. r = y
      BY <2>5
    <3>2. WrapperFits(o)
      BY <1>1, <1>2, <2>3, <2>5 DEF WrapperFits, SameLoad
    <3> HIDE DEF z, y
    <3>3. CASE p.life \in {"waiting", "gone"}
      <4>1. Over(p, t)
        BY <3>3, OverHas
      <4>2. Over(o, t)
        BY <2>3, <4>1 DEF Over, SameLoad
      <4> HIDE DEF p, x, t
      <4> QED
        BY <2>3, <3>1, <3>2, <4>2, OverStays DEF t
    <3>4. CASE p.life = "live"
      <4>1. Alive(p) /\ LiveFits(p, x, t)
        BY <3>4, LiveIs
      <4>2. p.via = "none" /\ FreeFits(p, t)
        BY <1>2, <4>1 DEF LiveFits, BoundFits
      <4>3. FreeFits(o, t)
        BY <2>3, <4>2 DEF FreeFits, SameLoad
      <4>4. Alive(o) /\ LiveFits(o, x, t)
        BY <2>3, <3>2, <4>1, <4>2, <4>3 DEF Alive, LiveFits, UrlFits, SameLoad
      <4> HIDE DEF p, x, t
      <4>5. Fits(r) /\ r.told = t
        BY <2>3, <3>1, <4>4, StillFits
      <4> QED
        BY <4>5 DEF Kept, Hears, t
    <3> QED
      BY <2>1, <3>3, <3>4
  <2> QED
    BY <2>4, <2>5
<1> QED
  BY <1>3, <1>4

-----------------------------------------------------------------------------
(* The client: it starts the request, follows a redirect, or leaves.         *)

LEMMA FilterErrorKept ==
  ASSUME NEW w, Fits(w), NEW r, r = CancelRequest(w)
  PROVE  Kept(w.told, r)
<1>1. CASE w.q.life = "live"
  <2>1. Formed(w, w.q, Load(w), w.told) /\ Alive(w.q) /\ LiveFits(w.q, Load(w), w.told)
    BY <1>1, LiveIs
  <2>2. r = SendError(w)
    BY <1>1 DEF CancelRequest
  <2> QED
    BY <2>1, <2>2, LiveTold, ErrorKept
<1>2. CASE w.q.life # "live"
  BY <1>2 DEF CancelRequest, Kept, Hears
<1> QED
  BY <1>1, <1>2

LEMMA ClientErrorKept ==
  ASSUME NEW w, Fits(w), w.q.life = "live", NEW r, r = CallOnComplete(w, "failure", TRUE)
  PROVE  Kept(w.told, r)
<1> DEFINE status == "failure"
           wait == TRUE
           t == w.told
<1>1. status \in {"success", "failure"} /\ wait \in BOOLEAN /\ r = CallOnComplete(w, status, wait)
  OBVIOUS
<1>2. Formed(w, w.q, Load(w), t) /\ Alive(w.q) /\ LiveFits(w.q, Load(w), t)
  BY LiveIs
<1>3. ~EndedIn(t)
  BY <1>2, LiveTold
<1> HIDE DEF status, wait, t
<1>4. Fits(r) /\ r.told = Append(t, status)
  BY <1>1, <1>2, CompleteKept, ZenonT(60)
<1> QED
  BY <1>3, <1>4 DEF Kept, Hears, status, t

\* The client closed the loader's pipe.
ErrorNoted(w) == [w EXCEPT !.q.gotError = TRUE]

LEMMA ErrorNotedForms ==
  ASSUME NEW w, NEW p, NEW x, NEW t, Formed(w, p, x, t)
  PROVE  \E o : Formed(ErrorNoted(w), o, x, t) /\ SameRequest(p, o) /\ o.hcb = p.hcb
<1> DEFINE o == [p EXCEPT !.gotError = TRUE]
<1>1. p \in RequestTypes /\ w.q = p /\ w \in WTypes
  BY FormedTypes DEF Formed
<1>2. ErrorNoted(w) = [w EXCEPT !.q = o]
  BY <1>1 DEF ErrorNoted, WTypes
<1>3. p \in RequestTypes
  BY <1>1
<1>4. o \in RequestTypes
  BY <1>3, Zenon DEF RequestTypes
<1>5. SameRequest(p, o) /\ o.hcb = p.hcb
  BY <1>3 DEF RequestTypes, SameLoad, SameRequest
<1> HIDE DEF o
<1>6. Formed(ErrorNoted(w), o, x, t)
  <2>1. o.load = p.load
    BY <1>5 DEF SameRequest, SameLoad
  <2> QED
    BY <1>2, <1>4, <2>1, RequestForms
<1> QED
  BY <1>5, <1>6

LEMMA LoaderErrorKept ==
  ASSUME NEW w, Fits(w), w.q.life \in {"live", "waiting"},
         NEW r, r = IF w.q.client THEN ErrorNoted(w) ELSE OnDestroy(ErrorNoted(w), "failure")
  PROVE  Kept(w.told, r)
<1> DEFINE p == w.q
           x == Load(w)
           t == w.told
           y == ErrorNoted(w)
           status == "failure"
<1>1. Formed(w, p, x, t)
  <2>1. p.life = "live" => Formed(w, p, x, t)
    BY LiveIs
  <2>2. p.life \in {"waiting", "gone"} => Formed(w, p, x, t)
    BY OverHas
  <2> QED
    BY <2>1, <2>2
<1>2. PICK o : Formed(y, o, x, t) /\ SameRequest(p, o) /\ o.hcb = p.hcb
  BY <1>1, ErrorNotedForms
<1>3. CASE p.life = "live"
  <2>1. Alive(p) /\ LiveFits(p, x, t)
    BY <1>3, LiveIs
  <2>2. r = y
    BY <2>1 DEF Alive
  <2>3. Alive(o)
    BY <1>2, <2>1 DEF Alive, WrapperFits, SameRequest, SameLoad
  <2>4. LiveFits(o, x, t)
    BY <1>2, <2>1 DEF LiveFits, FreeFits, BoundFits, UrlFits, SameRequest, SameLoad
  <2> HIDE DEF p, x, t, y
  <2>5. Fits(r) /\ r.told = t
    BY <1>2, <2>2, <2>3, <2>4, StillFits
  <2> QED
    BY <2>5 DEF Kept, Hears, t
<1>4. CASE p.life = "waiting"
  <2>1. Over(p, t) /\ WrapperFits(p)
    BY <1>4, OverHas
  <2>2. r = OnDestroy(y, status) /\ status \in {"success", "failure"}
    BY <2>1 DEF Over
  <2>3. WrapperFits(o) /\ o.curh <= o.load /\ ~o.client /\ EndedIn(t)
    BY <1>2, <2>1 DEF Over, WrapperFits, SameRequest, SameLoad
  <2> HIDE DEF p, x, t, y, status
  <2>4. Gone(r, o, t, status)
    BY <1>2, <2>2, <2>3, DestroyKeeps
  <2> QED
    BY <2>3, <2>4 DEF Gone, Kept, Hears, t
<1> QED
  BY <1>3, <1>4

\* What is told after a redirect was followed.
LEMMA FollowedHears ==
  ASSUME NEW t \in Seq(Words), SaidIn(t, "redirect"), NEW u, Starts(Append(t, "follow"), u)
  PROVE  Hears(t, u)
<1> DEFINE v == t \o <<"follow">>
<1>1. "follow" \in Words /\ "redirect" \in Words /\ "failure" \in Words
  BY DEF Words
<1>2. Append(t, "follow") = v /\ v \in Seq(Words)
  <2>1. Append(t, "follow") = t \o <<"follow">>
    BY <1>1, AppendIsConcat
  <2> QED
    BY <1>1, <2>1
<1> HIDE DEF v
<1>3. /\ v = v \o <<>>
      /\ Append(v, "redirect") = v \o <<"redirect">>
      /\ Append(v, "failure") = v \o <<"failure">>
  BY <1>1, <1>2, AppendIsConcat, ConcatEmptySeq
<1>4. \E answer \in {<<>>, <<"redirect">>, <<"failure">>} : u = v \o answer
  BY <1>2, <1>3 DEF Starts
<1> QED
  BY <1>4 DEF Hears, v

LEMMA FollowKept ==
  ASSUME NEW w, Fits(w), w.q.life = "live", SaidIn(w.told, "redirect"), w.q.load < MaxLoads,
         NEW r \in Restart(Tell(w, "follow"))
  PROVE  Kept(w.told, r)
<1> DEFINE p == w.q
           x == Load(w)
           t == w.told
           what == "follow"
           v == Append(t, what)
           y == Tell(w, what)
<1>1. Formed(w, p, x, t) /\ Alive(p) /\ LiveFits(p, x, t) /\ p.limit > 0
  BY LiveIs
<1>2. ~WaitsIn(t) /\ ~SaidIn(t, "response")
  BY ToldApart
<1>3. p.cont.to = "none" /\ ~p.hop
  BY <1>1, <1>2 DEF LiveFits, FreeFits, BoundFits
<1>4. NoUrl(p)
  BY <1>1, <1>2 DEF LiveFits, UrlFits, NoUrl
<1>5. what \in Words /\ t \in Seq(Words)
  BY <1>1, FormedTypes DEF Words
<1>6. WaitsIn(v)
  <2>1. SaidIn(v, what)
    BY <1>5, LastTold
  <2> QED
    BY <2>1 DEF WaitsIn
<1>7. Expects(p, v)
  BY <1>1, <1>3, <1>6 DEF Expects
<1> HIDE DEF what, v
<1>8. Formed(y, p, x, v)
  BY <1>1, <1>5, TellForms DEF v
<1>9. y \in WTypes /\ LoadsFit(y) /\ y.q.load < MaxLoads /\ p = y.q /\ v = y.told
  BY <1>8 DEF Formed
<1>10. r \in Restart(y)
  BY DEF what
<1> HIDE DEF y, p, x
<1>11. Started(v, r)
  BY <1>4, <1>7, <1>9, <1>10, RestartKeeps
<1>12. Starts(Append(t, "follow"), r.told) /\ Fits(r)
  BY <1>11 DEF Started, v, what
<1> QED
  BY <1>5, <1>12, FollowedHears DEF Kept

LEMMA StartKept ==
  ASSUME NEW w, Fits(w), w.q.life = "none", NEW r \in Restart([w EXCEPT !.q.life = "live"])
  PROVE  Kept(w.told, r)
<1> DEFINE p == w.q
           t == w.told
           o == [p EXCEPT !.life = "live"]
           y == [w EXCEPT !.q.life = "live"]
<1>1. NotStarted(p) /\ t = <<>> /\ w \in WTypes /\ LoadsFit(w) /\ WrapperFits(p)
  BY NotStartedWas DEF Fits
<1>2. /\ p.load = 0 /\ p.via = "none" /\ ~p.paused /\ p.client = TRUE
      /\ p.completed = FALSE /\ p.limit = RedirectLimit /\ p.hredir = FALSE /\ p.curh = 0
      /\ p.cont.to = "none" /\ p.hop = FALSE /\ p.state = FALSE
      /\ p.handler = "none" /\ p.completes = 0
  BY <1>1, NotStartedIs
<1>3. y = [w EXCEPT !.q = o]
  BY <1>1 DEF WTypes
<1>4. p \in RequestTypes
  BY <1>1 DEF WTypes
<1>5. o \in RequestTypes
  <2> HIDE DEF p
  <2> QED
    BY <1>4, Zenon DEF RequestTypes, Lives
<1>6. /\ o.life = "live" /\ o.load = p.load /\ o.via = p.via /\ o.client = p.client
      /\ o.completed = p.completed /\ o.limit = p.limit /\ o.hredir = p.hredir
      /\ o.curh = p.curh /\ o.cont = p.cont /\ o.hop = p.hop /\ o.state = p.state
      /\ o.handler = p.handler /\ o.completes = p.completes /\ o.ready = p.ready
      /\ o.down = p.down
  BY <1>4 DEF RequestTypes
<1> HIDE DEF o
<1>7. y \in WTypes /\ y.q = o /\ y.ls = w.ls /\ y.told = t
  BY <1>1, <1>3, <1>5 DEF WTypes
<1>8. LoadsFit(y)
  BY <1>1, <1>6, <1>7 DEF LoadsFit
<1>9. WaitsIn(t)
  BY <1>1 DEF WaitsIn
<1>10. o.limit > 0 /\ y.q.load < MaxLoads /\ o.curh <= o.load
  BY <1>2, <1>6, <1>7, RequestAssumption
<1>11. Expects(o, t) /\ NoUrl(o)
  BY <1>1, <1>2, <1>6, <1>9, <1>10 DEF Expects, Alive, WrapperFits, NoUrl
<1> HIDE DEF y, t
<1>12. Started(t, r)
  BY <1>7, <1>8, <1>10, <1>11, RestartKeeps DEF y
<1> QED
  BY <1>9, <1>12, AnsweredKept DEF t

-----------------------------------------------------------------------------
(* The loaders' own steps.                                                   *)

\* A step of the loader i.
At(w, i, y) == [w EXCEPT !.ls[i] = y]

LEMMA AtForms ==
  ASSUME NEW w, w \in WTypes, NEW i \in 1 .. MaxLoads, NEW y \in LoadTypes
  PROVE  /\ At(w, i, y) \in WTypes /\ At(w, i, y).q = w.q /\ At(w, i, y).told = w.told
         /\ At(w, i, y).ls[i] = y
         /\ \A j \in 1 .. MaxLoads : j # i => At(w, i, y).ls[j] = w.ls[j]
<1> DEFINE l == [w.ls EXCEPT ![i] = y]
           r == At(w, i, y)
<1>1. w.ls \in [1 .. MaxLoads -> LoadTypes]
  BY DEF WTypes
<1>2. r = [w EXCEPT !.ls = l]
  BY DEF At, WTypes
<1>3. l \in [1 .. MaxLoads -> LoadTypes] /\ l[i] = y /\ \A j \in 1 .. MaxLoads : j # i => l[j] = w.ls[j]
  BY <1>1
<1> HIDE DEF l, r
<1>4. r \in WTypes /\ r.q = w.q /\ r.told = w.told /\ r.ls = l
  BY <1>2, <1>3 DEF WTypes
<1> QED
  BY <1>3, <1>4 DEF r

\* A loader the request does not have any more, and the one it has.
LEMMA OldLoadKept ==
  ASSUME NEW w, Fits(w), NEW i \in 1 .. MaxLoads, i # w.q.load, w.ls[i] # NewLoad,
         NEW y, Moves(w.ls[i], y)
  PROVE  Kept(w.told, At(w, i, y))
<1> DEFINE r == At(w, i, y)
           n == w.q.load
<1>1. w \in WTypes /\ LoadsFit(w) /\ LifeFits(w) /\ WrapperFits(w.q)
  BY DEF Fits
<1>2. n \in 0 .. MaxLoads /\ MaxLoads \in Nat
  BY <1>1, RequestAssumption DEF WTypes, RequestTypes
<1>3. LoadFits(w.ls[i]) /\ w.ls[i].stage \in {"none", "gone"} /\ ~(i > n)
  BY <1>1 DEF LoadsFit
<1>4. LoadFits(y) /\ y.stage \in {"none", "gone"} /\ y \in LoadTypes
  BY <1>3 DEF Moves, LoadFits
<1>5. /\ r \in WTypes /\ r.q = w.q /\ r.told = w.told /\ r.ls[i] = y
      /\ \A j \in 1 .. MaxLoads : j # i => r.ls[j] = w.ls[j]
  BY <1>1, <1>4, AtForms
<1> HIDE DEF r
<1>6. LoadsFit(r)
  <2> SUFFICES ASSUME NEW j \in 1 .. MaxLoads
               PROVE  /\ LoadFits(r.ls[j])
                      /\ j # n => r.ls[j].stage \in {"none", "gone"}
                      /\ j > n => r.ls[j] = NewLoad
    BY <1>5 DEF LoadsFit
  <2>1. CASE j = i
    BY <1>3, <1>4, <1>5, <2>1
  <2>2. CASE j # i
    BY <1>1, <1>5, <2>2 DEF LoadsFit
  <2> QED
    BY <2>1, <2>2
<1>7. LifeFits(r)
  <2>1. w.q.life = "live" => n \in 1 .. MaxLoads /\ n # i
    BY <1>1, <1>2 DEF LifeFits
  <2>2. w.q.life = "live" => Load(r) = Load(w)
    BY <1>5, <2>1 DEF Load
  <2> QED
    BY <1>1, <1>5, <2>2 DEF LifeFits
<1>8. Fits(r)
  BY <1>1, <1>5, <1>6, <1>7 DEF Fits
<1> QED
  BY <1>5, <1>8 DEF Kept, Hears, r

LEMMA LoadForms ==
  ASSUME NEW w, NEW p, NEW x, NEW t, Formed(w, p, x, t), NEW y, LoadFits(y)
  PROVE  Formed(At(w, p.load, y), p, y, t)
<1>1. At(w, p.load, y) = Put(w, y)
  BY DEF At, Put, Formed
<1> QED
  BY <1>1, PutForms

LEMMA LiveLoadKept ==
  ASSUME NEW w, NEW p, NEW x, NEW t, Formed(w, p, x, t), Alive(p), NEW y, LoadFits(y),
         LiveFits(p, y, t)
  PROVE  Kept(t, At(w, p.load, y))
<1>1. Formed(At(w, p.load, y), p, y, t)
  BY LoadForms
<1>2. Fits(At(w, p.load, y)) /\ At(w, p.load, y).told = t
  BY <1>1, StillFits
<1> QED
  BY <1>2 DEF Kept, Hears

LEMMA OverLoadKept ==
  ASSUME NEW w, Fits(w), w.q.life \in {"waiting", "gone"}, NEW y, LoadFits(y)
  PROVE  Kept(w.told, At(w, w.q.load, y))
<1>1. Formed(w, w.q, Load(w), w.told) /\ Over(w.q, w.told) /\ WrapperFits(w.q)
  BY OverHas
<1>2. Formed(At(w, w.q.load, y), w.q, y, w.told)
  BY <1>1, LoadForms
<1> QED
  BY <1>1, <1>2, OverStays

LEMMA TwoLong ==
  ASSUME NEW S, NEW k \in S, NEW m \in S
  PROVE  Append(<<k>>, m) = <<k, m>>
<1> DEFINE a == Append(<<k>>, m)
           b == <<k, m>>
<1>1. a \in Seq(S) /\ b \in Seq(S)
  OBVIOUS
<1>2. Len(a) = 2 /\ Len(b) = 2
  OBVIOUS
<1>3. a[1] = b[1] /\ a[2] = b[2]
  OBVIOUS
<1> HIDE DEF a, b
<1>4. \A i \in 1 .. Len(a) : a[i] = b[i]
  BY <1>2, <1>3
<1> QED
  BY <1>1, <1>2, <1>4, SeqEqual DEF a, b

\* What the loader says when it was not heard.
LEMMA FirstSaid ==
  ASSUME NEW x, LoadFits(x), NEW m \in Messages
  PROVE  /\ x.out = <<>> => Append(x.out, m) = <<m>>
         /\ \A k \in Messages : x.out = <<k>> => Append(x.out, m) = <<k, m>>
         /\ HasBody(x) /\ m.op \in {"size", "complete"} =>
              \A k \in 1 .. Len(Append(x.out, m)) : Append(x.out, m)[k].op \in {"size", "complete"}
<1> DEFINE u == Append(x.out, m)
<1>1. x.out \in Seq(Messages)
  BY TypedFields DEF LoadFits
<1>2. x.out = <<>> => u = <<m>>
  OBVIOUS
<1>3. ASSUME NEW k \in Messages, x.out = <<k>>
      PROVE  u = <<k, m>>
  <2>1. u = Append(<<k>>, m)
    BY <1>3
  <2> HIDE DEF u
  <2> QED
    BY <2>1, TwoLong
<1>4. ASSUME HasBody(x), m.op \in {"size", "complete"}, NEW k \in 1 .. Len(u)
      PROVE  u[k].op \in {"size", "complete"}
  <2>1. /\ Len(u) = Len(x.out) + 1 /\ Len(x.out) \in Nat /\ u[Len(x.out) + 1] = m
        /\ \A j \in 1 .. Len(x.out) : u[j] = x.out[j]
    BY <1>1, AppendProperties, LenProperties
  <2>2. \A j \in 1 .. Len(x.out) : x.out[j].op \in {"size", "complete"}
    BY <1>4 DEF HasBody
  <2>3. k \in 1 .. Len(x.out) \/ k = Len(x.out) + 1
    BY <1>4, <2>1
  <2> QED
    BY <1>4, <2>1, <2>2, <2>3
<1> QED
  BY <1>2, <1>3, <1>4

LEMMA UnheardMoves ==
  ASSUME NEW x, LoadFits(x), NEW via, Unheard(x, via), NEW y, Moves(x, y)
  PROVE  Unheard(y, via)
<1> DEFINE no == FALSE
           m == Message("complete", no)
<1>1. m \in Messages
  BY MessageIs
<1>2. x.out = <<>> => Append(x.out, m) = <<m>>
  BY <1>1, FirstSaid
<1>3. CASE x.stage \in {"asking", "opening", "skipping"} /\ x.out = <<>> /\ via = "stream"
  <2>1. \/ y.stage = x.stage /\ y.out = <<>>
        \/ y.stage \in {"skipping", "answering"} /\ y.out = <<>>
        \/ y.stage = "done" /\ y.out = <<Message("complete", FALSE)>>
    BY <1>2, <1>3 DEF Moves
  <2> QED
    BY <1>3, <2>1 DEF Unheard
<1>4. CASE x.stage \in {"net", "answering", "responding", "netBody", "done"}
  <2>1. y.stage = x.stage /\ y.out = x.out
    BY <1>4 DEF Moves
  <2> QED
    BY <2>1 DEF Unheard
<1> QED
  BY <1>3, <1>4 DEF Unheard

LEMMA BodyMoves ==
  ASSUME NEW x, LoadFits(x), HasBody(x), NEW y, Moves(x, y)
  PROVE  HasBody(y)
<1>1. CASE y.stage = x.stage /\ y.out = x.out
  BY <1>1 DEF HasBody
<1>2. CASE x.stage = "reading" /\ y.stage \in {"ready", "done"} /\
           \E m \in Messages : m.op \in {"size", "complete"} /\ y.out = Append(x.out, m)
  BY <1>2, FirstSaid DEF HasBody
<1>3. \/ y.stage = x.stage /\ y.out = x.out
      \/ x.stage = "reading" /\ y.stage = "ready" /\ y.out = Append(x.out, Message("size", TRUE))
      \/ x.stage = "reading" /\ y.stage = "done" /\
           \E ok \in BOOLEAN : y.out = Append(x.out, Message("complete", ok))
  BY DEF HasBody, Moves
<1>4. CASE x.stage = "reading" /\ y.stage = "ready" /\ y.out = Append(x.out, Message("size", TRUE))
  <2> DEFINE yes == TRUE
             m == Message("size", yes)
  <2>1. m \in Messages /\ m.op = "size" /\ y.out = Append(x.out, m)
    BY <1>4, MessageIs
  <2> HIDE DEF m
  <2> QED
    BY <1>2, <1>4, <2>1
<1>5. CASE x.stage = "reading" /\ y.stage = "done" /\
           \E ok \in BOOLEAN : y.out = Append(x.out, Message("complete", ok))
  <2>1. PICK ok \in BOOLEAN : y.out = Append(x.out, Message("complete", ok))
    BY <1>5
  <2> DEFINE m == Message("complete", ok)
  <2>2. m \in Messages /\ m.op = "complete" /\ y.out = Append(x.out, m)
    BY <2>1, MessageIs
  <2> HIDE DEF m
  <2> QED
    BY <1>2, <1>5, <2>2
<1> QED
  BY <1>1, <1>3, <1>4, <1>5

LEMMA LiveMoves ==
  ASSUME NEW p, NEW x, NEW t, LoadFits(x), LiveFits(p, x, t), NEW y, Moves(x, y)
  PROVE  LiveFits(p, y, t)
<1>1. UrlFits(p, y, t)
  <2>1. CASE x.stage = "done"
    <3>1. y.stage = x.stage /\ y.out = x.out
      BY <2>1 DEF Moves
    <3> QED
      BY <3>1 DEF LiveFits, UrlFits
  <2>2. CASE x.stage # "done"
    BY <2>2 DEF LiveFits, UrlFits
  <2> QED
    BY <2>1, <2>2
<1>2. p.via # "none" => BoundFits(p, y, t)
  <2> SUFFICES ASSUME p.via # "none"
               PROVE  BoundFits(p, y, t)
    OBVIOUS
  <2>1. BoundFits(p, x, t)
    BY DEF LiveFits
  <2>2. x.stage \in {"answering", "responding", "netBody", "done"} =>
          y.stage = x.stage /\ y.out = x.out
    BY DEF Moves
  <2>3. Responds(x, p.via) => Responds(y, p.via)
    BY <2>2 DEF Responds
  <2>4. IsOver(x) => IsOver(y)
    BY <2>2 DEF IsOver
  <2>5. Unheard(x, p.via) => Unheard(y, p.via)
    BY UnheardMoves
  <2>6. HasBody(x) => HasBody(y)
    BY BodyMoves
  <2>7. x.stage = "answering" /\ x.out = <<>> => y.stage = "answering" /\ y.out = <<>>
    BY <2>2
  <2> QED
    BY <2>1, <2>3, <2>4, <2>5, <2>6, <2>7 DEF BoundFits
<1> QED
  BY <1>1, <1>2 DEF LiveFits

\* A task, a message or an answer of any loader.
LEMMA MovesKept ==
  ASSUME NEW w, Fits(w), NEW i \in 1 .. MaxLoads, w.ls[i] # NewLoad,
         NEW y, Moves(w.ls[i], y)
  PROVE  Kept(w.told, At(w, i, y))
<1>1. CASE i # w.q.load
  BY <1>1, OldLoadKept
<1>2. CASE i = w.q.load
  <2> DEFINE x == w.ls[i]
  <2>1. w.q.life \in {"live", "waiting", "gone"}
    <3>1. w.q \in RequestTypes /\ w.q.life # "none"
      BY <1>2, RequestAssumption DEF Fits, WTypes, LifeFits
    <3> QED
      BY <3>1 DEF RequestTypes, Lives
  <2>2. Load(w) = x /\ LoadFits(y) /\ LoadFits(x)
    BY <1>2 DEF Load, Moves, Fits, LoadsFit
  <2> HIDE DEF x
  <2>3. CASE w.q.life \in {"waiting", "gone"}
    BY <1>2, <2>2, <2>3, OverLoadKept
  <2>4. CASE w.q.life = "live"
    <3>1. Formed(w, w.q, x, w.told) /\ Alive(w.q) /\ LiveFits(w.q, x, w.told)
      BY <2>2, <2>4, LiveIs
    <3>2. LiveFits(w.q, y, w.told)
      BY <2>2, <3>1, LiveMoves DEF x
    <3> QED
      BY <1>2, <2>2, <3>1, <3>2, LiveLoadKept
  <2> QED
    BY <2>1, <2>3, <2>4
<1> QED
  BY <1>1, <1>2

\* What a continued load leaves of its request.
SameRequestBut(p, o) ==
  /\ o.life = p.life /\ o.load = p.load /\ o.client = p.client /\ o.completed = p.completed
  /\ o.limit = p.limit /\ o.via = p.via /\ o.hredir = p.hredir /\ o.curh = p.curh
  /\ o.down = p.down /\ o.cont = p.cont /\ o.hop = p.hop /\ o.state = p.state
  /\ o.handler = p.handler /\ o.completes = p.completes /\ o.ready = p.ready

\* OnBeforeSendHeaders
LEMMA SendHeadersKept ==
  ASSUME NEW w, Fits(w), w.q.via # "none", Load(w).stage = "asking",
         NEW r, r = [Put(w, ContinueWithRequestHeaders(Load(w))) EXCEPT !.q.paused = FALSE]
  PROVE  Kept(w.told, r)
<1> DEFINE p == w.q
           x == Load(w)
           t == w.told
           z == ContinueWithRequestHeaders(x)
           y == Put(w, z)
           o == [p EXCEPT !.paused = FALSE]
<1>1. p.life = "live"
  BY DEF Fits, LifeFits
<1>2. Formed(w, p, x, t) /\ Alive(p) /\ LiveFits(p, x, t)
  BY <1>1, LiveIs
<1>3. p \in RequestTypes /\ LoadFits(x)
  BY <1>2, FormedTypes
<1>4. BoundFits(p, x, t) /\ (p.hredir => HeaderClient)
  BY <1>2 DEF LiveFits, UrlFits
<1>5. /\ p.state /\ ~p.hop /\ p.cont.to = "none" /\ WaitsIn(t) /\ x.out = <<>>
      /\ p.via = "stream"
  BY <1>4 DEF BoundFits, Unheard, Responds, IsOver, HasBody
<1>6. LoadFits(z) /\ z.stage = "opening" /\ z.out = <<>>
  BY <1>3, <1>5, SendHeadersKeeps DEF Restaged
<1>6a. r = [y EXCEPT !.q.paused = FALSE]
  OBVIOUS
<1> HIDE DEF z
<1>7. Formed(y, p, z, t)
  BY <1>2, <1>6, PutForms
<1>8. r = [y EXCEPT !.q = o]
  <2>1. y.q = p /\ y \in WTypes
    BY <1>7 DEF Formed
  <2> HIDE DEF y, p
  <2> QED
    BY <1>6a, <2>1 DEF WTypes
<1>9. o \in RequestTypes
  <2> HIDE DEF p
  <2> QED
    BY <1>3, Zenon DEF RequestTypes
<1>10. SameRequestBut(p, o) /\ o.paused = FALSE
  <2> HIDE DEF p
  <2> QED
    BY <1>3 DEF RequestTypes, SameRequestBut
<1> HIDE DEF o, y, p, x, t
<1>11. Formed(r, o, z, t)
  <2>1. o.load = p.load
    BY <1>10 DEF SameRequestBut
  <2>2. Formed([y EXCEPT !.q = o], o, z, t)
    BY <1>7, <1>9, <2>1, RequestForms
  <2> QED
    BY <1>8, <2>2
<1>12. Alive(o)
  BY <1>2, <1>10 DEF Alive, WrapperFits, SameRequestBut
<1>13. Unheard(z, o.via) /\ UrlFits(o, z, t)
  BY <1>4, <1>5, <1>6, <1>10 DEF Unheard, UrlFits, SameRequestBut
<1>14. LiveFits(o, z, t)
  BY <1>2, <1>5, <1>10, <1>13 DEF LiveFits, BoundFits, SameRequestBut
<1>15. Fits(r) /\ r.told = t
  BY <1>11, <1>12, <1>14, StillFits
<1> QED
  BY <1>15 DEF Kept, Hears, t

\* The loader of a live request goes on.
LEMMA BoundKept ==
  ASSUME NEW w, Fits(w), w.q.via # "none", NEW y, LoadFits(y),
         BoundFits(w.q, y, w.told), Load(w).stage # "done"
  PROVE  Kept(w.told, At(w, w.q.load, y))
<1>1. w.q.life = "live"
  BY DEF Fits, LifeFits
<1>2. Formed(w, w.q, Load(w), w.told) /\ Alive(w.q) /\ LiveFits(w.q, Load(w), w.told)
  BY <1>1, LiveIs
<1>3. LiveFits(w.q, y, w.told)
  BY <1>2 DEF LiveFits, UrlFits
<1> QED
  BY <1>2, <1>3, LiveLoadKept

LEMMA BoundIs ==
  ASSUME NEW w, Fits(w), w.q.via # "none"
  PROVE  BoundFits(w.q, Load(w), w.told) /\ LoadFits(Load(w))
<1>1. w.q.life = "live"
  BY DEF Fits, LifeFits
<1>2. Formed(w, w.q, Load(w), w.told) /\ LiveFits(w.q, Load(w), w.told)
  BY <1>1, LiveIs
<1> QED
  BY <1>2, FormedTypes DEF LiveFits

LEMMA BodyRead ==
  ASSUME NEW w, Fits(w), w.q.via # "none", Load(w).stage = "ready", NEW y \in ReadMore(Load(w))
  PROVE  Kept(w.told, At(w, w.q.load, y))
<1> DEFINE p == w.q
           x == Load(w)
           t == w.told
<1>1. BoundFits(p, x, t) /\ LoadFits(x)
  BY BoundIs
<1>2. /\ p.state /\ ~p.hop /\ p.cont.to = "none" /\ ~p.paused /\ SaidIn(t, "response")
      /\ HasBody(x)
  BY <1>1 DEF BoundFits, Unheard, Responds, IsOver
<1>3. \/ Restaged(y, "reading", x.out)
      \/ \E ok \in BOOLEAN : Restaged(y, "done", Append(x.out, Message("complete", ok)))
  BY <1>1, ReadMoreKeeps
<1> HIDE DEF p, x, t
<1>4. LoadFits(y) /\ HasBody(y)
  <2>1. CASE Restaged(y, "reading", x.out)
    BY <1>2, <2>1 DEF Restaged, HasBody
  <2>2. CASE \E ok \in BOOLEAN : Restaged(y, "done", Append(x.out, Message("complete", ok)))
    <3>1. PICK ok \in BOOLEAN : Restaged(y, "done", Append(x.out, Message("complete", ok)))
      BY <2>2
    <3> DEFINE m == Message("complete", ok)
    <3>2. m \in Messages /\ m.op = "complete"
      BY MessageIs
    <3>3. y.stage = "done" /\ y.out = Append(x.out, m) /\ LoadFits(y)
      BY <3>1 DEF Restaged
    <3> HIDE DEF m
    <3> QED
      BY <1>1, <1>2, <3>2, <3>3, FirstSaid DEF HasBody
  <2> QED
    BY <1>3, <2>1, <2>2
<1>5. BoundFits(p, y, t)
  BY <1>2, <1>4 DEF BoundFits
<1> QED
  BY <1>4, <1>5, BoundKept DEF p, x, t

LEMMA NetworkAnswersKept ==
  ASSUME NEW w, Fits(w), w.q.via # "none", Load(w).stage = "net", NEW y,
         \/ y = RequestComplete(Load(w), FALSE)
         \/ \E h \in {"ok", "redirect"} :
              \/ HeaderClient /\ y = [Load(w) EXCEPT !.stage = "answering", !.hdr = h]
              \/ y = NetworkHeaders(Load(w), h = "redirect")
  PROVE  Kept(w.told, At(w, w.q.load, y))
<1> DEFINE p == w.q
           x == Load(w)
           t == w.told
<1>1. BoundFits(p, x, t) /\ LoadFits(x)
  BY BoundIs
<1>2. /\ p.state /\ ~p.hop /\ p.cont.to = "none" /\ ~p.paused /\ WaitsIn(t)
      /\ x.out = <<>> /\ p.via = "network" /\ x.stage = "net"
  BY <1>1 DEF BoundFits, Unheard, Responds, IsOver, HasBody
<1> HIDE DEF p, x, t
<1>3. CASE y = RequestComplete(x, FALSE)
  <2> DEFINE no == FALSE
             m == Message("complete", no)
  <2>1. no \in BOOLEAN /\ y = RequestComplete(x, no) /\ m \in Messages
    BY <1>3, MessageIs
  <2>2. m = Message("complete", FALSE)
    OBVIOUS
  <2> HIDE DEF no
  <2>3. LoadFits(y) /\ y.stage = "done" /\ y.out = Append(x.out, m)
    BY <1>1, <2>1, CompleteKeeps
  <2> HIDE DEF m
  <2>4. y.out = <<m>>
    BY <1>1, <1>2, <2>1, <2>3, FirstSaid
  <2>5. LoadFits(y) /\ Unheard(y, p.via)
    BY <2>2, <2>3, <2>4 DEF Unheard
  <2> QED
    BY <1>2, <2>5, BoundKept DEF BoundFits, p, x, t
<1>4. ASSUME NEW h \in {"ok", "redirect"}, HeaderClient,
             y = [x EXCEPT !.stage = "answering", !.hdr = h]
      PROVE  Kept(w.told, At(w, w.q.load, y))
  <2>1. Restaged(y, "answering", x.out)
    BY <1>1, <1>2, <1>4, NetworkAsks
  <2>2. LoadFits(y) /\ Unheard(y, p.via)
    BY <1>2, <1>4, <2>1 DEF Restaged, Unheard
  <2> QED
    BY <1>2, <2>2, BoundKept DEF BoundFits, p, x, t
<1>5. ASSUME NEW h \in {"ok", "redirect"}, y = NetworkHeaders(x, h = "redirect")
      PROVE  Kept(w.told, At(w, w.q.load, y))
  <2> DEFINE redirect == h = "redirect"
  <2>1. redirect \in BOOLEAN /\ y = NetworkHeaders(x, redirect)
    BY <1>5
  <2> HIDE DEF redirect
  <2>2. Headed(x, y, "netBody", redirect)
    BY <1>1, <1>2, <2>1, NetworkHeadersKeep
  <2>3. CASE Restaged(y, "netBody", Append(x.out, Message("response", TRUE)))
    <3> DEFINE yes == TRUE
               m == Message("response", yes)
    <3>1. m \in Messages /\ y.out = Append(x.out, m) /\ m = Message("response", TRUE)
      BY <2>3, MessageIs DEF Restaged
    <3> HIDE DEF m
    <3>2. y.out = <<m>>
      BY <1>1, <1>2, <3>1, FirstSaid
    <3>3. LoadFits(y) /\ Unheard(y, p.via)
      BY <1>2, <2>3, <3>1, <3>2 DEF Unheard, Restaged
    <3> QED
      BY <1>2, <3>3, BoundKept DEF BoundFits, p, x, t
  <2>4. CASE \E ok \in BOOLEAN : Restaged(y, "done", Append(x.out, Message("redirect", ok)))
    <3>1. PICK ok \in BOOLEAN : Restaged(y, "done", Append(x.out, Message("redirect", ok)))
      BY <2>4
    <3> DEFINE m == Message("redirect", ok)
    <3>2. m \in Messages /\ y.out = Append(x.out, m) /\ m = Message("redirect", ok)
      BY <3>1, MessageIs DEF Restaged
    <3> HIDE DEF m
    <3>3. y.out = <<m>>
      BY <1>1, <1>2, <3>2, FirstSaid
    <3>4. LoadFits(y) /\ Unheard(y, p.via)
      BY <3>1, <3>2, <3>3 DEF Unheard, Restaged
    <3> QED
      BY <1>2, <3>4, BoundKept DEF BoundFits, p, x, t
  <2> QED
    BY <2>2, <2>3, <2>4 DEF Headed
<1> QED
  BY <1>3, <1>4, <1>5 DEF x

LEMMA NetworkCompletesKept ==
  ASSUME NEW w, Fits(w), w.q.via # "none", Load(w).stage = "netBody", NEW ok \in BOOLEAN,
         NEW y, y = RequestComplete(Load(w), ok)
  PROVE  Kept(w.told, At(w, w.q.load, y))
<1> DEFINE p == w.q
           x == Load(w)
           t == w.told
           m == Message("complete", ok)
           yes == TRUE
           k == Message("response", yes)
<1>1. BoundFits(p, x, t) /\ LoadFits(x)
  BY BoundIs
<1>2. m \in Messages /\ m.op = "complete" /\ k \in Messages
  BY MessageIs
<1>3. LoadFits(y) /\ y.stage = "done" /\ y.out = Append(x.out, m)
  BY <1>1, CompleteKeeps
<1>4. m = Message("complete", ok) /\ k = Message("response", TRUE)
  OBVIOUS
<1> HIDE DEF m, k
<1>5. /\ x.out = <<>> => y.out = <<m>>
      /\ x.out = <<k>> => y.out = <<k, m>>
      /\ HasBody(x) => HasBody(y)
  <2>1. /\ x.out = <<>> => y.out = <<m>>
        /\ x.out = <<k>> => y.out = <<k, m>>
    <3> HIDE DEF x
    <3> QED
      BY <1>1, <1>2, <1>3, FirstSaid
  <2>2. HasBody(x) => HasBody(y)
    <3> HIDE DEF x
    <3> QED
      BY <1>1, <1>2, <1>3, FirstSaid DEF HasBody
  <2> QED
    BY <2>1, <2>2
<1>6. x.stage = "netBody"
  OBVIOUS
<1> HIDE DEF p, x, t
<1>7. Unheard(x, p.via) => Unheard(y, p.via)
  BY <1>3, <1>4, <1>5, <1>6 DEF Unheard
<1>8. Responds(x, p.via) => Responds(y, p.via)
  BY <1>3, <1>4, <1>5, <1>6 DEF Responds
<1>9. BoundFits(p, y, t)
  BY <1>1, <1>5, <1>6, <1>7, <1>8 DEF BoundFits, IsOver
<1> QED
  BY <1>3, <1>6, <1>9, BoundKept DEF p, x, t

LEMMA DisconnectsKept ==
  ASSUME NEW w, Fits(w), w.q.life = "waiting", NEW y, y = CleanUp(Load(w))
  PROVE  Kept(w.told, At(w, w.q.load, y))
<1>1. LoadFits(Load(w))
  <2>1. Formed(w, w.q, Load(w), w.told)
    BY OverHas
  <2> QED
    BY <2>1, FormedTypes
<1>2. LoadFits(y)
  BY <1>1, CleanUpKeeps DEF Restaged
<1> QED
  BY <1>2, OverLoadKept

\* OpenFails, for the request: its input stream was not opened.
LEMMA OpenFailedKept ==
  ASSUME NEW w, Fits(w), NEW i \in 1 .. MaxLoads, NEW x, x = w.ls[i], x.back # <<>>,
         x.stage = "opening",
         NEW v, v = Put(w, [x EXCEPT !.back = Tail(@), !.cb = FALSE]),
         NEW r,
         \/ w.q.life = "waiting" /\ r = Fails(v, "proxy_url_loader_factory.cc:392")
         \/ w.q.life # "waiting" /\ r = SendError(v)
  PROVE  Kept(w.told, r)
<1> DEFINE p == w.q
           t == w.told
           a == [x EXCEPT !.back = Tail(@)]
           b == Head(x.back)
           y == [a EXCEPT !.cb = FALSE]
<1>1. w \in WTypes /\ LoadsFit(w) /\ LifeFits(w) /\ WrapperFits(p) /\ p \in RequestTypes
  BY DEF Fits, WTypes
<1>2. i = p.load /\ Load(w) = x /\ LoadFits(x) /\ p.load # 0
  <2>1. i = p.load
    BY <1>1 DEF LoadsFit
  <2> QED
    BY <1>1, <2>1, RequestAssumption DEF LoadsFit, Load
<1>3. Formed(w, p, x, t)
  BY <1>1, <1>2, FormedIs
<1>4. LoadFits(a) /\ a.stage = "opening"
  <2>1. BackTakes(x, a, b)
    BY DEF BackTakes
  <2>2. Taken(x, a, b)
    BY <1>2, <2>1, BackTaken
  <2> QED
    BY <2>2 DEF Taken, Keeps
<1>5. v = Put(w, y)
  <2>1. [x EXCEPT !.back = Tail(@), !.cb = FALSE] = y
    BY <1>2 DEF LoadFits, LoadTypes
  <2> QED
    BY <2>1
<1> HIDE DEF a, b
<1>6. LoadFits(y)
  BY <1>4, CbTaken
<1> HIDE DEF y
<1>7. Formed(v, p, y, t)
  BY <1>3, <1>5, <1>6, PutForms
<1>8. CASE p.life = "waiting"
  <2> DEFINE line == "proxy_url_loader_factory.cc:392"
  <2>1. Over(p, t)
    BY <1>8, OverHas
  <2>2. r = Fails(v, line) /\ line \in Lines
    BY <1>8 DEF Lines
  <2> HIDE DEF line, p, t
  <2>3. PICK d : Formed(r, d, y, t) /\ SameRequest(p, d)
    BY <1>7, <2>2, FailsForms
  <2>4. WrapperFits(d) /\ Over(d, t)
    BY <1>1, <2>1, <2>3 DEF WrapperFits, Over, SameLoad, SameRequest
  <2> QED
    BY <2>3, <2>4, OverStays DEF t
<1>9. CASE p.life = "gone"
  <2> DEFINE status == "failure"
  <2>1. Over(p, t)
    BY <1>9, OverHas
  <2>2. r = OnDestroy(v, status) /\ status \in {"success", "failure"}
    BY <1>9 DEF SendError
  <2>3. p.curh <= p.load /\ ~p.client /\ EndedIn(t)
    BY <2>1 DEF Over
  <2> HIDE DEF status, p, t
  <2>4. Gone(r, p, t, status)
    BY <1>1, <1>7, <2>2, <2>3, DestroyKeeps
  <2> QED
    BY <2>3, <2>4 DEF Gone, Kept, Hears, t
<1>10. CASE p.life = "live"
  <2>1. Alive(p) /\ LiveFits(p, x, t)
    BY <1>2, <1>10, LiveIs
  <2>2. ~EndedIn(t) /\ r = SendError(v)
    BY <1>10, <2>1, LiveTold
  <2> HIDE DEF p, t
  <2> QED
    BY <1>7, <2>1, <2>2, ErrorKept DEF t
<1>11. p.life \in {"live", "waiting", "gone"}
  BY <1>1, <1>2 DEF LifeFits, RequestTypes, Lives
<1> QED
  BY <1>8, <1>9, <1>10, <1>11

-----------------------------------------------------------------------------
(* Every step.                                                               *)

Became(r) == req' = r.q /\ loads' = r.ls /\ told' = r.told

LEMMA StateIs ==
  State.q = req /\ State.ls = loads /\ State.told = told /\ Load(State) = Current
BY DEF State, Load, Current

LEMMA BecameKept ==
  ASSUME NEW r, Became(r), Kept(told, r)
  PROVE  Kept(told, State')
<1>1. r \in WTypes
  BY DEF Kept, Fits
<1>2. r = [q |-> r.q, ls |-> r.ls, told |-> r.told]
  BY <1>1 DEF WTypes
<1>3. State' = r
  BY <1>2 DEF Became, State
<1> QED
  BY <1>3

LEMMA LoadKept ==
  ASSUME NEW i, NEW y, LoadTo(i, y), Kept(told, At(State, i, y))
  PROVE  Kept(told, State')
<1> DEFINE r == At(State, i, y)
<1>1. r.q = req /\ r.ls = [loads EXCEPT ![i] = y] /\ r.told = told
  BY DEF At, State
<1>2. Became(r)
  BY <1>1 DEF Became, LoadTo
<1> HIDE DEF r
<1> QED
  BY <1>2, BecameKept DEF r

LEMMA RequestSteps ==
  ASSUME Fits(State),
         \/ CreateLoaderAndStart \/ SetInitialized \/ OnDestroyed
         \/ ContinueCreateURLLoaderNetworkObserver \/ CookiesDone \/ ResourceDecided
         \/ OnFilterError \/ FollowRedirect \/ OnURLLoaderClientError \/ OnURLLoaderError
         \/ Receive \/ ReceiveHeaders \/ OnBeforeSendHeaders
  PROVE  Kept(told, State')
<1> DEFINE w == State
<1>1. w.q = req /\ w.ls = loads /\ w.told = told /\ Load(w) = Current /\ Fits(w)
  BY StateIs
<1>2. \E r : Became(r) /\ Kept(told, r)
  <2>1. CASE CreateLoaderAndStart
    <3>1. /\ req.life = "none"
          /\ \E r \in Restart([w EXCEPT !.q.life = "live"]) : Became(r)
      BY <2>1 DEF CreateLoaderAndStart, Becomes, Became
    <3> HIDE DEF w
    <3> QED
      BY <1>1, <3>1, StartKept
  <2>2. CASE OnDestroyed
    <3>1. \E r : r = Destroyed(w) /\ Became(r)
      BY <2>2 DEF OnDestroyed, Becomes, Became
    <3> HIDE DEF w
    <3> QED
      BY <1>1, <3>1, DestroyedKept
  <2>3. CASE SetInitialized
    <3>1. ~req.ready
      BY <2>3 DEF SetInitialized
    <3>2. \/ \E r : r = Destroyed(w) /\ Became(r)
          \/ \E r \in IF w.q.cont.to = "init"
                      THEN OnBeforeRequest([Ready(w) EXCEPT !.q.cont = Nobody]) ELSE {Ready(w)} :
               Became(r)
      <4>1. \/ Becomes({Destroyed(w)})
            \/ Becomes(IF w.q.cont.to = "init"
                       THEN OnBeforeRequest([Ready(w) EXCEPT !.q.cont = Nobody]) ELSE {Ready(w)})
        BY <1>1, <2>3 DEF SetInitialized, Ready
      <4> HIDE DEF w
      <4> QED
        BY <4>1 DEF Becomes, Became
    <3> HIDE DEF w
    <3>3. CASE \E r : r = Destroyed(w) /\ Became(r)
      BY <1>1, <3>3, DestroyedKept
    <3>4. CASE \E r \in IF w.q.cont.to = "init"
                        THEN OnBeforeRequest([Ready(w) EXCEPT !.q.cont = Nobody]) ELSE {Ready(w)} :
                 Became(r)
      BY <1>1, <3>1, <3>4, InitializedKept
    <3> QED
      BY <3>2, <3>3, <3>4
  <2>4. CASE ContinueCreateURLLoaderNetworkObserver
    <3>1. req.hop /\ \E r \in ObserverCreated(w) : Became(r)
      BY <2>4 DEF ContinueCreateURLLoaderNetworkObserver, Becomes, Became
    <3> HIDE DEF w
    <3> QED
      BY <1>1, <3>1, ObserverCreatedKept
  <2>5. CASE CookiesDone \/ ResourceDecided
    <3>1. /\ req.cont.to \in {"cookies", "resource", "headers", "response", "redirect"}
          /\ \E r \in Continued(w) : Became(r)
      BY <2>5 DEF CookiesDone, ResourceDecided, Becomes, Became
    <3> HIDE DEF w
    <3> QED
      BY <1>1, <3>1, ContinuedKept
  <2>6. CASE OnFilterError
    <3>1. \E r : r = CancelRequest(w) /\ Became(r)
      BY <2>6 DEF OnFilterError, Becomes, Became
    <3> HIDE DEF w
    <3> QED
      BY <1>1, <3>1, FilterErrorKept
  <2>7. CASE FollowRedirect
    <3>1. /\ req.life = "live" /\ req.load < MaxLoads /\ SaidIn(told, "redirect")
          /\ \E r \in Restart(Tell(w, "follow")) : Became(r)
      BY <2>7 DEF FollowRedirect, Redirected, SaidIn, Becomes, Became
    <3> HIDE DEF w
    <3> QED
      BY <1>1, <3>1, FollowKept
  <2>8. CASE OnURLLoaderClientError
    <3>1. req.life = "live" /\ \E r : r = CallOnComplete(w, "failure", TRUE) /\ Became(r)
      BY <2>8 DEF OnURLLoaderClientError, Becomes, Became
    <3> HIDE DEF w
    <3> QED
      BY <1>1, <3>1, ClientErrorKept
  <2>9. CASE OnURLLoaderError
    <3>1. req.life \in {"live", "waiting"}
      BY <2>9 DEF OnURLLoaderError
    <3>2. Becomes({IF w.q.client THEN ErrorNoted(w) ELSE OnDestroy(ErrorNoted(w), "failure")})
      BY <1>1, <2>9 DEF OnURLLoaderError, ErrorNoted
    <3> HIDE DEF w
    <3>3. \E r : /\ r = IF w.q.client THEN ErrorNoted(w) ELSE OnDestroy(ErrorNoted(w), "failure")
                 /\ Became(r)
      BY <3>2 DEF Becomes, Became
    <3> QED
      BY <1>1, <3>1, <3>3, LoaderErrorKept
  <2>10. CASE Receive
    <3>1. /\ req.via # "none" /\ ~req.paused /\ Current.out # <<>>
          /\ \E r \in OnMessage(w) : Became(r)
      BY <2>10 DEF Receive, Bound, Becomes, Became
    <3> HIDE DEF w
    <3> QED
      BY <1>1, <3>1, MessageKept
  <2>11. CASE ReceiveHeaders
    <3>1. /\ req.via # "none" /\ Current.stage = "answering" /\ req.curh # req.load
          /\ \E r \in OnHeadersReceived(w) : Became(r)
      BY <2>11 DEF ReceiveHeaders, Bound, Becomes, Became
    <3> HIDE DEF w
    <3> QED
      BY <1>1, <3>1, HeadersReceivedKept
  <2>12. CASE OnBeforeSendHeaders
    <3>1. req.via # "none" /\ Current.stage = "asking"
      BY <2>12 DEF OnBeforeSendHeaders, Bound
    <3>2. Becomes({[Put(w, ContinueWithRequestHeaders(Load(w))) EXCEPT !.q.paused = FALSE]})
      BY <1>1, <2>12 DEF OnBeforeSendHeaders
    <3> HIDE DEF w
    <3>3. \E r : /\ r = [Put(w, ContinueWithRequestHeaders(Load(w))) EXCEPT !.q.paused = FALSE]
                 /\ Became(r)
      BY <3>2 DEF Becomes, Became
    <3> QED
      BY <1>1, <3>1, <3>3, SendHeadersKept
  <2> QED
    BY <2>1, <2>2, <2>3, <2>4, <2>5, <2>6, <2>7, <2>8, <2>9, <2>10, <2>11, <2>12
<1> QED
  BY <1>2, BecameKept

LEMMA LoaderSteps ==
  ASSUME Fits(State),
         ReadMoreBody \/ NetworkAnswers \/ NetworkCompletes \/ LoaderDisconnects
  PROVE  Kept(told, State')
<1> DEFINE w == State
<1>1. w.q = req /\ w.ls = loads /\ w.told = told /\ Load(w) = Current /\ Fits(w)
  BY StateIs
<1>2. CASE ReadMoreBody
  <2>1. PICK y \in ReadMore(Current) : LoadTo(req.load, y)
    BY <1>2 DEF ReadMoreBody
  <2>2. req.via # "none" /\ Current.stage = "ready"
    BY <1>2 DEF ReadMoreBody, Bound
  <2> HIDE DEF w
  <2>3. Kept(told, At(w, req.load, y))
    BY <1>1, <2>1, <2>2, BodyRead
  <2> QED
    BY <2>1, <2>3, LoadKept DEF w
<1>3. CASE NetworkAnswers
  <2>1. req.via # "none" /\ Current.stage = "net"
    BY <1>3 DEF NetworkAnswers, Bound
  <2>2. \E y : /\ LoadTo(req.load, y)
               /\ \/ y = RequestComplete(Current, FALSE)
                  \/ \E h \in {"ok", "redirect"} :
                       \/ HeaderClient /\ y = [Current EXCEPT !.stage = "answering", !.hdr = h]
                       \/ y = NetworkHeaders(Current, h = "redirect")
    BY <1>3 DEF NetworkAnswers
  <2>3. PICK y : /\ LoadTo(req.load, y)
                 /\ \/ y = RequestComplete(Current, FALSE)
                    \/ \E h \in {"ok", "redirect"} :
                         \/ HeaderClient /\ y = [Current EXCEPT !.stage = "answering", !.hdr = h]
                         \/ y = NetworkHeaders(Current, h = "redirect")
    BY <2>2
  <2> HIDE DEF w
  <2>4. Kept(told, At(w, req.load, y))
    BY <1>1, <2>1, <2>3, NetworkAnswersKept
  <2> QED
    BY <2>3, <2>4, LoadKept DEF w
<1>4. CASE NetworkCompletes
  <2>1. PICK ok \in BOOLEAN : LoadTo(req.load, RequestComplete(Current, ok))
    BY <1>4 DEF NetworkCompletes
  <2>2. req.via # "none" /\ Current.stage = "netBody"
    BY <1>4 DEF NetworkCompletes, Bound
  <2> DEFINE y == RequestComplete(Current, ok)
  <2>3. y = RequestComplete(Load(w), ok)
    BY <1>1
  <2>4. LoadTo(req.load, y)
    BY <2>1
  <2> HIDE DEF w, y
  <2>5. Kept(told, At(w, req.load, y))
    BY <1>1, <2>2, <2>3, NetworkCompletesKept
  <2> QED
    BY <2>4, <2>5, LoadKept DEF w
<1>5. CASE LoaderDisconnects
  <2> DEFINE y == CleanUp(Current)
  <2>1. req.life = "waiting" /\ LoadTo(req.load, y) /\ y = CleanUp(Load(w))
    BY <1>1, <1>5 DEF LoaderDisconnects
  <2> HIDE DEF w, y
  <2>2. Kept(told, At(w, req.load, y))
    BY <1>1, <2>1, DisconnectsKept
  <2> QED
    BY <2>1, <2>2, LoadKept DEF w
<1> QED
  BY <1>2, <1>3, <1>4, <1>5

LEMMA StreamSteps ==
  ASSUME Fits(State), Streams
  PROVE  Kept(told, State')
<1> DEFINE w == State
<1>1. w.q = req /\ w.ls = loads /\ w.told = told /\ Load(w) = Current /\ Fits(w)
  BY StateIs
<1>2. DOMAIN loads = 1 .. MaxLoads /\ \A i \in 1 .. MaxLoads : LoadFits(loads[i])
  BY <1>1 DEF Fits, WTypes, LoadsFit
<1>3. PICK i \in 1 .. MaxLoads :
        StreamWork(i) \/ StreamBack(i) \/ OpenFails(i) \/ StreamAnswer(i) \/ HandlerCanceled(i)
  BY <1>2 DEF Streams
<1> DEFINE x == loads[i]
<1>4. LoadFits(x) /\ w.ls[i] = x
  BY <1>1, <1>2
<1>5. ASSUME NEW y, LoadTo(i, y), Moves(x, y), x # NewLoad
      PROVE  Kept(told, State')
  <2> HIDE DEF w
  <2>1. Kept(told, At(w, i, y))
    BY <1>1, <1>4, <1>5, MovesKept
  <2> QED
    BY <1>5, <2>1, LoadKept DEF w
<1>6. CASE StreamWork(i)
  <2>1. PICK y \in Work(x) : LoadTo(i, y)
    BY <1>6 DEF StreamWork
  <2>2. x.work # <<>> /\ x # NewLoad
    BY <1>6 DEF StreamWork, NewLoad
  <2> HIDE DEF x
  <2>3. Moves(x, y)
    BY <1>4, <2>1, <2>2, WorkKeeps, QuietMoves
  <2> QED
    BY <1>5, <2>1, <2>2, <2>3
<1>7. ASSUME x.back # <<>>, NEW y \in Back(x), LoadTo(i, y)
      PROVE  Kept(told, State')
  <2>1. x # NewLoad
    BY <1>7 DEF NewLoad
  <2> HIDE DEF x
  <2>2. Moves(x, y)
    BY <1>4, <1>7, BackKeeps
  <2> QED
    BY <1>5, <1>7, <2>1, <2>2
<1>8. CASE StreamBack(i)
  <2>1. x.back # <<>> /\ \E y \in Back(x) : LoadTo(i, y)
    BY <1>8 DEF StreamBack
  <2> QED
    BY <1>7, <2>1
<1>9. CASE StreamAnswer(i)
  <2>1. PICK cb \in x.held : \E z \in Answer(x, cb) : LoadTo(i, z)
    BY <1>9 DEF StreamAnswer
  <2>2. PICK y \in Answer(x, cb) : LoadTo(i, y)
    BY <2>1
  <2>3. x # NewLoad
    BY <2>1 DEF NewLoad
  <2> HIDE DEF x
  <2>4. Moves(x, y)
    BY <1>4, <2>1, <2>2, AnswerKeeps, QuietMoves
  <2> QED
    BY <1>5, <2>2, <2>3, <2>4
<1>10. CASE HandlerCanceled(i)
  <2> DEFINE y == [x EXCEPT !.life = "canceled", !.held = {}]
  <2>1. LoadTo(i, y) /\ x.life = "detached" /\ x # NewLoad
    BY <1>10 DEF HandlerCanceled, NewLoad
  <2>2. y = [x EXCEPT !.life = "canceled", !.held = {}]
    OBVIOUS
  <2> HIDE DEF x, y
  <2>3. Moves(x, y)
    BY <1>4, <2>2, HandlerCanceledKeeps, QuietMoves
  <2> QED
    BY <1>5, <2>1, <2>3
<1>11. CASE OpenFails(i)
  <2> DEFINE v == Put(w, [x EXCEPT !.back = Tail(@), !.cb = FALSE])
  <2>1. x.back # <<>> /\ x.stage = "opening"
    BY <1>11 DEF OpenFails
  <2>2. \/ req.life = "waiting" /\ Becomes({Fails(v, "proxy_url_loader_factory.cc:392")})
        \/ req.life # "waiting" /\ Becomes({SendError(v)})
        \/ \E y \in Back(x) : LoadTo(i, y)
    BY <1>11 DEF OpenFails
  <2>3. v = Put(w, [x EXCEPT !.back = Tail(@), !.cb = FALSE])
    OBVIOUS
  <2> HIDE DEF v, w, x
  <2>4. CASE req.life = "waiting" /\ Becomes({Fails(v, "proxy_url_loader_factory.cc:392")})
    <3>1. PICK r : r = Fails(v, "proxy_url_loader_factory.cc:392") /\ Became(r)
      BY <2>4 DEF Becomes, Became
    <3>2. Kept(told, r)
      BY <1>1, <1>4, <2>1, <2>3, <2>4, <3>1, OpenFailedKept
    <3> QED
      BY <3>1, <3>2, BecameKept
  <2>5. CASE req.life # "waiting" /\ Becomes({SendError(v)})
    <3>1. PICK r : r = SendError(v) /\ Became(r)
      BY <2>5 DEF Becomes, Became
    <3>2. Kept(told, r)
      BY <1>1, <1>4, <2>1, <2>3, <2>5, <3>1, OpenFailedKept
    <3> QED
      BY <3>1, <3>2, BecameKept
  <2>6. CASE \E y \in Back(x) : LoadTo(i, y)
    BY <1>7, <2>1, <2>6
  <2> QED
    BY <2>2, <2>4, <2>5, <2>6
<1> QED
  BY <1>3, <1>6, <1>8, <1>9, <1>10, <1>11

LEMMA StepKept ==
  ASSUME Fits(State), Next
  PROVE  Kept(told, State')
<1>1. CASE Streams
  BY <1>1, StreamSteps
<1>2. CASE ReadMoreBody \/ NetworkAnswers \/ NetworkCompletes \/ LoaderDisconnects
  BY <1>2, LoaderSteps
<1>3. CASE \/ CreateLoaderAndStart \/ SetInitialized \/ OnDestroyed
           \/ ContinueCreateURLLoaderNetworkObserver \/ CookiesDone \/ ResourceDecided
           \/ OnFilterError \/ FollowRedirect \/ OnURLLoaderClientError \/ OnURLLoaderError
           \/ Receive \/ ReceiveHeaders \/ OnBeforeSendHeaders
  BY <1>3, RequestSteps
<1> QED
  BY <1>1, <1>2, <1>3 DEF Next, System

LEMMA InitFits ==
  ASSUME Init
  PROVE  Fits(State)
<1>1. State.q = NewRequest /\ State.ls = [i \in 1 .. MaxLoads |-> NewLoad] /\ State.told = <<>>
  BY StateIs DEF Init
<1>2. NewLoad \in LoadTypes /\ LoadFits(NewLoad) /\ NewLoad.stage = "none"
  <2> DEFINE s == "none"
             f == NoRange
  <2>0. NewLoad.stage = s /\ NewLoad.first = f /\ NewLoad.life = s
    BY DEF NewLoad
  <2>1. NewLoad = [NewLoad EXCEPT !.stage = s, !.first = f, !.life = s]
    BY <2>0, NewLoadTyped DEF LoadTypes
  <2>2. NewLoad.stage = "none"
    BY DEF NewLoad
  <2>3. Fresh(NewLoad, s, f, s)
    BY <2>1 DEF Fresh
  <2> HIDE DEF s, f
  <2>4. FreshIs(NewLoad, s, f)
    BY <2>3, FreshFits
  <2> QED
    BY <2>2, <2>4, NewLoadTyped DEF FreshIs
<1>3. NewRequest \in RequestTypes
  BY NobodyIs, RequestAssumption DEF NewRequest, RequestTypes, Lives
<1>4. State \in WTypes
  BY <1>1, <1>2, <1>3 DEF State, WTypes
<1>5. LoadsFit(State)
  BY <1>1, <1>2 DEF LoadsFit
<1>6. NotStarted(State.q) /\ ~State.q.down
  <2>1. [NewRequest EXCEPT !.ready = NewRequest.ready, !.down = NewRequest.down] = NewRequest
    BY <1>3 DEF RequestTypes
  <2>2. NewRequest.down = FALSE
    BY DEF NewRequest
  <2> QED
    BY <1>1, <2>1, <2>2 DEF NotStarted
<1> QED
  BY <1>1, <1>4, <1>5, <1>6, NotStartedFits

-----------------------------------------------------------------------------
(* What holds of every request.                                              *)

\* Request, wrapper, loaders and readers stay well formed: how far the loader is,
\* who has to continue, what is in its pipe and what the client was told fit each
\* other, and one skip or read of a handler is under way at most.
THEOREM RequestFits == Spec => []Fits(State)
<1>1. Init => Fits(State)
  BY InitFits
<1>2. Fits(State) /\ [Next]_vars => Fits(State)'
  <2> SUFFICES ASSUME Fits(State), [Next]_vars
               PROVE  Fits(State')
    OBVIOUS
  <2>1. CASE Next
    BY <2>1, StepKept DEF Kept
  <2>2. CASE UNCHANGED vars
    <3>1. State' = State
      BY <2>2 DEF vars, State
    <3> QED
      BY <3>1
  <2> QED
    BY <2>1, <2>2
<1> QED
  BY <1>1, <1>2, PTL DEF Spec

\* RequestCorrect holds: the DCHECKs hold but for the two lines that are known to
\* fail, a handler is told once that the load is complete, and messages that are
\* held back have somebody who lets them through.
THEOREM RequestIsCorrect == Spec => []RequestCorrect
<1>1. Fits(State) => RequestCorrect
  <2> SUFFICES ASSUME Fits(State)
               PROVE  RequestCorrect
    OBVIOUS
  <2>1. /\ req \in RequestTypes /\ loads \in [1 .. MaxLoads -> LoadTypes]
        /\ LifeFits(State) /\ WrapperFits(req)
    BY StateIs DEF Fits, WTypes
  <2>2. TypeOK
    <3>1. /\ req.life \in Lives /\ req.load \in 0 .. MaxLoads
          /\ req.via \in {"none", "stream", "network"}
          /\ req.cont \in [to : Continuations, url : BOOLEAN] /\ req.limit \in 0 .. RedirectLimit
          /\ req.curh \in 0 .. MaxLoads
      BY <2>1 DEF RequestTypes
    <3>2. req.curh <= req.load /\ (req.via # "none" => req.life = "live")
      BY <2>1, StateIs DEF LifeFits
    <3>3. req.curh \in 0 .. req.load
      BY <3>1, <3>2, RequestAssumption
    <3>4. \A i \in DOMAIN loads :
            /\ loads[i].stage \in Stages /\ loads[i].at \in 0 .. Size /\ loads[i].left \in 0 .. Size
            /\ loads[i].life \in {"none", "attached", "detached", "canceled"}
      BY <2>1 DEF LoadTypes
    <3> QED
      BY <3>1, <3>2, <3>3, <3>4 DEF TypeOK
  <2>3. AssertionsHold
    BY <2>1 DEF AssertionsHold, RequestTypes, LoadTypes
  <2>4. CompleteOnce
    <3>1. req.completes \in {0, 1}
      BY <2>1 DEF RequestTypes
    <3>2. req.life = "gone" => ~req.state
      BY <2>1, StateIs DEF LifeFits
    <3> QED
      BY <2>1, <3>1, <3>2 DEF CompleteOnce, WrapperFits
  <2>5. PausedIsContinued
    <3> SUFFICES ASSUME req.life = "live", req.paused
                 PROVE  req.cont.to \in {"headers", "response", "redirect"}
      BY DEF PausedIsContinued
    <3>1. LiveFits(req, Current, told)
      BY <2>1, StateIs DEF LifeFits
    <3> QED
      BY <3>1 DEF LiveFits, FreeFits, BoundFits
  <2> QED
    BY <2>2, <2>3, <2>4, <2>5 DEF RequestCorrect
<1> QED
  BY <1>1, RequestFits, PTL

\* BodyInOrder holds: whichever ways to skip and to read a handler takes, and
\* whatever it answers late or twice, its client reads the bytes it asked for,
\* each once and in order.
THEOREM BodyIsInOrder == Spec => []BodyInOrder
<1>1. Fits(State) => BodyInOrder
  <2> SUFFICES ASSUME Fits(State), NEW i \in DOMAIN loads, NEW k \in DOMAIN loads[i].body
               PROVE  loads[i].body[k] =
                        k - 1 + (IF loads[i].first = NoRange THEN 0 ELSE loads[i].first)
    BY DEF BodyInOrder
  <2>1. i \in 1 .. MaxLoads /\ LoadFits(loads[i])
    <3>1. loads \in [1 .. MaxLoads -> LoadTypes] /\ LoadsFit(State)
      BY StateIs DEF Fits, WTypes
    <3> QED
      BY <3>1, StateIs DEF LoadsFit
  <2>2. loads[i].body \in Seq(Int)
    BY <2>1 DEF LoadFits, LoadTypes
  <2>3. k \in 1 .. Len(loads[i].body)
    BY <2>2, LenProperties
  <2> QED
    BY <2>1, <2>3 DEF LoadFits, BodyFits, Base
<1> QED
  BY <1>1, RequestFits, PTL

\* KeepsPromise holds: whatever loader serves a request, restarted, redirected or
\* canceled, its client hears what the client of a loader may.
THEOREM PromiseIsKept == Spec => KeepsPromise
<1>1. Init => Promised!Init
  BY DEF Init, Promised!Init
<1>2. Fits(State) /\ [Next]_vars => [Promised!Next]_told
  <2> SUFFICES ASSUME Fits(State), [Next]_vars
               PROVE  [Promised!Next]_told
    OBVIOUS
  <2>1. CASE Next
    <3>1. Kept(told, State') /\ State'.told = told'
      BY <2>1, StepKept DEF State
    <3>2. Hears(told, told')
      BY <3>1 DEF Kept
    <3> QED
      BY <3>2 DEF Hears, WaitsIn, SaidIn, EndedIn, Promised!Next, Promised!Said,
                  Promised!Waits, Promised!Ended, Promised!Tell, Promised!OnReceiveRedirect,
                  Promised!FollowRedirect, Promised!OnReceiveResponse, Promised!OnComplete,
                  Promised!OnFailure
  <2>2. CASE UNCHANGED vars
    BY <2>2 DEF vars
  <2> QED
    BY <2>1, <2>2
<1> QED
  BY <1>1, <1>2, RequestFits, PTL DEF Spec, KeepsPromise, Promised!Spec
=============================================================================
