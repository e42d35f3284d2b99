---------------------------- MODULE StreamLoader ----------------------------
(***************************************************************************)
(* A load answered by a client's CefResourceHandler:                        *)
(* StreamReaderURLLoader on the IO thread, OpenInputStreamWrapper and       *)
(* InputStreamReader between it and a work sequence, and the handler, which *)
(* answers there, on the IO thread or whenever it likes, through callbacks  *)
(* it may keep, drop or run late.                                           *)
(*                                                                         *)
(* A load is a record; an operator gives the load, or the set of loads,     *)
(* after a function of the source ran on it.  Modules that own loads keep   *)
(* them in a variable.                                                      *)
(***************************************************************************)
EXTENDS Integers, Sequences, FiniteSets

CONSTANTS
  Size,    \* bytes the handler's response has
  Firsts   \* first bytes asked for in a Range header; NoRange for none

NoRange == -1
None    == -1  \* no callback is pending
Failed  == -2  \* a net error

ASSUME LoaderAssumption ==
  /\ Size \in Nat \ {0}
  /\ Firsts \subseteq -1 .. Size /\ Firsts # {}

Stages == {"none", "asking", "opening", "skipping", "answering", "responding",
           "ready", "reading", "done", "gone",
           "net", "netBody"}  \* of loads the network service makes

Task(op, id, n, at) == [op |-> op, id |-> id, n |-> n, at |-> at]
Message(op, ok) == [op |-> op, ok |-> ok]
Held(op, id) == [op |-> op, id |-> id]

NewLoad ==
  [stage |-> "none", first |-> NoRange,
   stream |-> FALSE,      \* input_stream_reader_ is set
   hdr |-> "none",        \* headers sent to the header client
   out |-> <<>>,          \* messages to the URLLoaderClient
   body |-> <<>>,         \* positions of the bytes written to the data pipe
   cb |-> FALSE,          \* callback_ of OpenInputStreamWrapper is set
   canceled |-> FALSE,    \* its is_canceled_
   pending |-> None,      \* pending_callback_id_
   next |-> 0,            \* next_callback_id_
   left |-> 0,            \* bytes_to_skip_
   work |-> <<>>,         \* tasks of the work sequence
   back |-> <<>>,         \* tasks posted to the IO thread
   life |-> "none",       \* handler: "attached", "detached" (Cancel is posted),
                          \* "canceled"
   at |-> 0,              \* handler: bytes skipped and read
   held |-> {},           \* handler: callbacks it has
   bad |-> {}]            \* lines of the DCHECKs that failed

Post(x, t)    == [x EXCEPT !.work = Append(@, t)]
RunNext(x, t) == [x EXCEPT !.work = <<t>> \o @]
ToIO(x, t)    == [x EXCEPT !.back = Append(@, t)]
Keep(x, cb)   == [x EXCEPT !.held = @ \cup {cb}]

\* HandlerProvider::Detach.
Detach(x) == [x EXCEPT !.life = IF @ = "attached" THEN "detached" ELSE @]

-----------------------------------------------------------------------------
(* StreamReaderURLLoader, on the IO thread.                                  *)

CleanUp(x) == [x EXCEPT !.stage = "done"]

RequestComplete(x, ok) ==
  [CleanUp(x) EXCEPT !.out = Append(@, Message("complete", ok))]

\* ParseRange refuses a Range header it cannot read.
Start(x, first) ==
  LET y == [x EXCEPT !.stage = "asking", !.first = first, !.life = "attached"]
  IN {y} \cup (IF first # NoRange THEN {RequestComplete(y, FALSE)} ELSE {})

ContinueWithRequestHeaders(x) ==
  Post([x EXCEPT !.stage = "opening", !.cb = TRUE], Task("open", 0, 0, 0))

\* The handler's GetResponseHeaders may fail; it is not asked once detached.
HeadersComplete(x) ==
  {RequestComplete(x, FALSE)} \cup
  {[x EXCEPT !.stage = "answering", !.hdr = h] :
     h \in IF x.life = "attached" THEN {"ok", "redirect"} ELSE {}}

\* The header client's answer, with its redirect.
ContinueWithResponseHeaders(x, redirect) ==
  IF redirect \/ x.hdr = "redirect"
  THEN [CleanUp(x) EXCEPT !.out = Append(@, Message("redirect", x.hdr = "ok")),
                          !.hdr = "none"]
  ELSE [x EXCEPT !.stage = "responding", !.hdr = "none",
                 !.out = Append(@, Message("response", TRUE))]

OnInputStreamOpened(x, opened) ==
  IF opened /\ x.first # NoRange
  THEN {Post([x EXCEPT !.stream = TRUE, !.stage = "skipping"],
             Task("skip", 0, x.first, 0))}
  ELSE HeadersComplete([x EXCEPT !.stream = opened])

\* Mutant: the bytes skipped are not compared with the range's start.
OnReaderSkipCompleted_AnyCount(x, n) == HeadersComplete(x)

OnReaderSkipCompleted(x, n) ==
  IF n = x.first THEN HeadersComplete(x) ELSE {RequestComplete(x, FALSE)}

\* The client of the loader goes on, or does not want the body.
Continue(x) ==
  IF x.stage = "responding" THEN [x EXCEPT !.stage = "ready"]
  ELSE [x EXCEPT !.bad = @ \cup {"stream_reader_url_loader.cc:532"}]
Cancel(x) ==
  IF x.stage = "responding" THEN CleanUp(x)
  ELSE [x EXCEPT !.bad = @ \cup {"stream_reader_url_loader.cc:546"}]

\* Without an input stream the body is empty; the consumer may have left.
ReadMore(x) ==
  {RequestComplete(x, FALSE)} \cup
  {IF x.stream THEN Post([x EXCEPT !.stage = "reading"], Task("read", 0, 0, 0))
   ELSE RequestComplete(x, TRUE)}

OnReaderReadCompleted(x, n, at) ==
  IF n <= 0 THEN RequestComplete(x, n = 0)
  ELSE [x EXCEPT !.stage = "ready", !.out = Append(@, Message("size", TRUE)),
                 !.body = @ \o [i \in 1 .. n |-> at + i - 1]]

\* What is left when nobody waits for the load any more.  The tasks it has are
\* dropped here: without a handler and a loader they do nothing.
Remains(x) == [NewLoad EXCEPT !.stage = "gone", !.life = x.life, !.bad = x.bad]

\* ~StreamReaderURLLoader, with its pipes: the delegate goes with it, unless it
\* is opening.
Delete(x) ==
  IF x.stage \in {"none", "gone"} THEN x
  ELSE IF x.cb
  THEN Post([x EXCEPT !.stage = "gone", !.cb = FALSE], Task("cancelOpen", 0, 0, 0))
  ELSE Remains(Detach(x))

-----------------------------------------------------------------------------
(* OpenInputStreamWrapper.                                                   *)

\* Mutant: a delegate nobody takes is kept.
OnOpenCallback_KeepsDelegate(x, opened) ==
  IF x.cb /\ x.stage = "opening"
  THEN OnInputStreamOpened([x EXCEPT !.cb = FALSE], opened)
  ELSE {[x EXCEPT !.cb = FALSE]}

\* OnCallback on the IO thread; delegate and stream go if nobody takes them.
OnOpenCallback(x, opened) ==
  IF x.cb /\ x.stage = "opening"
  THEN OnInputStreamOpened([x EXCEPT !.cb = FALSE], opened)
  ELSE IF x.stage = "gone" THEN {Remains(Detach(x))}
  ELSE {Detach([x EXCEPT !.cb = FALSE])}

\* Execute of OpenCallbackWrapper: a stream that is not passed on is released
\* after the answer was posted.
ExecuteOpen(x, opened) ==
  IF opened THEN ToIO(x, Task("opened", 0, 0, 0))
  ELSE ToIO(RunNext(x, Task("detach", 0, 0, 0)), Task("openFailed", 0, 0, 0))

\* CefResourceHandler::Open: answer now, later, or in ProcessRequest.
OpenOnWorkThread(x) ==
  IF x.canceled THEN {x}
  ELSE {ExecuteOpen(x, TRUE), ExecuteOpen(x, FALSE), Keep(x, Held("open", 0)),
        ToIO(x, Task("process", 0, 0, 0))}

CallProcessRequestOnIOThread(x) ==
  {Post(x, Task("openAnswered", 0, 0, 0))} \cup
  (IF x.life = "attached"
   THEN {Post(x, Task("openAnswered", 0, 1, 0)), Keep(x, Held("open", 0))} ELSE {})

CancelOnWorkThread(x) ==
  IF x.canceled THEN x
  ELSE ToIO([x EXCEPT !.canceled = TRUE], Task("openFailed", 0, 0, 0))

-----------------------------------------------------------------------------
(* InputStreamReader, on the work sequence.                                  *)

FailedIf(x, failed, line) == [x EXCEPT !.bad = IF failed THEN @ \cup {line} ELSE @]
NextCallback(x) == [x EXCEPT !.next = @ + 1, !.pending = x.next + 1]

\* A skip or a read is under way while a callback is pending.
RunSkipCallback(x, n) ==
  ToIO([FailedIf(x, x.pending = None, "stream_reader_url_loader.cc:430")
          EXCEPT !.pending = None, !.left = 0], Task("skipDone", 0, n, 0))

\* Skip returns false: the callback still runs when the handler releases it.
SkipToRequestedRange(x) ==
  LET y == NextCallback(x)
      SkippedNow(n) == [y EXCEPT !.at = @ + n, !.left = @ - n]
  IN IF y.life # "attached" THEN {RunSkipCallback(y, Failed)}
     ELSE {Keep(y, Held("skip", y.pending)),
           RunSkipCallback(Keep(y, Held("skip", y.pending)), Failed)} \cup
          {RunNext(SkippedNow(n), Task("skipMore", 0, 0, 0)) : n \in 1 .. y.left - 1} \cup
          {RunSkipCallback(SkippedNow(y.left), y.first)}

SkipOnWorkThread(x, n) ==
  LET y == FailedIf(x, x.pending # None, "stream_reader_url_loader.cc:276") IN
  IF n <= 0 THEN {ToIO(y, Task("skipDone", 0, 0, 0))}
  ELSE SkipToRequestedRange([y EXCEPT !.left = n])

ContinueSkipCallbackOnWorkThread(x, id, n) ==
  IF x.pending # id THEN x
  ELSE IF n <= 0 THEN RunSkipCallback(x, Failed)
  ELSE IF n < x.left THEN Post([x EXCEPT !.left = @ - n], Task("skipMore", 0, 0, 0))
  ELSE RunSkipCallback(x, x.first)

RunReadCallback(x, n, at) ==
  ToIO([FailedIf(x, x.pending = None, "stream_reader_url_loader.cc:444")
          EXCEPT !.pending = None], Task("readDone", 0, n, at))

ReadOnWorkThread(x) ==
  LET y == NextCallback(FailedIf(x, x.pending # None, "stream_reader_url_loader.cc:296"))
      kept == Keep(y, Held("read", y.pending))
  IN IF y.life # "attached" THEN {RunReadCallback(y, Failed, 0)}
     ELSE {kept, RunReadCallback(kept, 0, 0), RunReadCallback(kept, Failed, 0),
           ToIO(y, Task("readResponse", y.pending, 0, 0))} \cup
          {RunReadCallback([y EXCEPT !.at = @ + n], n, y.at) : n \in 1 .. Size - y.at}

\* Mutant: out of order callbacks are not checked for.
ContinueReadCallbackOnWorkThread_AnyId(x, id, n, at) == RunReadCallback(x, n, at)

ContinueReadCallbackOnWorkThread(x, id, n, at) ==
  IF x.pending # id THEN x ELSE RunReadCallback(x, n, at)

\* ReadResponseCallbackWrapper::DoRead, on the IO thread.  Bound: the handler
\* asks for more time once per read.
DoRead(x, id, again) ==
  {Post(x, Task("readAnswered", id, IF x.life = "attached" THEN 0 ELSE Failed, 0))} \cup
  (IF x.life # "attached" THEN {}
   ELSE (IF again THEN {} ELSE {Keep(x, Held("response", id))}) \cup
        {Post([x EXCEPT !.at = @ + n], Task("readAnswered", id, n, x.at)) :
           n \in 1 .. Size - x.at})

-----------------------------------------------------------------------------
(* Threads.                                                                  *)

\* The first task of the work sequence.
Work(x) ==
  LET t == Head(x.work)
      y == [x EXCEPT !.work = Tail(@)]
  IN CASE t.op = "open"         -> OpenOnWorkThread(y)
       [] t.op = "cancelOpen"   -> {CancelOnWorkThread(y)}
       [] t.op = "openAnswered" -> {ExecuteOpen(y, t.n = 1)}
       [] t.op = "detach"       -> {Detach(y)}
       [] t.op = "skip"         -> SkipOnWorkThread(y, t.n)
       [] t.op = "skipMore"     -> SkipToRequestedRange(y)
       [] t.op = "skipAnswered" -> {ContinueSkipCallbackOnWorkThread(y, t.id, t.n)}
       [] t.op = "read"         -> ReadOnWorkThread(y)
       [] t.op = "readAnswered" -> {ContinueReadCallbackOnWorkThread(y, t.id, t.n, t.at)}

\* The first task posted to the IO thread.  The loader's own are bound to weak
\* pointers, which CleanUp and its end invalidate.
Back(x) ==
  LET t == Head(x.back)
      y == [x EXCEPT !.back = Tail(@)]
  IN CASE t.op = "opened"       -> OnOpenCallback(y, TRUE)
       [] t.op = "openFailed"   -> OnOpenCallback(y, FALSE)
       [] t.op = "process"      -> CallProcessRequestOnIOThread(y)
       [] t.op = "readResponse" -> DoRead(y, t.id, t.n = 1)
       [] t.op = "skipDone"     ->
            IF y.stage = "skipping" THEN OnReaderSkipCompleted(y, t.n) ELSE {y}
       [] t.op = "readDone"     ->
            IF y.stage = "reading" THEN {OnReaderReadCompleted(y, t.n, t.at)} ELSE {y}

\* The handler runs a callback it has, or releases it, which fails it.  A
\* callback that is not pending any more may bring data, too.
Answer(x, cb) ==
  LET y == [x EXCEPT !.held = @ \ {cb}]
      room == IF cb.id # x.pending THEN 1
              ELSE IF cb.op = "skip" THEN x.left ELSE Size - x.at
      Moved(n) == IF cb.id = x.pending THEN [y EXCEPT !.at = @ + n] ELSE y
  IN CASE cb.op = "open"     -> {Post(y, Task("openAnswered", 0, n, 0)) : n \in {0, 1}}
       [] cb.op = "response" -> {ToIO(y, Task("readResponse", cb.id, 1, 0)),
                                 Post(y, Task("readAnswered", cb.id, Failed, 0))}
       [] cb.op = "skip"     -> {Post(Moved(n), Task("skipAnswered", cb.id, n, 0)) :
                                   n \in 1 .. room} \cup
                                {Post(y, Task("skipAnswered", cb.id, Failed, 0))}
       [] cb.op = "read"     -> {Post(Moved(n), Task("readAnswered", cb.id, n, x.at)) :
                                   n \in 1 .. room} \cup
                                {Post(y, Task("readAnswered", cb.id, n, 0)) :
                                   n \in {0, Failed}}
=============================================================================
