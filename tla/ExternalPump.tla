---------------------------- MODULE ExternalPump ----------------------------
(***************************************************************************)
(* The external message pump: CEF's loop runs inside the client's.          *)
(*                                                                         *)
(* MessagePumpExternal tells the client when there is work for the UI       *)
(* thread, and does it for a time slice whenever the client calls           *)
(* CefDoMessageLoopWork.  MainMessageLoopExternalPumpWin turns a request    *)
(* into a window message or a timer.  A task may let the system dispatch    *)
(* messages, so that a request is handled inside the work: it is discarded  *)
(* and posted again.                                                        *)
(*                                                                         *)
(* The scheduler of the tasks requests nothing of a pump that owes it a     *)
(* call: the pump was asked already, or learned from the last call that     *)
(* there is more.  MessagePumpExternal returns to the client all the same   *)
(* when its slice is over, and tells nobody.                                *)
(***************************************************************************)
EXTENDS Naturals, Sequences

CONSTANTS
  Tasks,   \* tasks of the UI thread
  Drains   \* calls of CefDoMessageLoopWork after the loop has ended

ASSUME PumpAssumption == Drains \in Nat \ {0}

VARIABLES
  task,      \* of a task: "none", "delayed", "ready", "running", "done"
  owed,      \* the scheduler waits for a call without a request
  loop,      \* the client's: "runs", "quits", "drains", "ended"
  rounds,    \* calls made while it drains
  messages,  \* kMsgHaveWork posted to main_thread_target_
  timer,     \* timer_pending_
  timeout,   \* a WM_TIMER waits to be dispatched
  active,    \* is_active_
  reentered, \* reentrancy_detected_
  work,      \* MessagePumpExternal::Run: "none", "entered", "worked"
  discarded  \* a request was dropped and no work began since

taskVars == <<task, owed>>
pumpVars == <<messages, timer, active, reentered, work, discarded>>
vars == <<taskVars, loop, rounds, pumpVars, timeout>>

\* Delays: none, a positive one asked by CEF, and kTimerDelayPlaceholder.
Request == {"now", "later", "idle"}

TypeOK ==
  /\ task \in [Tasks -> {"none", "delayed", "ready", "running", "done"}]
  /\ owed \in BOOLEAN
  /\ loop \in {"runs", "quits", "drains", "ended"}
  /\ rounds \in 0 .. Drains
  /\ messages \in Seq(Request)
  /\ timer \in BOOLEAN
  /\ timeout \in BOOLEAN
  /\ active \in BOOLEAN
  /\ reentered \in BOOLEAN
  /\ work \in {"none", "entered", "worked"}
  /\ discarded \in BOOLEAN

Init ==
  /\ task = [t \in Tasks |-> "none"]
  /\ owed = FALSE
  /\ loop = "runs"
  /\ rounds = 0
  /\ messages = <<>>
  /\ timer = FALSE
  /\ timeout = FALSE
  /\ active = FALSE
  /\ reentered = FALSE
  /\ work = "none"
  /\ discarded = FALSE

-----------------------------------------------------------------------------
(* Tasks, posted on any thread. *)

Running == \E t \in Tasks : task[t] = "running"

\* ScheduleWork, which calls OnScheduleMessagePumpWork(0), unless it is owed.
ScheduleWork ==
  /\ owed' = TRUE
  /\ messages' = IF owed THEN messages ELSE Append(messages, "now")

PostTask(t) ==
  /\ task[t] = "none"
  /\ task' = [task EXCEPT ![t] = "ready"]
  /\ ScheduleWork
  /\ UNCHANGED <<loop, rounds, timer, timeout, active, reentered, work, discarded>>

\* A delayed task reaches the pump as work when it is posted on another thread,
\* as a delay when it is posted on the UI thread, and not at all when it is
\* posted by a task.
PostDelayedTask(t) ==
  /\ task[t] = "none"
  /\ task' = [task EXCEPT ![t] = "delayed"]
  /\ \/ ScheduleWork
     \/ work = "none" /\ messages' = Append(messages, "later") /\ UNCHANGED owed
     \/ Running /\ UNCHANGED <<owed, messages>>
  /\ UNCHANGED <<loop, rounds, timer, timeout, active, reentered, work, discarded>>

\* The delay of a task is over.  Nobody is told.
TaskIsDue(t) ==
  /\ task[t] = "delayed"
  /\ task' = [task EXCEPT ![t] = "ready"]
  /\ UNCHANGED <<owed, loop, rounds, pumpVars, timeout>>

-----------------------------------------------------------------------------
(* The client's pump. *)

DoWork_StaysReentrant(rest) ==
  IF active
  THEN /\ reentered' = TRUE
       /\ discarded' = TRUE
       /\ messages' = Append(rest, "idle")
       /\ UNCHANGED <<active, work>>
  ELSE /\ active' = TRUE
       /\ work' = "entered"
       /\ discarded' = FALSE
       /\ messages' = rest
       /\ UNCHANGED reentered

\* DoWork and PerformMessageLoopWork, with the messages left in the queue: a
\* call inside the work is discarded, and finds no timer pending.
DoWork(rest) ==
  IF active
  THEN /\ reentered' = TRUE
       /\ discarded' = TRUE
       /\ messages' = Append(rest, "idle")
       /\ UNCHANGED <<active, work>>
  ELSE /\ reentered' = FALSE
       /\ active' = TRUE
       /\ work' = "entered"
       /\ discarded' = FALSE
       /\ messages' = rest

\* The client's loop dispatches messages, or a task lets the system do so.
Dispatches == loop \in {"runs", "quits"} /\ (work = "none" \/ Running)

\* OnScheduleWork
OnScheduleWork ==
  /\ Dispatches
  /\ messages # <<>>
  /\ \/ /\ Head(messages) = "idle" /\ timer
        /\ messages' = Tail(messages)
        /\ UNCHANGED <<timer, active, reentered, work, discarded>>
     \/ /\ Head(messages) = "now"
        /\ timer' = FALSE
        /\ DoWork(Tail(messages))
     \/ /\ \/ Head(messages) = "later"
           \/ Head(messages) = "idle" /\ ~timer
        /\ timer' = TRUE
        /\ messages' = Tail(messages)
        /\ UNCHANGED <<active, reentered, work, discarded>>
  /\ UNCHANGED <<taskVars, loop, rounds, timeout>>

\* The system's timer elapses, again and again until it is killed.
TimerElapses ==
  /\ timer /\ ~timeout
  /\ timeout' = TRUE
  /\ UNCHANGED <<taskVars, loop, rounds, pumpVars>>

\* OnTimerTimeout, also for a timer killed since.  WM_TIMER is dispatched when
\* no posted message waits.
OnTimerTimeout ==
  /\ Dispatches
  /\ timeout /\ messages = <<>>
  /\ timeout' = FALSE
  /\ timer' = FALSE
  /\ DoWork(<<>>)
  /\ UNCHANGED <<taskVars, loop, rounds>>

-----------------------------------------------------------------------------
(* CefDoMessageLoopWork, and the rest of the client's DoWork. *)

\* DirectRunWork: a task that is ready is run.
DirectRunWork ==
  /\ work # "none" /\ ~Running
  /\ \/ \E t \in Tasks :
          /\ task[t] = "ready"
          /\ task' = [task EXCEPT ![t] = "running"]
          /\ owed' = TRUE /\ UNCHANGED work
     \/ /\ \A t \in Tasks : task[t] # "ready"
        /\ owed' = FALSE
        /\ work' = "worked"
        /\ UNCHANGED task
  /\ UNCHANGED <<loop, rounds, messages, timer, timeout, active, reentered, discarded>>

TaskReturns ==
  /\ \E t \in Tasks : task[t] = "running" /\ task' = [task EXCEPT ![t] = "done"]
  /\ owed' = \E t \in Tasks : task'[t] = "ready"
  /\ work' = "worked"
  /\ UNCHANGED <<loop, rounds, messages, timer, timeout, active, reentered, discarded>>

FinishWork_OnRequest ==
  /\ work = "worked" /\ ~Running /\ active
  /\ work' = "none"
  /\ active' = FALSE
  /\ messages' = IF reentered THEN Append(messages, "now") ELSE messages
  /\ UNCHANGED <<taskVars, loop, rounds, timer, timeout, reentered, discarded>>

\* The time slice is over.
FinishWork ==
  /\ work = "worked" /\ ~Running /\ active
  /\ work' = "none"
  /\ active' = FALSE
  /\ messages' = IF reentered THEN Append(messages, "now")
                 ELSE IF ~timer THEN Append(messages, "idle") ELSE messages
  /\ UNCHANGED <<taskVars, loop, rounds, timer, timeout, reentered, discarded>>

-----------------------------------------------------------------------------
(* The end of the client's loop. *)

Quit ==
  /\ loop = "runs"
  /\ loop' = "quits"
  /\ UNCHANGED <<taskVars, rounds, pumpVars, timeout>>

\* GetMessage meets WM_QUIT; the timer is killed.
LeaveLoop ==
  /\ loop = "quits" /\ work = "none"
  /\ loop' = "drains"
  /\ timer' = FALSE
  /\ UNCHANGED <<taskVars, rounds, messages, timeout, active, reentered, work, discarded>>

\* Work is done for a while.
DrainWork ==
  /\ loop = "drains" /\ work = "none"
  /\ work' = "entered"
  /\ UNCHANGED <<taskVars, loop, rounds, messages, timer, timeout, active, reentered,
                 discarded>>

FinishDrain ==
  /\ loop = "drains" /\ work = "worked" /\ ~Running
  /\ work' = "none"
  /\ rounds' = rounds + 1
  /\ loop' = IF rounds + 1 = Drains THEN "ended" ELSE loop
  /\ UNCHANGED <<taskVars, messages, timer, timeout, active, reentered, discarded>>

-----------------------------------------------------------------------------

Posting == \E t \in Tasks : PostTask(t) \/ PostDelayedTask(t)
Loop == OnScheduleWork \/ OnTimerTimeout \/ LeaveLoop \/ DrainWork \/ FinishDrain
Next ==
  \/ Posting \/ Loop \/ DirectRunWork \/ TaskReturns \/ FinishWork \/ Quit \/ TimerElapses
  \/ \E t \in Tasks : TaskIsDue(t)

Spec == Init /\ [][Next]_vars

\* The main thread runs, tasks return, the timer and the delays of tasks end.
Fairness ==
  /\ WF_vars(Loop) /\ WF_vars(TimerElapses)
  /\ WF_vars(DirectRunWork /\ work = "entered")
  /\ WF_vars(TaskReturns) /\ WF_vars(FinishWork)
  /\ \A t \in Tasks : WF_vars(TaskIsDue(t))

FairSpec == Spec /\ Fairness

-----------------------------------------------------------------------------
(* Safety *)

\* While a task waits, the client's loop does not sleep without a request or a
\* timer that wakes it: although CEF requests nothing for the tasks that are
\* left when its slice ends, nor for a delay that a task asked for.
NeverAsleep ==
  loop = "runs" /\ work = "none" /\ (\E t \in Tasks : task[t] \in {"delayed", "ready"}) =>
    timer \/ messages # <<>>

\* A request that was handled inside the work, where it is discarded, is not
\* left to the timer: it is posted again, to be executed at once.
DiscardedIsReposted ==
  loop = "runs" /\ work = "none" /\ discarded =>
    \E i \in DOMAIN messages : messages[i] = "now"

-----------------------------------------------------------------------------
(* Liveness *)

\* A task that is posted runs, or the client's loop is told to quit.
WorkIsDone ==
  \A t \in Tasks : task[t] # "none" ~> task[t] = "done" \/ loop # "runs"

\* The pump comes to rest: once CEF asks for no more, its reposts and timers
\* neither multiply nor call for work at once again and again.  One timer, or
\* one message that sets it, is all that is under way.
RequestsSettle ==
  <>[](loop = "runs" =>
         /\ Len(messages) + (IF timer THEN 1 ELSE 0) <= 1
         /\ \A i \in DOMAIN messages : messages[i] # "now")
=============================================================================
