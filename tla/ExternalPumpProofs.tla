-------------------------- MODULE ExternalPumpProofs --------------------------
(***************************************************************************)
(* Proofs about ExternalPump, for every set of tasks and any number of      *)
(* calls after the loop: the client's loop never sleeps on work, and no     *)
(* request that met the work of another is forgotten.                       *)
(***************************************************************************)
EXTENDS ExternalPump, TLAPS

\* The client counts as active while CEF works inside its loop.
ActiveWhileWorking == loop \in {"runs", "quits"} => (active <=> work # "none")

\* The calls after the loop are counted from its end.
RoundsCounted ==
  /\ loop \in {"runs", "quits"} => rounds = 0
  /\ loop = "drains" => rounds < Drains

\* Tasks run inside the work.
RunsInside == Running => work # "none"

\* Nobody sleeps on a debt: when the scheduler waits for a call, or a task waits
\* for the scheduler, a timer or a message wakes the loop.
DebtsWake ==
  loop = "runs" /\ work = "none" /\ (owed \/ \E t \in Tasks : task[t] \in {"delayed", "ready"})
    => timer \/ messages # <<>>

\* The work remembers what it discarded.
DiscardIsNoted == loop = "runs" /\ work # "none" /\ discarded => reentered

\* The inductive invariant.
PumpInv ==
  /\ TypeOK
  /\ ActiveWhileWorking
  /\ RoundsCounted
  /\ RunsInside
  /\ DebtsWake
  /\ DiscardIsNoted
  /\ DiscardedIsReposted

-----------------------------------------------------------------------------
(* A queue that asks for work at once. *)

AsksNow(q) == \E i \in DOMAIN q : q[i] = "now"

\* A message posted behind does not hide the request.
LEMMA AppendKeeps ==
  ASSUME NEW q \in Seq(Request), NEW m \in Request, AsksNow(q)
  PROVE  AsksNow(Append(q, m))
<1>1. PICK i \in DOMAIN q : q[i] = "now"
  BY DEF AsksNow
<1>2. i \in DOMAIN Append(q, m) /\ Append(q, m)[i] = "now"
  BY <1>1
<1> QED
  BY <1>2 DEF AsksNow

\* A request posted last is in the queue.
LEMMA AppendAsks ==
  ASSUME NEW q \in Seq(Request)
  PROVE  AsksNow(Append(q, "now"))
<1>1. Len(q) + 1 \in DOMAIN Append(q, "now") /\ Append(q, "now")[Len(q) + 1] = "now"
  OBVIOUS
<1> QED
  BY <1>1 DEF AsksNow

\* Dispatching another message leaves the request behind it.
LEMMA TailKeeps ==
  ASSUME NEW q \in Seq(Request), q # <<>>, Head(q) # "now", AsksNow(q)
  PROVE  AsksNow(Tail(q))
<1>1. PICK i \in DOMAIN q : q[i] = "now"
  BY DEF AsksNow
<1>2. i \in 1 .. Len(q) /\ i # 1
  BY <1>1
<1>3. i - 1 \in DOMAIN Tail(q) /\ Tail(q)[i - 1] = "now"
  BY <1>1, <1>2
<1> QED
  BY <1>3 DEF AsksNow

\* What DoWork does to the queue and to the pump's flags.
LEMMA DoWorkFacts ==
  ASSUME TypeOK, NEW rest \in Seq(Request), DoWork(rest)
  PROVE  /\ messages' \in Seq(Request) /\ active' = TRUE
         /\ reentered' \in BOOLEAN /\ discarded' \in BOOLEAN
         /\ work' \in {"none", "entered", "worked"}
         /\ active => reentered' = TRUE /\ work' = work
         /\ ~active => discarded' = FALSE /\ work' = "entered"
<1>1. CASE active = TRUE
  BY <1>1 DEF TypeOK, DoWork, Request
<1>2. CASE active = FALSE
  BY <1>2 DEF TypeOK, DoWork, Request
<1> QED
  BY <1>1, <1>2 DEF TypeOK

-----------------------------------------------------------------------------
(* Types. *)

\* In the first state every variable has its type.
LEMMA InitType == Init => TypeOK
<1> SUFFICES ASSUME Init PROVE TypeOK
  OBVIOUS
<1>1. rounds \in 0 .. Drains
  BY PumpAssumption DEF Init
<1>2. messages \in Seq(Request)
  BY DEF Init
<1>3. task \in [Tasks -> {"none", "delayed", "ready", "running", "done"}]
  BY DEF Init
<1> QED
  BY <1>1, <1>2, <1>3 DEF Init, TypeOK

\* Every step keeps the types.
LEMMA NextType == TypeOK /\ RoundsCounted /\ [Next]_vars => TypeOK'
<1> SUFFICES ASSUME TypeOK, RoundsCounted, [Next]_vars PROVE TypeOK'
  OBVIOUS
<1>1. ASSUME NEW t \in Tasks, PostTask(t) PROVE TypeOK'
  <2>1. messages' \in Seq(Request)
    BY <1>1 DEF PostTask, ScheduleWork, TypeOK, Request
  <2> QED
    BY <1>1, <2>1 DEF PostTask, ScheduleWork, TypeOK
<1>2. ASSUME NEW t \in Tasks, PostDelayedTask(t) PROVE TypeOK'
  <2>1. messages' \in Seq(Request)
    BY <1>2 DEF PostDelayedTask, ScheduleWork, TypeOK, Request
  <2> QED
    BY <1>2, <2>1 DEF PostDelayedTask, ScheduleWork, TypeOK
<1>3. ASSUME NEW t \in Tasks, TaskIsDue(t) PROVE TypeOK'
  BY <1>3 DEF TaskIsDue, TypeOK, pumpVars
<1>4. CASE OnScheduleWork
  <2>1. Tail(messages) \in Seq(Request)
    BY <1>4 DEF OnScheduleWork, TypeOK
  <2>2. CASE DoWork(Tail(messages)) /\ timer' = FALSE
    BY <1>4, <2>1, <2>2, DoWorkFacts DEF OnScheduleWork, TypeOK, taskVars
  <2>3. CASE /\ UNCHANGED <<active, reentered, work, discarded>>
             /\ messages' = Tail(messages) /\ timer' \in BOOLEAN
    BY <1>4, <2>1, <2>3 DEF OnScheduleWork, TypeOK, taskVars
  <2> QED
    BY <1>4, <2>2, <2>3 DEF OnScheduleWork, TypeOK
<1>5. CASE OnTimerTimeout
  <2>1. DoWork(<<>>) /\ <<>> \in Seq(Request)
    BY <1>5 DEF OnTimerTimeout
  <2> QED
    BY <1>5, <2>1, DoWorkFacts DEF OnTimerTimeout, TypeOK, taskVars
<1>6. CASE LeaveLoop
  BY <1>6 DEF LeaveLoop, TypeOK, taskVars
<1>7. CASE DrainWork
  BY <1>7 DEF DrainWork, TypeOK, taskVars
<1>8. CASE FinishDrain
  BY <1>8, PumpAssumption DEF FinishDrain, RoundsCounted, TypeOK, taskVars
<1>9. CASE DirectRunWork
  BY <1>9 DEF DirectRunWork, TypeOK
<1>10. CASE TaskReturns
  <2>1. owed' \in BOOLEAN
    BY <1>10 DEF TaskReturns
  <2>2. task' \in [Tasks -> {"none", "delayed", "ready", "running", "done"}]
    BY <1>10 DEF TaskReturns, TypeOK
  <2> QED
    BY <1>10, <2>1, <2>2 DEF TaskReturns, TypeOK
<1>11. CASE FinishWork
  <2>1. messages' \in Seq(Request)
    BY <1>11 DEF FinishWork, TypeOK, Request
  <2> QED
    BY <1>11, <2>1 DEF FinishWork, TypeOK, taskVars
<1>12. CASE Quit
  BY <1>12 DEF Quit, TypeOK, taskVars, pumpVars
<1>13. CASE TimerElapses
  BY <1>13 DEF TimerElapses, TypeOK, taskVars, pumpVars
<1>14. CASE UNCHANGED vars
  BY <1>14 DEF vars, taskVars, pumpVars, TypeOK
<1> QED
  BY <1>1, <1>2, <1>3, <1>4, <1>5, <1>6, <1>7, <1>8, <1>9, <1>10, <1>11, <1>12, <1>13, <1>14
  DEF Next, Posting, Loop

-----------------------------------------------------------------------------
(* The parts of the invariant, kept by every step. *)

\* What the posting of tasks leaves alone, and what it adds to the queue.
LEMMA PostingFacts ==
  ASSUME TypeOK, Posting
  PROVE  /\ UNCHANGED <<loop, rounds, timer, active, reentered, work, discarded>>
         /\ messages' = messages \/ messages' = Append(messages, "now")
                                 \/ messages' = Append(messages, "later")
         /\ \/ messages' # <<>>
            \/ Running
            \/ owed = TRUE
         /\ Running' <=> Running
<1>1. ASSUME NEW t \in Tasks, PostTask(t)
      PROVE  /\ UNCHANGED <<loop, rounds, timer, active, reentered, work, discarded>>
             /\ messages' = messages \/ messages' = Append(messages, "now")
             /\ \/ messages' = Append(messages, "now")
                \/ owed = TRUE /\ messages' = messages
             /\ task' = [task EXCEPT ![t] = "ready"] /\ task[t] = "none"
  BY <1>1 DEF PostTask, ScheduleWork, TypeOK
<1>2. ASSUME NEW t \in Tasks, PostDelayedTask(t)
      PROVE  /\ UNCHANGED <<loop, rounds, timer, active, reentered, work, discarded>>
             /\ messages' = messages \/ messages' = Append(messages, "now")
                                     \/ messages' = Append(messages, "later")
             /\ \/ messages' = Append(messages, "now")
                \/ messages' = Append(messages, "later")
                \/ Running
                \/ owed = TRUE /\ messages' = messages
             /\ task' = [task EXCEPT ![t] = "delayed"] /\ task[t] = "none"
  BY <1>2 DEF PostDelayedTask, ScheduleWork, TypeOK
<1>3. ASSUME NEW t \in Tasks, NEW s \in {"ready", "delayed"},
             task' = [task EXCEPT ![t] = s], task[t] = "none"
      PROVE  Running' <=> Running
  BY <1>3 DEF Running, TypeOK
<1>4. Append(messages, "now") # <<>> /\ Append(messages, "later") # <<>>
  BY DEF TypeOK, Request
<1>5. CASE \E t \in Tasks : PostTask(t)
  <2>1. PICK t \in Tasks : PostTask(t)
    BY <1>5
  <2> QED
    BY <2>1, <1>1, <1>3, <1>4
<1>6. CASE \E t \in Tasks : PostDelayedTask(t)
  <2>1. PICK t \in Tasks : PostDelayedTask(t)
    BY <1>6
  <2> QED
    BY <2>1, <1>2, <1>3, <1>4
<1> QED
  BY <1>5, <1>6 DEF Posting

\* What DirectRunWork and the return of a task leave alone.
LEMMA WorkFacts ==
  ASSUME TypeOK, DirectRunWork \/ TaskReturns
  PROVE  /\ UNCHANGED <<loop, rounds, messages, timer, active, reentered, discarded>>
         /\ work # "none" \/ Running
         /\ work' = work \/ work' = "worked"
  BY DEF DirectRunWork, TaskReturns, Running, TypeOK

\* The pump is active exactly while its work lasts.
LEMMA ActiveKept ==
  ASSUME TypeOK, RunsInside, ActiveWhileWorking, [Next]_vars
  PROVE  ActiveWhileWorking'
<1> USE DEF ActiveWhileWorking
<1>1. CASE Posting
  BY <1>1, PostingFacts
<1>2. CASE \E t \in Tasks : TaskIsDue(t)
  BY <1>2 DEF TaskIsDue, pumpVars
<1>3. CASE OnScheduleWork
  <2>1. Tail(messages) \in Seq(Request)
    BY <1>3 DEF OnScheduleWork, TypeOK
  <2>2. CASE DoWork(Tail(messages))
    BY <1>3, <2>1, <2>2, DoWorkFacts DEF OnScheduleWork, Dispatches, TypeOK
  <2>3. CASE UNCHANGED <<active, work>>
    BY <1>3, <2>3 DEF OnScheduleWork
  <2> QED
    BY <1>3, <2>2, <2>3 DEF OnScheduleWork
<1>4. CASE OnTimerTimeout
  <2>1. DoWork(<<>>) /\ <<>> \in Seq(Request)
    BY <1>4 DEF OnTimerTimeout
  <2> QED
    BY <1>4, <2>1, DoWorkFacts DEF OnTimerTimeout, Dispatches, TypeOK
<1>5. CASE LeaveLoop \/ DrainWork \/ FinishDrain
  BY <1>5 DEF LeaveLoop, DrainWork, FinishDrain
<1>6. CASE DirectRunWork \/ TaskReturns
  BY <1>6, WorkFacts DEF RunsInside
<1>7. CASE FinishWork
  BY <1>7 DEF FinishWork
<1>8. CASE Quit \/ TimerElapses
  BY <1>8 DEF Quit, TimerElapses, pumpVars
<1>9. CASE UNCHANGED vars
  BY <1>9 DEF vars, pumpVars
<1> QED
  BY <1>1, <1>2, <1>3, <1>4, <1>5, <1>6, <1>7, <1>8, <1>9 DEF Next, Loop

\* The calls after the loop stay counted.
LEMMA RoundsKept ==
  ASSUME TypeOK, RoundsCounted, [Next]_vars
  PROVE  RoundsCounted'
<1> USE DEF RoundsCounted
<1>1. CASE Posting
  BY <1>1, PostingFacts
<1>2. CASE \E t \in Tasks : TaskIsDue(t)
  BY <1>2 DEF TaskIsDue
<1>3. CASE OnScheduleWork \/ OnTimerTimeout \/ DrainWork
  BY <1>3 DEF OnScheduleWork, OnTimerTimeout, DrainWork
<1>4. CASE LeaveLoop
  BY <1>4, PumpAssumption DEF LeaveLoop
<1>5. CASE FinishDrain
  BY <1>5, PumpAssumption DEF FinishDrain, TypeOK
<1>6. CASE DirectRunWork \/ TaskReturns
  BY <1>6, WorkFacts
<1>7. CASE FinishWork \/ Quit \/ TimerElapses
  BY <1>7 DEF FinishWork, Quit, TimerElapses
<1>8. CASE UNCHANGED vars
  BY <1>8 DEF vars
<1> QED
  BY <1>1, <1>2, <1>3, <1>4, <1>5, <1>6, <1>7, <1>8 DEF Next, Loop

\* Tasks keep running inside the work.
LEMMA RunsKept ==
  ASSUME TypeOK, RunsInside, [Next]_vars
  PROVE  RunsInside'
<1> USE DEF RunsInside
<1>1. CASE Posting
  BY <1>1, PostingFacts
<1>2. ASSUME NEW t \in Tasks, TaskIsDue(t) PROVE RunsInside'
  <2>1. Running' => Running
    BY <1>2 DEF TaskIsDue, Running, TypeOK
  <2> QED
    BY <1>2, <2>1 DEF TaskIsDue, pumpVars
<1>3. CASE OnScheduleWork \/ OnTimerTimeout
  <2>1. UNCHANGED task
    BY <1>3 DEF OnScheduleWork, OnTimerTimeout, taskVars
  <2>2. work' = work \/ work' = "entered"
    <3>1. CASE UNCHANGED work
      BY <3>1
    <3>2. CASE \E rest \in Seq(Request) : DoWork(rest)
      BY <3>2, DoWorkFacts DEF TypeOK
    <3>3. OnScheduleWork => Tail(messages) \in Seq(Request)
      BY DEF OnScheduleWork, TypeOK
    <3>4. <<>> \in Seq(Request)
      OBVIOUS
    <3> QED
      BY <1>3, <3>1, <3>2, <3>3, <3>4 DEF OnScheduleWork, OnTimerTimeout
  <2>3. Running' => Running
    BY <2>1 DEF Running
  <2> QED
    BY <2>2, <2>3
<1>4. CASE LeaveLoop \/ DrainWork \/ FinishDrain \/ FinishWork
  <2>1. UNCHANGED task
    BY <1>4 DEF LeaveLoop, DrainWork, FinishDrain, FinishWork, taskVars
  <2>2. Running' => Running
    BY <2>1 DEF Running
  <2> QED
    BY <1>4, <2>2 DEF LeaveLoop, DrainWork, FinishDrain, FinishWork
<1>5. CASE DirectRunWork \/ TaskReturns
  BY <1>5, WorkFacts
<1>6. CASE Quit \/ TimerElapses
  <2>1. UNCHANGED <<task, work>>
    BY <1>6 DEF Quit, TimerElapses, taskVars, pumpVars
  <2> QED
    BY <2>1 DEF Running
<1>7. CASE UNCHANGED vars
  <2>1. UNCHANGED <<task, work>>
    BY <1>7 DEF vars, taskVars, pumpVars
  <2> QED
    BY <2>1 DEF Running
<1> QED
  BY <1>1, <1>2, <1>3, <1>4, <1>5, <1>6, <1>7 DEF Next, Loop

\* The loop keeps something that wakes it.
LEMMA DebtsKept ==
  ASSUME TypeOK, ActiveWhileWorking, RunsInside, DebtsWake, [Next]_vars
  PROVE  DebtsWake'
<1> SUFFICES ASSUME loop' = "runs", work' = "none",
                    (owed \/ \E t \in Tasks : task[t] \in {"delayed", "ready"})'
             PROVE  timer' \/ messages' # <<>>
  BY DEF DebtsWake
<1>1. CASE Posting
  <2>1. \/ messages' = messages
        \/ messages' = Append(messages, "now") /\ messages' # <<>>
        \/ messages' = Append(messages, "later") /\ messages' # <<>>
    <3>1. Append(messages, "now") # <<>> /\ Append(messages, "later") # <<>>
      BY DEF TypeOK, Request
    <3> QED
      BY <1>1, <3>1, PostingFacts
  <2>2. UNCHANGED <<loop, timer, work>> /\ (messages' # <<>> \/ Running \/ owed = TRUE)
    BY <1>1, PostingFacts
  <2> QED
    BY <2>1, <2>2 DEF DebtsWake, RunsInside
<1>2. ASSUME NEW t \in Tasks, TaskIsDue(t) PROVE timer' \/ messages' # <<>>
  BY <1>2 DEF TaskIsDue, pumpVars, DebtsWake
<1>3. CASE OnScheduleWork
  <2>1. Tail(messages) \in Seq(Request)
    BY <1>3 DEF OnScheduleWork, TypeOK
  <2>2. CASE DoWork(Tail(messages))
    BY <1>3, <2>1, <2>2, DoWorkFacts DEF OnScheduleWork, ActiveWhileWorking, TypeOK
  <2>3. CASE timer' = TRUE \/ (UNCHANGED timer /\ timer)
    BY <2>3
  <2> QED
    BY <1>3, <2>2, <2>3 DEF OnScheduleWork
<1>4. CASE OnTimerTimeout
  <2>1. DoWork(<<>>) /\ <<>> \in Seq(Request)
    BY <1>4 DEF OnTimerTimeout
  <2> QED
    BY <1>4, <2>1, DoWorkFacts DEF OnTimerTimeout, ActiveWhileWorking, TypeOK
<1>5. CASE LeaveLoop \/ DrainWork \/ FinishDrain
  BY <1>5 DEF LeaveLoop, DrainWork, FinishDrain
<1>6. CASE DirectRunWork \/ TaskReturns
  BY <1>6, WorkFacts DEF RunsInside
<1>7. CASE FinishWork
  <2>1. \/ messages' = Append(messages, "now")
        \/ messages' = Append(messages, "idle")
        \/ timer' = timer /\ timer
    BY <1>7 DEF FinishWork
  <2>2. Append(messages, "now") # <<>> /\ Append(messages, "idle") # <<>>
    BY DEF TypeOK, Request
  <2> QED
    BY <2>1, <2>2
<1>8. CASE Quit
  BY <1>8 DEF Quit
<1>9. CASE TimerElapses
  BY <1>9 DEF TimerElapses, pumpVars, taskVars, DebtsWake
<1>10. CASE UNCHANGED vars
  BY <1>10 DEF vars, taskVars, pumpVars, DebtsWake
<1> QED
  BY <1>1, <1>2, <1>3, <1>4, <1>5, <1>6, <1>7, <1>8, <1>9, <1>10 DEF Next, Loop

\* What DoWork discards is noted, and what is noted is posted again.
LEMMA DiscardKept ==
  ASSUME PumpInv, [Next]_vars
  PROVE  DiscardIsNoted' /\ DiscardedIsReposted'
<1> SUFFICES ASSUME loop' = "runs", discarded'
             PROVE  /\ work' # "none" => reentered'
                    /\ work' = "none" => AsksNow(messages')
  BY DEF DiscardIsNoted, DiscardedIsReposted, AsksNow
<1> USE DEF PumpInv
<1>a. /\ loop = "runs" /\ work # "none" /\ discarded => reentered
      /\ loop = "runs" /\ work = "none" /\ discarded => AsksNow(messages)
      /\ loop = "runs" => (active <=> work # "none")
      /\ messages \in Seq(Request)
  BY DEF DiscardIsNoted, DiscardedIsReposted, AsksNow, ActiveWhileWorking, TypeOK
<1>1. CASE Posting
  <2>1. UNCHANGED <<loop, reentered, work, discarded>>
    BY <1>1, PostingFacts
  <2>2. AsksNow(messages) => AsksNow(messages')
    BY <1>1, <1>a, PostingFacts, AppendKeeps DEF Request
  <2> QED
    BY <1>a, <2>1, <2>2
<1>2. ASSUME UNCHANGED <<messages, loop, reentered, work, discarded>>
      PROVE  /\ work' # "none" => reentered'
             /\ work' = "none" => AsksNow(messages')
  BY <1>2, <1>a
<1>3. ASSUME NEW rest \in Seq(Request), DoWork(rest), UNCHANGED loop
      PROVE  /\ work' # "none" => reentered'
             /\ work' = "none" => AsksNow(messages')
  BY <1>3, <1>a, DoWorkFacts DEF TypeOK
<1>4. CASE OnScheduleWork
  <2>1. Tail(messages) \in Seq(Request) /\ messages # <<>> /\ UNCHANGED loop
    BY <1>4, <1>a DEF OnScheduleWork
  <2>2. CASE DoWork(Tail(messages))
    BY <1>3, <2>1, <2>2
  <2>3. CASE /\ Head(messages) # "now" /\ messages' = Tail(messages)
             /\ UNCHANGED <<reentered, work, discarded>>
    BY <1>a, <2>1, <2>3, TailKeeps
  <2> QED
    BY <1>4, <2>2, <2>3 DEF OnScheduleWork
<1>5. CASE OnTimerTimeout
  <2>1. DoWork(<<>>) /\ <<>> \in Seq(Request) /\ UNCHANGED loop
    BY <1>5 DEF OnTimerTimeout
  <2> QED
    BY <1>3, <2>1
<1>6. CASE LeaveLoop \/ DrainWork \/ FinishDrain
  BY <1>6 DEF LeaveLoop, DrainWork, FinishDrain
<1>7. CASE DirectRunWork \/ TaskReturns
  BY <1>7, <1>a, WorkFacts DEF RunsInside
<1>8. CASE FinishWork
  BY <1>8, <1>a, AppendAsks DEF FinishWork
<1>9. CASE Quit
  BY <1>9 DEF Quit
<1>10. CASE TimerElapses \/ UNCHANGED vars \/ \E t \in Tasks : TaskIsDue(t)
  BY <1>2, <1>10 DEF TimerElapses, TaskIsDue, vars, pumpVars
<1> QED
  BY <1>1, <1>4, <1>5, <1>6, <1>7, <1>8, <1>9, <1>10 DEF Next, Loop

-----------------------------------------------------------------------------
(* Theorems. *)

\* The inductive invariant holds in every reachable state.
THEOREM PumpCorrect == Spec => []PumpInv
<1>1. Init => PumpInv
  BY InitType DEF Init, PumpInv, ActiveWhileWorking, RoundsCounted, RunsInside, Running,
    DebtsWake, DiscardIsNoted, DiscardedIsReposted
<1>2. PumpInv /\ [Next]_vars => PumpInv'
  BY NextType, ActiveKept, RoundsKept, RunsKept, DebtsKept, DiscardKept DEF PumpInv
<1> QED
  BY <1>1, <1>2, PTL DEF Spec

\* Every variable of the pump keeps its type.
THEOREM TypeCorrect == Spec => []TypeOK
<1>1. PumpInv => TypeOK
  BY DEF PumpInv
<1> QED
  BY <1>1, PumpCorrect, PTL

\* The client's loop never sleeps, without a timer or a message that wakes it,
\* while a task waits: whatever the slice of MessagePumpExternal left undone.
THEOREM LoopNeverSleepsOnWork == Spec => []NeverAsleep
<1>1. PumpInv => NeverAsleep
  BY DEF PumpInv, DebtsWake, NeverAsleep
<1> QED
  BY <1>1, PumpCorrect, PTL

\* A request that PerformMessageLoopWork discarded, because it came inside the
\* work, is posted again when the work is done.
THEOREM DiscardedRequestsComeBack == Spec => []DiscardedIsReposted
<1>1. PumpInv => DiscardedIsReposted
  BY DEF PumpInv
<1> QED
  BY <1>1, PumpCorrect, PTL
=============================================================================
