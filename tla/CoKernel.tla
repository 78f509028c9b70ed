------------------------------ MODULE CoKernel ------------------------------
(***************************************************************************)
(* The CoOS kernel: the scheduler and its ready list (CoOS/kernel/task.c,  *)
(* core.c), the delay list and the system tick (time.c, portable/arch.c),  *)
(* the service requests that interrupts leave for a locked kernel          *)
(* (serviceReq.c) and counting semaphores on top of them (event.c, sem.c). *)
(*                                                                         *)
(* One processor.  A task runs its service calls step by step; between any *)
(* two steps the system tick, an interrupt that posts a semaphore or       *)
(* PendSV may run, each to completion.  Kernel functions called from       *)
(* several places are operators from kernel state to kernel state.         *)
(*                                                                         *)
(* A tick between the two stores of TimeDispose that take a task off the   *)
(* delay list (time.c:335, 336) decrements the invalid delayTick that was  *)
(* just stored, and the ready task is taken for a delayed one from then    *)
(* on.  The model reaches that state, records it as torn and follows the   *)
(* kernel no further: what it shows holds of a kernel until then.          *)
(*                                                                         *)
(* OSCheckTime is kept relative to OSTickCnt (the code only compares the   *)
(* two) and of OSTickCnt only the parity is kept, so the model needs no    *)
(* bound on time.  Linked lists are sequences.                             *)
(***************************************************************************)
EXTENDS Integers, FiniteSets, SequencesExt

CONSTANTS
  Tasks, Idle,             \* all tasks; CoIdleTask is one of them
  Prio,                    \* task -> priority, smaller is more urgent
  TimeSlice,               \* CFG_TIME_SLICE
  Sems,                    \* semaphores
  Sort,                    \* semaphore -> EVENT_SORT_TYPE
  InitCnt, MaxCnt,         \* semaphore -> initial and largest count
  Loads,                   \* see LoadAssumption
  CFG_MAX_SERVICE_REQUEST, \* cells of the service request queue
  NullPrio,                \* what TCBRdy->prio reads when TCBRdy is null
  INVALID                  \* INVALID_ID, INVALID_VALUE

ASSUME IdleAssumption ==
  /\ Idle \in Tasks
  /\ \A t \in Tasks : Prio[t] \in Nat /\ Prio[t] <= Prio[Idle]
\* A load is an application: the service calls each task may make and the
\* semaphores that interrupts post.
ASSUME LoadAssumption ==
  \A l \in Loads : l.calls[Idle] = {} /\ l.isr \subseteq Sems
ASSUME CountAssumption == \A s \in Sems : InitCnt[s] \in 0 .. MaxCnt[s]
ASSUME ConfigAssumption ==
  TimeSlice \in Nat \ {0} /\ CFG_MAX_SERVICE_REQUEST \in Nat \ {0}

VARIABLES
  os,    \* the kernel's globals, see OsType
  pc,    \* task -> control point inside a kernel service, or "user"
  call,  \* task -> the service call in progress
  ret,   \* task -> where OsSchedUnlock returns to
  load   \* the application, which never changes

vars == <<os, pc, call, ret, load>>

U16 == 65536        \* eventCounter is a U16

-----------------------------------------------------------------------------
(* Ready list.                                                             *)

\* Behind the tasks that are at least as urgent.
InsertByPrio(q, t) ==
  LET later == {i \in 1 .. Len(q) : Prio[t] < Prio[q[i]]}
  IN  InsertAt(q, IF later = {} THEN Len(q) + 1 ELSE Min(later), t)

\* Variant with a defect: a new head does not request a reschedule.
QuietInsert(k, t) ==
  [k EXCEPT
     !.state[t] = "READY",
     !.rdy = InsertByPrio(@, t),
     !.slice = IF Prio[t] = Prio[k.running] /\ t # k.running /\ @ < 0
               THEN TimeSlice ELSE @,
     !.wild = @ \/ t \in ToSet(k.rdy) \cup ToSet(k.dly)]

\* TCBnext and TCBprev link the ready list and the delay list alike: an
\* insertion of a linked task corrupts a list, recorded as wild.
InsertToTCBRdyList(k, t) ==
  [k EXCEPT
     !.state[t] = "READY",
     !.rdy = InsertByPrio(@, t),
     !.slice = IF Prio[t] = Prio[k.running] /\ t # k.running /\ @ < 0
               THEN TimeSlice ELSE @,
     !.schedReq = @ \/ k.rdy = <<>> \/ Prio[t] < Prio[Head(k.rdy)],
     !.wild = @ \/ t \in ToSet(k.rdy) \cup ToSet(k.dly)]

\* Unlinking a task that is alone in, or not in, the list clears TCBRdy.
RemoveFromTCBRdyList(k, t) ==
  [k EXCEPT !.rdy = Remove(@, t), !.wild = @ \/ t \notin ToSet(k.rdy)]

\* SwitchContext pends the PendSV exception.
Schedule(k) ==
  LET cur == k.running
      top == Head(k.rdy)
      ready == IF k.state[cur] = "RUNNING" THEN InsertToTCBRdyList(k, cur)
               ELSE k
      switched == [RemoveFromTCBRdyList(ready, top) EXCEPT
                     !.next = top, !.state[top] = "RUNNING",
                     !.schedReq = FALSE, !.pendsv = TRUE]
      rdyPrio == IF switched.rdy = <<>> THEN NullPrio
                 ELSE Prio[Head(switched.rdy)]
  IN  IF \/ k.rdy = <<>> \/ cur # k.next \/ k.lock > 1 \/ k.nesting > 0
      THEN k
      ELSE IF \/ k.state[cur] # "RUNNING"
              \/ Prio[top] < Prio[cur]
              \/ Prio[top] = Prio[cur] /\ k.slice = 0
      THEN [switched EXCEPT
              !.slice = IF Prio[top] = rdyPrio THEN TimeSlice ELSE @]
      ELSE [k EXCEPT !.schedReq = FALSE]

-----------------------------------------------------------------------------
(* Delay list: each task holds the ticks that remain after its predecessor.*)

Ticks(k, t) == IF k.delay[t] = INVALID THEN 0 ELSE k.delay[t]

TicksTo(k, i) == MapThenSumSet(LAMBDA j : Ticks(k, k.dly[j]), 1 .. i)

InsertDelayList(k, t, ticks) ==
  LET later == {i \in 1 .. Len(k.dly) : ticks < TicksTo(k, i)}
      at    == IF later = {} THEN Len(k.dly) + 1 ELSE Min(later)
      delta == ticks - TicksTo(k, at - 1)
  IN  IF ticks = 0 THEN k
      ELSE [k EXCEPT
              !.dly = InsertAt(@, at, t),
              !.delay = [u \in Tasks |->
                           IF u = t THEN delta
                           ELSE IF later # {} /\ u = k.dly[at]
                           THEN @[u] - delta ELSE @[u]],
              !.state[t] = "WAITING", !.schedReq = TRUE, !.due[t] = ticks]

\* Variant with a defect: the successor does not inherit the ticks.
ForgetfulRemove(k, t) ==
  [k EXCEPT !.dly = Remove(@, t), !.delay[t] = INVALID]

RemoveDelayList(k, t) ==
  LET i == CHOOSE j \in 1 .. Len(k.dly) : k.dly[j] = t
      heir == {u \in Tasks : i < Len(k.dly) /\ u = k.dly[i + 1]}
  IN  [k EXCEPT
         !.dly = Remove(@, t),
         !.delay = [u \in Tasks |->
                      IF u = t THEN INVALID
                      ELSE IF u \in heir THEN @[u] + @[t] ELSE @[u]]]

RemoveEventWaittingList(k, t) ==
  [k EXCEPT !.wait[k.event[t]] = Remove(@, t), !.event[t] = INVALID]

\* TimeDispose takes the head of the delay list, which has no ticks left, off
\* the event it waited for and marks it as not delayed, ...
Invalidate(k) ==
  LET t == Head(k.dly)
      e == IF k.event[t] # INVALID THEN RemoveEventWaittingList(k, t) ELSE k
  IN  [e EXCEPT !.delay[t] = INVALID]

\* ... off the delay list, and makes it ready.
MakeReady(k) == InsertToTCBRdyList([k EXCEPT !.dly = Tail(@)], Head(k.dly))

\* As an interrupt runs it: all the leading tasks with no ticks left.
TimeDispose(k) ==
  LET expired == {i \in 1 .. Len(k.dly) : TicksTo(k, i) = 0}
      Expire(i, c) == MakeReady(Invalidate(c))
  IN  FoldSet(Expire, k, expired)

\* Variant with a defect: an unlocked kernel is not served at once.
DeferOnly(k) ==
  IF k.lock > 1 THEN [k EXCEPT !.isrReq = TRUE, !.timeReq = TRUE] ELSE k

isr_TimeDispose(k) ==
  IF k.lock > 1 THEN [k EXCEPT !.isrReq = TRUE, !.timeReq = TRUE]
  ELSE TimeDispose(k)

-----------------------------------------------------------------------------
(* Semaphores.                                                             *)

EventTaskToWait(k, s, t) ==
  [k EXCEPT
     !.wait[s] = IF Sort[s] = "FIFO" THEN Append(@, t) ELSE InsertByPrio(@, t),
     !.event[t] = s, !.state[t] = "WAITING", !.schedReq = TRUE]

\* Variant with a defect: a timed waiter stays in the delay list.
StillDelayed(k, s) ==
  LET t == Head(k.wait[s])
      got == [k EXCEPT !.wait[s] = Tail(@), !.event[t] = INVALID,
                       !.count[s] = (@ - 1) % U16, !.mail[t] = TRUE]
  IN  IF k.wait[s] = <<>> THEN k ELSE InsertToTCBRdyList(got, t)

\* Variant with a defect: the woken task is not told by pmail.
NoMail(k, s) ==
  LET t == Head(k.wait[s])
      got == [k EXCEPT !.wait[s] = Tail(@), !.event[t] = INVALID,
                       !.count[s] = (@ - 1) % U16]
      free == IF k.delay[t] # INVALID THEN RemoveDelayList(got, t) ELSE got
  IN  IF k.wait[s] = <<>> THEN k
      ELSE IF t = k.running THEN [free EXCEPT !.state[t] = "RUNNING"]
      ELSE InsertToTCBRdyList(free, t)

\* The first waiter, if any, takes one unit and leaves both its lists.
EventTaskToRdy(k, s) ==
  LET t == Head(k.wait[s])
      got == [k EXCEPT !.wait[s] = Tail(@), !.event[t] = INVALID,
                       !.count[s] = (@ - 1) % U16, !.mail[t] = TRUE]
      free == IF k.delay[t] # INVALID THEN RemoveDelayList(got, t) ELSE got
  IN  IF k.wait[s] = <<>> THEN k
      ELSE IF t = k.running THEN [free EXCEPT !.state[t] = "RUNNING"]
      ELSE InsertToTCBRdyList(free, t)

\* The locked part of CoPostSem.
PostLocked(k, s) ==
  EventTaskToRdy([k EXCEPT !.count[s] = (@ + 1) % U16, !.units[s] = @ + 1], s)

\* CoPostSem on a locked kernel: its OsSchedUnlock only undoes its lock.
CoPostSemNested(k, s) ==
  IF k.count[s] = MaxCnt[s] THEN k ELSE PostLocked(k, s)

-----------------------------------------------------------------------------
(* Service requests, and the kernel as interrupts run it.                  *)

InsertInSRQ(k, s) ==
  IF Len(k.srq) >= CFG_MAX_SERVICE_REQUEST THEN k
  ELSE [k EXCEPT !.srq = Append(@, s), !.isrReq = TRUE]

RespondSRQ(k) ==
  LET timed == IF k.timeReq THEN [TimeDispose(k) EXCEPT !.timeReq = FALSE]
               ELSE k
      served == FoldLeft(CoPostSemNested, timed, k.srq)
  IN  [served EXCEPT !.srq = <<>>, !.isrReq = FALSE]

OsSchedUnlock(k) ==
  LET done == IF k.isrReq THEN RespondSRQ(k) ELSE k
      chosen == IF done.schedReq THEN Schedule(done) ELSE done
  IN  IF k.lock = 1 THEN [chosen EXCEPT !.lock = 0]
      ELSE [k EXCEPT !.lock = @ - 1]

SysTick_Handler(k) ==
  LET ticked == [k EXCEPT
                   !.lock = @ + 1, !.tick = 1 - @,
                   !.slice = IF @ < 0 THEN @ ELSE @ - 1,
                   !.due = [t \in Tasks |-> IF @[t] = 0 THEN 0 ELSE @[t] - 1]]
      first == Head(k.dly)
      timed == IF k.dly = <<>> THEN ticked
               ELSE IF k.delay[first] = INVALID
               THEN [ticked EXCEPT !.torn = TRUE]
               ELSE IF k.delay[first] > 1
               THEN [ticked EXCEPT !.delay[first] = @ - 1]
               ELSE isr_TimeDispose([ticked EXCEPT !.delay[first] = 0])
  IN  OsSchedUnlock([timed EXCEPT !.schedReq = TRUE])

isr_PostSem(k, s) ==
  IF k.lock > 0 THEN InsertInSRQ(k, s)
  ELSE IF k.count[s] = MaxCnt[s] THEN k
  ELSE OsSchedUnlock(PostLocked([k EXCEPT !.lock = 1], s))

CoEnterISR(k) == [k EXCEPT !.nesting = @ + 1]

CoExitISR(k) ==
  LET out == [k EXCEPT !.nesting = @ - 1]
  IN  IF out.nesting = 0 /\ out.schedReq
      THEN [Schedule([out EXCEPT !.lock = @ + 1]) EXCEPT !.lock = out.lock]
      ELSE out

-----------------------------------------------------------------------------
\* CoInitOS, CoCreateTask for every task, CoStartOS up to OsSchedUnlock.
Init ==
  /\ \E q \in SetToSeqs(Tasks \ {Idle}), slice \in {-1, 0} :
       /\ \A i, j \in 1 .. Len(q) : i < j => Prio[q[i]] <= Prio[q[j]]
       /\ os = [running |-> Idle, next |-> Idle, pendsv |-> FALSE,
                tick |-> 0, lock |-> 1, nesting |-> 0, schedReq |-> TRUE,
                isrReq |-> FALSE, timeReq |-> FALSE, slice |-> slice,
                rdy |-> q, dly |-> <<>>, srq |-> <<>>,
                state |-> [t \in Tasks |->
                             IF t = Idle THEN "RUNNING" ELSE "READY"],
                delay |-> [t \in Tasks |-> INVALID],
                event |-> [t \in Tasks |-> INVALID],
                mail  |-> [t \in Tasks |-> FALSE],
                wait  |-> [s \in Sems |-> <<>>],
                count |-> InitCnt,
                due   |-> [t \in Tasks |-> 0],
                units |-> InitCnt,
                wild  |-> FALSE, torn |-> FALSE]
  /\ pc = [t \in Tasks |-> IF t = Idle THEN "unlock" ELSE "user"]
  /\ call = [t \in Tasks |-> [op |-> "none"]]
  /\ ret = [t \in Tasks |-> "user"]
  /\ load \in Loads

\* The lists are still what the code takes them for.
Sane == ~os.wild /\ ~os.torn

\* Task t executes: it is the running task and no switch is pending.
Runs(t) == os.running = t /\ ~os.pendsv /\ Sane
At(t, label) == Runs(t) /\ pc[t] = label
Goto(t, label) == pc' = [pc EXCEPT ![t] = label]
In(t, op) == At(t, "body") /\ call[t].op = op

\* The checks a service makes before it locks the scheduler.
TickDelayAccepted(c) == c.ticks # 0
PostAccepted(c) == os.count[c.id] # MaxCnt[c.id]
SuspendAccepted(c) == c.task # Idle /\ os.state[c.task] # "WAITING"
AwakeAccepted(c) ==
  /\ c.task # Idle /\ os.state[c.task] = "WAITING"
  /\ os.delay[c.task] = INVALID /\ os.event[c.task] = INVALID

Accepted(c) ==
  CASE c.op = "CoTickDelay"   -> TickDelayAccepted(c)
    [] c.op = "CoPostSem"     -> PostAccepted(c)
    [] c.op = "CoSuspendTask" -> SuspendAccepted(c)
    [] c.op = "CoAwakeTask"   -> AwakeAccepted(c)
    [] OTHER                  -> TRUE

\* Task t calls a service; a refused call returns an error code at once.
Call(t) ==
  /\ At(t, "user")
  /\ \E c \in load.calls[t] :
       Accepted(c) /\ call' = [call EXCEPT ![t] = c]
  /\ Goto(t, "lock")
  /\ UNCHANGED <<os, ret>>

\* OsSchedLock()
Lock(t) ==
  /\ At(t, "lock")
  /\ os' = [os EXCEPT !.lock = @ + 1]
  /\ Goto(t, "body")
  /\ UNCHANGED <<call, ret>>

\* Every locked part ends in OsSchedUnlock, which returns to label.
Then(t, label) ==
  /\ Goto(t, "unlock")
  /\ ret' = [ret EXCEPT ![t] = label]

CoTickDelay(t) ==
  /\ In(t, "CoTickDelay")
  /\ os' = InsertDelayList(os, t, call[t].ticks)
  /\ Then(t, "user") /\ UNCHANGED call

\* CoPendSem takes a unit ...
PendTake(t) ==
  /\ In(t, "CoPendSem") /\ os.count[call[t].id] > 0
  /\ os' = [os EXCEPT !.count[call[t].id] = @ - 1, !.units[call[t].id] = @ - 1]
  /\ Then(t, "user") /\ UNCHANGED call

\* ... or unlocks the scheduler before it goes on to wait.
PendEmpty(t) ==
  /\ In(t, "CoPendSem") /\ os.count[call[t].id] = 0
  /\ call' = [call EXCEPT ![t].op = "EventTaskToWait"]
  /\ Then(t, "lock") /\ UNCHANGED os

\* The blocking part of CoPendSem, without (ticks = 0) or with time-out.
PendWait(t) ==
  /\ In(t, "EventTaskToWait")
  /\ os' = InsertDelayList(EventTaskToWait(os, call[t].id, t), t, call[t].ticks)
  /\ Then(t, "woken") /\ UNCHANGED call

\* E_TIMEOUT when a timed wait ended without pmail, E_OK otherwise.
PendReturn(t) ==
  /\ At(t, "woken")
  /\ os' = [os EXCEPT
              !.mail[t] = FALSE,
              !.units[call[t].id] =
                 IF call[t].ticks = 0 \/ os.mail[t] THEN @ - 1 ELSE @]
  /\ Goto(t, "user") /\ UNCHANGED <<call, ret>>

CoPostSem(t) ==
  /\ In(t, "CoPostSem")
  /\ os' = PostLocked(os, call[t].id)
  /\ Then(t, "user") /\ UNCHANGED call

\* CoAcceptSem looks at the counter under the lock and decrements it after.
CoAcceptSem(t) ==
  /\ In(t, "CoAcceptSem")
  /\ Then(t, IF os.count[call[t].id] > 0 THEN "take" ELSE "user")
  /\ UNCHANGED <<os, call>>

AcceptTake(t) ==
  /\ At(t, "take")
  /\ os' = [os EXCEPT !.count[call[t].id] = (@ - 1) % U16,
                      !.units[call[t].id] = @ - 1]
  /\ Goto(t, "user") /\ UNCHANGED <<call, ret>>

CoSuspendTask(t) ==
  /\ In(t, "CoSuspendTask")
  /\ LET x == call[t].task
         out == IF x # t THEN RemoveFromTCBRdyList(os, x)
                ELSE [os EXCEPT !.schedReq = TRUE]
     IN  os' = [out EXCEPT !.state[x] = "WAITING"]
  /\ Then(t, "user") /\ UNCHANGED call

CoAwakeTask(t) ==
  /\ In(t, "CoAwakeTask")
  /\ os' = InsertToTCBRdyList(os, call[t].task)
  /\ Then(t, "user") /\ UNCHANGED call

-----------------------------------------------------------------------------
(* OsSchedUnlock in task context, with RespondSRQ step by step.            *)

Unlock(t) ==
  /\ At(t, "unlock")
  /\ Goto(t, IF os.isrReq THEN "time" ELSE "sched")
  /\ UNCHANGED <<os, call, ret>>

Expired == os.dly # <<>> /\ os.delay[Head(os.dly)] = 0

\* TimeDispose one store at a time, then the request queue.
RespondTime(t) ==
  /\ At(t, "time")
  /\ \/ ~os.timeReq /\ os' = os /\ Goto(t, "cells")
     \/ os.timeReq /\ Expired /\ os' = Invalidate(os) /\ Goto(t, "expire")
     \/ os.timeReq /\ ~Expired /\ os' = os /\ Goto(t, "timeClear")
  /\ UNCHANGED <<call, ret>>

\* Back to the loop of TimeDispose.
RespondExpire(t) ==
  /\ At(t, "expire")
  /\ os' = MakeReady(os)
  /\ Goto(t, "time")
  /\ UNCHANGED <<call, ret>>

RespondTimeClear(t) ==
  /\ At(t, "timeClear")
  /\ os' = [os EXCEPT !.timeReq = FALSE]
  /\ Goto(t, "cells")
  /\ UNCHANGED <<call, ret>>

RespondCell(t) ==
  /\ At(t, "cells") /\ os.srq # <<>>
  /\ os' = CoPostSemNested([os EXCEPT !.srq = Tail(@)], Head(os.srq))
  /\ UNCHANGED <<pc, call, ret>>

RespondCellsDone(t) ==
  /\ At(t, "cells") /\ os.srq = <<>>
  /\ Goto(t, "clear")
  /\ UNCHANGED <<os, call, ret>>

RespondClear(t) ==
  /\ At(t, "clear")
  /\ os' = [os EXCEPT !.isrReq = @ /\ os.srq # <<>>]
  /\ Goto(t, "sched")
  /\ UNCHANGED <<call, ret>>

UnlockSchedule(t) ==
  /\ At(t, "sched")
  /\ os' = IF os.schedReq THEN Schedule(os) ELSE os
  /\ Goto(t, "open")
  /\ UNCHANGED <<call, ret>>

\* OSSchedLock = 0, also the first thing a switched-out task does later.
UnlockOpen(t) ==
  /\ At(t, "open")
  /\ os' = [os EXCEPT !.lock = 0]
  /\ Goto(t, ret[t])
  /\ UNCHANGED <<call, ret>>

-----------------------------------------------------------------------------
(* Exceptions.                                                             *)

SysTick ==
  /\ Sane /\ os' = SysTick_Handler(os)
  /\ UNCHANGED <<pc, call, ret>>

\* An interrupt handler such as ENET_IRQHandler.
Interrupt(s) ==
  /\ Sane /\ os' = CoExitISR(isr_PostSem(CoEnterISR(os), s))
  /\ UNCHANGED <<pc, call, ret>>

PendSV_Handler ==
  /\ os.pendsv /\ Sane
  /\ os' = [os EXCEPT !.running = os.next, !.lock = 0, !.pendsv = FALSE]
  /\ UNCHANGED <<pc, call, ret>>

Service(t) ==
  \/ Lock(t) \/ CoTickDelay(t) \/ PendTake(t) \/ PendEmpty(t) \/ PendWait(t)
  \/ PendReturn(t) \/ CoPostSem(t) \/ CoAcceptSem(t) \/ AcceptTake(t)
  \/ CoSuspendTask(t) \/ CoAwakeTask(t)
  \/ Unlock(t) \/ RespondTime(t) \/ RespondExpire(t) \/ RespondTimeClear(t)
  \/ RespondCell(t) \/ RespondCellsDone(t) \/ RespondClear(t)
  \/ UnlockSchedule(t) \/ UnlockOpen(t)

Next ==
  /\ \/ \E t \in Tasks : Call(t) \/ Service(t)
     \/ SysTick \/ PendSV_Handler
     \/ \E s \in load.isr : Interrupt(s)
  /\ UNCHANGED load

Spec == Init /\ [][Next]_vars

Labels == {"user", "lock", "body", "woken", "take", "unlock", "time",
           "expire", "timeClear", "cells", "clear", "sched", "open"}

\* A task inside a kernel service takes its next step ...
ServiceGoesOn ==
  \E t \in Tasks, label \in Labels :
    /\ Runs(t) /\ pc[t] # "user" /\ label # pc[t]
    /\ pc' = [pc EXCEPT ![t] = label]

\* ... a pending switch happens and the tick keeps coming, wherever it
\* falls.
TickPasses == os'.tick # os.tick

Fairness ==
  WF_pc(ServiceGoesOn) /\ WF_os(PendSV_Handler) /\ []<><<TickPasses>>_os

FairSpec == Spec /\ Fairness

-----------------------------------------------------------------------------
(* Properties.                                                             *)

OsType ==
  [running : Tasks, next : Tasks, pendsv : BOOLEAN,
   tick : {0, 1}, lock : {0, 1}, nesting : {0},
   schedReq : BOOLEAN, isrReq : BOOLEAN, timeReq : BOOLEAN,
   slice : -1 .. TimeSlice,
   rdy : Seq(Tasks), dly : Seq(Tasks), srq : Seq(Sems),
   state : [Tasks -> {"READY", "RUNNING", "WAITING"}],
   delay : [Tasks -> Nat \cup {INVALID}],
   event : [Tasks -> Sems \cup {INVALID}],
   mail : [Tasks -> BOOLEAN],
   wait : [Sems -> Seq(Tasks)], count : [Sems -> 0 .. U16 - 1],
   due : [Tasks -> Nat], units : [Sems -> Int], wild : BOOLEAN,
   torn : BOOLEAN]

TypeOK ==
  /\ os \in OsType
  /\ pc \in [Tasks -> Labels]
  /\ ret \in [Tasks -> {"user", "lock", "woken", "take"}]
  /\ DOMAIN call = Tasks /\ load \in Loads

\* TimeDispose is between its two stores for task t.
Expiring(t) ==
  pc[os.running] = "expire" /\ os.dly # <<>> /\ t = Head(os.dly)

\* Every task is exactly where its state says, once: ready tasks in the
\* ready list, delayed tasks in the delay list, waiting tasks in the list of
\* their semaphore, and the lists that share TCBnext/TCBprev never hold the
\* same task, whatever ticks, interrupts and service calls interleave, until
\* a tick falls between the two stores of a deferred TimeDispose.  Only a task
\* that nothing preempts between the test and the lock suspends another.
Coherent ==
  /\ TypeOK /\ ~os.wild
  /\ IsInjective(os.rdy) /\ IsInjective(os.dly)
  /\ \A s \in Sems : IsInjective(os.wait[s])
  /\ \A t \in Tasks :
       /\ t \in ToSet(os.rdy) <=> os.state[t] = "READY"
       /\ ~os.torn =>
            (t \in ToSet(os.dly) <=> os.delay[t] # INVALID \/ Expiring(t))
       /\ \A s \in Sems : t \in ToSet(os.wait[s]) <=> os.event[t] = s
       /\ t \in ToSet(os.dly) \/ os.event[t] # INVALID
            => os.state[t] = "WAITING"
       /\ os.state[t] = "RUNNING" => t = os.next

\* When no reschedule is requested or under way, no ready task is more
\* urgent than the running one, which has not been blocked.
MostUrgentRuns ==
  os.lock = 0 /\ ~os.pendsv /\ ~os.schedReq =>
    /\ os.state[os.running] = "RUNNING"
    /\ \A t \in ToSet(os.rdy) : Prio[os.running] <= Prio[t]

\* The delta list never promises a task fewer ticks than it asked for: no
\* delay and no time-out ends early, though insertions and removals by tasks
\* interleave with the tick and with late TimeDispose calls.
NeverEarly ==
  \A i \in 1 .. Len(os.dly) : TicksTo(os, i) >= os.due[os.dly[i]]

\* A unit that is posted is in the counter or with exactly one task that was
\* woken for it and is told so: a time-out racing a post neither loses a unit
\* nor hands it out twice.
UnitsConserved ==
  \A s \in Sems :
    os.units[s] = os.count[s]
      + Cardinality({t \in Tasks : os.mail[t] /\ call[t].id = s})

\* A delay ends: the head of the list is not stuck behind a cleared TimeReq.
DelayEnds ==
  \A t \in Tasks : t \in ToSet(os.dly) ~> t \notin ToSet(os.dly)

\* "Resource is not available" (sem.c:204): a task waits for a semaphore only
\* while its counter is zero.
WaitsOnlyWhenEmpty ==
  \A s \in Sems : os.lock = 0 /\ os.wait[s] # <<>> => os.count[s] = 0

=============================================================================
