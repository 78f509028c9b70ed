------------------------------ MODULE CoMutex -------------------------------
(***************************************************************************)
(* A CoOS mutex with priority inheritance: CoOS/kernel/mutex.c, and the    *)
(* parts of CoSetPriority and CoDelTask (task.c) that touch mutexes.       *)
(*                                                                         *)
(* Every mutex function works under OsSchedLock and interrupts never call  *)
(* one, so each is one step.  CoSetPriority is modelled as these functions *)
(* call it, under their lock: no task of the firmware calls it, and one    *)
(* that did would test and write the task control block unlocked.  The     *)
(* scheduler is what CoKernel shows of it: a task takes a step only when   *)
(* no ready task is more urgent.  A ready task is READY or RUNNING in the  *)
(* code, a sleeping one waits for anything that is not this mutex.  There  *)
(* is one mutex: a task control block has room for one mutexID.            *)
(***************************************************************************)
EXTENDS Integers, Sequences, FiniteSets

CONSTANTS
  Tasks,       \* user tasks
  Prio,        \* task -> priority it is created with, smaller is more urgent
  Casts,       \* see CastAssumption
  NONE         \* INVALID_ID, Co_NULL

CFG_LOWEST_PRIO == 64

Priorities == 0 .. CFG_LOWEST_PRIO

ASSUME TaskAssumption ==
  NONE \notin Tasks /\ \A t \in Tasks : Prio[t] \in Priorities

\* A cast is an application that uses the mutex: the tasks it creates, and those
\* of them that they delete and create again.
ASSUME CastAssumption ==
  Casts \subseteq [tasks : SUBSET Tasks, deletable : SUBSET Tasks]

VARIABLES
  k,        \* kernel state, see TypeOK
  inside,   \* task -> between CoEnterMutexSection and CoLeaveMutexSection
  del,      \* task -> the task its CoDelTask has still to remove, or NONE
  cast      \* the application, which never changes

vars == <<k, inside, del, cast>>

-----------------------------------------------------------------------------
(* Kernel functions, from kernel state to kernel state.                    *)

In(q, t) == \E i \in 1 .. Len(q) : q[i] = t

\* The loop over the waiting list q: the first of the most urgent tasks, if
\* more urgent than priority p, else h.
Urgent(prio, q, p, h) ==
  LET better == {i \in 1 .. Len(q) : prio[q[i]] < p}
      best == CHOOSE i \in better : \A j \in better :
                prio[q[i]] < prio[q[j]] \/ (prio[q[i]] = prio[q[j]] /\ i <= j)
  IN  IF better = {} THEN [prio |-> p, task |-> h]
      ELSE [prio |-> prio[q[best]], task |-> q[best]]

\* CoSetPriority, called while the mutex has no owner.  A task that sleeps with
\* a mutexID is taken to be in the mutex list, and hipriTaskID is found again.
CoSetPriority(s, t, p) ==
  LET set == [s EXCEPT !.prio[t] = p]
      top == Urgent(set.prio, s.list, s.orig, s.owner)
  IN  IF t = NONE \/ s.state[t] = "DORMANT" \/ s.prio[t] = p THEN s
      ELSE IF s.state[t] = "READY" \/ ~s.mutexID[t] THEN set
      ELSE [set EXCEPT !.hipri = top.task]

\* Variant with a defect: the owner is not promoted.
EnterNoPromotion(s, t) ==
  LET queued == [s EXCEPT !.state[t] = "WAITING", !.list = Append(@, t),
                          !.mutexID[t] = TRUE,
                          !.prev[t] = IF s.list = <<>> THEN NONE
                                      ELSE s.list[Len(s.list)]]
  IN  IF s.owner = NONE
      THEN [s EXCEPT !.mutexID[t] = TRUE, !.orig = s.prio[t], !.owner = t,
                     !.hipri = t]
      ELSE queued

\* Variant with a defect: the newcomer replaces the waiting list.
EnterReplacing(s, t) ==
  IF s.owner = NONE
  THEN [s EXCEPT !.mutexID[t] = TRUE, !.orig = s.prio[t], !.owner = t,
                 !.hipri = t]
  ELSE [s EXCEPT !.state[t] = "WAITING", !.list = <<t>>, !.mutexID[t] = TRUE,
                 !.prev[t] = NONE]

\* Variant with a defect: the newcomer is put at the head of the list.
EnterAtHead(s, t) ==
  IF s.owner = NONE
  THEN [s EXCEPT !.mutexID[t] = TRUE, !.orig = s.prio[t], !.owner = t,
                 !.hipri = t]
  ELSE [s EXCEPT !.state[t] = "WAITING", !.list = <<t>> \o @,
                 !.mutexID[t] = TRUE, !.hipri = t,
                 !.prio[s.owner] = IF s.prio[t] < @ THEN s.prio[t] ELSE @]

\* A free mutex is taken; a held one is waited for, first come first served,
\* and its owner promoted to the priority of the caller.
CoEnterMutexSection(s, t) ==
  LET queued == [s EXCEPT !.state[t] = "WAITING", !.list = Append(@, t),
                          !.mutexID[t] = TRUE,
                          !.prev[t] = IF s.list = <<>> THEN NONE
                                      ELSE s.list[Len(s.list)]]
  IN  IF s.owner = NONE
      THEN [s EXCEPT !.mutexID[t] = TRUE, !.orig = s.prio[t], !.owner = t,
                     !.hipri = t]
      ELSE IF s.prio[s.owner] > s.prio[t]
      THEN [queued EXCEPT !.prio[s.owner] = s.prio[t], !.hipri = t]
      ELSE queued

\* Variant with a defect: the mutex is free again although it was passed on.
LeaveFree(s) ==
  LET first == Head(s.list)
  IN  IF s.list = <<>> THEN [s EXCEPT !.mutexID[s.owner] = FALSE, !.owner = NONE]
      ELSE [s EXCEPT !.mutexID[s.owner] = FALSE, !.prio[s.owner] = s.orig,
                     !.list = Tail(@), !.owner = NONE, !.orig = s.prio[first],
                     !.state[first] = "READY"]

\* Variant with a defect: the priority passed on is read after the reset.
LeaveReadsLate(s) ==
  LET old == s.owner
      first == Head(s.list)
      top == IF s.hipri = old
             THEN Urgent(s.prio, s.list, s.prio[first], s.hipri)
             ELSE [prio |-> s.orig, task |-> s.hipri]
      reset == CoSetPriority([s EXCEPT !.mutexID[old] = FALSE, !.owner = NONE,
                                       !.hipri = top.task], old, s.orig)
  IN  IF old = NONE THEN [s EXCEPT !.corrupt = TRUE]
      ELSE IF s.list = <<>>
      THEN [s EXCEPT !.mutexID[old] = FALSE, !.owner = NONE]
      ELSE [reset EXCEPT !.list = Tail(@), !.orig = reset.prio[first],
                         !.owner = first, !.prio[first] = top.prio,
                         !.prev[first] = NONE, !.state[first] = "READY"]

\* The first waiter becomes the owner, at the priority of the most urgent
\* one; hipriTaskID tells whether the old owner had been promoted to it.
CoLeaveMutexSection(s) ==
  LET old == s.owner
      first == Head(s.list)
      top == IF s.hipri = old
             THEN Urgent(s.prio, s.list, s.prio[first], s.hipri)
             ELSE [prio |-> s.prio[old], task |-> s.hipri]
      reset == CoSetPriority([s EXCEPT !.mutexID[old] = FALSE, !.owner = NONE,
                                       !.hipri = top.task], old, s.orig)
  IN  IF old = NONE THEN [s EXCEPT !.corrupt = TRUE]
      ELSE IF s.list = <<>>
      THEN [s EXCEPT !.mutexID[old] = FALSE, !.owner = NONE]
      ELSE [reset EXCEPT !.list = Tail(@), !.orig = reset.prio[first],
                         !.owner = first, !.prio[first] = top.prio,
                         !.prev[first] = NONE, !.state[first] = "READY"]

\* The task that follows the head keeps its TCBprev when the head is taken
\* off, so a task may have a predecessor that is not in the list: unlinking
\* it writes through that pointer.  When the head is unlinked and others
\* follow, waittingList still points to it.  Both leave the list corrupt.  A
\* task that is not in the list has no neighbours either, and is taken for
\* the only one.
Unlink(s, t) ==
  LET i == CHOOSE j \in 1 .. Len(s.list) : s.list[j] = t
      next == IF i < Len(s.list) THEN s.list[i + 1] ELSE NONE
      alone == ~In(s.list, t) \/ (next = NONE /\ s.prev[t] = NONE)
      list == IF i = 1 THEN <<t>>
              ELSE SubSeq(s.list, 1, i - 1) \o
                   SubSeq(s.list, i + 1, Len(s.list))
      prev == IF next = NONE THEN s.prev
              ELSE [s.prev EXCEPT ![next] = s.prev[t]]
      left == [s EXCEPT !.mutexID[t] = FALSE]
  IN  IF alone THEN [left EXCEPT !.list = <<>>]
      ELSE [left EXCEPT !.list = list, !.prev = [prev EXCEPT ![t] = NONE],
                        !.corrupt = @ \/ i = 1]

\* While the owner's priority is reset the mutex has no owner.
RemoveMutexList(s, t) ==
  LET u == Unlink(s, t)
      top == Urgent(u.prio, u.list, u.orig, u.owner)
      reset == CoSetPriority([u EXCEPT !.hipri = top.task, !.owner = NONE],
                             u.owner, top.prio)
  IN  IF u.hipri # t THEN u ELSE [reset EXCEPT !.owner = u.owner]

\* The locked part of CoDelTask.
RemoveTask(s, t) ==
  LET gone == IF s.state[t] \in {"WAITING", "SLEEPING"} /\ s.mutexID[t]
              THEN RemoveMutexList(s, t) ELSE s
  IN  [gone EXCEPT !.state[t] = "DORMANT"]

-----------------------------------------------------------------------------
Init ==
  /\ cast \in Casts
  /\ k = [prio |-> [t \in Tasks |-> Prio[t]],
          state |-> [t \in Tasks |->
                       IF t \in cast.tasks THEN "READY" ELSE "DORMANT"],
          mutexID |-> [t \in Tasks |-> FALSE],
          prev |-> [t \in Tasks |-> NONE],
          owner |-> NONE, orig |-> 255, hipri |-> NONE, list |-> <<>>,
          corrupt |-> FALSE]
  /\ inside = [t \in Tasks |-> FALSE]
  /\ del = [t \in Tasks |-> NONE]

Runs(t) ==
  /\ k.state[t] = "READY" /\ ~k.corrupt
  /\ \A u \in Tasks : k.state[u] = "READY" => k.prio[t] <= k.prio[u]

\* Task t is in its own code.
User(t) == Runs(t) /\ del[t] = NONE

Enter(t) ==
  /\ User(t) /\ ~inside[t]
  /\ k' = CoEnterMutexSection(k, t)
  /\ inside' = [inside EXCEPT ![t] = TRUE]
  /\ UNCHANGED del

Leave(t) ==
  /\ User(t) /\ inside[t]
  /\ k' = CoLeaveMutexSection(k)
  /\ inside' = [inside EXCEPT ![t] = FALSE]
  /\ UNCHANGED del

\* The task blocks on something else, inside or outside the section ...
Sleep(t) ==
  /\ User(t)
  /\ k' = [k EXCEPT !.state[t] = "SLEEPING"]
  /\ UNCHANGED <<inside, del>>

\* ... and is woken.
Wake(t) ==
  /\ k.state[t] = "SLEEPING" /\ ~k.corrupt
  /\ k' = [k EXCEPT !.state[t] = "READY"]
  /\ UNCHANGED <<inside, del>>

\* CoDelTask first makes a holder leave the mutex; other tasks may run
\* before it locks the scheduler again.
DelTask(t, u) ==
  /\ User(t) /\ k.state[u] # "DORMANT"
  /\ k' = IF k.mutexID[u] /\ k.owner = u THEN CoLeaveMutexSection(k) ELSE k
  /\ del' = [del EXCEPT ![t] = u]
  /\ UNCHANGED inside

DelTaskRemove(t) ==
  /\ Runs(t) /\ del[t] # NONE
  /\ k' = RemoveTask(k, del[t])
  /\ inside' = [inside EXCEPT ![del[t]] = FALSE]
  /\ del' = [del EXCEPT ![t] = NONE]

\* The control block of a deleted task is used again.
CreateTask(u) ==
  /\ k.state[u] = "DORMANT" /\ ~k.corrupt /\ \E t \in Tasks : User(t)
  /\ k' = [k EXCEPT !.state[u] = "READY", !.prio[u] = Prio[u],
                    !.mutexID[u] = FALSE, !.prev[u] = NONE]
  /\ UNCHANGED <<inside, del>>

Section(t) == Enter(t) \/ Leave(t) \/ Sleep(t) \/ Wake(t)

Manage ==
  \/ \E t \in Tasks, u \in cast.deletable : DelTask(t, u)
  \/ \E t \in Tasks : DelTaskRemove(t)
  \/ \E u \in cast.deletable : CreateTask(u)

Next ==
  /\ (\E t \in Tasks : Section(t)) \/ Manage
  /\ UNCHANGED cast

Spec == Init /\ [][Next]_vars

\* A task that runs outside the section blocks some time.
SleepOutside(t) == ~inside[t] /\ Sleep(t)

\* A task that can run inside the section again and again leaves it, one that
\* runs outside blocks, a deletion under way goes on, and what a sleeping
\* task waits for happens.
Fairness ==
  \A t \in Tasks : /\ SF_vars(Leave(t) /\ Next)
                   /\ WF_vars(SleepOutside(t) /\ Next)
                   /\ WF_vars(DelTaskRemove(t) /\ Next)
                   /\ WF_vars(Wake(t) /\ Next)

FairSpec == Spec /\ Fairness

-----------------------------------------------------------------------------
(* Properties.                                                             *)

States == {"READY", "WAITING", "SLEEPING", "DORMANT"}

\* One mutex, and of every task what concerns it.
Kernels ==
  [prio : [Tasks -> Priorities], state : [Tasks -> States],
   mutexID : [Tasks -> BOOLEAN], prev : [Tasks -> Tasks \cup {NONE}],
   owner : Tasks \cup {NONE}, orig : Priorities \cup {255},
   hipri : Tasks \cup {NONE}, list : Seq(Tasks), corrupt : BOOLEAN]

TypeOK ==
  /\ k \in Kernels /\ inside \in [Tasks -> BOOLEAN]
  /\ del \in [Tasks -> Tasks \cup {NONE}] /\ cast \in Casts

Waiting(t) == k.state[t] = "WAITING"

\* A task that runs its own code between its CoEnterMutexSection and its
\* CoLeaveMutexSection is the owner, so no other task is there.
MutualExclusion == \A t \in Tasks : User(t) /\ inside[t] => k.owner = t

\* No waiter is lost and none is queued twice: the tasks linked from
\* waittingList are exactly those blocked in CoEnterMutexSection, and the
\* links are not corrupted.
WaitersQueued ==
  /\ TypeOK
  /\ \A t \in Tasks : Waiting(t) <=> In(k.list, t)
  /\ \A i, j \in 1 .. Len(k.list) : k.list[i] = k.list[j] => i = j
  /\ ~k.corrupt

\* No priority inversion: the owner is at least as urgent as every task that
\* waits for it, through promotions and hand-overs.
NoInversion ==
  \A t \in Tasks : Waiting(t) => k.owner # NONE /\ k.prio[k.owner] <= k.prio[t]

\* Priority inheritance costs nobody: no task is ever less urgent than it was
\* created, through promotions, hand-overs that carry the old owner's priority
\* on to the next one, resets to originalPrio and deletions.
NeverDemoted == \A t \in Tasks : k.prio[t] <= Prio[t]

\* Whoever waits for the mutex gets it.
EveryWaiterEnters == \A t \in Tasks : Waiting(t) ~> ~Waiting(t)

=============================================================================
