------------------------------- MODULE CoTimer -------------------------------
(***************************************************************************)
(* The software timers of CoOS, CoOS/kernel/timer.c: a list of timers, each*)
(* counted relative to the one before it, of which the system tick counts  *)
(* down only the first.                                                    *)
(*                                                                         *)
(* One task calls the timer functions.  The tick may fall between any two  *)
(* of its steps; it also falls into the locked sections, where it still    *)
(* counts but leaves expired timers to the unlock.  Another task may hold  *)
(* the lock while the caller is outside.  Call-backs call no timer         *)
(* function.                                                               *)
(***************************************************************************)
EXTENDS Integers, SequencesExt

CONSTANTS
  CFG_MAX_TMR,
  Counts,         \* ticks a timer is created, set or reloaded with
  Careful,        \* the caller keeps the rules of MayStart, MaySet, MayEnd
  TicksPerLock,   \* ticks that may fall into one locked section
  MaxCalls        \* calls the task makes

ASSUME TimerAssumption ==
  /\ CFG_MAX_TMR \in Nat \ {0} /\ Counts \subseteq Nat
  /\ \E m \in Counts : \A n \in Counts : n <= m
  /\ Careful \in BOOLEAN /\ TicksPerLock \in Nat /\ MaxCalls \in Nat

Timers == 0 .. CFG_MAX_TMR - 1

VARIABLES
  TmrIDVessel,       \* timers in use
  tmrType, tmrState, tmrCnt, tmrReload,
  TmrList,           \* the linked timers, first to expire first
  TimerReq, IsrReq,  \* work left to the next unlock
  lock,              \* who has locked the scheduler: "none", "caller",
                     \* "other" or, while it fires timers, "tick"
  pc, op, id,        \* the call in progress: its next step, function, timer
  cur,               \* the timer InsertTmrList links; not id in a dispose
  place,             \* InsertTmrList: the timer to come after, and deltaTicks
  disposing,         \* the unlock serves expired timers
  gives,             \* RemoveTmrList: ticks for the successor, and the latter
  left,              \* history: ticks a running timer still has to wait
  early,             \* history: a timer fired while it had to wait
  ticks, calls       \* bounds

timer == <<TmrIDVessel, tmrType, tmrState, tmrCnt, tmrReload, TmrList>>
call == <<pc, op, id, cur, place, disposing, gives>>
vars == <<timer, TimerReq, IsrReq, lock, call, left, early, ticks, calls>>

None == CFG_MAX_TMR

Init ==
  /\ TmrIDVessel = {} /\ TmrList = <<>>
  /\ tmrType = [t \in Timers |-> "ONE_SHOT"]
  /\ tmrState = [t \in Timers |-> "STOPPED"]
  /\ tmrCnt = [t \in Timers |-> 0] /\ tmrReload = [t \in Timers |-> 0]
  /\ TimerReq = FALSE /\ IsrReq = FALSE /\ lock = "none"
  /\ pc = "idle" /\ op = "none" /\ id = 0 /\ cur = 0 /\ disposing = FALSE
  /\ place = [before |-> None, delta |-> 0] /\ gives = [to |-> None, n |-> 0]
  /\ left = [t \in Timers |-> 0] /\ early = FALSE
  /\ ticks = 0 /\ calls = 0

-----------------------------------------------------------------------------
(* The list as a value: its timers and their counters.                     *)

Sum(list, cnt, i) ==
  LET sum[k \in 0 .. Len(list)] ==
        IF k = 0 THEN 0 ELSE sum[k - 1] + cnt[list[k]]
  IN  sum[i]

\* Where a timer of n ticks goes: before the first timer that expires later.
FindPlace(list, cnt, n) ==
  LET later == {i \in 1 .. Len(list) : n - Sum(list, cnt, i) < 0}
      i == IF later = {} THEN Len(list) ELSE Min(later)
  IN  [before |-> IF later = {} THEN None ELSE list[i],
       delta |-> n - Sum(list, cnt, i)]

Position(list, t) == SelectInSeq(list, LAMBDA u : u = t)

Linked(list, t, before) ==
  IF before = None THEN Append(list, t)
  ELSE InsertAt(list, Position(list, before), t)

\* An unlinked timer looks like the only one.
Unlinked(list, t) ==
  IF t \in ToSet(list) THEN RemoveAt(list, Position(list, t)) ELSE <<>>

Successor(list, t) ==
  LET i == Position(list, t)
  IN  IF i \in 1 .. Len(list) - 1 THEN list[i + 1] ELSE None

\* Variant with a defect: the ticks of a removed timer are dropped.
ForgetTicks(cnt, to, n) ==
  IF to = None \/ n > 0 THEN cnt ELSE [cnt EXCEPT ![to] = @ + n]

GiveTicks(cnt, to, n) ==
  IF to = None THEN cnt ELSE [cnt EXCEPT ![to] = @ + n]

-----------------------------------------------------------------------------
(* One round of TmrDispose, in the tick or in the other task.  w collects  *)
(* what it changes.                                                        *)

World == [list |-> TmrList, cnt |-> tmrCnt, state |-> tmrState,
          left |-> left, early |-> early]

Relinked(w, t) ==
  LET p == FindPlace(w.list, w.cnt, tmrReload[t])
      cnt == [w.cnt EXCEPT ![t] = IF p.before = None THEN p.delta
                                  ELSE w.cnt[p.before] + p.delta]
  IN  IF tmrReload[t] = 0 THEN w
      ELSE [w EXCEPT !.list = Linked(@, t, p.before),
                     !.cnt = GiveTicks(cnt, p.before, -cnt[t])]

\* Variant with a defect: a one-shot timer stays RUNNING.
KeepsRunning(w) ==
  LET t == Head(w.list)
      out == [w EXCEPT !.list = Tail(@), !.cnt[t] = tmrReload[t],
                       !.left[t] = tmrReload[t],
                       !.early = @ \/ w.left[t] > 0]
  IN  IF tmrType[t] = "PERIODIC" THEN Relinked(out, t)
      ELSE [out EXCEPT !.cnt[t] = 0]

\* Variant with a defect: a periodic timer is not linked again.
FireOnce(w) ==
  LET t == Head(w.list)
  IN  [w EXCEPT !.list = Tail(@), !.cnt[t] = tmrReload[t],
                !.left[t] = tmrReload[t], !.early = @ \/ w.left[t] > 0,
                !.state[t] = IF tmrType[t] = "PERIODIC" THEN @ ELSE "STOPPED"]

\* The first timer fires: a periodic one is linked again.
Fire(w) ==
  LET t == Head(w.list)
      out == [w EXCEPT !.list = Tail(@), !.cnt[t] = tmrReload[t],
                       !.left[t] = tmrReload[t],
                       !.early = @ \/ w.left[t] > 0]
  IN  IF tmrType[t] = "PERIODIC" THEN Relinked(out, t)
      ELSE [out EXCEPT !.cnt[t] = 0, !.state[t] = "STOPPED"]

Expired(w) == w.list # <<>> /\ w.cnt[Head(w.list)] = 0

Becomes(expr) ==
  \E w \in {expr} :
    /\ TmrList' = w.list /\ tmrCnt' = w.cnt /\ tmrState' = w.state
    /\ left' = w.left /\ early' = w.early

-----------------------------------------------------------------------------
(* The tick and the other task.                                            *)

CountHead(w) ==
  IF w.list = <<>> THEN w
  ELSE [w EXCEPT !.cnt[Head(w.list)] = IF @ > 1 THEN @ - 1 ELSE 0]

\* The part of SysTick_Handler that serves timers, with isr_TmrDispose: in a
\* locked section it leaves expired timers to the unlock.
SysTick ==
  /\ lock # "tick" /\ (lock # "none" => ticks < TicksPerLock)
  /\ ticks' = IF lock = "none" THEN 0 ELSE ticks + 1
  /\ \E w \in {CountHead([World EXCEPT
          !.left = [t \in Timers |-> IF @[t] > 0 THEN @[t] - 1 ELSE 0]])} :
       /\ Becomes(w)
       /\ IF lock = "none"
          THEN /\ lock' = IF Expired(w) \/ IsrReq THEN "tick" ELSE "none"
               /\ UNCHANGED <<TimerReq, IsrReq>>
          ELSE /\ TimerReq' = (TimerReq \/ Expired(w))
               /\ IsrReq' = (IsrReq \/ Expired(w))
               /\ UNCHANGED lock
  /\ UNCHANGED <<TmrIDVessel, tmrType, tmrReload, call, calls>>

\* Nobody else runs until the tick, or the unlock, has fired what expired.
TmrDispose ==
  /\ lock = "tick" /\ Expired(World) /\ Becomes(Fire(World))
  /\ UNCHANGED <<TmrIDVessel, tmrType, tmrReload, TimerReq, IsrReq, lock, call,
                 ticks, calls>>

\* RespondSRQ looks at TimerReq only if IsrReq is set.
TmrDisposed ==
  /\ lock = "tick" /\ ~Expired(World) /\ lock' = "none"
  /\ TimerReq' = (TimerReq /\ ~IsrReq) /\ IsrReq' = FALSE
  /\ UNCHANGED <<timer, call, left, early, ticks, calls>>

OtherLock ==
  /\ lock = "none" /\ lock' = "other" /\ ticks' = 0
  /\ UNCHANGED <<timer, TimerReq, IsrReq, call, left, early, calls>>

OtherUnlock ==
  /\ lock = "other" /\ ticks' = 0
  /\ lock' = IF IsrReq /\ TimerReq THEN "tick" ELSE "none"
  /\ IsrReq' = (IsrReq /\ TimerReq)
  /\ UNCHANGED <<timer, TimerReq, call, left, early, calls>>

-----------------------------------------------------------------------------
(* The functions the task calls.                                           *)

Idle == pc = "idle" /\ lock = "none" /\ calls < MaxCalls

Calls(f, t, step) ==
  /\ pc' = step /\ op' = f /\ id' = t /\ calls' = calls + 1
  /\ UNCHANGED <<TmrList, TimerReq, IsrReq, lock, cur, place, disposing, gives,
                 early, ticks>>

\* What a careful caller keeps to: a timer is not started at 0, a running
\* one is not set, and a one-shot is left to run out.
MayStart(t) == Careful => tmrCnt[t] > 0
MaySet(t) == Careful => tmrState[t] = "STOPPED"
MayEnd(t) == Careful => tmrType[t] = "PERIODIC" \/ tmrState[t] = "STOPPED"

\* A periodic timer is reloaded with more than 0; the reload value of a
\* one-shot is never read, so that one stands for all.
Fits(type, n, reload) ==
  IF type = "PERIODIC" THEN n > 0 /\ reload > 0 ELSE reload = Min(Counts)

CoCreateTmr(type, n, reload) ==
  LET t == Min(Timers \ TmrIDVessel) IN
  /\ Idle /\ TmrIDVessel # Timers /\ Fits(type, n, reload)
  /\ TmrIDVessel' = TmrIDVessel \cup {t}
  /\ tmrType' = [tmrType EXCEPT ![t] = type]
  /\ tmrState' = [tmrState EXCEPT ![t] = "STOPPED"]
  /\ tmrCnt' = [tmrCnt EXCEPT ![t] = n]
  /\ tmrReload' = [tmrReload EXCEPT ![t] = reload]
  /\ UNCHANGED left
  /\ Calls("create", t, "idle")

\* With a counter of 0 InsertTmrList returns at once.
CoStartTmr(t) ==
  /\ Idle /\ t \in TmrIDVessel /\ tmrState[t] = "STOPPED" /\ MayStart(t)
  /\ tmrState' = [tmrState EXCEPT ![t] = "RUNNING"]
  /\ left' = [left EXCEPT ![t] = tmrCnt[t]]
  /\ UNCHANGED <<TmrIDVessel, tmrType, tmrCnt, tmrReload>>
  /\ Calls("start", t, IF tmrCnt[t] = 0 THEN "idle" ELSE "insert")

CoStopTmr(t) ==
  /\ Idle /\ t \in TmrIDVessel /\ tmrState[t] = "RUNNING" /\ MayEnd(t)
  /\ UNCHANGED <<TmrIDVessel, tmrType, tmrState, tmrCnt, tmrReload, left>>
  /\ Calls("stop", t, "remove")

CoDelTmr(t) ==
  /\ Idle /\ t \in TmrIDVessel /\ MayEnd(t)
  /\ UNCHANGED <<TmrIDVessel, tmrType, tmrState, tmrCnt, tmrReload, left>>
  /\ Calls("del", t, IF tmrState[t] = "RUNNING" THEN "remove" ELSE "release")

CoSetTmrCnt(t, n, reload) ==
  /\ Idle /\ t \in TmrIDVessel /\ MaySet(t) /\ Fits(tmrType[t], n, reload)
  /\ tmrCnt' = [tmrCnt EXCEPT ![t] = n]
  /\ tmrReload' = [tmrReload EXCEPT ![t] = reload]
  /\ left' = [left EXCEPT ![t] = IF tmrState[t] = "RUNNING" THEN n ELSE @]
  /\ UNCHANGED <<TmrIDVessel, tmrType, tmrState>>
  /\ Calls("set", t, IF tmrState[t] = "RUNNING" THEN "remove" ELSE "idle")

-----------------------------------------------------------------------------
(* The steps of a call, between which the tick may fall.                   *)

Step(from, to) ==
  /\ pc = from /\ lock \in {"none", "caller"} /\ pc' = to
  /\ UNCHANGED <<id, tmrType, tmrReload, calls>>

Locked == UNCHANGED <<TmrIDVessel, lock, ticks, op>>
Quiet == UNCHANGED <<TimerReq, IsrReq, tmrState, left, early>>

Lock(from, to) ==
  /\ Step(from, to)
  /\ lock' = "caller" /\ ticks' = 0 /\ cur' = id
  /\ Quiet /\ UNCHANGED <<TmrIDVessel, op, tmrCnt, TmrList, place, disposing, gives>>

\* RemoveTmrList: unlink, then hand the ticks to the successor.
RemoveUnlink ==
  /\ Step("unlink", "give") /\ Locked /\ Quiet
  /\ TmrList' = Unlinked(TmrList, id)
  /\ gives' = [to |-> Successor(TmrList, id), n |-> tmrCnt[id]]
  /\ UNCHANGED <<tmrCnt, cur, place, disposing>>

RemoveGive ==
  /\ Step("give", "unlock") /\ Locked /\ Quiet
  /\ tmrCnt' = GiveTicks(tmrCnt, gives.to, gives.n)
  /\ UNCHANGED <<TmrList, cur, place, disposing, gives>>

\* InsertTmrList: find the place, link, set the timer's counter, correct the
\* successor's.
Inserted == IF disposing THEN "dispose" ELSE "unlock"

InsertFind ==
  /\ Step("find", "link") /\ Locked /\ Quiet
  /\ place' = FindPlace(TmrList, tmrCnt, tmrCnt[cur])
  /\ UNCHANGED <<TmrList, tmrCnt, cur, disposing, gives>>

InsertLink ==
  /\ Step("link", IF place.before = None THEN Inserted ELSE "count")
  /\ Locked /\ Quiet
  /\ TmrList' = Linked(TmrList, cur, place.before)
  /\ tmrCnt' = IF place.before = None THEN [tmrCnt EXCEPT ![cur] = place.delta]
               ELSE tmrCnt
  /\ UNCHANGED <<cur, place, disposing, gives>>

InsertCount ==
  /\ Step("count", "correct") /\ Locked /\ Quiet
  /\ tmrCnt' = [tmrCnt EXCEPT ![cur] = tmrCnt[place.before] + place.delta]
  /\ UNCHANGED <<TmrList, cur, place, disposing, gives>>

InsertCorrect ==
  /\ Step("correct", Inserted) /\ Locked /\ Quiet
  /\ tmrCnt' = GiveTicks(tmrCnt, place.before, -tmrCnt[cur])
  /\ UNCHANGED <<TmrList, cur, place, disposing, gives>>

\* OsSchedUnlock, with the timer part of RespondSRQ.
Unlock ==
  /\ Step("unlock", IF ~IsrReq THEN "open"
                    ELSE IF TimerReq THEN "dispose" ELSE "served")
  /\ disposing' = (IsrReq /\ TimerReq)
  /\ Locked /\ Quiet /\ UNCHANGED <<TmrList, tmrCnt, cur, place, gives>>

\* One round of the loop in TmrDispose, up to the insertion it may need.
DisposeFire ==
  LET t == Head(TmrList)
      again == tmrType[t] = "PERIODIC"
  IN  /\ Expired(World)
      /\ Step("dispose", IF again /\ tmrReload[t] > 0 THEN "find" ELSE "dispose")
      /\ TmrList' = Tail(TmrList) /\ cur' = t
      /\ tmrCnt' = IF again THEN [tmrCnt EXCEPT ![t] = tmrReload[t]] ELSE tmrCnt
      /\ tmrState' = IF again THEN tmrState
                     ELSE [tmrState EXCEPT ![t] = "STOPPED"]
      /\ left' = [left EXCEPT ![t] = IF again THEN tmrReload[t] ELSE 0]
      /\ early' = (early \/ left[t] > 0)
      /\ Locked /\ UNCHANGED <<TimerReq, IsrReq, place, disposing, gives>>

DisposeDone ==
  /\ ~Expired(World) /\ Step("dispose", "clear") /\ disposing' = FALSE
  /\ Locked /\ Quiet /\ UNCHANGED <<TmrList, tmrCnt, cur, place, gives>>

\* A tick between the end of the loop and this store is forgotten.
ClearTimerReq ==
  /\ Step("clear", "served") /\ TimerReq' = FALSE
  /\ Locked /\ UNCHANGED <<IsrReq, tmrState, left, early>>
  /\ UNCHANGED <<TmrList, tmrCnt, cur, place, disposing, gives>>

ClearIsrReq ==
  /\ Step("served", "open") /\ IsrReq' = FALSE
  /\ Locked /\ UNCHANGED <<TimerReq, tmrState, left, early>>
  /\ UNCHANGED <<TmrList, tmrCnt, cur, place, disposing, gives>>

\* CoSetTmrCnt goes on as CoStartTmr does, with an insertion.
Open ==
  /\ Step("open", IF op = "stop" THEN "stopped"
                  ELSE IF op = "del" THEN "release"
                  ELSE IF op = "set" /\ tmrCnt[id] > 0 THEN "insert" ELSE "idle")
  /\ lock' = "none" /\ ticks' = 0
  /\ op' = IF op = "set" THEN "start" ELSE op
  /\ Quiet
  /\ UNCHANGED <<TmrIDVessel, TmrList, tmrCnt, cur, place, disposing, gives>>

Stopped ==
  /\ Step("stopped", "idle")
  /\ tmrState' = [tmrState EXCEPT ![id] = "STOPPED"]
  /\ Locked /\ UNCHANGED <<TimerReq, IsrReq, left, early>>
  /\ UNCHANGED <<TmrList, tmrCnt, cur, place, disposing, gives>>

Release ==
  /\ Step("release", "idle")
  /\ TmrIDVessel' = TmrIDVessel \ {id}
  /\ Quiet
  /\ UNCHANGED <<lock, ticks, op, TmrList, tmrCnt, cur, place, disposing, gives>>

CallStep ==
  \/ Lock("insert", "find") \/ Lock("remove", "unlink")
  \/ RemoveUnlink \/ RemoveGive
  \/ InsertFind \/ InsertLink \/ InsertCount \/ InsertCorrect
  \/ Unlock \/ DisposeFire \/ DisposeDone \/ ClearTimerReq \/ ClearIsrReq
  \/ Open \/ Stopped \/ Release

Next ==
  \/ SysTick \/ TmrDispose \/ TmrDisposed \/ OtherLock \/ OtherUnlock \/ CallStep
  \/ \E type \in {"ONE_SHOT", "PERIODIC"}, n, reload \in Counts :
       CoCreateTmr(type, n, reload)
  \/ \E t \in Timers : CoStartTmr(t) \/ CoStopTmr(t) \/ CoDelTmr(t)
  \/ \E t \in Timers, n, reload \in Counts : CoSetTmrCnt(t, n, reload)

\* The tick comes whatever the tasks do; it is disabled here only by the
\* bound on ticks in a locked section.  The caller is not starved by the other
\* task, which releases the lock.
Spec == Init /\ [][Next]_vars
FairSpec == Spec /\ SF_vars(SysTick) /\ SF_vars(CallStep)
            /\ WF_vars(TmrDispose \/ TmrDisposed \/ OtherUnlock)

-----------------------------------------------------------------------------
(* Properties.                                                             *)

\* In particular no counter ever falls below zero, where it would wrap.
TypeOK ==
  /\ TmrIDVessel \subseteq Timers
  /\ tmrType \in [Timers -> {"ONE_SHOT", "PERIODIC"}]
  /\ tmrState \in [Timers -> {"RUNNING", "STOPPED"}]
  /\ tmrCnt \in [Timers -> 0 .. Max(Counts)] /\ tmrReload \in [Timers -> 0 .. Max(Counts)]
  /\ ToSet(TmrList) \subseteq Timers /\ IsInjective(TmrList)
  /\ TimerReq \in BOOLEAN /\ IsrReq \in BOOLEAN
  /\ lock \in {"none", "caller", "other", "tick"}

\* Between calls the list holds exactly the timers that are said to run:
\* "Insert a timer to timer list and start it successful".
RunningLinked ==
  /\ TypeOK
  /\ pc = "idle" =>
       ToSet(TmrList) = {t \in TmrIDVessel : tmrState[t] = "RUNNING"}

\* No timer fires before the ticks it was started, set or reloaded with have
\* passed, whatever is linked or unlinked around it.
NeverEarly == ~early

\* A running timer whose time has come fires, or is stopped or deleted.
TimersFire ==
  \A t \in Timers :
    (t \in TmrIDVessel /\ tmrState[t] = "RUNNING" /\ left[t] = 0)
    ~> (t \notin TmrIDVessel \/ tmrState[t] = "STOPPED" \/ left[t] > 0)
=============================================================================
