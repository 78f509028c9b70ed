------------------------------- MODULE CoFlag -------------------------------
(***************************************************************************)
(* CoOS event flags: CoOS/kernel/flag.c, and the time-out of a task that   *)
(* waits for flags (TimeDispose in time.c).                                *)
(*                                                                         *)
(* FlagCrl holds one word per attribute and a list of the waiting tasks.   *)
(* What a function does between OsSchedLock and OsSchedUnlock is one step: *)
(* tasks cannot be switched there and interrupts defer their requests to   *)
(* the unlock.  What it does outside is interleaved with the other tasks   *)
(* and with interrupts.  CoSetFlag and CoClearFlag change the flag word    *)
(* outside, by a load and a store.  A woken task takes its flags itself,   *)
(* in a second locked section when it runs again.                          *)
(*                                                                         *)
(* A task that is not in a flag function sleeps or computes and may call   *)
(* one at any time at which no more urgent task is inside one and ready.   *)
(***************************************************************************)
EXTENDS Integers, SequencesExt

CONSTANTS
  FLAG_MAX_NUM,  \* flags are numbered from 0
  Tasks,
  Loads          \* see LoadAssumption

Flags == 0 .. FLAG_MAX_NUM - 1

Types == {"ONE", "ANY", "ALL"}
NoCall == [op |-> "none"]

\* The calls of the flag functions.
FlagCalls ==
  LET Single == {{i} : i \in Flags}
  IN  UNION {[op : {"CoSetFlag", "CoClearFlag"}, flags : Single],
             [op : {"CoDelFlag"}, flags : Single, opt : {"NO_PEND", "ANYWAY"}],
             [op : {"CoCreateFlag"}, flags : {{}}, auto : BOOLEAN,
              initial : BOOLEAN],
             [op : {"CoAcceptFlags"}, flags : SUBSET Flags, type : Types],
             [op : {"CoWaitForFlags"}, flags : SUBSET Flags, type : Types,
              timed : BOOLEAN]}

\* A load is an application: the priority of its tasks and the calls they
\* make, the flags interrupts set, and the flags it creates first.
ASSUME LoadAssumption ==
  /\ FLAG_MAX_NUM \in Nat
  /\ \A l \in Loads :
       /\ l.prio \in [Tasks -> Nat] /\ l.calls \in [Tasks -> SUBSET FlagCalls]
       /\ l.isr \subseteq Flags /\ l.auto \subseteq l.active
       /\ l.active \subseteq Flags

VARIABLES
  fcb,    \* FlagCrl, with pnode and the delay of every task, see TypeOK
  pc,     \* task -> control point inside a flag function, or "user"
  call,   \* task -> the call in progress
  reg,    \* task -> the flag word it has loaded
  load,   \* the application, which never changes
  why     \* history: task -> what ended its last wait

vars == <<fcb, pc, call, reg, load, why>>

-----------------------------------------------------------------------------
(* The waiting list: nodes [task, flags, type] in the order of arrival.    *)

\* A call or a node asks for all of its flags or for any of them.
Met(n, rdy) ==
  IF n.type = "ALL" THEN n.flags \subseteq rdy ELSE n.flags \cap rdy # {}

Sleepers == {fcb.list[i].task : i \in 1 .. Len(fcb.list)}

\* The nodes of tasks ts are unlinked.
Without(list, ts) ==
  LET kept[n \in 0 .. Len(list)] ==
        IF n = 0 THEN <<>>
        ELSE IF list[n].task \in ts THEN kept[n - 1]
        ELSE Append(kept[n - 1], list[n])
  IN  kept[Len(list)]

\* The node of the running task goes to the end.
FlagBlock(s, t, c) ==
  [s EXCEPT !.list = Append(@, [task  |-> t, flags |-> c.flags,
                                type  |-> c.type]),
            !.pnode[t] = "node", !.delay[t] = c.timed]

\* Variant with a defect: the tasks stay in the delay list.
RemoveKeepsDelay(s, ts) ==
  [s EXCEPT !.list = Without(@, ts),
            !.pnode = [t \in Tasks |-> IF t \in ts THEN "woken" ELSE @[t]]]

\* Tasks ts are unlinked, told by pnode that no time-out occurred, leave the
\* delay list and are made ready.
RemoveFromLink(s, ts) ==
  [s EXCEPT !.list = Without(@, ts),
            !.pnode = [t \in Tasks |-> IF t \in ts THEN "woken" ELSE @[t]],
            !.delay = [t \in Tasks |-> @[t] /\ t \notin ts]]

\* The time-out of one task: TimeDispose and RemoveLinkNode.
TimeDispose(s, t) ==
  [s EXCEPT !.list = Without(@, {t}), !.pnode[t] = "null", !.delay[t] = FALSE,
            !.wild = @ \/ s.pnode[t] = "woken"]

\* Variant with a defect: every flag wakes one task only.
WakeOne(s, i) ==
  LET fits == {n \in 1 .. Len(s.list) : Met(s.list[n], s.rdy)}
  IN  IF fits = {} THEN {} ELSE {s.list[Min(fits)].task}

\* The tasks that the walk of CoSetFlag(i) wakes: every waiter whose flags
\* are set, whichever they are, but only the first if i is auto-reset.
Woken(s, i) ==
  LET fits == {n \in 1 .. Len(s.list) : Met(s.list[n], s.rdy)}
      hit == IF i \in s.auto /\ fits # {} THEN {Min(fits)} ELSE fits
  IN  {s.list[n].task : n \in hit}

\* The tasks that only wait for flag i are woken, the others that wait for
\* all of their flags go on without it.
Deleted(s, i) ==
  LET asks == {n \in 1 .. Len(s.list) : i \in s.list[n].flags}
      stay == {n \in asks : s.list[n].type = "ALL" /\ s.list[n].flags # {i}}
      freed == {s.list[n].task : n \in asks \ stay}
      less == [n \in 1 .. Len(s.list) |-> [s.list[n] EXCEPT !.flags = @ \ {i}]]
  IN  RemoveFromLink(
        [s EXCEPT !.list = less, !.active = @ \ {i}, !.rdy = @ \ {i},
                  !.auto = @ \ {i}], freed)

-----------------------------------------------------------------------------
Init ==
  /\ load \in Loads
  /\ fcb = [active |-> load.active, rdy |-> {}, auto |-> load.auto,
            list |-> <<>>, pnode |-> [t \in Tasks |-> "null"],
            delay |-> [t \in Tasks |-> FALSE], wild |-> FALSE]
  /\ pc = [t \in Tasks |-> "user"]
  /\ call = [t \in Tasks |-> NoCall]
  /\ reg = [t \in Tasks |-> {}]
  /\ why = [t \in Tasks |-> "none"]

Ready(t) == pc[t] # "user" /\ t \notin Sleepers

\* Task t may take a step.
Runs(t) ==
  /\ t \notin Sleepers /\ ~fcb.wild
  /\ \A u \in Tasks : Ready(u) => load.prio[t] <= load.prio[u]

At(t, label) == Runs(t) /\ pc[t] = label
Goto(t, label) == pc' = [pc EXCEPT ![t] = label]
Return(t) ==
  /\ pc' = [pc EXCEPT ![t] = "user"]
  /\ call' = [call EXCEPT ![t] = NoCall]
  /\ reg' = [reg EXCEPT ![t] = {}]

\* The functions of one flag are called with flags = {id}.
Id(t) == CHOOSE i \in call[t].flags : TRUE

\* Every function first checks that its flags are active, without a lock.
Call(t) ==
  /\ At(t, "user")
  /\ \E c \in load.calls[t] :
       /\ c.flags \subseteq fcb.active
       /\ call' = [call EXCEPT ![t] = c]
       /\ Goto(t, c.op)
  /\ UNCHANGED <<fcb, reg, why>>

CoCreateFlag(t) ==
  /\ At(t, "CoCreateFlag")
  /\ LET free == Flags \ fcb.active
         i == Min(free)
         c == call[t]
         Bit(b) == IF b THEN {i} ELSE {}
     IN  IF free = {} THEN UNCHANGED fcb
         ELSE fcb' = [fcb EXCEPT !.active = @ \cup {i},
                                 !.rdy = @ \cup Bit(c.initial),
                                 !.auto = @ \cup Bit(c.auto)]
  /\ Return(t) /\ UNCHANGED why

\* Task t was woken and has not taken its flags yet.
Promised(t, pnode) ==
  pc[t] = "consume" \/ (pc[t] = "blocked" /\ pnode[t] = "woken")

\* E_TASK_WAITING if a task waits for the flag and opt is OPT_DEL_NO_PEND.
CoDelFlag(t) ==
  /\ At(t, "CoDelFlag")
  /\ LET i == Id(t)
         refused == /\ call[t].opt = "NO_PEND"
                    /\ \E n \in 1 .. Len(fcb.list) : i \in fcb.list[n].flags
     IN  IF refused THEN UNCHANGED <<fcb, why>>
         ELSE /\ fcb' = Deleted(fcb, i)
              /\ why' = [u \in Tasks |->
                           IF Promised(u, fcb'.pnode) /\ i \in call[u].flags
                           THEN "deleted" ELSE why[u]]
  /\ Return(t)

-----------------------------------------------------------------------------
(* Taking flags.                                                           *)

\* The auto-reset flags of spring are reset.
Take(spring) == fcb' = [fcb EXCEPT !.rdy = @ \ (spring \cap fcb.auto)]

\* CoAcceptSingleFlag, CoAcceptMultipleFlags: the flags are looked at ...
AcceptLook(t) ==
  /\ At(t, "CoAcceptFlags")
  /\ IF Met(call[t], fcb.rdy)
     THEN /\ reg' = [reg EXCEPT ![t] = call[t].flags \cap fcb.rdy]
          /\ Goto(t, "accepted") /\ UNCHANGED call
     ELSE Return(t)
  /\ UNCHANGED <<fcb, why>>

\* ... and those that were set are reset, under the lock.
AcceptTake(t) ==
  /\ At(t, "accepted")
  /\ Take(reg[t])
  /\ Return(t) /\ UNCHANGED why

\* CoWaitForSingleFlag, CoWaitForMultipleFlags.
CoWaitForFlags(t) ==
  /\ At(t, "CoWaitForFlags")
  /\ IF Met(call[t], fcb.rdy)
     THEN Take(call[t].flags \cap fcb.rdy) /\ Return(t)
     ELSE /\ fcb' = FlagBlock(fcb, t, call[t])
          /\ Goto(t, "blocked") /\ UNCHANGED <<call, reg>>
  /\ UNCHANGED why

\* A task that waited runs again.  A timed wait that ended with a null pnode
\* returns E_TIMEOUT.
WaitResumed(t) ==
  /\ At(t, "blocked")
  /\ IF call[t].timed /\ fcb.pnode[t] = "null" THEN Return(t)
     ELSE Goto(t, "consume") /\ UNCHANGED <<call, reg>>
  /\ fcb' = [fcb EXCEPT !.pnode[t] = "null"]
  /\ UNCHANGED why

\* The task takes what it was woken for, if it is still there, and returns
\* E_OK.
WaitConsume(t) ==
  /\ At(t, "consume")
  /\ Take(call[t].flags \cap fcb.rdy)
  /\ Return(t) /\ UNCHANGED why

-----------------------------------------------------------------------------
(* Setting and clearing.                                                   *)

\* A flag that is already set is left alone.
SetTest(t) ==
  /\ At(t, "CoSetFlag")
  /\ IF call[t].flags \subseteq fcb.rdy THEN Return(t)
     ELSE Goto(t, "load") /\ UNCHANGED <<call, reg>>
  /\ UNCHANGED <<fcb, why>>

\* flagRdy |= (1<<id) and flagRdy &= ~(1<<id) load the word ...
LoadRdy(t) ==
  /\ At(t, "load") \/ At(t, "CoClearFlag")
  /\ reg' = [reg EXCEPT ![t] = fcb.rdy]
  /\ Goto(t, IF pc[t] = "load" THEN "store" ELSE "clear")
  /\ UNCHANGED <<fcb, call, why>>

\* ... and store it, changed.
SetStore(t) ==
  /\ At(t, "store")
  /\ fcb' = [fcb EXCEPT !.rdy = reg[t] \cup call[t].flags]
  /\ Goto(t, "walk") /\ UNCHANGED <<call, reg, why>>

ClearStore(t) ==
  /\ At(t, "clear")
  /\ fcb' = [fcb EXCEPT !.rdy = reg[t] \ call[t].flags]
  /\ Return(t) /\ UNCHANGED why

Walked(s, i) ==
  /\ fcb' = RemoveFromLink(s, Woken(s, i))
  /\ why' = [u \in Tasks |-> IF u \in Woken(s, i) THEN "set" ELSE why[u]]

\* The locked part of CoSetFlag.
SetWalk(t) ==
  /\ At(t, "walk")
  /\ Walked(fcb, Id(t))
  /\ Return(t)

\* isr_SetFlag: all of CoSetFlag in an interrupt, or, when it found the
\* scheduler locked, in the OsSchedUnlock that follows.
isr_SetFlag(i) ==
  /\ i \in fcb.active /\ i \notin fcb.rdy /\ ~fcb.wild
  /\ Walked([fcb EXCEPT !.rdy = @ \cup {i}], i)
  /\ UNCHANGED <<pc, call, reg>>

\* The system tick finds the time-out of task t over.
Timeout(t) ==
  /\ fcb.delay[t] /\ ~fcb.wild
  /\ fcb' = TimeDispose(fcb, t)
  /\ why' = [why EXCEPT ![t] = "timeout"]
  /\ UNCHANGED <<pc, call, reg>>

Step(t) ==
  \/ Call(t) \/ CoCreateFlag(t) \/ CoDelFlag(t)
  \/ AcceptLook(t) \/ AcceptTake(t)
  \/ CoWaitForFlags(t) \/ WaitResumed(t) \/ WaitConsume(t)
  \/ SetTest(t) \/ LoadRdy(t) \/ SetStore(t) \/ ClearStore(t) \/ SetWalk(t)

Next ==
  /\ \/ \E t \in Tasks : Step(t) \/ Timeout(t)
     \/ \E i \in load.isr : isr_SetFlag(i)
  /\ UNCHANGED load

Spec == Init /\ [][Next]_vars

-----------------------------------------------------------------------------
(* Properties.                                                             *)

Labels == {"user", "CoCreateFlag", "CoDelFlag", "CoAcceptFlags", "accepted",
           "CoWaitForFlags", "blocked", "consume", "CoSetFlag", "load",
           "store", "walk", "CoClearFlag", "clear"}

Nodes == [task : Tasks, flags : SUBSET Flags, type : Types]

FlagBlocks ==
  [active : SUBSET Flags, rdy : SUBSET Flags, auto : SUBSET Flags,
   list : Seq(Nodes), pnode : [Tasks -> {"null", "node", "woken"}],
   delay : [Tasks -> BOOLEAN], wild : BOOLEAN]

TypeOK ==
  /\ fcb \in FlagBlocks /\ fcb.auto \subseteq fcb.active
  /\ pc \in [Tasks -> Labels] /\ reg \in [Tasks -> SUBSET Flags]
  /\ call \in [Tasks -> FlagCalls \cup {NoCall}] /\ load \in Loads
  /\ why \in [Tasks -> {"none", "set", "deleted", "timeout"}]

\* The waiting list and the tasks agree, whatever sets, deletions and
\* time-outs interleave: a task is in the list, once, exactly while its pnode
\* points to its node, only such a task has a time-out running, and a task
\* that was woken learns from pnode which of the two happened.
ListAgrees ==
  /\ TypeOK /\ ~fcb.wild
  /\ \A m, n \in 1 .. Len(fcb.list) :
       fcb.list[m].task = fcb.list[n].task => m = n
  /\ \A t \in Tasks :
       /\ t \in Sleepers <=> fcb.pnode[t] = "node"
       /\ fcb.delay[t] => t \in Sleepers /\ call[t].timed
       /\ pc[t] = "blocked" /\ t \notin Sleepers =>
            (fcb.pnode[t] = "null" <=> why[t] = "timeout")

\* "(1) if parameter timeout == 0, waiting until flag be set" (flag.c:259):
\* once no task is on its way through a flag function, nobody sleeps on flags
\* that are set.  CoSetFlag does nothing for a flag that is set, so such a
\* task would sleep for ever.  It takes two tasks that wait for one auto-reset
\* flag and a third that waits for another to break it: the walk for the
\* third's flag then stops at the second task, whose flag is still set.
NobodyStranded ==
  (\A t \in Tasks : ~Ready(t)) =>
    \A n \in 1 .. Len(fcb.list) : ~Met(fcb.list[n], fcb.rdy)

=============================================================================
