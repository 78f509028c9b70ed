------------------------------- MODULE CoMail -------------------------------
(***************************************************************************)
(* CoOS mailboxes and message queues: CoOS/kernel/mbox.c and queue.c, with *)
(* the parts of event.c they use and the time-out of a waiting task        *)
(* (TimeDispose in time.c).  lwIP's mailboxes (CoOS/arch/sys_arch.c) are   *)
(* such queues.                                                            *)
(*                                                                         *)
(* There is one event control block, of the kind the application chooses.  *)
(* A locked section is one step, as in CoFlag: tasks cannot be switched    *)
(* there and interrupts defer their posts to the unlock.  The test for a   *)
(* full queue is outside the lock of the post, and a pend that finds       *)
(* nothing unlocks before it locks again to wait.                          *)
(*                                                                         *)
(* Messages are never null, and one is posted again only after a call has  *)
(* returned it and another was posted and another received, so that a few  *)
(* stand for any number of them.  A task that is not in a mail function    *)
(* may call one at any time at which no more urgent task is inside one and *)
(* ready.                                                                  *)
(***************************************************************************)
EXTENDS Integers, SequencesExt

CONSTANTS
  Tasks,
  qMaxSize,    \* cells of the queue
  Loads,       \* see LoadAssumption
  Messages,    \* one more than can be under way, or more
  NONE         \* Co_NULL

NoCall == [op |-> "none"]

\* The calls of the mail functions.
MailCalls ==
  UNION {[op : {"Create", "Post", "Accept"}], [op : {"Pend"}, timed : BOOLEAN],
         [op : {"Del"}, opt : {"NO_PEND", "ANYWAY"}]}

\* A load is an application: a mailbox or a queue, how waiting tasks are
\* sorted, the priority and the calls of its tasks, and whether interrupts
\* post.
ASSUME LoadAssumption ==
  /\ qMaxSize \in Nat \ {0} /\ Messages \subseteq Nat
  /\ NONE \notin Tasks \cup Messages
  /\ \A l \in Loads :
       /\ l.kind \in {"MBOX", "QUEUE"} /\ l.sort \in {"FIFO", "PRIO"}
       /\ l.prio \in [Tasks -> Nat] /\ l.calls \in [Tasks -> SUBSET MailCalls]
       /\ l.isr \in BOOLEAN

VARIABLES
  ecb,       \* event and queue control block, mail of the tasks, see TypeOK
  pc,        \* task -> control point inside a mail function, or "user"
  call,      \* task -> the call in progress
  load,      \* the application, which never changes
  sent,      \* history: the message that was accepted last
  given,     \* history: the message that left the box last
  due        \* history: messages that left the box, not yet returned

vars == <<ecb, pc, call, load, sent, given, due>>

Cells == 0 .. qMaxSize - 1

-----------------------------------------------------------------------------
(* The box.  A mailbox has one message, eventPtr, and eventCounter; a      *)
(* queue has a ring of cells.                                              *)

Next0(i) == IF i + 1 = qMaxSize THEN 0 ELSE i + 1

\* The box of a new event.
Fresh(e) ==
  [e EXCEPT !.ptr = NONE, !.cnt = 0, !.buf = [i \in Cells |-> NONE],
            !.head = 0, !.tail = 0]

Full(e) == IF e.type = "MBOX" THEN e.cnt # 0 ELSE e.cnt = qMaxSize

Put(e, m) ==
  IF e.type = "MBOX" THEN [e EXCEPT !.ptr = m, !.cnt = 1]
  ELSE [e EXCEPT !.buf[e.tail] = m, !.tail = Next0(@), !.cnt = @ + 1]

Oldest(e) == IF e.type = "MBOX" THEN e.ptr ELSE e.buf[e.head]

Wrap(i) == IF i < qMaxSize THEN i ELSE i - qMaxSize

\* The messages in the box, oldest first.
Box(e) ==
  IF e.type = "MBOX" THEN (IF e.cnt = 0 THEN <<>> ELSE <<e.ptr>>)
  ELSE [i \in 1 .. e.cnt |-> e.buf[Wrap(e.head + i - 1)]]

\* The oldest message leaves the box.
Drop(e) ==
  IF e.type = "MBOX" THEN [e EXCEPT !.ptr = NONE, !.cnt = @ - 1]
  ELSE [e EXCEPT !.head = Next0(@), !.cnt = @ - 1]

-----------------------------------------------------------------------------
(* The waiting list: what eventTCBList and waitNext link, and waitPrev,    *)
(* which insertion and deletion do not always write.                       *)

EventTaskToWait(e, t) ==
  LET later == {i \in 1 .. Len(e.list) :
                  load.sort = "PRIO" /\ load.prio[t] < load.prio[e.list[i]]}
      at == IF later = {} THEN Len(e.list) + 1 ELSE Min(later)
      prev == [e.prev EXCEPT ![t] = IF at = 1 THEN @ ELSE e.list[at - 1]]
  IN  [e EXCEPT !.list = InsertAt(@, at, t),
                !.prev = IF later = {} THEN prev
                         ELSE [prev EXCEPT ![e.list[at]] = t],
                !.waits[t] = TRUE]

\* Variant with a defect: a timed waiter stays in the delay list.
StillDelayed(e) ==
  LET t == Head(e.list)
      rest == Tail(e.list)
  IN  IF e.list = <<>> THEN e
      ELSE [Drop(e) EXCEPT !.list = rest, !.pmail[t] = Oldest(e),
                           !.waits[t] = FALSE]

\* The first waiter, if any, is given the oldest message, leaves the delay
\* list and is made ready.  Making a task ready that does not wait corrupts
\* the ready list.
EventTaskToRdy(e) ==
  LET t == Head(e.list)
      rest == Tail(e.list)
  IN  IF e.list = <<>> THEN e
      ELSE [Drop(e) EXCEPT
              !.list = rest, !.pmail[t] = Oldest(e), !.delay[t] = FALSE,
              !.waits[t] = FALSE,
              !.prev = IF rest = <<>> THEN @
                       ELSE [e.prev EXCEPT ![Head(rest)] = NONE],
              !.wild = @ \/ ~e.waits[t]]

\* A task that times out is unlinked by its neighbours.  With a waitPrev that
\* was left by an earlier list it is not taken for the first, and stays.
RemoveEventWaittingList(e, t) ==
  LET i == CHOOSE j \in 1 .. Len(e.list) : e.list[j] = t
      p == e.prev[t]
      n == IF i = Len(e.list) THEN NONE ELSE e.list[i + 1]
      prev == IF n = NONE THEN e.prev ELSE [e.prev EXCEPT ![n] = p]
      linked == i > 1 /\ e.list[i - 1] = p
  IN  IF p = NONE /\ n = NONE THEN [e EXCEPT !.list = <<>>]
      ELSE IF p = NONE
      THEN [e EXCEPT !.list = SubSeq(@, i + 1, Len(@)), !.prev = prev]
      ELSE [e EXCEPT !.list = IF linked THEN RemoveAt(@, i) ELSE SubSeq(@, 1, i),
                     !.prev = [prev EXCEPT ![t] = NONE]]

TimeDispose(e, t) ==
  [RemoveEventWaittingList(e, t) EXCEPT !.delay[t] = FALSE, !.waits[t] = FALSE]

\* Everybody who waits is made ready, without mail; waitPrev is left.
Drained(e) ==
  [e EXCEPT !.list = <<>>,
            !.waits = [t \in Tasks |-> @[t] /\ t \notin ToSet(e.list)],
            !.delay = [t \in Tasks |-> @[t] /\ t \notin ToSet(e.list)]]

-----------------------------------------------------------------------------
Init ==
  /\ load \in Loads
  /\ ecb = [type |-> load.kind, list |-> <<>>,
            prev  |-> [t \in Tasks |-> NONE],
            waits |-> [t \in Tasks |-> FALSE],
            delay |-> [t \in Tasks |-> FALSE],
            pmail |-> [t \in Tasks |-> NONE], wild |-> FALSE,
            ptr |-> NONE, cnt |-> 0, buf |-> [i \in Cells |-> NONE],
            head |-> 0, tail |-> 0]
  /\ pc = [t \in Tasks |-> "user"]
  /\ call = [t \in Tasks |-> NoCall]
  /\ sent = NONE /\ given = NONE /\ due = {}

Ready(t) == pc[t] # "user" /\ ~ecb.waits[t]

\* Task t may take a step.
Runs(t) ==
  /\ ~ecb.waits[t] /\ ~ecb.wild
  /\ \A u \in Tasks : Ready(u) => load.prio[t] <= load.prio[u]

At(t, label) == Runs(t) /\ pc[t] = label
Goto(t, label) == pc' = [pc EXCEPT ![t] = label]
Return(t) ==
  /\ pc' = [pc EXCEPT ![t] = "user"]
  /\ call' = [call EXCEPT ![t] = NoCall]

\* The application deletes a box only while everybody else is out of its
\* functions or blocked, and nobody calls one before it is gone.  The code
\* does not see to either: a task between the two sections of a pend, or one
\* that pends after DeleteEvent has looked, would wait on a free block.
Undisturbed(t, c) ==
  /\ c.op = "Del" => \A u \in Tasks \ {t} : ~Ready(u)
  /\ \A u \in Tasks : pc[u] \notin {"Del", "release"}

\* Every function but the creation checks the type of the event first.
Call(t) ==
  /\ At(t, "user")
  /\ \E c \in load.calls[t] :
       /\ c.op = "Create" \/ ecb.type # "INVALID"
       /\ Undisturbed(t, c)
       /\ call' = [call EXCEPT ![t] = c]
       /\ Goto(t, c.op)
  /\ UNCHANGED <<ecb, sent, given, due>>

\* CoCreateMbox, CoCreateQueue: fails if there is no free control block.
Create(t) ==
  /\ At(t, "Create")
  /\ ecb' = IF ecb.type # "INVALID" THEN ecb
            ELSE Fresh([ecb EXCEPT !.type = load.kind, !.list = <<>>])
  /\ Return(t) /\ UNCHANGED <<sent, given, due>>

\* CoDelMbox, CoDelQueue: DeleteEvent refuses, or wakes the waiting tasks ...
Del(t) ==
  /\ At(t, "Del")
  /\ IF call[t].opt = "NO_PEND" /\ ecb.list # <<>>
     THEN Return(t) /\ UNCHANGED ecb
     ELSE /\ ecb' = IF call[t].opt = "ANYWAY" THEN Drained(ecb) ELSE ecb
          /\ Goto(t, "release") /\ UNCHANGED call
  /\ UNCHANGED <<sent, given, due>>

\* ... and the control blocks are released.
DelRelease(t) ==
  /\ At(t, "release")
  /\ ecb' = Fresh([ecb EXCEPT !.type = "INVALID"])
  /\ Return(t) /\ UNCHANGED <<sent, given, due>>

-----------------------------------------------------------------------------
(* Posting.                                                                *)

\* Variant with a defect: a full box is not noticed.
PostNoTest(t) ==
  /\ At(t, "Post")
  /\ Goto(t, "posting") /\ UNCHANGED <<call, ecb, sent, given, due>>

\* CoPostMail, CoPostQueueMail: E_MBOX_FULL or E_QUEUE_FULL ...
PostTest(t) ==
  /\ At(t, "Post")
  /\ IF Full(ecb) THEN Return(t) ELSE Goto(t, "posting") /\ UNCHANGED call
  /\ UNCHANGED <<ecb, sent, given, due>>

\* The messages that are not under way.
Unused(e) == Messages \ (ToSet(Box(e)) \cup due \cup {sent, given})

\* Variant with a defect: nobody is woken.
AcceptQuietly(e) ==
  /\ ecb' = Put(e, Min(Unused(e))) /\ sent' = Min(Unused(e))
  /\ UNCHANGED <<given, due>>

\* A new message is put into the box and the first waiter woken.
Accept(e) ==
  LET put == Put(e, Min(Unused(e)))
      woken == e.list # <<>>
  IN  /\ Unused(e) # {}
      /\ ecb' = EventTaskToRdy(put) /\ sent' = Min(Unused(e))
      /\ given' = IF woken THEN Oldest(put) ELSE given
      /\ due' = IF woken THEN due \cup {Oldest(put)} ELSE due

\* ... or the message is accepted, under the lock.
PostPut(t) ==
  /\ At(t, "posting")
  /\ Accept(ecb)
  /\ Return(t)

\* isr_PostMail, isr_PostQueueMail: the whole post in an interrupt, or, when
\* it found the scheduler locked, in the OsSchedUnlock that follows.
isr_Post ==
  /\ ecb.type # "INVALID" /\ ~Full(ecb) /\ ~ecb.wild
  /\ Accept(ecb)
  /\ UNCHANGED <<pc, call>>

-----------------------------------------------------------------------------
(* Receiving.                                                              *)

\* The oldest message is returned.
TakeOldest ==
  /\ ecb' = Drop(ecb)
  /\ given' = Oldest(ecb)
  /\ UNCHANGED <<sent, due>>

\* CoAcceptMail, CoAcceptQueueMail.
AcceptMail(t) ==
  /\ At(t, "Accept")
  /\ IF ecb.cnt # 0 THEN TakeOldest ELSE UNCHANGED <<ecb, sent, given, due>>
  /\ Return(t)

\* CoPendMail, CoPendQueueMail: a message is taken, or the scheduler is
\* unlocked ...
PendLook(t) ==
  /\ At(t, "Pend")
  /\ IF ecb.cnt # 0 THEN TakeOldest /\ Return(t)
     ELSE Goto(t, "gap") /\ UNCHANGED <<call, ecb, sent, given, due>>

\* ... and locked again to wait, without or with time-out.
PendWait(t) ==
  /\ At(t, "gap")
  /\ ecb' = [EventTaskToWait(ecb, t) EXCEPT !.delay[t] = call[t].timed]
  /\ Goto(t, "blocked") /\ UNCHANGED <<call, sent, given, due>>

\* Variant with a defect: pmail is not cleared.
ReturnStale(t) ==
  /\ At(t, "blocked")
  /\ due' = due \ {ecb.pmail[t]}
  /\ Return(t) /\ UNCHANGED <<ecb, sent, given>>

\* The task returns its mail; a timed wait without mail is E_TIMEOUT, an
\* untimed one, ended by a deletion, returns Co_NULL and E_OK.
PendReturn(t) ==
  /\ At(t, "blocked")
  /\ ecb' = [ecb EXCEPT !.pmail[t] = NONE]
  /\ due' = due \ {ecb.pmail[t]}
  /\ Return(t) /\ UNCHANGED <<sent, given>>

\* The system tick finds the time-out of task t over.
Timeout(t) ==
  /\ ecb.delay[t] /\ ~ecb.wild
  /\ ecb' = TimeDispose(ecb, t)
  /\ UNCHANGED <<pc, call, sent, given, due>>

Step(t) ==
  \/ Call(t) \/ Create(t) \/ Del(t) \/ DelRelease(t)
  \/ PostTest(t) \/ PostPut(t) \/ AcceptMail(t)
  \/ PendLook(t) \/ PendWait(t) \/ PendReturn(t)

Next ==
  /\ \/ \E t \in Tasks : Step(t) \/ Timeout(t)
     \/ load.isr /\ isr_Post
  /\ UNCHANGED load

Spec == Init /\ [][Next]_vars

-----------------------------------------------------------------------------
(* Properties.                                                             *)

Labels == {"user", "Create", "Del", "release", "Post", "posting", "Accept",
           "Pend", "gap", "blocked"}

Mail == Messages \cup {NONE}

EventBlocks ==
  [type : {"MBOX", "QUEUE", "INVALID"}, ptr : Mail, cnt : Nat,
   buf : [Cells -> Mail], head : Cells, tail : Cells, list : Seq(Tasks),
   prev : [Tasks -> Tasks \cup {NONE}], waits : [Tasks -> BOOLEAN],
   delay : [Tasks -> BOOLEAN], pmail : [Tasks -> Mail], wild : BOOLEAN]

TypeOK ==
  /\ ecb \in EventBlocks /\ ecb.type \in {load.kind, "INVALID"}
  /\ ecb.cnt <= IF load.kind = "MBOX" THEN 1 ELSE qMaxSize
  /\ pc \in [Tasks -> Labels] /\ call \in [Tasks -> MailCalls \cup {NoCall}]
  /\ load \in Loads /\ {sent, given} \subseteq Mail /\ due \subseteq Messages

\* The waiting list and the tasks agree, whatever posts and time-outs of
\* several waiters interleave, and deletions while at most one task waits: the
\* waitPrev that a deletion leaves is still set when the second of its waiters
\* waits again.  The tasks linked from eventTCBList are exactly those
\* that wait, each once and most urgent first if sorted so, only they have a
\* time-out running, and nobody who does not wait is made ready.
ListAgrees ==
  /\ TypeOK /\ ~ecb.wild /\ IsInjective(ecb.list)
  /\ \A t \in Tasks :
       /\ ecb.waits[t] <=> t \in ToSet(ecb.list)
       /\ ecb.delay[t] => ecb.waits[t] /\ call[t].timed
  /\ load.sort = "PRIO" =>
       \A i, j \in 1 .. Len(ecb.list) :
         i < j => load.prio[ecb.list[i]] <= load.prio[ecb.list[j]]

\* A message that was handed to a waiting task is returned by its call, once,
\* and a call whose time-out raced a post returns no message of another call:
\* pmail holds what the task was given in this call and nothing else.
ReturnedOnce ==
  /\ due = {ecb.pmail[t] : t \in Tasks} \ {NONE}
  /\ \A t, u \in Tasks :
       ecb.pmail[t] # NONE =>
         /\ pc[t] = "blocked" /\ ~ecb.waits[t]
         /\ ecb.pmail[t] = ecb.pmail[u] => t = u

\* No task that posts, and no interrupt, can run between the two locked
\* sections of a task that pends.
PostersYield ==
  /\ ~load.isr
  /\ \A t, u \in Tasks :
       (\E c \in load.calls[t] : c.op = "Pend")
         /\ (\E c \in load.calls[u] : c.op = "Post")
         => load.prio[t] < load.prio[u]

\* If posters yield to those who pend, nobody waits for a message that is in
\* the box.  If they do not, a post in the gap of a pend leaves the message
\* there until the next one.
NoMailWhileWaiting == PostersYield /\ ecb.list # <<>> => ecb.cnt = 0

Abstract == INSTANCE MailFifo WITH
  size <- IF load.kind = "MBOX" THEN 1 ELSE qMaxSize,
  exists <- ecb.type # "INVALID", box <- Box(ecb)

\* A mailbox and a queue are bounded FIFO channels: through full and empty,
\* wrap-around, hand-over to waiters and time-outs no message is lost,
\* duplicated or overtaken, only a deletion discards any, and none is accepted
\* when the box is full.
\* One task or one interrupt posts: the test for a full box is outside the
\* lock, and a second poster between the two overruns it; then qSize passes
\* qMaxSize and the test for equality never refuses again.
ImplementsFifo == Abstract!Spec

=============================================================================
