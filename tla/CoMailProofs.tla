---------------------------- MODULE CoMailProofs ----------------------------
(***************************************************************************)
(* For every queue size, any tasks and any application that keeps two      *)
(* rules, a CoOS mailbox or queue is a bounded FIFO channel, its waiting   *)
(* list agrees with the tasks, and mail given to a waiter is returned      *)
(* once.                                                                   *)
(***************************************************************************)
EXTENDS CoMail, SequenceTheorems, DataFacts

Makes(t, op) == \E c \in load.calls[t] : c.op = op

\* The rules: one task posts, or interrupts do, because the test for a full
\* box is outside the lock; and a box is deleted with tasks waiting only if
\* one task at most can wait, because the deletion leaves waitPrev.
Disciplined ==
  /\ \A t, u \in Tasks : Makes(t, "Post") /\ Makes(u, "Post") => t = u
  /\ load.isr => \A t \in Tasks : ~Makes(t, "Post")
  /\ (\E t \in Tasks : \E c \in load.calls[t] : c.op = "Del" /\ c.opt = "ANYWAY")
       => \A t, u \in Tasks : Makes(t, "Pend") /\ Makes(u, "Pend") => t = u

\* The box by itself.
BoxOK(e) ==
  /\ e \in EventBlocks
  /\ e.type = "MBOX" => e.cnt <= 1
  /\ e.type = "QUEUE" => e.cnt <= qMaxSize /\ e.tail = Wrap(e.head + e.cnt)
  /\ e.type = "INVALID" => e.cnt = 0
  /\ Box(e) \in Seq(Messages)
  /\ \A i, j \in 1 .. Len(Box(e)) : Box(e)[i] = Box(e)[j] => i = j

In(q, t) == \E i \in 1 .. Len(q) : q[i] = t

\* waitPrev is right for those who are linked and null for the others.
Linked(q, prev) ==
  /\ q \in Seq(Tasks) /\ prev \in [Tasks -> Tasks \cup {NONE}]
  /\ \A i, j \in 1 .. Len(q) : q[i] = q[j] => i = j
  /\ \A i \in 1 .. Len(q) : prev[q[i]] = IF i = 1 THEN NONE ELSE q[i - 1]
  /\ \A t \in Tasks : ~In(q, t) => prev[t] = NONE

Sorted(q) ==
  load.sort = "PRIO" =>
    \A i, j \in 1 .. Len(q) : i < j => load.prio[q[i]] <= load.prio[q[j]]

\* The waiting list by itself.
ListOK(e) ==
  /\ e \in EventBlocks /\ e.wild = FALSE
  /\ Linked(e.list, e.prev) /\ Sorted(e.list)
  /\ \A t \in Tasks :
       (e.waits[t] <=> In(e.list, t)) /\ (e.delay[t] => e.waits[t])

\* Mail that was handed over.
MailOK(e, d) ==
  /\ d = {e.pmail[t] : t \in Tasks} \ {NONE}
  /\ \A t, u \in Tasks : e.pmail[t] # NONE /\ e.pmail[t] = e.pmail[u] => t = u
  /\ \A i \in 1 .. Len(Box(e)) : Box(e)[i] \notin d

\* The function a control point belongs to.
OpOf(label) ==
  CASE label = "user" -> "none"
    [] label = "release" -> "Del"
    [] label = "posting" -> "Post"
    [] label \in {"gap", "blocked"} -> "Pend"
    [] OTHER -> label

\* The tasks and the box: only who is blocked waits or has mail, a deletion is
\* undisturbed, and the box is not full for the one that posts.
Callers(e, p, c) ==
  /\ \A t \in Tasks :
       /\ c[t].op = OpOf(p[t]) /\ (p[t] # "user" => c[t] \in load.calls[t])
       /\ e.waits[t] => p[t] = "blocked" /\ e.pmail[t] = NONE
       /\ e.pmail[t] # NONE => p[t] = "blocked"
       /\ e.delay[t] => c[t].timed
       /\ p[t] = "posting" => ~Full(e)
       /\ p[t] \in {"Del", "release"} =>
            \A u \in Tasks \ {t} : p[u] \in {"user", "blocked"}
       /\ p[t] = "release" => e.list = <<>>
       /\ e.type = "INVALID" => p[t] \in {"user", "Create", "blocked"}
  /\ e.type = "INVALID" => e.list = <<>>

\* If posters yield, a task between the two sections of its pend, or waiting,
\* has left no message in the box.
Prompt(e, p) ==
  PostersYield =>
    /\ e.list # <<>> => e.cnt = 0
    /\ \A t \in Tasks : p[t] = "gap" => e.cnt = 0

IInv ==
  /\ TypeOK /\ BoxOK(ecb) /\ ListOK(ecb) /\ MailOK(ecb, due)
  /\ Callers(ecb, pc, call) /\ Prompt(ecb, pc) /\ Disciplined

-----------------------------------------------------------------------------
(* The box.                                                                *)

LEMMA SizeFacts ==
  /\ qMaxSize \in Nat \ {0} /\ Messages \subseteq Nat /\ NONE \notin Tasks
  /\ NONE \notin Messages /\ Messages \subseteq Mail /\ NONE \in Mail
BY LoadAssumption DEF Mail

LEMMA WrapFacts ==
  ASSUME NEW h \in Cells
  PROVE  /\ h \in Nat /\ h < qMaxSize /\ Next0(h) = Wrap(h + 1)
         /\ Next0(h) \in Cells /\ Wrap(h) = h
         /\ \A i \in 0 .. qMaxSize : Wrap(h + i) \in Cells
         /\ \A i, j \in 0 .. qMaxSize - 1 : Wrap(h + i) = Wrap(h + j) => i = j
         /\ \A i \in 0 .. qMaxSize - 1 :
              /\ Next0(Wrap(h + i)) = Wrap(h + (i + 1))
              /\ Wrap(Next0(h) + i) = Wrap(h + (i + 1))
<1>1. qMaxSize \in Nat \ {0} /\ h \in Nat /\ h < qMaxSize
  BY SizeFacts DEF Cells
<1>2. Next0(h) = Wrap(h + 1) /\ Next0(h) \in Cells /\ Wrap(h) = h
  BY <1>1 DEF Cells, Next0, Wrap
<1>3. \A i \in 0 .. qMaxSize : Wrap(h + i) \in Cells
  BY <1>1 DEF Cells, Wrap
<1>4. \A i, j \in 0 .. qMaxSize - 1 : Wrap(h + i) = Wrap(h + j) => i = j
  BY <1>1 DEF Wrap
<1>5. ASSUME NEW i \in 0 .. qMaxSize - 1
      PROVE  /\ Next0(Wrap(h + i)) = Wrap(h + (i + 1))
             /\ Wrap(Next0(h) + i) = Wrap(h + (i + 1))
  BY <1>1 DEF Next0, Wrap
<1>6. QED
  BY <1>1, <1>2, <1>3, <1>4, <1>5

LEMMA WrapAt ==
  ASSUME NEW h \in Cells, NEW i \in 0 .. qMaxSize - 1
  PROVE  /\ Wrap(h + i) \in Cells /\ Next0(Wrap(h + i)) = Wrap(h + (i + 1))
         /\ Next0(Wrap(h + i)) \in Cells
         /\ Wrap(Next0(h) + i) = Wrap(h + (i + 1))
         /\ \A j \in 0 .. qMaxSize - 1 : Wrap(h + i) = Wrap(h + j) => i = j
<1>1. qMaxSize \in Nat \ {0} /\ h \in Nat /\ h < qMaxSize
  BY SizeFacts DEF Cells
<1>2. Wrap(h + i) \in Cells
  BY <1>1 DEF Cells, Wrap
<1>3. QED
  BY <1>2, WrapFacts

\* What is in the box.
LEMMA BoxIs ==
  ASSUME NEW e \in EventBlocks, e.type = "MBOX" => e.cnt <= 1,
         e.type = "QUEUE" => e.cnt <= qMaxSize, e.type = "INVALID" => e.cnt = 0
  PROVE  /\ e.cnt \in Nat /\ Box(e) \in Seq(Mail) /\ Len(Box(e)) = e.cnt
         /\ e.type = "MBOX" => \A i \in 1 .. e.cnt : i = 1 /\ Box(e)[i] = e.ptr
         /\ e.type # "MBOX" =>
              \A i \in 1 .. e.cnt : Box(e)[i] = e.buf[Wrap(e.head + (i - 1))]
<1>1. /\ e.type \in {"MBOX", "QUEUE", "INVALID"} /\ e.cnt \in Nat
      /\ e.ptr \in Mail /\ e.buf \in [Cells -> Mail] /\ e.head \in Cells
  BY DEF EventBlocks
<1>2. CASE e.type = "MBOX"
  <2>1. Box(e) = IF e.cnt = 0 THEN <<>> ELSE <<e.ptr>>
    BY <1>2 DEF Box
  <2>2. e.cnt = 0 \/ e.cnt = 1
    BY <1>1, <1>2
  <2>3. CASE e.cnt = 0
    BY <1>1, <1>2, <2>1, <2>3, EmptySeq
  <2>4. CASE e.cnt = 1
    BY <1>1, <1>2, <2>1, <2>4
  <2>5. QED
    BY <2>2, <2>3, <2>4
<1>3. CASE e.type # "MBOX"
  <2> DEFINE q == [i \in 1 .. e.cnt |-> e.buf[Wrap(e.head + i - 1)]]
  <2>1. Box(e) = q
    BY <1>3 DEF Box
  <2>2. e.cnt <= qMaxSize /\ e.head \in Nat
    BY <1>1, <1>3, SizeFacts, WrapFacts
  <2>3. ASSUME NEW i \in 1 .. e.cnt
        PROVE  e.head + i - 1 = e.head + (i - 1) /\ i - 1 \in 0 .. qMaxSize
    BY <1>1, <2>2, SizeFacts
  <2>4. ASSUME NEW i \in 1 .. e.cnt
        PROVE  /\ q[i] = e.buf[Wrap(e.head + (i - 1))]
               /\ e.buf[Wrap(e.head + (i - 1))] \in Mail
    BY <1>1, <2>3, WrapFacts
  <2>5. q \in [1 .. e.cnt -> Mail]
    BY <2>4
  <2> HIDE DEF q
  <2>6. q \in Seq(Mail) /\ Len(q) = e.cnt
    BY <1>1, <2>5
  <2>7. QED
    BY <1>1, <1>3, <2>1, <2>4, <2>6
<1>4. QED
  BY <1>2, <1>3

\* The two halves of the control block.
SameBox(e, r) ==
  /\ r.type = e.type /\ r.ptr = e.ptr /\ r.cnt = e.cnt /\ r.buf = e.buf
  /\ r.head = e.head /\ r.tail = e.tail

SameList(e, r) ==
  /\ r.list = e.list /\ r.prev = e.prev /\ r.waits = e.waits
  /\ r.delay = e.delay /\ r.pmail = e.pmail /\ r.wild = e.wild

LEMMA SameBoxKeeps ==
  ASSUME NEW e, BoxOK(e), NEW r \in EventBlocks, SameBox(e, r)
  PROVE  BoxOK(r) /\ Box(r) = Box(e) /\ (Full(r) <=> Full(e)) /\ Oldest(r) = Oldest(e)
<1>1. Box(r) = Box(e)
  BY DEF SameBox, Box
<1>2. Full(r) <=> Full(e)
  BY DEF SameBox, Full
<1>3. Oldest(r) = Oldest(e)
  BY DEF SameBox, Oldest
<1>4. QED
  BY <1>1, <1>2, <1>3 DEF BoxOK, SameBox

LEMMA SameListKeeps ==
  ASSUME NEW e, ListOK(e), NEW r \in EventBlocks, SameList(e, r)
  PROVE  ListOK(r)
BY DEF SameList, ListOK

\* A message goes in at the end.
LEMMA PutBox ==
  ASSUME NEW e, BoxOK(e), e.type # "INVALID", ~Full(e),
         NEW m \in Messages, \A i \in 1 .. Len(Box(e)) : Box(e)[i] # m
  PROVE  /\ BoxOK(Put(e, m)) /\ SameList(e, Put(e, m))
         /\ Box(Put(e, m)) = Append(Box(e), m)
         /\ Put(e, m).type = e.type /\ Put(e, m).cnt = e.cnt + 1
<1> DEFINE r == Put(e, m)
<1>1. /\ e \in EventBlocks /\ e.cnt \in Nat /\ e.type \in {"MBOX", "QUEUE"}
      /\ e.ptr \in Mail /\ e.buf \in [Cells -> Mail] /\ e.head \in Cells
      /\ e.tail \in Cells /\ m \in Mail
      /\ Box(e) \in Seq(Messages)
      /\ \A i, j \in 1 .. Len(Box(e)) : Box(e)[i] = Box(e)[j] => i = j
  BY SizeFacts DEF BoxOK, EventBlocks
<1>2. /\ Len(Box(e)) = e.cnt
      /\ e.type = "MBOX" => \A i \in 1 .. e.cnt : i = 1 /\ Box(e)[i] = e.ptr
      /\ e.type # "MBOX" =>
           \A i \in 1 .. e.cnt : Box(e)[i] = e.buf[Wrap(e.head + (i - 1))]
  BY <1>1, BoxIs DEF BoxOK
<1>3. ASSUME r \in EventBlocks, r.type = e.type, r.cnt = e.cnt + 1,
             e.type = "MBOX" => r.cnt <= 1 /\ r.ptr = m,
             e.type = "QUEUE" =>
               /\ r.cnt <= qMaxSize /\ r.tail = Wrap(r.head + r.cnt)
               /\ \A i \in 1 .. e.cnt : r.buf[Wrap(r.head + (i - 1))]
                                        = e.buf[Wrap(e.head + (i - 1))]
               /\ r.buf[Wrap(r.head + e.cnt)] = m
      PROVE  BoxOK(r) /\ Box(r) = Append(Box(e), m)
  <2> HIDE DEF r
  <2>1. /\ r.cnt \in Nat /\ Box(r) \in Seq(Mail) /\ Len(Box(r)) = r.cnt
        /\ r.type = "MBOX" => \A i \in 1 .. r.cnt : i = 1 /\ Box(r)[i] = r.ptr
        /\ r.type # "MBOX" =>
             \A i \in 1 .. r.cnt : Box(r)[i] = r.buf[Wrap(r.head + (i - 1))]
    BY <1>1, <1>3, BoxIs
  <2> DEFINE b == Box(e)
             q == Append(b, m)
  <2> HIDE DEF b
  <2>2. /\ q \in Seq(Messages) /\ q \in Seq(Mail) /\ Len(q) = e.cnt + 1
        /\ q[e.cnt + 1] = m
        /\ \A i \in 1 .. e.cnt : q[i] = b[i]
    <3>1. b \in Seq(Messages) /\ Len(b) = e.cnt
      BY <1>1, <1>2 DEF b
    <3>2. /\ q \in Seq(Messages) /\ Len(q) = e.cnt + 1 /\ q[e.cnt + 1] = m
          /\ \A i \in 1 .. e.cnt : q[i] = b[i]
      BY <1>1, <3>1
    <3>3. q \in Seq(Mail)
      BY <3>2, SizeFacts, SeqMonotonic
    <3>4. QED
      BY <3>2, <3>3
  <2> HIDE DEF q
  <2>3. ASSUME NEW i \in 1 .. e.cnt + 1 PROVE Box(r)[i] = q[i]
    <3>1. CASE i = e.cnt + 1
      <4>1. CASE e.type = "MBOX"
        BY <1>1, <1>3, <2>1, <2>2, <3>1, <4>1
      <4>2. CASE e.type = "QUEUE"
        <5>1. i - 1 = e.cnt /\ i \in 1 .. r.cnt
          BY <1>1, <1>3, <3>1
        <5>2. Box(r)[i] = r.buf[Wrap(r.head + e.cnt)]
          BY <1>3, <2>1, <4>2, <5>1
        <5>3. QED
          BY <1>3, <2>2, <3>1, <4>2, <5>2
      <4>3. QED
        BY <1>1, <4>1, <4>2
    <3>2. CASE i \in 1 .. e.cnt
      <4>1. CASE e.type = "MBOX"
        BY <1>1, <1>3, <3>2, <4>1
      <4>2. CASE e.type = "QUEUE"
        <5>1. i \in 1 .. r.cnt
          BY <1>1, <1>3, <3>2
        <5>2. QED
          BY <1>2, <1>3, <2>1, <2>2, <3>2, <4>2, <5>1 DEF b
      <4>3. QED
        BY <1>1, <4>1, <4>2
    <3>3. QED
      BY <1>1, <3>1, <3>2
  <2>4. Box(r) = q
    BY <1>3, <2>1, <2>2, <2>3, SeqEqual
  <2>5. \A i \in 1 .. Len(q) : i = e.cnt + 1 \/ i \in 1 .. Len(b)
    BY <1>1, <1>2, <2>2 DEF b
  <2>6. ASSUME NEW i \in 1 .. Len(q), NEW j \in 1 .. Len(q), q[i] = q[j]
        PROVE  i = j
    <3>1. /\ Len(b) = e.cnt /\ \A k \in 1 .. Len(b) : b[k] # m
          /\ \A k, l \in 1 .. Len(b) : b[k] = b[l] => k = l
      BY <1>1, <1>2 DEF b
    <3>2. /\ (i = e.cnt + 1 /\ q[i] = m) \/ (i \in 1 .. Len(b) /\ q[i] = b[i])
          /\ (j = e.cnt + 1 /\ q[j] = m) \/ (j \in 1 .. Len(b) /\ q[j] = b[j])
      BY <2>2, <2>5, <3>1
    <3>3. QED
      BY <2>6, <3>1, <3>2
  <2>7. QED
    BY <1>3, <2>2, <2>4, <2>6, <1>1 DEF BoxOK, q, b
<1>4. CASE e.type = "MBOX"
  <2>1. r = [e EXCEPT !.ptr = m, !.cnt = 1] /\ e.cnt = 0
    BY <1>1, <1>4 DEF Put, Full
  <2> HIDE DEF r
  <2>2. /\ r \in EventBlocks /\ r.type = e.type /\ r.cnt = 1 /\ r.ptr = m
    BY <1>1, <2>1 DEF EventBlocks
  <2>3. SameList(e, r)
    BY <1>1, <2>1 DEF EventBlocks, SameList
  <2>4. r.cnt = e.cnt + 1 /\ r.cnt <= 1
    BY <2>1, <2>2
  <2>5. BoxOK(r) /\ Box(r) = Append(Box(e), m)
    BY <1>3, <1>4, <2>2, <2>4 DEF r
  <2>6. QED
    BY <2>2, <2>3, <2>4, <2>5 DEF r
<1>5. CASE e.type = "QUEUE"
  <2> DEFINE buf == [e.buf EXCEPT ![e.tail] = m]
  <2>1. r = [e EXCEPT !.buf = buf, !.tail = Next0(e.tail), !.cnt = e.cnt + 1]
    BY <1>1, <1>5 DEF Put, EventBlocks
  <2>2. /\ e.cnt < qMaxSize /\ e.tail = Wrap(e.head + e.cnt)
        /\ e.cnt \in 0 .. qMaxSize - 1 /\ e.cnt + 1 \in Nat
    BY <1>1, <1>5, SizeFacts DEF BoxOK, Full
  <2>3. Next0(e.tail) = Wrap(e.head + (e.cnt + 1)) /\ Next0(e.tail) \in Cells
    BY <1>1, <2>2, WrapAt
  <2>4. buf \in [Cells -> Mail] /\ buf[e.tail] = m
        /\ \A k \in Cells \ {e.tail} : buf[k] = e.buf[k]
    BY <1>1
  <2> HIDE DEF r, buf
  <2>5. r \in EventBlocks
    BY <1>1, <2>1, <2>2, <2>3, <2>4 DEF EventBlocks
  <2>6. /\ r.type = e.type /\ r.cnt = e.cnt + 1 /\ r.buf = buf
        /\ r.tail = Next0(e.tail) /\ r.head = e.head
    BY <1>1, <2>1 DEF EventBlocks
  <2>7. SameList(e, r)
    BY <1>1, <2>1 DEF EventBlocks, SameList
  <2>8. ASSUME NEW i \in 1 .. e.cnt
        PROVE  r.buf[Wrap(r.head + (i - 1))] = e.buf[Wrap(e.head + (i - 1))]
    <3>1. i - 1 \in 0 .. qMaxSize - 1 /\ i - 1 # e.cnt /\ i - 1 \in 0 .. qMaxSize
      BY <1>1, <2>2, SizeFacts
    <3>2. Wrap(e.head + (i - 1)) # e.tail /\ Wrap(e.head + (i - 1)) \in Cells
      BY <1>1, <2>2, <3>1, WrapAt
    <3>3. QED
      BY <2>4, <2>6, <3>2
  <2>9. r.cnt <= qMaxSize /\ r.tail = Wrap(r.head + r.cnt)
        /\ r.buf[Wrap(r.head + e.cnt)] = m
    <3>1. e.cnt + 1 <= qMaxSize
      BY <1>1, <2>2, SizeFacts
    <3>2. QED
      BY <2>2, <2>3, <2>4, <2>6, <3>1
  <2>10. BoxOK(r) /\ Box(r) = Append(Box(e), m)
    BY <1>3, <1>5, <2>5, <2>6, <2>8, <2>9 DEF r
  <2>11. QED
    BY <2>6, <2>7, <2>10 DEF r
<1>6. QED
  BY <1>1, <1>4, <1>5

LEMMA BoxLen ==
  ASSUME NEW e, BoxOK(e)
  PROVE  /\ e.cnt \in Nat /\ Len(Box(e)) = e.cnt /\ Box(e) \in Seq(Messages)
         /\ e.cnt = 0 <=> Box(e) = <<>>
         /\ e.type \in {"MBOX", "QUEUE", "INVALID"} /\ e \in EventBlocks
<1>1. e \in EventBlocks /\ Box(e) \in Seq(Messages) /\ e.cnt \in Nat
  BY DEF BoxOK, EventBlocks
<1>2. Len(Box(e)) = e.cnt
  BY <1>1, BoxIs DEF BoxOK
<1> DEFINE b == Box(e)
<1> HIDE DEF b
<1>3. b = <<>> <=> Len(b) = 0
  BY <1>1, EmptySeq DEF b
<1>4. QED
  BY <1>1, <1>2, <1>3 DEF b, EventBlocks

\* The oldest message goes out.
LEMMA DropBox ==
  ASSUME NEW e, BoxOK(e), e.cnt # 0
  PROVE  /\ BoxOK(Drop(e)) /\ SameList(e, Drop(e)) /\ Drop(e).type = e.type
         /\ Drop(e).cnt = e.cnt - 1 /\ Box(Drop(e)) = Tail(Box(e))
         /\ Box(e) # <<>> /\ Oldest(e) = Head(Box(e)) /\ Oldest(e) = Box(e)[1]
         /\ Oldest(e) \in Messages
<1> DEFINE r == Drop(e)
           b == Box(e)
<1>1. /\ e \in EventBlocks /\ e.cnt \in Nat \ {0} /\ e.type \in {"MBOX", "QUEUE"}
      /\ e.buf \in [Cells -> Mail] /\ e.head \in Cells /\ e.tail \in Cells
      /\ b \in Seq(Messages) /\ NONE \in Mail
      /\ \A i, j \in 1 .. Len(b) : b[i] = b[j] => i = j
  BY SizeFacts DEF BoxOK, EventBlocks
<1>2. /\ Len(b) = e.cnt
      /\ e.type = "MBOX" => \A i \in 1 .. e.cnt : i = 1 /\ b[i] = e.ptr
      /\ e.type # "MBOX" =>
           \A i \in 1 .. e.cnt : b[i] = e.buf[Wrap(e.head + (i - 1))]
  BY <1>1, BoxIs DEF BoxOK
<1> HIDE DEF b
<1>3. /\ b # <<>> /\ Head(b) = b[1] /\ b[1] \in Messages /\ 1 \in 1 .. e.cnt
      /\ Tail(b) \in Seq(Messages) /\ Len(Tail(b)) = e.cnt - 1
      /\ \A i \in 1 .. e.cnt - 1 : Tail(b)[i] = b[i + 1]
  <2>1. b # <<>>
    BY <1>1, <1>2, EmptySeq
  <2>2. QED
    BY <1>1, <1>2, <2>1
<1>4. Oldest(e) = b[1]
  <2>1. CASE e.type = "MBOX"
    BY <1>2, <1>3, <2>1 DEF Oldest
  <2>2. CASE e.type = "QUEUE"
    <3>1. ASSUME NEW i \in 1 .. e.cnt, i = 1 PROVE Wrap(e.head + (i - 1)) = e.head
      <4>1. e.head \in Nat /\ e.head < qMaxSize /\ qMaxSize \in Nat
        BY <1>1, WrapFacts, SizeFacts
      <4>2. QED
        BY <3>1, <4>1 DEF Wrap
    <3>2. ASSUME NEW i \in 1 .. e.cnt, i = 1 PROVE b[i] = e.buf[e.head]
      BY <1>2, <2>2, <3>1, <3>2
    <3>3. QED
      BY <1>3, <2>2, <3>2 DEF Oldest
  <2>3. QED
    BY <1>1, <2>1, <2>2
<1>5. ASSUME r \in EventBlocks, r.type = e.type, r.cnt = e.cnt - 1,
             e.type = "MBOX" => r.cnt = 0,
             e.type = "QUEUE" =>
               /\ r.cnt <= qMaxSize /\ r.tail = Wrap(r.head + r.cnt)
               /\ \A i \in 1 .. r.cnt : r.buf[Wrap(r.head + (i - 1))]
                                        = e.buf[Wrap(e.head + i)]
      PROVE  BoxOK(r) /\ Box(r) = Tail(b)
  <2> HIDE DEF r
  <2>1. /\ r.cnt \in Nat /\ Box(r) \in Seq(Mail) /\ Len(Box(r)) = r.cnt
        /\ r.type # "MBOX" =>
             \A i \in 1 .. r.cnt : Box(r)[i] = r.buf[Wrap(r.head + (i - 1))]
    BY <1>1, <1>5, BoxIs
  <2> DEFINE q == Tail(b)
  <2>2. /\ q \in Seq(Messages) /\ Len(q) = r.cnt
        /\ \A i \in 1 .. r.cnt : q[i] = b[i + 1]
    BY <1>3, <1>5
  <2>3. q \in Seq(Mail)
    BY <2>2, SizeFacts, SeqMonotonic
  <2> HIDE DEF q
  <2>4. ASSUME NEW i \in 1 .. r.cnt PROVE Box(r)[i] = q[i]
    <3>1. e.type = "QUEUE"
      BY <1>1, <1>5
    <3>2. i + 1 \in 1 .. e.cnt /\ (i + 1) - 1 = i
      BY <1>1, <1>5
    <3>3. b[i + 1] = e.buf[Wrap(e.head + i)]
      BY <1>2, <3>1, <3>2
    <3>4. QED
      BY <1>5, <2>1, <2>2, <3>1, <3>3
  <2>5. Box(r) = q
    BY <2>1, <2>2, <2>3, <2>4, SeqEqual
  <2>6. ASSUME NEW i \in 1 .. r.cnt, NEW j \in 1 .. r.cnt, q[i] = q[j]
        PROVE  i = j
    <3>1. i + 1 \in 1 .. Len(b) /\ j + 1 \in 1 .. Len(b) /\ i \in Nat /\ j \in Nat
      BY <1>1, <1>2, <1>5
    <3>2. i + 1 = j + 1
      BY <1>1, <2>2, <2>6, <3>1
    <3>3. QED
      BY <3>1, <3>2
  <2>7. r.type = "MBOX" => r.cnt <= 1
    BY <1>5
  <2>8. r.type # "INVALID"
    BY <1>1, <1>5
  <2>9. BoxOK(r)
    BY <1>5, <2>2, <2>5, <2>6, <2>7, <2>8 DEF BoxOK
  <2>10. QED
    BY <2>5, <2>9 DEF q
<1>6. CASE e.type = "MBOX"
  <2>1. r = [e EXCEPT !.ptr = NONE, !.cnt = e.cnt - 1]
    BY <1>1, <1>6 DEF Drop, EventBlocks
  <2>2. e.cnt <= 1
    BY <1>6 DEF BoxOK
  <2>3. e.cnt - 1 = 0 /\ e.cnt - 1 \in Nat
    BY <1>1, <2>2
  <2> HIDE DEF r
  <2>4. r \in EventBlocks
    BY <1>1, <2>1, <2>3 DEF EventBlocks
  <2>5. r.type = e.type /\ r.cnt = e.cnt - 1 /\ SameList(e, r)
    BY <1>1, <2>1 DEF EventBlocks, SameList
  <2>6. BoxOK(r) /\ Box(r) = Tail(b)
    BY <1>5, <1>6, <2>3, <2>4, <2>5 DEF r
  <2>7. QED
    BY <1>3, <1>4, <2>5, <2>6 DEF r, b
<1>7. CASE e.type = "QUEUE"
  <2>1. r = [e EXCEPT !.head = Next0(e.head), !.cnt = e.cnt - 1]
    BY <1>1, <1>7 DEF Drop, EventBlocks
  <2>2. /\ e.cnt <= qMaxSize /\ e.tail = Wrap(e.head + e.cnt)
    BY <1>7 DEF BoxOK
  <2>3. /\ e.cnt - 1 \in Nat /\ e.cnt - 1 <= qMaxSize
        /\ e.cnt - 1 \in 0 .. qMaxSize - 1 /\ (e.cnt - 1) + 1 = e.cnt
    BY <1>1, <2>2, SizeFacts
  <2>4. Next0(e.head) \in Cells
    BY <1>1, WrapFacts
  <2> HIDE DEF r
  <2>5. r \in EventBlocks
    BY <1>1, <2>1, <2>3, <2>4 DEF EventBlocks
  <2>6. /\ r.type = e.type /\ r.cnt = e.cnt - 1 /\ SameList(e, r)
        /\ r.head = Next0(e.head) /\ r.buf = e.buf /\ r.tail = e.tail
    BY <1>1, <2>1 DEF EventBlocks, SameList
  <2>7. Wrap(r.head + r.cnt) = Wrap(e.head + e.cnt)
    <3>1. Wrap(Next0(e.head) + (e.cnt - 1)) = Wrap(e.head + ((e.cnt - 1) + 1))
      BY <1>1, <2>3, WrapAt
    <3>2. QED
      BY <2>3, <2>6, <3>1
  <2>8. ASSUME NEW i \in 1 .. r.cnt
        PROVE  Wrap(r.head + (i - 1)) = Wrap(e.head + i)
    <3>1. i - 1 \in 0 .. qMaxSize - 1 /\ (i - 1) + 1 = i
      BY <1>1, <2>3, <2>6, SizeFacts
    <3>2. Wrap(Next0(e.head) + (i - 1)) = Wrap(e.head + ((i - 1) + 1))
      BY <1>1, <3>1, WrapAt
    <3>3. QED
      BY <2>6, <3>1, <3>2
  <2>9. BoxOK(r) /\ Box(r) = Tail(b)
    BY <1>5, <1>7, <2>2, <2>3, <2>5, <2>6, <2>7, <2>8 DEF r
  <2>10. QED
    BY <1>3, <1>4, <2>6, <2>9 DEF r, b
<1>8. QED
  BY <1>1, <1>6, <1>7

\* A new event, or none, has nothing in its box.
LEMMA FreshBox ==
  ASSUME NEW e \in EventBlocks
  PROVE  /\ BoxOK(Fresh(e)) /\ SameList(e, Fresh(e)) /\ Fresh(e).type = e.type
         /\ Fresh(e).cnt = 0 /\ Box(Fresh(e)) = <<>>
<1> DEFINE buf == [i \in Cells |-> NONE]
           r == Fresh(e)
<1>1. /\ r = [e EXCEPT !.ptr = NONE, !.cnt = 0, !.buf = buf, !.head = 0, !.tail = 0]
      /\ 0 \in Cells /\ NONE \in Mail /\ buf \in [Cells -> Mail]
  BY SizeFacts DEF Fresh, Cells
<1> HIDE DEF r, buf
<1>2. r \in EventBlocks
  BY <1>1 DEF EventBlocks
<1>3. /\ r.type = e.type /\ r.cnt = 0 /\ r.head = 0 /\ r.tail = 0 /\ SameList(e, r)
  BY <1>1 DEF EventBlocks, SameList
<1>4. Box(r) \in Seq(Mail) /\ Len(Box(r)) = 0
  BY <1>2, <1>3, SizeFacts, BoxIs
<1>5. Box(r) = <<>>
  BY <1>4, EmptySeq
<1>6. Wrap(0 + 0) = 0
  BY SizeFacts DEF Wrap
<1>7. BoxOK(r)
  <2>1. <<>> \in Seq(Messages) /\ \A i, j \in 1 .. Len(<<>>) : i = j
    BY EmptySeq
  <2>2. r.cnt <= 1 /\ r.cnt <= qMaxSize
    BY <1>3, SizeFacts
  <2>3. r.tail = Wrap(r.head + r.cnt)
    BY <1>3, <1>6
  <2>4. QED
    BY <1>2, <1>3, <1>5, <2>1, <2>2, <2>3 DEF BoxOK
<1>8. QED
  BY <1>3, <1>5, <1>7 DEF r

-----------------------------------------------------------------------------
(* The waiting list.                                                       *)

\* r is q with t put before position at.
Inserted(r, q, at, t) == r \in Seq(Tasks) /\ PutBefore(r, q, at, t)

LEMMA InsertFacts ==
  ASSUME NEW q \in Seq(Tasks), NEW at \in 1 .. Len(q) + 1, NEW t \in Tasks
  PROVE  Inserted(InsertAt(q, at, t), q, at, t)
BY InsertAtFacts DEF Inserted

LEMMA LinkedFacts ==
  ASSUME NEW q, NEW prev, Linked(q, prev)
  PROVE  /\ q \in Seq(Tasks) /\ Len(q) \in Nat
         /\ prev \in [Tasks -> Tasks \cup {NONE}]
         /\ \A i \in 1 .. Len(q) : q[i] \in Tasks
         /\ \A t : In(q, t) => t \in Tasks
<1>1. q \in Seq(Tasks) /\ prev \in [Tasks -> Tasks \cup {NONE}]
  BY DEF Linked
<1>2. Len(q) \in Nat /\ \A i \in 1 .. Len(q) : q[i] \in Tasks
  BY <1>1
<1>3. QED
  BY <1>1, <1>2 DEF In

\* A task is linked in at position at, and its successor is told.
LEMMA InsertLinked ==
  ASSUME NEW q, NEW prev, Linked(q, prev), NEW t \in Tasks, ~In(q, t),
         NEW at \in 1 .. Len(q) + 1, NEW new \in [Tasks -> Tasks \cup {NONE}],
         new[t] = IF at = 1 THEN prev[t] ELSE q[at - 1],
         at <= Len(q) => new[q[at]] = t,
         \A u \in Tasks \ {t} : (at <= Len(q) => u # q[at]) => new[u] = prev[u]
  PROVE  Linked(InsertAt(q, at, t), new)
         /\ \A u : In(InsertAt(q, at, t), u) <=> In(q, u) \/ u = t
<1> DEFINE n == Len(q)
           r == InsertAt(q, at, t)
<1>1. q \in Seq(Tasks) /\ n \in Nat /\ \A i \in 1 .. n : q[i] \in Tasks /\ q[i] # t
  BY LinkedFacts DEF In
<1>2. /\ r \in Seq(Tasks) /\ Len(r) = n + 1
      /\ \A i \in 1 .. n + 1 : r[i] = IF i < at THEN q[i]
                                      ELSE IF i = at THEN t ELSE q[i - 1]
  <2>1. Inserted(r, q, at, t)
    BY <1>1, InsertFacts
  <2> HIDE DEF r
  <2>2. QED
    BY <2>1 DEF Inserted, PutBefore
<1>3. at \in Nat /\ at >= 1 /\ at <= n + 1
  BY <1>1
<1> HIDE DEF r
<1>4. \A i, j \in 1 .. n : q[i] = q[j] => i = j
  BY DEF Linked
<1>5. ASSUME NEW i \in 1 .. n + 1
      PROVE  /\ i < at => i \in 1 .. n /\ r[i] = q[i]
             /\ i = at => r[i] = t
             /\ i > at => i - 1 \in 1 .. n /\ r[i] = q[i - 1]
  BY <1>1, <1>2, <1>3
<1>6. ASSUME NEW i \in 1 .. n + 1, NEW j \in 1 .. n + 1, r[i] = r[j]
      PROVE  i = j
  <2> DEFINE Old(k) == IF k < at THEN k ELSE k - 1
  <2>1. ASSUME NEW k \in 1 .. n + 1, k # at
        PROVE  Old(k) \in 1 .. n /\ r[k] = q[Old(k)] /\ r[k] # t
    <3>1. CASE k < at
      BY <1>1, <1>5, <2>1, <3>1
    <3>2. CASE k > at
      <4>1. r[k] = q[k - 1] /\ k - 1 \in 1 .. n /\ ~(k < at)
        BY <1>3, <1>5, <3>2
      <4>2. QED
        BY <1>1, <4>1
    <3>3. QED
      BY <1>3, <2>1, <3>1, <3>2
  <2>2. CASE i = at \/ j = at
    BY <1>5, <1>6, <2>1, <2>2
  <2>3. CASE i # at /\ j # at
    <3> HIDE DEF Old
    <3>1. Old(i) = Old(j)
      BY <1>4, <1>6, <2>1, <2>3
    <3>2. QED
      BY <1>3, <2>3, <3>1 DEF Old
  <2>4. QED
    BY <2>2, <2>3
<1>7. ASSUME NEW i \in 1 .. n + 1
      PROVE  new[r[i]] = IF i = 1 THEN NONE ELSE r[i - 1]
  <2>0. i # 1 => i - 1 \in 1 .. n + 1
    BY <1>1
  <2>1. CASE i < at
    <3>1. r[i] = q[i] /\ i \in 1 .. n /\ q[i] \in Tasks \ {t}
      BY <1>1, <1>5, <2>1
    <3>2. at <= n => q[i] # q[at]
      BY <1>1, <1>3, <1>4, <2>1, <3>1
    <3>3. new[q[i]] = prev[q[i]]
      BY <3>1, <3>2
    <3>4. prev[q[i]] = IF i = 1 THEN NONE ELSE q[i - 1]
      BY <3>1 DEF Linked
    <3>5. i # 1 => r[i - 1] = q[i - 1]
      BY <1>3, <1>5, <2>0, <2>1
    <3>6. QED
      BY <3>1, <3>3, <3>4, <3>5
  <2>2. CASE i = at
    <3>1. prev[t] = NONE
      BY DEF Linked
    <3>2. i # 1 => r[i - 1] = q[i - 1]
      BY <1>3, <1>5, <2>0, <2>2
    <3>3. QED
      BY <1>5, <2>2, <3>1, <3>2
  <2>3. CASE i = at + 1
    <3>1. i > at /\ i - 1 = at /\ i # 1 /\ at <= n /\ at \in 1 .. n + 1
      BY <1>1, <1>3, <2>3
    <3>2. r[i] = q[at] /\ r[at] = t
      BY <1>5, <3>1
    <3>3. QED
      BY <3>1, <3>2
  <2>4. CASE i > at + 1
    <3>1. /\ i > at /\ i - 1 > at /\ i # 1 /\ i - 1 # 1 /\ (i - 1) - 1 \in 1 .. n
          /\ i - 1 # at
      BY <1>1, <1>3, <2>4
    <3>2. r[i] = q[i - 1] /\ i - 1 \in 1 .. n /\ r[i - 1] = q[(i - 1) - 1]
      BY <1>5, <2>0, <3>1
    <3>3. q[i - 1] \in Tasks \ {t} /\ (at <= n => q[i - 1] # q[at])
      BY <1>1, <1>3, <1>4, <3>1, <3>2
    <3>4. new[q[i - 1]] = prev[q[i - 1]]
      BY <3>3
    <3>5. prev[q[i - 1]] = q[(i - 1) - 1]
      BY <3>1, <3>2 DEF Linked
    <3>6. QED
      BY <3>1, <3>2, <3>4, <3>5
  <2>5. QED
    BY <1>3, <2>1, <2>2, <2>3, <2>4
<1>8. ASSUME NEW u PROVE In(r, u) <=> In(q, u) \/ u = t
  <2>1. In(r, u) => In(q, u) \/ u = t
    <3>1. ASSUME NEW i \in 1 .. n + 1 PROVE In(q, r[i]) \/ r[i] = t
      BY <1>3, <1>5 DEF In
    <3>2. QED
      BY <1>2, <3>1 DEF In
  <2>2. In(r, t)
    BY <1>2, <1>3, <1>5 DEF In
  <2>3. ASSUME NEW i \in 1 .. n PROVE In(r, q[i])
    <3>1. CASE i < at
      <4>1. i \in 1 .. n + 1
        BY <1>1
      <4>2. QED
        BY <1>2, <1>5, <3>1, <4>1 DEF In
    <3>2. CASE i >= at
      <4>1. PICK j \in 1 .. n + 1 : j > at /\ j - 1 = i
        <5>1. i + 1 \in 1 .. n + 1 /\ i + 1 > at /\ (i + 1) - 1 = i
          BY <1>1, <1>3, <3>2
        <5>2. QED
          BY <5>1
      <4>2. r[j] = q[i]
        BY <1>5, <4>1
      <4>3. QED
        BY <1>2, <4>2 DEF In
    <3>3. QED
      BY <1>3, <3>1, <3>2
  <2>4. QED
    BY <2>1, <2>2, <2>3 DEF In
<1>9. ASSUME NEW u \in Tasks, ~In(r, u) PROVE new[u] = NONE
  <2>1. ~In(q, u) /\ u # t
    BY <1>8, <1>9
  <2>2. at <= n => u # q[at]
    BY <1>1, <1>3, <2>1 DEF In
  <2>3. new[u] = prev[u]
    BY <2>1, <2>2
  <2>4. QED
    BY <2>1, <2>3 DEF Linked
<1>10. Linked(r, new)
  BY <1>2, <1>6, <1>7, <1>9 DEF Linked
<1>11. QED
  BY <1>8, <1>10 DEF r

\* A task is unlinked, and its successor is told.
Removed(r, q, at) ==
  /\ r \in Seq(Tasks) /\ Len(r) = Len(q) - 1
  /\ \A i \in 1 .. Len(q) - 1 : r[i] = IF i < at THEN q[i] ELSE q[i + 1]

LEMMA RemoveLinked ==
  ASSUME NEW q, NEW prev, Linked(q, prev), NEW at \in 1 .. Len(q),
         NEW r, Removed(r, q, at), NEW new \in [Tasks -> Tasks \cup {NONE}],
         new[q[at]] = NONE, at < Len(q) => new[q[at + 1]] = prev[q[at]],
         \A u \in Tasks \ {q[at]} : (at < Len(q) => u # q[at + 1]) => new[u] = prev[u]
  PROVE  /\ Linked(r, new) /\ (Sorted(q) => Sorted(r))
         /\ \A u : In(r, u) <=> In(q, u) /\ u # q[at]
<1> DEFINE n == Len(q)
           t == q[at]
           Old(k) == IF k < at THEN k ELSE k + 1
<1>1. q \in Seq(Tasks) /\ n \in Nat /\ \A i \in 1 .. n : q[i] \in Tasks
  BY LinkedFacts
<1>2. at \in Nat /\ at >= 1 /\ at <= n
  BY <1>1
<1>3. \A i, j \in 1 .. n : q[i] = q[j] => i = j
  BY DEF Linked
<1>4. ASSUME NEW i \in 1 .. n - 1
      PROVE  /\ i < at => Old(i) = i
             /\ i >= at => Old(i) = i + 1
             /\ Old(i) \in 1 .. n /\ Old(i) # at /\ r[i] = q[Old(i)]
  <2>1. r[i] = IF i < at THEN q[i] ELSE q[i + 1]
    BY DEF Removed
  <2>2. CASE i < at
    BY <1>1, <1>2, <2>1, <2>2
  <2>3. CASE i >= at
    <3>1. ~(i < at) /\ i + 1 \in 1 .. n /\ i + 1 # at
      BY <1>1, <1>2, <2>3
    <3>2. QED
      BY <2>1, <3>1
  <2>4. QED
    BY <1>2, <2>2, <2>3
<1>5. \A i, j \in 1 .. n - 1 : (Old(i) = Old(j) => i = j) /\ (i < j => Old(i) < Old(j))
  BY <1>1, <1>2
<1>6. ASSUME NEW k \in 1 .. n, k # at PROVE \E i \in 1 .. n - 1 : Old(i) = k
  <2>1. CASE k < at
    BY <1>1, <1>2, <2>1
  <2>2. CASE k > at
    <3>1. k - 1 \in 1 .. n - 1 /\ Old(k - 1) = k
      BY <1>1, <1>2, <2>2
    <3>2. QED
      BY <3>1
  <2>3. QED
    BY <1>2, <1>6, <2>1, <2>2
<1>7. Len(r) = n - 1 /\ r \in Seq(Tasks)
  BY DEF Removed
<1>8. ASSUME NEW i \in 1 .. n - 1
      PROVE  new[r[i]] = IF i = 1 THEN NONE ELSE r[i - 1]
  <2>1. CASE i < at
    <3>1. r[i] = q[i] /\ i \in 1 .. n /\ i # at /\ (at < n => i # at + 1 /\ at + 1 \in 1 .. n)
      BY <1>1, <1>2, <1>4, <2>1
    <3>2. q[i] \in Tasks \ {t} /\ (at < n => q[i] # q[at + 1])
      BY <1>1, <1>2, <1>3, <3>1
    <3>3. new[q[i]] = IF i = 1 THEN NONE ELSE q[i - 1]
      BY <3>1, <3>2 DEF Linked
    <3>4. i # 1 => i - 1 \in 1 .. n - 1 /\ i - 1 < at
      BY <1>1, <1>2, <2>1
    <3>5. i # 1 => r[i - 1] = q[i - 1]
      BY <1>4, <3>4
    <3>6. QED
      BY <3>1, <3>3, <3>5
  <2>2. CASE i = at
    <3>1. r[i] = q[at + 1] /\ at < n
      BY <1>1, <1>2, <1>4, <2>2
    <3>2. new[r[i]] = IF at = 1 THEN NONE ELSE q[at - 1]
      BY <3>1 DEF Linked
    <3>3. i # 1 => i - 1 \in 1 .. n - 1 /\ i - 1 < at
      BY <1>1, <1>2, <2>2
    <3>4. i # 1 => r[i - 1] = q[i - 1]
      BY <1>4, <3>3
    <3>5. QED
      BY <2>2, <3>2, <3>4
  <2>3. CASE i > at
    <3>0. /\ i >= at /\ i + 1 \in 1 .. n /\ i + 1 # at /\ i + 1 # at + 1 /\ i # 1
          /\ at < n /\ at + 1 \in 1 .. n /\ i - 1 \in 1 .. n - 1 /\ i - 1 >= at
          /\ i + 1 # 1 /\ (i + 1) - 1 = i /\ (i - 1) + 1 = i
      <4>1. n \in Nat /\ at \in 1 .. n /\ i \in 1 .. n - 1 /\ i > at
        BY <1>1, <1>2, <2>3
      <4>2. QED
        BY <4>1
    <3>1. r[i] = q[i + 1]
      BY <1>4, <3>0
    <3>2. q[i + 1] \in Tasks \ {t} /\ q[i + 1] # q[at + 1]
      BY <1>1, <1>2, <1>3, <3>0
    <3>3. new[q[i + 1]] = prev[q[i + 1]]
      BY <3>2
    <3>4. prev[q[i + 1]] = q[i]
      <4>1. \A k \in 1 .. n : k # 1 => prev[q[k]] = q[k - 1]
        BY DEF Linked
      <4>2. QED
        BY <3>0, <4>1
    <3>5. r[i - 1] = q[i]
      BY <1>4, <3>0
    <3>6. QED
      BY <3>0, <3>1, <3>3, <3>4, <3>5
  <2>4. QED
    BY <1>2, <2>1, <2>2, <2>3
<1>9. ASSUME NEW u PROVE In(r, u) <=> In(q, u) /\ u # t
  <2> HIDE DEF Old
  <2>1. ASSUME NEW i \in 1 .. n - 1 PROVE In(q, r[i]) /\ r[i] # t
    BY <1>2, <1>3, <1>4 DEF In
  <2>2. ASSUME NEW k \in 1 .. n, q[k] # t PROVE In(r, q[k])
    <3>1. PICK i \in 1 .. n - 1 : Old(i) = k
      BY <1>6, <2>2
    <3>2. QED
      BY <1>4, <1>7, <3>1 DEF In
  <2>3. QED
    BY <1>7, <2>1, <2>2 DEF In
<1>10. \A i, j \in 1 .. n - 1 : r[i] = r[j] => i = j
  <2> HIDE DEF Old
  <2>1. QED
    BY <1>3, <1>4, <1>5
<1>11. ASSUME NEW u \in Tasks, ~In(r, u) PROVE new[u] = NONE
  <2>1. CASE u = t
    BY <2>1
  <2>2. CASE u # t
    <3>1. ~In(q, u)
      BY <1>9, <1>11, <2>2
    <3>2. at < n => at + 1 \in 1 .. n
      BY <1>1, <1>2
    <3>3. at < n => u # q[at + 1]
      BY <3>1, <3>2 DEF In
    <3>4. QED
      BY <2>2, <3>1, <3>3 DEF Linked
  <2>3. QED
    BY <2>1, <2>2
<1>12. Linked(r, new)
  BY <1>7, <1>8, <1>10, <1>11 DEF Linked
<1>13. ASSUME Sorted(q), load.sort = "PRIO", NEW i \in 1 .. n - 1, NEW j \in 1 .. n - 1, i < j
       PROVE  load.prio[r[i]] <= load.prio[r[j]]
  <2> HIDE DEF Old
  <2>1. Old(i) \in 1 .. n /\ Old(j) \in 1 .. n /\ Old(i) < Old(j)
        /\ r[i] = q[Old(i)] /\ r[j] = q[Old(j)]
    BY <1>4, <1>5, <1>13
  <2>2. QED
    BY <1>13, <2>1 DEF Sorted
<1>14. QED
  BY <1>7, <1>9, <1>12, <1>13 DEF Sorted

LEMMA TailRemoved ==
  ASSUME NEW q \in Seq(Tasks), q # <<>>
  PROVE  /\ Removed(Tail(q), q, 1) /\ Head(q) = q[1] /\ 1 \in 1 .. Len(q)
         /\ Len(q) \in Nat /\ (Tail(q) = <<>> <=> ~(1 < Len(q)))
         /\ (1 < Len(q) => Head(Tail(q)) = q[1 + 1])
<1>1. Len(q) \in Nat \ {0}
  BY EmptySeq
<1>2. /\ Tail(q) \in Seq(Tasks) /\ Len(Tail(q)) = Len(q) - 1 /\ Head(q) = q[1]
      /\ \A i \in 1 .. Len(q) - 1 : Tail(q)[i] = q[i + 1]
  OBVIOUS
<1>3. Removed(Tail(q), q, 1)
  BY <1>1, <1>2 DEF Removed
<1> DEFINE r == Tail(q)
<1> HIDE DEF r
<1>4. r = <<>> <=> Len(r) = 0
  BY <1>2, EmptySeq DEF r
<1>5. r # <<>> => Head(r) = r[1]
  BY <1>2 DEF r
<1>6. 1 < Len(q) => r[1] = q[1 + 1]
  BY <1>1, <1>2 DEF r
<1>7. QED
  BY <1>1, <1>2, <1>3, <1>4, <1>5, <1>6 DEF r

LEMMA LoadFacts ==
  ASSUME load \in Loads
  PROVE  /\ load.kind \in {"MBOX", "QUEUE"} /\ load.sort \in {"FIFO", "PRIO"}
         /\ load.prio \in [Tasks -> Nat]
         /\ load.calls \in [Tasks -> SUBSET MailCalls] /\ load.isr \in BOOLEAN
BY LoadAssumption

LEMMA ListFacts ==
  ASSUME NEW e, ListOK(e)
  PROVE  /\ e \in EventBlocks /\ e.list \in Seq(Tasks)
         /\ e.prev \in [Tasks -> Tasks \cup {NONE}]
         /\ e.waits \in [Tasks -> BOOLEAN] /\ e.delay \in [Tasks -> BOOLEAN]
         /\ e.pmail \in [Tasks -> Mail] /\ e.wild = FALSE
         /\ e.cnt \in Nat /\ Linked(e.list, e.prev) /\ Sorted(e.list)
         /\ \A t \in Tasks :
              (e.waits[t] <=> In(e.list, t)) /\ (e.delay[t] => e.waits[t])
BY DEF ListOK, EventBlocks

\* The running task begins to wait, with or without time-out.
Joins(e, r, t, timed) ==
  /\ ListOK(r) /\ SameBox(e, r) /\ r.pmail = e.pmail /\ r.list # <<>>
  /\ r.waits = [e.waits EXCEPT ![t] = TRUE]
  /\ r.delay = [e.delay EXCEPT ![t] = timed]

LEMMA WaitJoins ==
  ASSUME load \in Loads, NEW e, ListOK(e), NEW t \in Tasks, ~e.waits[t],
         NEW timed \in BOOLEAN
  PROVE  Joins(e, [EventTaskToWait(e, t) EXCEPT !.delay[t] = timed], t, timed)
<1> DEFINE q == e.list
           n == Len(q)
           later == {i \in 1 .. n :
                       load.sort = "PRIO" /\ load.prio[t] < load.prio[q[i]]}
           at == IF later = {} THEN n + 1 ELSE Min(later)
           one == [e.prev EXCEPT ![t] = IF at = 1 THEN e.prev[t] ELSE q[at - 1]]
           new == IF later = {} THEN one ELSE [one EXCEPT ![q[at]] = t]
           ins == InsertAt(q, at, t)
           waits == [e.waits EXCEPT ![t] = TRUE]
           delay == [e.delay EXCEPT ![t] = timed]
           w == EventTaskToWait(e, t)
           r == [w EXCEPT !.delay[t] = timed]
<1>1. /\ e \in EventBlocks /\ q \in Seq(Tasks) /\ n \in Nat
      /\ e.prev \in [Tasks -> Tasks \cup {NONE}]
      /\ e.waits \in [Tasks -> BOOLEAN] /\ e.delay \in [Tasks -> BOOLEAN]
      /\ Linked(q, e.prev) /\ Sorted(q) /\ e.wild = FALSE
      /\ \A i \in 1 .. n : q[i] \in Tasks
      /\ \A u \in Tasks :
           (e.waits[u] <=> In(q, u)) /\ (e.delay[u] => e.waits[u])
  BY ListFacts, LinkedFacts
<1>2. \A u \in Tasks : load.prio[u] \in Nat
  BY LoadFacts
<1>3. w = [e EXCEPT !.list = ins, !.prev = new, !.waits[t] = TRUE]
  BY <1>1 DEF EventTaskToWait, EventBlocks
<1>4. /\ at \in 1 .. n + 1 /\ (later = {} => at = n + 1) /\ (later # {} => at <= n)
      /\ load.sort = "PRIO" =>
           /\ \A i \in 1 .. n : i < at => ~(load.prio[t] < load.prio[q[i]])
           /\ at <= n => load.prio[t] < load.prio[q[at]]
  <2>1. CASE later = {}
    <3>1. at = n + 1 /\ at \in 1 .. n + 1 /\ ~(at <= n)
      BY <1>1, <2>1
    <3>2. load.sort = "PRIO" =>
            \A i \in 1 .. n : ~(load.prio[t] < load.prio[q[i]])
      BY <2>1
    <3> HIDE DEF at, later
    <3>3. QED
      BY <2>1, <3>1, <3>2
  <2>2. CASE later # {}
    <3>1. at = Min(later) /\ later \in SUBSET Nat /\ later \subseteq 1 .. n
      BY <2>2
    <3>2. \A i \in 1 .. n : i \in later <=>
            load.sort = "PRIO" /\ load.prio[t] < load.prio[q[i]]
      OBVIOUS
    <3> HIDE DEF at, later
    <3>3. at \in later /\ \A i \in later : at <= i
      BY <2>2, <3>1, MinNat
    <3>4. at \in 1 .. n
      BY <3>1, <3>3
    <3>5. \A i \in 1 .. n : i < at => i \notin later
      BY <3>3, <3>4
    <3>6. QED
      BY <1>1, <2>2, <3>2, <3>3, <3>4, <3>5
  <2>3. QED
    BY <2>1, <2>2
<1> HIDE DEF at, later
<1>5. ~In(q, t) /\ \A i \in 1 .. n : q[i] # t
  BY <1>1 DEF In
<1>6. at <= n => at \in 1 .. n
  BY <1>1, <1>4
<1>7. at # 1 => at - 1 \in 1 .. n
  BY <1>1, <1>4
<1>8. /\ one \in [Tasks -> Tasks \cup {NONE}]
      /\ one[t] = IF at = 1 THEN e.prev[t] ELSE q[at - 1]
      /\ \A u \in Tasks \ {t} : one[u] = e.prev[u]
  BY <1>1, <1>7
<1> HIDE DEF one
<1>9. /\ new \in [Tasks -> Tasks \cup {NONE}]
      /\ new[t] = IF at = 1 THEN e.prev[t] ELSE q[at - 1]
      /\ at <= n => new[q[at]] = t
      /\ \A u \in Tasks \ {t} : (at <= n => u # q[at]) => new[u] = e.prev[u]
  <2>1. CASE later = {}
    BY <1>1, <1>4, <1>8, <2>1
  <2>2. CASE later # {}
    <3>1. at <= n /\ q[at] \in Tasks /\ q[at] # t
      BY <1>1, <1>4, <1>5, <1>6, <2>2
    <3>2. new = [one EXCEPT ![q[at]] = t]
      BY <2>2
    <3>3. QED
      BY <1>8, <3>1, <3>2
  <2>3. QED
    BY <2>1, <2>2
<1> HIDE DEF new
<1>10. Linked(ins, new) /\ \A u : In(ins, u) <=> In(q, u) \/ u = t
  BY <1>1, <1>4, <1>5, <1>9, InsertLinked
<1>11. /\ ins \in Seq(Tasks) /\ Len(ins) = n + 1
       /\ \A i \in 1 .. n + 1 : ins[i] = IF i < at THEN q[i]
                                         ELSE IF i = at THEN t ELSE q[i - 1]
  <2> HIDE DEF q
  <2>1. q \in Seq(Tasks) /\ at \in 1 .. Len(q) + 1
    BY <1>1, <1>4
  <2>2. Inserted(InsertAt(q, at, t), q, at, t)
    <3> HIDE DEF n, ins, at
    <3>1. QED
      BY <2>1, InsertFacts
  <2>3. Inserted(ins, q, at, t)
    BY <2>2
  <2> HIDE DEF ins, at
  <2>4. QED
    BY <2>3 DEF Inserted, PutBefore
<1> HIDE DEF ins
<1>12. Sorted(ins)
  <2> SUFFICES ASSUME load.sort = "PRIO", NEW i \in 1 .. n + 1,
                      NEW j \in 1 .. n + 1, i < j
               PROVE  load.prio[ins[i]] <= load.prio[ins[j]]
    BY <1>11 DEF Sorted
  <2>1. \A k, l \in 1 .. n : k <= l => load.prio[q[k]] <= load.prio[q[l]]
    <3>1. \A k, l \in 1 .. n : k < l => load.prio[q[k]] <= load.prio[q[l]]
      BY <1>1 DEF Sorted
    <3>2. \A k \in 1 .. n : load.prio[q[k]] <= load.prio[q[k]]
      BY <1>1, <1>2
    <3>3. \A k, l \in 1 .. n : k <= l => k < l \/ k = l
      BY <1>1
    <3>4. QED
      BY <3>1, <3>2, <3>3
  <2>2. ASSUME NEW k \in 1 .. n, k < at PROVE load.prio[q[k]] <= load.prio[t]
    BY <1>1, <1>2, <1>4, <2>2
  <2>3. ASSUME NEW k \in 1 .. n, k >= at PROVE load.prio[t] <= load.prio[q[k]]
    <3>1. at \in 1 .. n /\ at <= k /\ at <= n
      BY <1>1, <1>4, <2>3
    <3>2. load.prio[t] < load.prio[q[at]] /\ load.prio[q[at]] <= load.prio[q[k]]
      BY <1>4, <2>1, <3>1
    <3>3. QED
      BY <1>1, <1>2, <3>1, <3>2
  <2>4. CASE j < at
    <3>1. i < at /\ i \in 1 .. n /\ j \in 1 .. n /\ i <= j
      BY <1>1, <1>4, <2>4
    <3>2. ins[i] = q[i] /\ ins[j] = q[j]
      BY <1>11, <2>4, <3>1
    <3>3. QED
      BY <2>1, <3>1, <3>2
  <2>5. CASE j = at
    <3>1. i < at /\ i \in 1 .. n /\ ~(j < at)
      BY <1>1, <1>4, <2>5
    <3>2. ins[i] = q[i] /\ ins[j] = t
      BY <1>11, <2>5, <3>1
    <3>3. QED
      BY <2>2, <3>1, <3>2
  <2>6. CASE j > at
    <3>1. PICK l \in 1 .. n : j - 1 = l /\ l >= at
      BY <1>1, <1>4, <2>6
    <3>2. ins[j] = q[l]
      BY <1>4, <1>11, <2>6, <3>1
    <3>3. CASE i < at
      <4>1. i \in 1 .. n /\ i <= l
        BY <1>1, <1>4, <3>1, <3>3
      <4>2. ins[i] = q[i]
        BY <1>11, <3>3
      <4>3. QED
        BY <2>1, <3>2, <4>1, <4>2
    <3>4. CASE i = at
      <4>1. ins[i] = t
        BY <1>4, <1>11, <3>4
      <4>2. QED
        BY <2>3, <3>1, <3>2, <4>1
    <3>5. CASE i > at
      <4>1. PICK k \in 1 .. n : i - 1 = k /\ k <= l
        BY <1>1, <1>4, <3>1, <3>5
      <4>2. ins[i] = q[k]
        <5>1. ~(i < at) /\ i # at
          BY <1>4, <3>5
        <5>2. QED
          BY <1>11, <4>1, <5>1
      <4>3. QED
        BY <2>1, <3>2, <4>1, <4>2
    <3>6. QED
      BY <1>4, <3>3, <3>4, <3>5
  <2>7. QED
    BY <1>4, <2>4, <2>5, <2>6
<1>13. /\ waits \in [Tasks -> BOOLEAN] /\ delay \in [Tasks -> BOOLEAN]
       /\ waits[t] = TRUE /\ delay[t] = timed
       /\ \A u \in Tasks \ {t} : waits[u] = e.waits[u] /\ delay[u] = e.delay[u]
  BY <1>1
<1>14. w = [e EXCEPT !.list = ins, !.prev = new, !.waits = waits]
  BY <1>1, <1>3 DEF EventBlocks
<1> HIDE DEF w
<1>15. r = [e EXCEPT !.list = ins, !.prev = new, !.waits = waits, !.delay = delay]
  BY <1>1, <1>14 DEF EventBlocks
<1>16. r = [EventTaskToWait(e, t) EXCEPT !.delay[t] = timed]
  BY DEF w
<1> HIDE DEF r
<1>17. SameBox(e, r) /\ r.pmail = e.pmail /\ r.waits = waits /\ r.delay = delay
       /\ r.list = ins /\ r.prev = new /\ r.wild = e.wild
  <2> HIDE DEF waits, delay
  <2>1. QED
    BY <1>1, <1>15 DEF EventBlocks, SameBox
<1>18. r \in EventBlocks
  <2> HIDE DEF waits, delay
  <2>1. QED
    BY <1>1, <1>9, <1>11, <1>13, <1>15 DEF EventBlocks
<1>19. ins # <<>>
  BY <1>1, <1>11, EmptySeq
<1>20. ASSUME NEW u \in Tasks
       PROVE  (waits[u] <=> In(ins, u)) /\ (delay[u] => waits[u])
  <2> HIDE DEF waits, delay
  <2>1. QED
    BY <1>1, <1>10, <1>13
<1>21. ListOK(r)
  <2> HIDE DEF waits, delay
  <2>1. QED
    BY <1>1, <1>10, <1>12, <1>17, <1>18, <1>20 DEF ListOK
<1>22. QED
  BY <1>16, <1>17, <1>19, <1>21 DEF Joins

\* The first waiter is handed the oldest message.
Hands(e, r, t) ==
  /\ ListOK(r) /\ SameBox(Drop(e), r) /\ t \in Tasks /\ e.waits[t]
  /\ r.pmail = [e.pmail EXCEPT ![t] = Oldest(e)]
  /\ r.waits = [e.waits EXCEPT ![t] = FALSE]
  /\ r.delay = [e.delay EXCEPT ![t] = FALSE]

LEMMA RdyHands ==
  ASSUME NEW e, BoxOK(e), ListOK(e), e.cnt # 0, e.list # <<>>
  PROVE  Hands(e, EventTaskToRdy(e), Head(e.list))
<1> DEFINE q == e.list
           t == Head(q)
           d == Drop(e)
           rest == Tail(q)
           new == IF rest = <<>> THEN e.prev ELSE [e.prev EXCEPT ![Head(rest)] = NONE]
           mail == [e.pmail EXCEPT ![t] = Oldest(e)]
           waits == [e.waits EXCEPT ![t] = FALSE]
           delay == [e.delay EXCEPT ![t] = FALSE]
           r == EventTaskToRdy(e)
<1>1. /\ e \in EventBlocks /\ q \in Seq(Tasks)
      /\ e.prev \in [Tasks -> Tasks \cup {NONE}] /\ e.pmail \in [Tasks -> Mail]
      /\ e.waits \in [Tasks -> BOOLEAN] /\ e.delay \in [Tasks -> BOOLEAN]
      /\ Linked(q, e.prev) /\ Sorted(q) /\ e.wild = FALSE
      /\ \A i \in 1 .. Len(q) : q[i] \in Tasks
      /\ \A u \in Tasks :
           (e.waits[u] <=> In(q, u)) /\ (e.delay[u] => e.waits[u])
  BY ListFacts, LinkedFacts
<1>2. d \in EventBlocks /\ SameList(e, d) /\ Oldest(e) \in Mail
  BY DropBox, BoxLen, SizeFacts
<1>3. /\ Removed(rest, q, 1) /\ t = q[1] /\ 1 \in 1 .. Len(q)
      /\ Len(q) \in Nat /\ (rest = <<>> <=> ~(1 < Len(q)))
      /\ (1 < Len(q) => Head(rest) = q[1 + 1] /\ 1 + 1 \in 1 .. Len(q))
  <2>1. QED
    BY <1>1, TailRemoved
<1>4. t \in Tasks /\ In(q, t) /\ e.waits[t]
  BY <1>1, <1>3 DEF In
<1>5. r = [d EXCEPT !.list = rest, !.pmail[t] = Oldest(e), !.delay[t] = FALSE,
                    !.waits[t] = FALSE,
                    !.prev = IF rest = <<>> THEN @
                             ELSE [e.prev EXCEPT ![Head(rest)] = NONE],
                    !.wild = @ \/ ~e.waits[t]]
  BY DEF EventTaskToRdy
<1> HIDE DEF d
<1>6. r = [d EXCEPT !.list = rest, !.pmail = mail, !.delay = delay,
                    !.waits = waits, !.prev = new, !.wild = FALSE]
  <2>1. /\ [d.pmail EXCEPT ![t] = Oldest(e)] = mail
        /\ [d.delay EXCEPT ![t] = FALSE] = delay
        /\ [d.waits EXCEPT ![t] = FALSE] = waits
        /\ (d.wild \/ ~e.waits[t]) = FALSE
        /\ (IF rest = <<>> THEN d.prev ELSE [e.prev EXCEPT ![Head(rest)] = NONE]) = new
    BY <1>1, <1>2, <1>4 DEF SameList
  <2> HIDE DEF mail, delay, waits, new, rest, t, r
  <2>2. r = [d EXCEPT !.list = rest, !.pmail = [d.pmail EXCEPT ![t] = Oldest(e)],
                      !.delay = [d.delay EXCEPT ![t] = FALSE],
                      !.waits = [d.waits EXCEPT ![t] = FALSE],
                      !.prev = IF rest = <<>> THEN d.prev
                               ELSE [e.prev EXCEPT ![Head(rest)] = NONE],
                      !.wild = d.wild \/ ~e.waits[t]]
    BY <1>2, <1>5 DEF EventBlocks
  <2>3. QED
    BY <2>1, <2>2
<1>7. /\ mail \in [Tasks -> Mail] /\ delay \in [Tasks -> BOOLEAN]
      /\ waits \in [Tasks -> BOOLEAN] /\ waits[t] = FALSE /\ delay[t] = FALSE
      /\ \A u \in Tasks \ {t} : waits[u] = e.waits[u] /\ delay[u] = e.delay[u]
  <2> HIDE DEF t
  <2>1. QED
    BY <1>1, <1>2, <1>4
<1>8. \A i, j \in 1 .. Len(q) : q[i] = q[j] => i = j
  BY <1>1 DEF Linked
<1>9. e.prev[q[1]] = NONE
  BY <1>1, <1>3 DEF Linked
<1>10. /\ new \in [Tasks -> Tasks \cup {NONE}]
       /\ new[q[1]] = NONE /\ (1 < Len(q) => new[q[1 + 1]] = e.prev[q[1]])
       /\ \A u \in Tasks \ {q[1]} : (1 < Len(q) => u # q[1 + 1]) => new[u] = e.prev[u]
  <2>1. CASE rest = <<>>
    BY <1>1, <1>3, <1>9, <2>1
  <2>2. CASE rest # <<>>
    <3>1. new = [e.prev EXCEPT ![q[1 + 1]] = NONE] /\ 1 < Len(q)
      BY <1>3, <2>2
    <3>2. q[1 + 1] \in Tasks /\ q[1] \in Tasks
      BY <1>1, <1>3, <3>1
    <3> HIDE DEF new, q
    <3>3. QED
      BY <1>1, <1>9, <3>1, <3>2
  <2>3. QED
    BY <2>1, <2>2
<1> HIDE DEF new, rest, mail, waits, delay, r, q
<1>11. /\ Linked(rest, new) /\ Sorted(rest)
       /\ \A u : In(rest, u) <=> In(q, u) /\ u # q[1]
  BY <1>1, <1>3, <1>10, RemoveLinked
<1>12. rest \in Seq(Tasks)
  BY <1>11, LinkedFacts
<1>13. r \in EventBlocks
  BY <1>2, <1>6, <1>7, <1>10, <1>12 DEF EventBlocks
<1>14. /\ SameBox(d, r) /\ r.pmail = mail /\ r.waits = waits /\ r.delay = delay
       /\ r.list = rest /\ r.prev = new /\ r.wild = FALSE
  BY <1>2, <1>6 DEF EventBlocks, SameBox
<1>15. \A u \in Tasks : (waits[u] <=> In(rest, u)) /\ (delay[u] => waits[u])
  BY <1>1, <1>3, <1>7, <1>11
<1>16. ListOK(r)
  BY <1>11, <1>13, <1>14, <1>15 DEF ListOK
<1>17. QED
  BY <1>4, <1>14, <1>16 DEF Hands, d, mail, waits, delay, r, q

\* A task whose time-out is over leaves the list.
Leaves(e, r, t) ==
  /\ ListOK(r) /\ SameBox(e, r) /\ r.pmail = e.pmail /\ e.list # <<>>
  /\ r.waits = [e.waits EXCEPT ![t] = FALSE]
  /\ r.delay = [e.delay EXCEPT ![t] = FALSE]

Unlinks(e, t, q, new, at) ==
  /\ RemoveEventWaittingList(e, t) = [e EXCEPT !.list = q, !.prev = new]
  /\ at \in 1 .. Len(e.list) /\ e.list[at] = t /\ Removed(q, e.list, at)
  /\ new \in [Tasks -> Tasks \cup {NONE}] /\ new[t] = NONE
  /\ at < Len(e.list) => new[e.list[at + 1]] = e.prev[t]
  /\ \A u \in Tasks \ {t} :
       (at < Len(e.list) => u # e.list[at + 1]) => new[u] = e.prev[u]

LEMMA UnlinkFacts ==
  ASSUME NEW e, ListOK(e), NEW t \in Tasks, e.waits[t]
  PROVE  \E q, new, at : Unlinks(e, t, q, new, at)
<1> DEFINE s == e.list
           m == Len(s)
           i == CHOOSE j \in 1 .. m : s[j] = t
           p == e.prev[t]
           n == IF i = m THEN NONE ELSE s[i + 1]
           prev == IF n = NONE THEN e.prev ELSE [e.prev EXCEPT ![n] = p]
           gone == [prev EXCEPT ![t] = NONE]
           linked == i > 1 /\ s[i - 1] = p
           R == RemoveEventWaittingList(e, t)
<1>1. /\ e \in EventBlocks /\ s \in Seq(Tasks) /\ m \in Nat
      /\ e.prev \in [Tasks -> Tasks \cup {NONE}] /\ In(s, t) /\ Linked(s, e.prev)
      /\ \A j \in 1 .. m : s[j] \in Tasks
      /\ \A j, k \in 1 .. m : s[j] = s[k] => j = k
  BY ListFacts, LinkedFacts DEF Linked
<1>2. i \in 1 .. m /\ s[i] = t
  BY <1>1 DEF In
<1>3. R = IF p = NONE /\ n = NONE THEN [e EXCEPT !.list = <<>>]
          ELSE IF p = NONE
          THEN [e EXCEPT !.list = SubSeq(s, i + 1, m), !.prev = prev]
          ELSE [e EXCEPT !.list = IF linked THEN RemoveAt(s, i) ELSE SubSeq(s, 1, i),
                         !.prev = gone]
  BY <1>1 DEF RemoveEventWaittingList, EventBlocks
<1> HIDE DEF i, R
<1>4. p = IF i = 1 THEN NONE ELSE s[i - 1]
  BY <1>1, <1>2 DEF Linked
<1>5. (p = NONE <=> i = 1) /\ (i # 1 => i > 1 /\ p \in Tasks)
  <2>1. i # 1 => i - 1 \in 1 .. m /\ i > 1
    BY <1>1, <1>2
  <2>2. QED
    BY <1>1, <1>4, <2>1, SizeFacts
<1>6. (n = NONE <=> ~(i < m)) /\ (i < m => i + 1 \in 1 .. m /\ n = s[i + 1] /\ n # t /\ n \in Tasks)
  <2>1. i # m => i + 1 \in 1 .. m /\ i + 1 # i /\ i < m
    BY <1>1, <1>2
  <2>2. i # m => s[i + 1] \in Tasks /\ s[i + 1] # t
    BY <1>1, <1>2, <2>1
  <2>3. i = m => ~(i < m)
    BY <1>1, <1>2
  <2>4. QED
    BY <2>1, <2>2, <2>3, SizeFacts
<1>7. p \in Tasks \cup {NONE}
  BY <1>5
<1> HIDE DEF p, n, s, m
<1>8. /\ prev \in [Tasks -> Tasks \cup {NONE}] /\ prev[t] = e.prev[t]
      /\ i < m => prev[s[i + 1]] = p
      /\ \A u \in Tasks \ {t} : (i < m => u # s[i + 1]) => prev[u] = e.prev[u]
  <2>1. CASE n = NONE
    BY <1>1, <1>6, <2>1
  <2>2. CASE n # NONE
    <3>1. prev = [e.prev EXCEPT ![s[i + 1]] = p] /\ i < m
      BY <1>6, <2>2
    <3>2. s[i + 1] \in Tasks /\ s[i + 1] # t
      BY <1>6, <3>1
    <3> HIDE DEF prev
    <3>3. QED
      BY <1>1, <1>7, <3>1, <3>2
  <2>3. QED
    BY <2>1, <2>2
<1>9. /\ gone \in [Tasks -> Tasks \cup {NONE}] /\ gone[t] = NONE
      /\ \A u \in Tasks \ {t} : gone[u] = prev[u]
  <2> HIDE DEF prev
  <2>1. QED
    BY <1>8
<1>10. i \in Nat /\ i >= 1 /\ i <= m
  BY <1>1, <1>2
<1>11. CASE p = NONE /\ n = NONE
  <2>1. R = [e EXCEPT !.list = <<>>, !.prev = e.prev]
    BY <1>1, <1>3, <1>11 DEF EventBlocks
  <2>2. m = 1 /\ i = 1
    BY <1>1, <1>5, <1>6, <1>10, <1>11
  <2>3. Removed(<<>>, s, i)
    BY <2>2, EmptySeq DEF Removed, m
  <2>4. Unlinks(e, t, <<>>, e.prev, i)
    BY <1>1, <1>2, <1>6, <1>11, <2>1, <2>2, <2>3, <1>5 DEF Unlinks, R, s, m, p
  <2>5. QED
    BY <2>4
<1>12. CASE p = NONE /\ n # NONE
  <2> DEFINE q == SubSeq(s, i + 1, m)
  <2>1. R = [e EXCEPT !.list = q, !.prev = prev]
    BY <1>3, <1>12
  <2>2. i = 1 /\ 1 < m
    BY <1>5, <1>6, <1>12
  <2>3. Removed(q, s, i)
    <3>1. \A j \in i + 1 .. m : s[j] \in Tasks
      BY <1>1, <1>10
    <3>2. /\ q \in Seq(Tasks) /\ Len(q) = IF i + 1 <= m THEN m - (i + 1) + 1 ELSE 0
          /\ \A j \in 1 .. m - (i + 1) + 1 : q[j] = s[i + 1 + j - 1]
      BY <1>1, <1>10, <3>1, SubSeqProperties
    <3> HIDE DEF q
    <3>3. Len(q) = m - 1
      BY <1>1, <2>2, <3>2
    <3>4. ASSUME NEW j \in 1 .. m - 1 PROVE q[j] = IF j < i THEN s[j] ELSE s[j + 1]
      <4>1. j \in 1 .. m - (i + 1) + 1 /\ ~(j < i) /\ i + 1 + j - 1 = j + 1
        BY <1>1, <2>2
      <4>2. QED
        BY <3>2, <4>1
    <3>5. QED
      BY <3>2, <3>3, <3>4 DEF Removed, m
  <2> HIDE DEF q, prev
  <2>4. Unlinks(e, t, q, prev, i)
    BY <1>2, <1>8, <1>12, <2>1, <2>3 DEF Unlinks, R, s, m, p
  <2>5. QED
    BY <2>4
<1>13. CASE p # NONE
  <2> DEFINE q == RemoveAt(s, i)
  <2>1. linked
    BY <1>4, <1>5, <1>13
  <2>2. R = [e EXCEPT !.list = q, !.prev = gone]
    BY <1>3, <1>13, <2>1
  <2>3. Removed(q, s, i)
    BY <1>1, <1>2, RemoveAtFacts DEF Removed, m
  <2>4. i < m => gone[s[i + 1]] = p
    BY <1>6, <1>8, <1>9
  <2>5. \A u \in Tasks \ {t} : (i < m => u # s[i + 1]) => gone[u] = e.prev[u]
    BY <1>8, <1>9
  <2> HIDE DEF q, prev, gone
  <2>6. Unlinks(e, t, q, gone, i)
    BY <1>2, <1>9, <2>2, <2>3, <2>4, <2>5 DEF Unlinks, R, s, m, p
  <2>7. QED
    BY <2>6
<1>14. QED
  BY <1>11, <1>12, <1>13

LEMMA DisposeLeaves ==
  ASSUME NEW e, ListOK(e), NEW t \in Tasks, e.waits[t]
  PROVE  Leaves(e, TimeDispose(e, t), t)
<1>1. PICK q, new, at : Unlinks(e, t, q, new, at)
  BY UnlinkFacts
<1> DEFINE waits == [e.waits EXCEPT ![t] = FALSE]
           delay == [e.delay EXCEPT ![t] = FALSE]
           r == TimeDispose(e, t)
           s == e.list
<1>2. /\ e \in EventBlocks /\ s \in Seq(Tasks)
      /\ e.waits \in [Tasks -> BOOLEAN] /\ e.delay \in [Tasks -> BOOLEAN]
      /\ Linked(s, e.prev) /\ Sorted(s) /\ e.wild = FALSE
      /\ \A u \in Tasks :
           (e.waits[u] <=> In(s, u)) /\ (e.delay[u] => e.waits[u])
  BY ListFacts
<1>3. /\ at \in 1 .. Len(s) /\ s[at] = t /\ Removed(q, s, at)
      /\ new \in [Tasks -> Tasks \cup {NONE}] /\ new[s[at]] = NONE
      /\ at < Len(s) => new[s[at + 1]] = e.prev[s[at]]
      /\ \A u \in Tasks \ {s[at]} :
           (at < Len(s) => u # s[at + 1]) => new[u] = e.prev[u]
  BY <1>1 DEF Unlinks
<1>4. r = [[e EXCEPT !.list = q, !.prev = new] EXCEPT !.delay[t] = FALSE,
                                                      !.waits[t] = FALSE]
  BY <1>1 DEF Unlinks, TimeDispose
<1>5. r = [e EXCEPT !.list = q, !.prev = new, !.delay = delay, !.waits = waits]
  BY <1>2, <1>4 DEF EventBlocks
<1>6. /\ delay \in [Tasks -> BOOLEAN] /\ waits \in [Tasks -> BOOLEAN]
      /\ waits[t] = FALSE /\ delay[t] = FALSE
      /\ \A u \in Tasks \ {t} : waits[u] = e.waits[u] /\ delay[u] = e.delay[u]
  BY <1>2
<1> HIDE DEF waits, delay, r, s
<1>7. /\ Linked(q, new) /\ Sorted(q)
      /\ \A u : In(q, u) <=> In(s, u) /\ u # t
  BY <1>2, <1>3, RemoveLinked
<1>8. q \in Seq(Tasks)
  BY <1>7, LinkedFacts
<1>9. r \in EventBlocks
  BY <1>2, <1>3, <1>5, <1>6, <1>8 DEF EventBlocks
<1>10. /\ SameBox(e, r) /\ r.pmail = e.pmail /\ r.waits = waits /\ r.delay = delay
       /\ r.list = q /\ r.prev = new /\ r.wild = e.wild
  BY <1>2, <1>5 DEF EventBlocks, SameBox
<1>11. \A u \in Tasks : (waits[u] <=> In(q, u)) /\ (delay[u] => waits[u])
  BY <1>2, <1>6, <1>7
<1>12. ListOK(r)
  BY <1>2, <1>7, <1>9, <1>10, <1>11 DEF ListOK
<1>13. s # <<>>
  BY <1>2, <1>3, EmptySeq
<1>14. QED
  BY <1>10, <1>12, <1>13 DEF Leaves, waits, delay, r, s

\* A deletion wakes the only waiter.
LEMMA DrainedList ==
  ASSUME NEW e, ListOK(e), Len(e.list) <= 1
  PROVE  /\ ListOK(Drained(e)) /\ SameBox(e, Drained(e))
         /\ Drained(e).pmail = e.pmail /\ Drained(e).list = <<>>
         /\ \A t \in Tasks : ~Drained(e).waits[t] /\ ~Drained(e).delay[t]
<1> DEFINE off == [t \in Tasks |-> FALSE]
           r == Drained(e)
           s == e.list
<1>1. /\ e \in EventBlocks /\ s \in Seq(Tasks) /\ Len(s) \in Nat
      /\ e.waits \in [Tasks -> BOOLEAN] /\ e.delay \in [Tasks -> BOOLEAN]
      /\ e.prev \in [Tasks -> Tasks \cup {NONE}]
      /\ Linked(s, e.prev) /\ e.wild = FALSE
      /\ \A u \in Tasks :
           (e.waits[u] <=> In(s, u)) /\ (e.delay[u] => e.waits[u])
  BY ListFacts, LinkedFacts
<1>2. \A u : u \in ToSet(s) <=> In(s, u)
  BY <1>1 DEF ToSet, In
<1>3. /\ [t \in Tasks |-> e.waits[t] /\ t \notin ToSet(s)] = off
      /\ [t \in Tasks |-> e.delay[t] /\ t \notin ToSet(s)] = off
  BY <1>1, <1>2
<1>4. r = [e EXCEPT !.list = <<>>,
                    !.waits = [t \in Tasks |-> e.waits[t] /\ t \notin ToSet(s)],
                    !.delay = [t \in Tasks |-> e.delay[t] /\ t \notin ToSet(s)]]
  BY <1>1 DEF Drained, EventBlocks
<1>5. r = [e EXCEPT !.list = <<>>, !.waits = off, !.delay = off]
  BY <1>3, <1>4
<1>6. off \in [Tasks -> BOOLEAN] /\ \A t \in Tasks : off[t] = FALSE
  OBVIOUS
<1> HIDE DEF off, r
<1>7. r \in EventBlocks
  BY <1>1, <1>5, <1>6, EmptySeq DEF EventBlocks
<1>8. /\ SameBox(e, r) /\ r.pmail = e.pmail /\ r.waits = off /\ r.delay = off
      /\ r.list = <<>> /\ r.prev = e.prev /\ r.wild = e.wild
  BY <1>1, <1>5 DEF EventBlocks, SameBox
<1>9. \A t \in Tasks : e.prev[t] = NONE
  <2>1. \A i \in 1 .. Len(s) : i = 1
    BY <1>1
  <2>2. \A i \in 1 .. Len(s) : e.prev[s[i]] = NONE
    BY <1>1, <2>1 DEF Linked
  <2>3. QED
    BY <1>1, <2>2 DEF Linked, In
<1>10. Linked(<<>>, e.prev) /\ Sorted(<<>>) /\ \A t : ~In(<<>>, t)
  BY <1>1, <1>9, EmptySeq DEF Linked, Sorted, In
<1>11. ListOK(r)
  BY <1>1, <1>6, <1>7, <1>8, <1>10 DEF ListOK
<1>12. QED
  BY <1>6, <1>8, <1>11 DEF r

-----------------------------------------------------------------------------
(* The calls.                                                              *)

LEMMA CallFacts ==
  ASSUME NEW c \in MailCalls
  PROVE  /\ c.op \in {"Create", "Post", "Accept", "Pend", "Del"}
         /\ c.op \in Labels /\ OpOf(c.op) = c.op
         /\ c.op = "Pend" => c.timed \in BOOLEAN
         /\ c.op = "Del" => c.opt \in {"NO_PEND", "ANYWAY"}
<1> DEFINE A == [op : {"Create", "Post", "Accept"}]
           B == [op : {"Pend"}, timed : BOOLEAN]
           C == [op : {"Del"}, opt : {"NO_PEND", "ANYWAY"}]
<1>1. MailCalls = UNION {A, B, C}
  BY DEF MailCalls
<1>2. CASE c \in A
  BY <1>2 DEF Labels, OpOf
<1>3. CASE c \in B
  BY <1>3 DEF Labels, OpOf
<1>4. CASE c \in C
  BY <1>4 DEF Labels, OpOf
<1>5. QED
  <2> HIDE DEF A, B, C
  <2>1. QED
    BY <1>1, <1>2, <1>3, <1>4

\* A task goes from one control point to another.
LEMMA MoveCallers ==
  ASSUME NEW e, NEW p \in [Tasks -> Labels],
         NEW c \in [Tasks -> MailCalls \cup {NoCall}], Callers(e, p, c),
         NEW t \in Tasks, NEW l \in Labels, NEW d, d.op = OpOf(l),
         l # "user" => d \in load.calls[t],
         ~e.waits[t], ~e.delay[t], e.pmail[t] = NONE, l = "posting" => ~Full(e),
         l \in {"Del", "release"} => \A u \in Tasks \ {t} : p[u] \in {"user", "blocked"},
         l = "release" => e.list = <<>>,
         e.type = "INVALID" => l \in {"user", "Create", "blocked"},
         l \in {"user", "blocked"}
           \/ \A u \in Tasks \ {t} : p[u] \notin {"Del", "release"}
  PROVE  Callers(e, [p EXCEPT ![t] = l], [c EXCEPT ![t] = d])
<1> DEFINE q == [p EXCEPT ![t] = l]
           f == [c EXCEPT ![t] = d]
<1>1. /\ q[t] = l /\ f[t] = d
      /\ \A u \in Tasks \ {t} : q[u] = p[u] /\ f[u] = c[u]
  OBVIOUS
<1> HIDE DEF q, f
<1>2. e.type = "INVALID" => e.list = <<>>
  BY DEF Callers
<1>3. ASSUME NEW u \in Tasks
      PROVE  /\ f[u].op = OpOf(q[u]) /\ (q[u] # "user" => f[u] \in load.calls[u])
             /\ e.waits[u] => q[u] = "blocked" /\ e.pmail[u] = NONE
             /\ e.pmail[u] # NONE => q[u] = "blocked"
             /\ e.delay[u] => f[u].timed
             /\ q[u] = "posting" => ~Full(e)
             /\ q[u] = "release" => e.list = <<>>
             /\ e.type = "INVALID" => q[u] \in {"user", "Create", "blocked"}
  <2>1. CASE u = t
    BY <1>1, <2>1
  <2>2. CASE u # t
    BY <1>1, <2>2 DEF Callers
  <2>3. QED
    BY <2>1, <2>2
<1>4. ASSUME NEW u \in Tasks, q[u] \in {"Del", "release"}, NEW v \in Tasks \ {u}
      PROVE  q[v] \in {"user", "blocked"}
  <2>1. CASE u = t
    BY <1>1, <1>4, <2>1
  <2>2. CASE u # t
    <3>1. p[u] \in {"Del", "release"}
      BY <1>1, <1>4, <2>2
    <3>2. CASE v = t
      BY <1>1, <2>2, <3>1, <3>2
    <3>3. CASE v # t
      BY <1>1, <3>1, <3>3 DEF Callers
    <3>4. QED
      BY <3>2, <3>3
  <2>3. QED
    BY <2>1, <2>2
<1>5. Callers(e, q, f)
  BY <1>2, <1>3, <1>4 DEF Callers
<1>6. QED
  BY <1>5 DEF q, f

\* What an inductive step has to show.
LEMMA Concluded ==
  ASSUME IInv, load' = load, BoxOK(ecb'), ecb'.type \in {load.kind, "INVALID"},
         ListOK(ecb'), MailOK(ecb', due'), Callers(ecb', pc', call'),
         Prompt(ecb', pc'), pc' \in [Tasks -> Labels],
         call' \in [Tasks -> MailCalls \cup {NoCall}], sent' \in Mail, given' \in Mail
  PROVE  IInv'
<1>1. load \in Loads /\ Disciplined /\ load.kind \in {"MBOX", "QUEUE"}
  BY LoadFacts DEF IInv, TypeOK
<1>2. ecb' \in EventBlocks /\ ecb'.pmail \in [Tasks -> Mail] /\ ecb'.cnt \in Nat
  BY DEF BoxOK, EventBlocks
<1>3. due' \subseteq Messages
  <2>1. \A t \in Tasks : ecb'.pmail[t] \in Mail
    BY <1>2
  <2>2. QED
    BY <2>1 DEF MailOK, Mail
<1>4. ecb'.cnt <= IF load.kind = "MBOX" THEN 1 ELSE qMaxSize
  <2>1. CASE load.kind = "MBOX"
    <3>1. ecb'.cnt <= 1
      BY <1>2, <2>1 DEF BoxOK
    <3>2. QED
      BY <2>1, <3>1
  <2>2. CASE load.kind = "QUEUE"
    <3>1. ecb'.cnt <= qMaxSize
      BY <1>2, <2>2, SizeFacts DEF BoxOK
    <3>2. QED
      BY <2>2, <3>1
  <2>3. QED
    BY <1>1, <2>1, <2>2
<1>5. TypeOK'
  BY <1>1, <1>2, <1>3, <1>4 DEF TypeOK
<1>6. (ListOK(ecb))' /\ (BoxOK(ecb))' /\ (MailOK(ecb, due))'
  BY DEF ListOK, Sorted
<1>7. (Callers(ecb, pc, call))'
  BY DEF Callers
<1>8. PostersYield' = PostersYield /\ Disciplined'
  BY <1>1 DEF PostersYield, Disciplined, Makes
<1>9. (Prompt(ecb, pc))'
  BY <1>8 DEF Prompt
<1>10. QED
  BY <1>5, <1>6, <1>7, <1>8, <1>9 DEF IInv

LEMMA IInvFacts ==
  ASSUME IInv
  PROVE  /\ load \in Loads /\ BoxOK(ecb) /\ ListOK(ecb) /\ MailOK(ecb, due)
         /\ Callers(ecb, pc, call) /\ Prompt(ecb, pc) /\ Disciplined
         /\ pc \in [Tasks -> Labels] /\ call \in [Tasks -> MailCalls \cup {NoCall}]
         /\ sent \in Mail /\ given \in Mail
         /\ ecb.type \in {load.kind, "INVALID"}
         /\ load.kind \in {"MBOX", "QUEUE"} /\ ecb \in EventBlocks
         /\ \A t \in Tasks : load.calls[t] \subseteq MailCalls
         /\ \A t \in Tasks : load.prio[t] \in Nat
<1>1. load \in Loads
  BY DEF IInv, TypeOK
<1>2. QED
  BY <1>1, LoadFacts DEF IInv, TypeOK

\* What a task can count on at a control point.
LEMMA AtFacts ==
  ASSUME IInv, NEW t \in Tasks, ~ecb.waits[t]
  PROVE  /\ call[t].op = OpOf(pc[t]) /\ ~ecb.delay[t]
         /\ pc[t] # "user" => call[t] \in load.calls[t] /\ call[t] \in MailCalls
         /\ pc[t] # "blocked" => ecb.pmail[t] = NONE
<1>1. Callers(ecb, pc, call) /\ ListOK(ecb) /\ load.calls[t] \subseteq MailCalls
  BY IInvFacts
<1>2. QED
  BY <1>1 DEF Callers, ListOK

\* A call ends, and the block is as before.
LEMMA ReturnCallers ==
  ASSUME IInv, NEW t \in Tasks, ~ecb.waits[t], pc[t] # "blocked", Return(t)
  PROVE  /\ Callers(ecb, pc', call') /\ pc' \in [Tasks -> Labels]
         /\ call' \in [Tasks -> MailCalls \cup {NoCall}]
         /\ pc' = [pc EXCEPT ![t] = "user"]
<1>1. /\ pc' = [pc EXCEPT ![t] = "user"] /\ call' = [call EXCEPT ![t] = NoCall]
      /\ NoCall.op = OpOf("user") /\ "user" \in Labels
  BY DEF Return, NoCall, OpOf, Labels
<1>2. /\ pc \in [Tasks -> Labels] /\ call \in [Tasks -> MailCalls \cup {NoCall}]
      /\ Callers(ecb, pc, call) /\ ~ecb.delay[t] /\ ecb.pmail[t] = NONE
  BY IInvFacts, AtFacts
<1>3. Callers(ecb, [pc EXCEPT ![t] = "user"], [call EXCEPT ![t] = NoCall])
  BY <1>1, <1>2, MoveCallers
<1>4. QED
  BY <1>1, <1>2, <1>3

\* If nobody comes into the gap and the box gets no fuller, posts stay prompt.
LEMMA StillPrompt ==
  ASSUME NEW e, NEW p, Prompt(e, p), NEW r, NEW s,
         e.cnt = 0 => r.cnt = 0, e.list = <<>> => r.list = <<>>,
         \A t \in Tasks : s[t] = "gap" => p[t] = "gap"
  PROVE  Prompt(r, s)
BY DEF Prompt

-----------------------------------------------------------------------------
(* The steps.                                                              *)

LEMMA RunsFacts ==
  ASSUME IInv, NEW t \in Tasks, NEW label, At(t, label)
  PROVE  ~ecb.waits[t] /\ pc[t] = label
BY DEF At, Runs

LEMMA ReturnStep ==
  ASSUME IInv, NEW t \in Tasks, ~ecb.waits[t], pc[t] # "blocked", Return(t),
         UNCHANGED <<ecb, sent, given, due, load>>
  PROVE  IInv'
<1>1. /\ Callers(ecb, pc', call') /\ pc' \in [Tasks -> Labels]
      /\ call' \in [Tasks -> MailCalls \cup {NoCall}]
      /\ pc' = [pc EXCEPT ![t] = "user"]
  BY ReturnCallers
<1>2. \A u \in Tasks : pc'[u] = "gap" => pc[u] = "gap"
  BY <1>1, IInvFacts
<1>3. Prompt(ecb, pc')
  BY <1>2, IInvFacts, StillPrompt
<1>4. QED
  BY <1>1, <1>3, IInvFacts, Concluded

\* A task goes on, and the block is as before.
LEMMA MoveStep ==
  ASSUME IInv, NEW t \in Tasks, ~ecb.waits[t], pc[t] # "blocked",
         NEW l \in Labels \ {"user", "blocked", "release"},
         pc' = [pc EXCEPT ![t] = l],
         NEW d \in MailCalls, d \in load.calls[t], d.op = OpOf(l),
         call' = [call EXCEPT ![t] = d],
         l = "posting" => ~Full(ecb), l = "gap" => ecb.cnt = 0,
         l = "Del" => \A u \in Tasks \ {t} : pc[u] \in {"user", "blocked"},
         ecb.type = "INVALID" => l = "Create",
         \A u \in Tasks \ {t} : pc[u] \notin {"Del", "release"},
         UNCHANGED <<ecb, sent, given, due, load>>
  PROVE  IInv'
<1>1. /\ pc \in [Tasks -> Labels] /\ call \in [Tasks -> MailCalls \cup {NoCall}]
      /\ Callers(ecb, pc, call) /\ ~ecb.delay[t] /\ ecb.pmail[t] = NONE
  BY IInvFacts, AtFacts
<1>2. Callers(ecb, [pc EXCEPT ![t] = l], [call EXCEPT ![t] = d])
  BY <1>1, MoveCallers
<1>3. pc' \in [Tasks -> Labels] /\ call' \in [Tasks -> MailCalls \cup {NoCall}]
  BY <1>1
<1>4. Prompt(ecb, pc')
  <2>1. \A u \in Tasks \ {t} : pc'[u] = pc[u]
    BY <1>1
  <2>2. pc'[t] = l
    BY <1>1
  <2>3. QED
    BY <2>1, <2>2, IInvFacts DEF Prompt
<1>5. QED
  BY <1>2, <1>3, <1>4, IInvFacts, Concluded

LEMMA CallStep ==
  ASSUME IInv, NEW t \in Tasks, Call(t), load' = load
  PROVE  IInv'
<1>1. ~ecb.waits[t] /\ pc[t] = "user" /\ UNCHANGED <<ecb, sent, given, due>>
  BY RunsFacts DEF Call
<1>2. PICK c \in load.calls[t] :
        /\ c.op = "Create" \/ ecb.type # "INVALID"
        /\ Undisturbed(t, c) /\ call' = [call EXCEPT ![t] = c]
        /\ pc' = [pc EXCEPT ![t] = c.op]
  BY DEF Call, Goto
<1>3. /\ c \in MailCalls /\ c.op \in {"Create", "Post", "Accept", "Pend", "Del"}
      /\ c.op \in Labels /\ OpOf(c.op) = c.op
  BY IInvFacts, CallFacts
<1>4. ASSUME c.op = "Del", NEW u \in Tasks \ {t} PROVE pc[u] \in {"user", "blocked"}
  <2>1. ~Ready(u)
    BY <1>2, <1>4 DEF Undisturbed
  <2>2. ecb.waits[u] => pc[u] = "blocked"
    BY IInvFacts DEF Callers
  <2>3. QED
    BY <2>1, <2>2 DEF Ready
<1>5. \A u \in Tasks \ {t} : pc[u] \notin {"Del", "release"}
  BY <1>2 DEF Undisturbed
<1>6. QED
  BY <1>1, <1>2, <1>3, <1>4, <1>5, MoveStep

\* Whoever is inside another function keeps a deletion away.
LEMMA NoDeleter ==
  ASSUME IInv, NEW t \in Tasks, pc[t] \notin {"user", "blocked"}
  PROVE  \A u \in Tasks \ {t} : pc[u] \notin {"Del", "release"}
BY IInvFacts DEF Callers

\* A task goes on within its call.
LEMMA GoOnStep ==
  ASSUME IInv, NEW t \in Tasks, ~ecb.waits[t], pc[t] \notin {"user", "blocked"},
         NEW l \in Labels \ {"user", "blocked", "release", "Del"},
         pc' = [pc EXCEPT ![t] = l], call' = call, OpOf(pc[t]) = OpOf(l),
         l = "posting" => ~Full(ecb), l = "gap" => ecb.cnt = 0,
         ecb.type # "INVALID", UNCHANGED <<ecb, sent, given, due, load>>
  PROVE  IInv'
<1> DEFINE d == call[t]
<1>1. /\ d \in load.calls[t] /\ d \in MailCalls /\ d.op = OpOf(l)
      /\ call \in [Tasks -> MailCalls \cup {NoCall}]
  BY AtFacts, IInvFacts
<1>2. call' = [call EXCEPT ![t] = d]
  BY <1>1
<1>3. \A u \in Tasks \ {t} : pc[u] \notin {"Del", "release"}
  BY NoDeleter
<1> HIDE DEF d
<1>4. l \in Labels \ {"user", "blocked", "release"} /\ l # "Del" /\ pc[t] # "blocked"
  OBVIOUS
<1>5. QED
  BY <1>1, <1>2, <1>3, <1>4, MoveStep

LEMMA PostTestStep ==
  ASSUME IInv, NEW t \in Tasks, PostTest(t), load' = load
  PROVE  IInv'
<1>1. ~ecb.waits[t] /\ pc[t] = "Post" /\ UNCHANGED <<ecb, sent, given, due>>
  BY RunsFacts DEF PostTest
<1>2. CASE Full(ecb)
  <2>1. Return(t)
    BY <1>2 DEF PostTest
  <2>2. QED
    BY <1>1, <2>1, ReturnStep
<1>3. CASE ~Full(ecb)
  <2>1. pc' = [pc EXCEPT ![t] = "posting"] /\ call' = call
    BY <1>3 DEF PostTest, Goto
  <2>2. /\ "posting" \in Labels \ {"user", "blocked", "release", "Del"}
        /\ OpOf("posting") = OpOf("Post") /\ "posting" # "gap"
    BY DEF Labels, OpOf
  <2>3. ecb.type # "INVALID"
    BY <1>1, IInvFacts DEF Callers
  <2>4. QED
    BY <1>1, <1>3, <2>1, <2>2, <2>3, GoOnStep
<1>4. QED
  BY <1>2, <1>3

\* The oldest message is returned by a task that did not wait.
LEMMA TakeStep ==
  ASSUME IInv, NEW t \in Tasks, ~ecb.waits[t], pc[t] # "blocked", Return(t),
         ecb.cnt # 0, TakeOldest, load' = load
  PROVE  IInv'
<1>1. /\ Callers(ecb, pc', call') /\ pc' \in [Tasks -> Labels]
      /\ call' \in [Tasks -> MailCalls \cup {NoCall}]
      /\ pc' = [pc EXCEPT ![t] = "user"]
  BY ReturnCallers
<1>2. ecb' = Drop(ecb) /\ given' = Oldest(ecb) /\ due' = due /\ sent' = sent
  BY DEF TakeOldest
<1>3. /\ BoxOK(ecb') /\ SameList(ecb, ecb') /\ ecb'.type = ecb.type
      /\ ecb'.cnt = ecb.cnt - 1 /\ Box(ecb') = Tail(Box(ecb))
      /\ Oldest(ecb) \in Messages /\ ecb' \in EventBlocks /\ Box(ecb) # <<>>
      /\ ecb.cnt \in Nat
  BY <1>2, IInvFacts, DropBox, BoxLen
<1>4. ListOK(ecb')
  BY <1>3, IInvFacts, SameListKeeps
<1>5. \A i \in 1 .. Len(Box(ecb')) : Box(ecb')[i] \notin due
  <2> DEFINE b == Box(ecb)
  <2>1. b \in Seq(Messages) /\ \A i \in 1 .. Len(b) : b[i] \notin due
    BY IInvFacts, BoxLen DEF MailOK
  <2> HIDE DEF b
  <2>2. \A i \in 1 .. Len(Tail(b)) : Tail(b)[i] = b[i + 1] /\ i + 1 \in 1 .. Len(b)
    BY <1>3, <2>1 DEF b
  <2>3. QED
    BY <1>3, <2>1, <2>2 DEF b
<1>6. MailOK(ecb', due')
  BY <1>2, <1>3, <1>5, IInvFacts DEF MailOK, SameList
<1>7. ~Full(ecb')
  <2>1. ecb.type # "INVALID"
    BY IInvFacts DEF BoxOK
  <2>2. BoxOK(ecb)
    BY IInvFacts
  <2>3. CASE ecb.type = "MBOX"
    <3>1. ecb.cnt = 1
      BY <1>3, <2>2, <2>3 DEF BoxOK
    <3>2. ecb'.cnt = 0
      BY <1>3, <3>1
    <3>3. QED
      BY <1>3, <2>3, <3>2 DEF Full
  <2>4. CASE ecb.type # "MBOX"
    <3>1. ecb.type = "QUEUE"
      BY <2>1, <2>2, <2>4, BoxLen
    <3>2. ecb.cnt <= qMaxSize
      BY <2>2, <3>1 DEF BoxOK
    <3>3. ecb.cnt - 1 # qMaxSize
      BY <1>3, <3>2, SizeFacts
    <3>4. QED
      BY <1>3, <2>4, <3>3 DEF Full
  <2>5. QED
    BY <2>3, <2>4
<1>8. Callers(ecb', pc', call')
  BY <1>1, <1>3, <1>7 DEF Callers, SameList
<1>9. \A u \in Tasks : pc'[u] = "gap" => pc[u] = "gap"
  BY <1>1, IInvFacts
<1>10. Prompt(ecb', pc')
  BY <1>3, <1>9, IInvFacts, StillPrompt DEF SameList
<1>11. given' \in Mail /\ sent' \in Mail
  BY <1>2, <1>3, IInvFacts, SizeFacts
<1>12. QED
  BY <1>1, <1>3, <1>4, <1>6, <1>8, <1>10, <1>11, IInvFacts, Concluded

LEMMA AcceptStep ==
  ASSUME IInv, NEW t \in Tasks, AcceptMail(t), load' = load
  PROVE  IInv'
<1>1. ~ecb.waits[t] /\ pc[t] = "Accept" /\ Return(t)
  BY RunsFacts DEF AcceptMail
<1>2. CASE ecb.cnt # 0
  BY <1>1, <1>2, TakeStep DEF AcceptMail
<1>3. CASE ecb.cnt = 0
  BY <1>1, <1>3, ReturnStep DEF AcceptMail
<1>4. QED
  BY <1>2, <1>3

LEMMA PendLookStep ==
  ASSUME IInv, NEW t \in Tasks, PendLook(t), load' = load
  PROVE  IInv'
<1>1. ~ecb.waits[t] /\ pc[t] = "Pend"
  BY RunsFacts DEF PendLook
<1>2. CASE ecb.cnt # 0
  BY <1>1, <1>2, TakeStep DEF PendLook
<1>3. CASE ecb.cnt = 0
  <2>1. /\ pc' = [pc EXCEPT ![t] = "gap"] /\ call' = call
        /\ UNCHANGED <<ecb, sent, given, due>>
    BY <1>3 DEF PendLook, Goto
  <2>2. /\ "gap" \in Labels \ {"user", "blocked", "release", "Del"}
        /\ OpOf("gap") = OpOf("Pend") /\ "gap" # "posting"
    BY DEF Labels, OpOf
  <2>3. ecb.type # "INVALID"
    BY <1>1, IInvFacts DEF Callers
  <2>4. QED
    BY <1>1, <1>3, <2>1, <2>2, <2>3, GoOnStep
<1>4. QED
  BY <1>2, <1>3

\* The block is a new one, or a free one, once the call has ended.
LEMMA FreshStep ==
  ASSUME IInv, NEW t \in Tasks, ~ecb.waits[t], pc[t] # "blocked", Return(t),
         NEW e \in EventBlocks, SameList(ecb, e), e.type \in {load.kind, "INVALID"},
         \A u \in Tasks \ {t} : pc[u] \in {"user", "Create", "blocked"},
         e.type = "INVALID" => ecb.list = <<>>,
         ecb' = Fresh(e), UNCHANGED <<sent, given, due, load>>
  PROVE  IInv'
<1>1. /\ Callers(ecb, pc', call') /\ pc' \in [Tasks -> Labels]
      /\ call' \in [Tasks -> MailCalls \cup {NoCall}]
      /\ pc' = [pc EXCEPT ![t] = "user"]
  BY ReturnCallers
<1>2. /\ BoxOK(ecb') /\ SameList(e, ecb') /\ ecb'.type = e.type
      /\ ecb'.cnt = 0 /\ Box(ecb') = <<>>
  BY FreshBox
<1>3. SameList(ecb, ecb') /\ ecb' \in EventBlocks
  BY <1>2, BoxLen DEF SameList
<1>4. ListOK(ecb')
  BY <1>3, IInvFacts, SameListKeeps
<1>5. MailOK(ecb', due')
  BY <1>2, <1>3, IInvFacts, EmptySeq DEF MailOK, SameList
<1>6. \A u \in Tasks : pc'[u] \in {"user", "Create", "blocked"}
  BY <1>1, IInvFacts
<1>7. Callers(ecb', pc', call')
  BY <1>1, <1>2, <1>3, <1>6 DEF Callers, SameList
<1>8. Prompt(ecb', pc')
  BY <1>2 DEF Prompt
<1>9. QED
  BY <1>1, <1>2, <1>4, <1>5, <1>7, <1>8, IInvFacts, Concluded

LEMMA CreateStep ==
  ASSUME IInv, NEW t \in Tasks, Create(t), load' = load
  PROVE  IInv'
<1>1. ~ecb.waits[t] /\ pc[t] = "Create" /\ Return(t) /\ UNCHANGED <<sent, given, due>>
  BY RunsFacts DEF Create
<1>2. CASE ecb.type # "INVALID"
  BY <1>1, <1>2, ReturnStep DEF Create
<1>3. CASE ecb.type = "INVALID"
  <2> DEFINE e == [ecb EXCEPT !.type = load.kind, !.list = <<>>]
  <2>1. ecb.list = <<>> /\ \A u \in Tasks : pc[u] \in {"user", "Create", "blocked"}
    BY <1>3, IInvFacts DEF Callers
  <2>2. ecb \in EventBlocks /\ load.kind \in {"MBOX", "QUEUE"}
    BY IInvFacts
  <2>3. e \in EventBlocks /\ e.type = load.kind
    BY <2>2, EmptySeq DEF EventBlocks
  <2>4. SameList(ecb, e)
    BY <2>1, <2>2 DEF EventBlocks, SameList
  <2>5. ecb' = Fresh(e)
    BY <1>3 DEF Create
  <2> HIDE DEF e
  <2>6. QED
    BY <1>1, <2>1, <2>2, <2>3, <2>4, <2>5, FreshStep
<1>4. QED
  BY <1>2, <1>3

LEMMA DelReleaseStep ==
  ASSUME IInv, NEW t \in Tasks, DelRelease(t), load' = load
  PROVE  IInv'
<1> DEFINE e == [ecb EXCEPT !.type = "INVALID"]
<1>1. ~ecb.waits[t] /\ pc[t] = "release" /\ Return(t) /\ UNCHANGED <<sent, given, due>>
  BY RunsFacts DEF DelRelease
<1>2. ecb.list = <<>> /\ \A u \in Tasks \ {t} : pc[u] \in {"user", "blocked"}
  BY <1>1, IInvFacts DEF Callers
<1>3. e \in EventBlocks /\ e.type = "INVALID" /\ SameList(ecb, e)
  BY IInvFacts DEF EventBlocks, SameList
<1>4. ecb' = Fresh(e)
  BY DEF DelRelease
<1> HIDE DEF e
<1>5. QED
  BY <1>1, <1>2, <1>3, <1>4, FreshStep

\* With a deletion that wakes waiting tasks, at most one waits.
LEMMA OneWaiter ==
  ASSUME IInv, NEW t \in Tasks, call[t] \in load.calls[t], call[t].op = "Del",
         call[t].opt = "ANYWAY"
  PROVE  Len(ecb.list) <= 1
<1> DEFINE s == ecb.list
<1>1. /\ s \in Seq(Tasks) /\ Len(s) \in Nat /\ \A i \in 1 .. Len(s) : s[i] \in Tasks
      /\ \A i, j \in 1 .. Len(s) : s[i] = s[j] => i = j
      /\ \A u \in Tasks : ecb.waits[u] <=> In(s, u)
  <2>1. /\ Linked(s, ecb.prev) /\ s \in Seq(Tasks)
        /\ \A u \in Tasks : ecb.waits[u] <=> In(s, u)
    BY IInvFacts, ListFacts
  <2> HIDE DEF s
  <2>2. QED
    BY <2>1, LinkedFacts DEF Linked
<1>2. ASSUME NEW i \in 1 .. Len(s) PROVE Makes(s[i], "Pend")
  <2>1. s[i] \in Tasks /\ ecb.waits[s[i]]
    BY <1>1, <1>2 DEF In
  <2>2. pc[s[i]] = "blocked"
    BY <2>1, IInvFacts DEF Callers
  <2>3. call[s[i]].op = "Pend" /\ call[s[i]] \in load.calls[s[i]]
    BY <2>1, <2>2, IInvFacts DEF Callers, OpOf
  <2>4. QED
    BY <2>3 DEF Makes
<1>3. \A u, v \in Tasks : Makes(u, "Pend") /\ Makes(v, "Pend") => u = v
  BY IInvFacts DEF Disciplined
<1> HIDE DEF s
<1>4. SUFFICES ASSUME Len(s) > 1 PROVE FALSE
  BY <1>1 DEF s
<1>5. 1 \in 1 .. Len(s) /\ 2 \in 1 .. Len(s)
  BY <1>1, <1>4
<1>6. s[1] = s[2]
  BY <1>1, <1>2, <1>3, <1>5
<1>7. QED
  BY <1>1, <1>5, <1>6

LEMMA DelStep ==
  ASSUME IInv, NEW t \in Tasks, Del(t), load' = load
  PROVE  IInv' /\ (ecb' = ecb \/ SameBox(ecb, ecb'))
<1> DEFINE d == call[t]
<1>1. ~ecb.waits[t] /\ pc[t] = "Del" /\ UNCHANGED <<sent, given, due>>
  BY RunsFacts DEF Del
<1>2. CASE d.opt = "NO_PEND" /\ ecb.list # <<>>
  <2>1. Return(t) /\ ecb' = ecb
    BY <1>2 DEF Del
  <2>2. QED
    BY <1>1, <2>1, ReturnStep
<1>3. CASE ~(d.opt = "NO_PEND" /\ ecb.list # <<>>)
  <2>1. /\ ecb' = IF d.opt = "ANYWAY" THEN Drained(ecb) ELSE ecb
        /\ pc' = [pc EXCEPT ![t] = "release"] /\ call' = call
    BY <1>3 DEF Del, Goto
  <2>2. /\ d \in load.calls[t] /\ d \in MailCalls /\ d.op = "Del"
        /\ pc \in [Tasks -> Labels] /\ call \in [Tasks -> MailCalls \cup {NoCall}]
        /\ Callers(ecb, pc, call) /\ BoxOK(ecb) /\ ListOK(ecb) /\ ecb.pmail[t] = NONE
    BY <1>1, AtFacts, IInvFacts DEF OpOf
  <2>3. /\ ListOK(ecb') /\ SameBox(ecb, ecb') /\ ecb'.pmail = ecb.pmail
        /\ ecb'.list = <<>> /\ \A u \in Tasks : ~ecb'.waits[u] /\ ~ecb'.delay[u]
    <3>1. CASE d.opt = "ANYWAY"
      BY <2>1, <2>2, <3>1, OneWaiter, DrainedList
    <3>2. CASE d.opt # "ANYWAY"
      <4>1. ecb' = ecb /\ ecb.list = <<>>
        BY <1>3, <2>1, <2>2, <3>2, CallFacts
      <4>2. \A u \in Tasks : ~ecb.waits[u] /\ ~ecb.delay[u]
        BY <2>2, <4>1, EmptySeq DEF ListOK, In
      <4>3. QED
        BY <2>2, <4>1, <4>2 DEF SameBox
    <3>3. QED
      BY <3>1, <3>2
  <2>4. ecb' \in EventBlocks
    BY <2>3, ListFacts
  <2>5. BoxOK(ecb') /\ Box(ecb') = Box(ecb) /\ (Full(ecb') <=> Full(ecb))
    BY <2>2, <2>3, <2>4, SameBoxKeeps
  <2>6. MailOK(ecb', due')
    BY <1>1, <2>3, <2>5, IInvFacts DEF MailOK
  <2>7. /\ \A u \in Tasks \ {t} : pc[u] \in {"user", "blocked"}
        /\ ecb.type # "INVALID" /\ ecb'.type = ecb.type /\ ecb'.cnt = ecb.cnt
    BY <1>1, <2>2, <2>3 DEF Callers, SameBox
  <2>8. Callers(ecb', pc, call)
    BY <2>2, <2>3, <2>5, <2>7 DEF Callers
  <2>9. /\ "release" \in Labels /\ OpOf("release") = "Del"
        /\ "release" \notin {"user", "posting"} /\ call' = [call EXCEPT ![t] = d]
    BY <2>1, <2>2 DEF Labels, OpOf
  <2> HIDE DEF d
  <2>10. Callers(ecb', [pc EXCEPT ![t] = "release"], [call EXCEPT ![t] = d])
    BY <2>2, <2>3, <2>7, <2>8, <2>9, MoveCallers
  <2>11. pc' \in [Tasks -> Labels]
    BY <2>1, <2>2, <2>9
  <2>12. \A u \in Tasks : pc'[u] # "gap"
    BY <2>1, <2>2, <2>7
  <2>13. Prompt(ecb', pc')
    BY <2>3, <2>12 DEF Prompt
  <2>14. QED
    BY <1>1, <2>1, <2>2, <2>3, <2>5, <2>6, <2>7, <2>9, <2>10, <2>11, <2>13,
       IInvFacts, Concluded
<1>4. QED
  BY <1>2, <1>3

\* What accepting message m does to the box and, if somebody waits, to the
\* first waiter, t.
Kept(m) ==
  /\ Box(ecb') = Append(Box(ecb), m) /\ given' = given /\ due' = due
  /\ SameList(ecb, ecb')

Handed(m, t) ==
  /\ Box(ecb') = Tail(Append(Box(ecb), m)) /\ given' = Head(Append(Box(ecb), m))
  /\ t \in Tasks /\ ecb.waits[t] /\ ecb'.cnt = ecb.cnt
  /\ ecb'.pmail = [ecb.pmail EXCEPT ![t] = given']
  /\ ecb'.waits = [ecb.waits EXCEPT ![t] = FALSE]
  /\ ecb'.delay = [ecb.delay EXCEPT ![t] = FALSE]

Accepted(m) ==
  /\ m \in Messages /\ ~In(Box(ecb), m) /\ ecb'.type = ecb.type
  /\ m # sent /\ m # given /\ sent' = m
  /\ BoxOK(ecb') /\ ListOK(ecb') /\ MailOK(ecb', due') /\ given' \in Mail
  /\ IF ecb.list = <<>> THEN Kept(m) ELSE Handed(m, Head(ecb.list))

\* A new message is not under way.
LEMMA NewMessage ==
  ASSUME IInv, Unused(ecb) # {}
  PROVE  LET m == Min(Unused(ecb))
         IN  /\ m \in Messages /\ ~In(Box(ecb), m) /\ m \notin due
             /\ m # sent /\ m # given
<1> DEFINE m == Min(Unused(ecb))
           b == Box(ecb)
<1>1. b \in Seq(Messages)
  BY IInvFacts, BoxLen
<1>2. Unused(ecb) \in SUBSET Nat
  BY SizeFacts DEF Unused
<1>3. m \in Unused(ecb)
  BY <1>2, MinNat
<1>4. /\ m \in Messages /\ m \notin ToSet(b) /\ m \notin due
      /\ m # sent /\ m # given
  BY <1>3 DEF Unused
<1> HIDE DEF m, b
<1>5. ~In(b, m)
  BY <1>1, <1>4 DEF ToSet, In
<1>6. QED
  BY <1>4, <1>5 DEF m, b

LEMMA KeptMail ==
  ASSUME IInv, NEW m \in Messages, m \notin due, Box(ecb') = Append(Box(ecb), m),
         SameList(ecb, ecb'), due' = due
  PROVE  MailOK(ecb', due')
<1> DEFINE b == Box(ecb)
           a == Append(b, m)
<1>1. b \in Seq(Messages) /\ Len(b) \in Nat /\ \A i \in 1 .. Len(b) : b[i] \notin due
  BY IInvFacts, BoxLen DEF MailOK
<1>2. a \in Seq(Messages) /\ \A i \in 1 .. Len(a) : a[i] \notin due
  <2> HIDE DEF b
  <2>1. /\ a \in Seq(Messages) /\ Len(a) = Len(b) + 1 /\ a[Len(b) + 1] = m
        /\ \A i \in 1 .. Len(b) : a[i] = b[i]
    BY <1>1, AppendProperties
  <2>2. ASSUME NEW i \in 1 .. Len(a) PROVE a[i] \notin due
    <3> HIDE DEF a
    <3>1. i \in 1 .. Len(b) \/ i = Len(b) + 1
      BY <1>1, <2>1
    <3>2. QED
      BY <1>1, <2>1, <3>1
  <2>3. QED
    BY <2>1, <2>2
<1> HIDE DEF a, b
<1>3. \A i \in 1 .. Len(Box(ecb')) : Box(ecb')[i] \notin due
  BY <1>2 DEF a, b
<1>4. QED
  BY <1>3, IInvFacts DEF MailOK, SameList

\* The mail of a waiter becomes o, which was in the box and nowhere else.
LEMMA HandedMail ==
  ASSUME NEW e, NEW d, MailOK(e, d), e.pmail \in [Tasks -> Mail], NEW t \in Tasks,
         e.pmail[t] = NONE, NEW o \in Messages, o \notin d,
         NEW r, r.pmail = [e.pmail EXCEPT ![t] = o],
         \A i \in 1 .. Len(Box(r)) : Box(r)[i] \notin d /\ Box(r)[i] # o
  PROVE  MailOK(r, d \cup {o})
<1>1. o # NONE
  BY SizeFacts
<1>2. r.pmail[t] = o /\ \A u \in Tasks \ {t} : r.pmail[u] = e.pmail[u]
  OBVIOUS
<1>3. d = {e.pmail[u] : u \in Tasks} \ {NONE}
  BY DEF MailOK
<1>4. \A u \in Tasks : e.pmail[u] # o
  BY <1>1, <1>3
<1>5. ASSUME NEW u \in Tasks, NEW v \in Tasks, r.pmail[u] # NONE, r.pmail[u] = r.pmail[v]
      PROVE  u = v
  BY <1>2, <1>4, <1>5 DEF MailOK
<1>6. d \cup {o} = {r.pmail[u] : u \in Tasks} \ {NONE}
  <2>1. ASSUME NEW x \in d \cup {o} PROVE x \in {r.pmail[u] : u \in Tasks} \ {NONE}
    BY <1>1, <1>2, <1>3, <2>1
  <2>2. ASSUME NEW x \in {r.pmail[u] : u \in Tasks} \ {NONE} PROVE x \in d \cup {o}
    BY <1>1, <1>2, <1>3, <2>2
  <2>3. QED
    BY <2>1, <2>2
<1>7. QED
  BY <1>5, <1>6 DEF MailOK

LEMMA AcceptFacts ==
  ASSUME IInv, ecb.type # "INVALID", ~Full(ecb), Accept(ecb)
  PROVE  Accepted(Min(Unused(ecb)))
<1> DEFINE m == Min(Unused(ecb))
           put == Put(ecb, m)
           b == Box(ecb)
           a == Append(b, m)
<1>1. /\ Unused(ecb) # {} /\ ecb' = EventTaskToRdy(put)
      /\ sent' = m /\ given' = IF ecb.list # <<>> THEN Oldest(put) ELSE given
      /\ due' = IF ecb.list # <<>> THEN due \cup {Oldest(put)} ELSE due
  BY DEF Accept
<1>2. /\ m \in Messages /\ ~In(b, m) /\ m \notin due
      /\ m # sent /\ m # given /\ sent' = m
  BY <1>1, NewMessage
<1> HIDE DEF m
<1>3. /\ BoxOK(ecb) /\ ListOK(ecb) /\ MailOK(ecb, due) /\ given \in Mail
      /\ b \in Seq(Messages) /\ Len(b) \in Nat /\ ecb.cnt \in Nat
      /\ \A i \in 1 .. Len(b) : b[i] # m
  BY <1>2, IInvFacts, BoxLen DEF In
<1>4. /\ BoxOK(put) /\ SameList(ecb, put) /\ Box(put) = a
      /\ put.type = ecb.type /\ put.cnt = ecb.cnt + 1 /\ put.cnt # 0
  BY <1>2, <1>3, PutBox
<1> HIDE DEF put
<1>5. ListOK(put) /\ put \in EventBlocks /\ put.list = ecb.list
  BY <1>3, <1>4, SameListKeeps, BoxLen DEF SameList
<1>6. CASE ecb.list = <<>>
  <2>1. ecb' = put /\ given' = given /\ due' = due
    BY <1>1, <1>5, <1>6 DEF EventTaskToRdy
  <2>2. MailOK(ecb', due')
    BY <1>2, <1>4, <2>1, KeptMail
  <2>3. Kept(m)
    BY <1>4, <2>1 DEF Kept
  <2>4. QED
    BY <1>2, <1>3, <1>4, <1>5, <1>6, <2>1, <2>2, <2>3 DEF Accepted, m
<1>7. CASE ecb.list # <<>>
  <2> DEFINE t == Head(ecb.list)
             o == Oldest(put)
  <2>1. given' = o /\ due' = due \cup {o} /\ ecb' = EventTaskToRdy(put)
    BY <1>1, <1>7
  <2>2. Hands(put, ecb', t)
    BY <1>4, <1>5, <1>7, <2>1, RdyHands
  <2> HIDE DEF t, o
  <2>3. /\ ListOK(ecb') /\ SameBox(Drop(put), ecb') /\ t \in Tasks /\ ecb.waits[t]
        /\ ecb'.pmail = [ecb.pmail EXCEPT ![t] = o]
        /\ ecb'.waits = [ecb.waits EXCEPT ![t] = FALSE]
        /\ ecb'.delay = [ecb.delay EXCEPT ![t] = FALSE]
    BY <1>4, <2>2 DEF Hands, SameList, o
  <2>4. /\ BoxOK(Drop(put)) /\ Drop(put).type = ecb.type /\ Drop(put).cnt = put.cnt - 1
        /\ Box(Drop(put)) = Tail(a) /\ a # <<>> /\ o = Head(a) /\ o = a[1]
        /\ o \in Messages
    BY <1>4, DropBox DEF o
  <2>5. ecb' \in EventBlocks
    BY <2>3, ListFacts
  <2>6. BoxOK(ecb') /\ Box(ecb') = Tail(a)
    BY <2>3, <2>4, <2>5, SameBoxKeeps
  <2>7. ecb'.type = ecb.type /\ ecb'.cnt = ecb.cnt
    <3> DEFINE r == ecb'
    <3>1. r.type = ecb.type /\ r.cnt = (ecb.cnt + 1) - 1
      BY <1>4, <2>3, <2>4 DEF SameBox
    <3>2. (ecb.cnt + 1) - 1 = ecb.cnt
      BY <1>3
    <3>3. QED
      BY <3>1, <3>2
  <2>8. /\ a \in Seq(Messages) /\ Len(a) \in Nat /\ Len(a) >= 1
        /\ \A i, j \in 1 .. Len(a) : a[i] = a[j] => i = j
        /\ \A i \in 1 .. Len(a) : a[i] \notin due
    <3>1. /\ a \in Seq(Messages) /\ Len(a) = Len(b) + 1 /\ a[Len(b) + 1] = m
          /\ \A i \in 1 .. Len(b) : a[i] = b[i]
      <4> HIDE DEF b
      <4>1. QED
        BY <1>2, <1>3, AppendProperties
    <3>2. \A i \in 1 .. Len(b) : b[i] \notin due
      BY <1>3 DEF MailOK
    <3>3. \A i, j \in 1 .. Len(a) : a[i] = a[j] => i = j
      BY <1>4 DEF BoxOK
    <3> HIDE DEF a, b
    <3>4. ASSUME NEW i \in 1 .. Len(a) PROVE a[i] \notin due
      <4>1. i \in 1 .. Len(b) \/ i = Len(b) + 1
        BY <1>3, <3>1
      <4>2. QED
        BY <1>2, <3>1, <3>2, <4>1
    <3>5. QED
      BY <1>3, <3>1, <3>3, <3>4
  <2>9. \A i \in 1 .. Len(Tail(a)) : Tail(a)[i] \notin due /\ Tail(a)[i] # o
    <3> HIDE DEF a, b
    <3>1. \A i \in 1 .. Len(Tail(a)) :
            Tail(a)[i] = a[i + 1] /\ i + 1 \in 1 .. Len(a) /\ i + 1 # 1
      BY <2>4, <2>8
    <3>2. 1 \in 1 .. Len(a)
      BY <2>8
    <3>3. ASSUME NEW i \in 1 .. Len(Tail(a))
          PROVE  Tail(a)[i] \notin due /\ Tail(a)[i] # o
      <4>1. PICK j \in 1 .. Len(a) : Tail(a)[i] = a[j] /\ j # 1
        BY <3>1
      <4>2. QED
        BY <2>4, <2>8, <3>2, <4>1
    <3>4. QED
      BY <3>3
  <2>10. o \notin due /\ ecb.pmail[t] = NONE /\ ecb.pmail \in [Tasks -> Mail]
    <3>1. 1 \in 1 .. Len(a)
      BY <2>8
    <3>2. o \notin due
      BY <2>4, <2>8, <3>1
    <3>3. QED
      BY <2>3, <3>2, IInvFacts, ListFacts DEF Callers
  <2>11. \A i \in 1 .. Len(Box(ecb')) : Box(ecb')[i] \notin due /\ Box(ecb')[i] # o
    BY <2>6, <2>9
  <2>12. MailOK(ecb', due \cup {o})
    BY <1>3, <2>3, <2>4, <2>10, <2>11, HandedMail
  <2>13. Handed(m, t)
    BY <2>1, <2>3, <2>4, <2>6, <2>7 DEF Handed
  <2>14. QED
    BY <1>2, <1>7, <2>1, <2>3, <2>4, <2>6, <2>7, <2>12, <2>13, SizeFacts
       DEF Accepted, m, t
<1>8. QED
  BY <1>6, <1>7

\* The tasks after a message was accepted, when none is posting any more.
LEMMA AcceptedCallers ==
  ASSUME IInv, NEW m, Accepted(m), NEW p, NEW c, Callers(ecb, p, c),
         \A u \in Tasks : p[u] # "posting"
  PROVE  Callers(ecb', p, c)
<1>1. CASE ecb.list = <<>>
  <2>1. SameList(ecb, ecb') /\ ecb'.type = ecb.type
    BY <1>1 DEF Accepted, Kept
  <2>2. QED
    BY <2>1 DEF Callers, SameList
<1>2. CASE ecb.list # <<>>
  <2> DEFINE t == Head(ecb.list)
             o == given'
             r == ecb'
  <2>1. /\ r.type = ecb.type /\ t \in Tasks /\ ecb.waits[t]
        /\ r.pmail = [ecb.pmail EXCEPT ![t] = o]
        /\ r.waits = [ecb.waits EXCEPT ![t] = FALSE]
        /\ r.delay = [ecb.delay EXCEPT ![t] = FALSE]
    BY <1>2 DEF Accepted, Handed
  <2>2. /\ ecb.pmail \in [Tasks -> Mail] /\ ecb.waits \in [Tasks -> BOOLEAN]
        /\ ecb.delay \in [Tasks -> BOOLEAN]
    BY IInvFacts, ListFacts
  <2> HIDE DEF t, o, r
  <2>3. /\ r.waits[t] = FALSE /\ r.delay[t] = FALSE
        /\ \A u \in Tasks \ {t} :
             /\ r.pmail[u] = ecb.pmail[u] /\ r.waits[u] = ecb.waits[u]
             /\ r.delay[u] = ecb.delay[u]
    BY <2>1, <2>2
  <2>4. /\ p[t] = "blocked" /\ ecb.type # "INVALID"
        /\ \A u \in Tasks : p[u] # "release"
    BY <1>2, <2>1 DEF Callers
  <2>5. ASSUME NEW u \in Tasks
        PROVE  /\ r.waits[u] => p[u] = "blocked" /\ r.pmail[u] = NONE
               /\ r.pmail[u] # NONE => p[u] = "blocked"
               /\ r.delay[u] => c[u].timed
    <3>1. CASE u = t
      BY <2>3, <2>4, <3>1
    <3>2. CASE u # t
      BY <2>3, <3>2 DEF Callers
    <3>3. QED
      BY <3>1, <3>2
  <2>6. Callers(r, p, c)
    BY <2>1, <2>4, <2>5 DEF Callers
  <2>7. QED
    BY <2>6 DEF r
<1>3. QED
  BY <1>1, <1>2

\* Accepting is prompt if, when posters yield, nobody is in the gap.
LEMMA AcceptedPrompt ==
  ASSUME IInv, NEW m, Accepted(m), NEW p,
         PostersYield => \A u \in Tasks : p[u] # "gap"
  PROVE  Prompt(ecb', p)
<1>1. CASE ecb.list = <<>>
  <2>1. ecb'.list = <<>>
    BY <1>1 DEF Accepted, Kept, SameList
  <2>2. QED
    BY <2>1 DEF Prompt
<1>2. CASE ecb.list # <<>>
  <2>1. ecb'.cnt = ecb.cnt
    BY <1>2 DEF Accepted, Handed
  <2>2. QED
    BY <1>2, <2>1, IInvFacts DEF Prompt
<1>3. QED
  BY <1>1, <1>2

LEMMA PostPutStep ==
  ASSUME IInv, NEW t \in Tasks, PostPut(t), load' = load
  PROVE  IInv' /\ Accepted(Min(Unused(ecb))) /\ ~Full(ecb) /\ ecb.type # "INVALID"
<1> DEFINE m == Min(Unused(ecb))
<1>1. /\ ~ecb.waits[t] /\ pc[t] = "posting" /\ Return(t) /\ Accept(ecb)
      /\ \A u \in Tasks : Ready(u) => load.prio[t] <= load.prio[u]
  BY RunsFacts DEF PostPut, At, Runs
<1>2. ~Full(ecb) /\ ecb.type # "INVALID"
  BY <1>1, IInvFacts DEF Callers
<1>3. Accepted(m)
  BY <1>1, <1>2, AcceptFacts
<1> HIDE DEF m
<1>4. /\ Callers(ecb, pc', call') /\ pc' \in [Tasks -> Labels]
      /\ call' \in [Tasks -> MailCalls \cup {NoCall}]
      /\ pc' = [pc EXCEPT ![t] = "user"]
  BY <1>1, ReturnCallers
<1>5. pc'[t] = "user" /\ \A u \in Tasks \ {t} : pc'[u] = pc[u]
  BY <1>4, IInvFacts
<1>6. Makes(t, "Post")
  <2>1. call[t] \in load.calls[t] /\ call[t].op = "Post"
    BY <1>1, AtFacts DEF OpOf
  <2>2. QED
    BY <2>1 DEF Makes
<1>7. ASSUME NEW u \in Tasks PROVE pc'[u] # "posting"
  <2> SUFFICES ASSUME u # t, pc[u] = "posting" PROVE FALSE
    BY <1>5
  <2>1. call[u] \in load.calls[u] /\ call[u].op = "Post"
    BY IInvFacts DEF Callers, OpOf
  <2>2. QED
    BY <1>6, <2>1, IInvFacts DEF Makes, Disciplined
<1>8. ASSUME PostersYield, NEW u \in Tasks PROVE pc'[u] # "gap"
  <2> SUFFICES ASSUME pc[u] = "gap" PROVE FALSE
    BY <1>5
  <2>1. call[u] \in load.calls[u] /\ call[u].op = "Pend" /\ ~ecb.waits[u]
    BY IInvFacts DEF Callers, OpOf
  <2>2. load.prio[u] < load.prio[t]
    BY <1>6, <1>8, <2>1 DEF PostersYield, Makes
  <2>3. load.prio[t] <= load.prio[u]
    BY <1>1, <2>1 DEF Ready
  <2>4. load.prio[t] \in Nat /\ load.prio[u] \in Nat
    BY IInvFacts
  <2>5. QED
    BY <2>2, <2>3, <2>4
<1>9. Callers(ecb', pc', call')
  BY <1>3, <1>4, <1>7, AcceptedCallers
<1>10. Prompt(ecb', pc')
  BY <1>3, <1>8, AcceptedPrompt
<1>11. /\ ecb'.type = ecb.type /\ BoxOK(ecb') /\ ListOK(ecb') /\ MailOK(ecb', due')
       /\ given' \in Mail /\ sent' \in Mail
  BY <1>3, SizeFacts DEF Accepted
<1>12. QED
  BY <1>2, <1>3, <1>4, <1>9, <1>10, <1>11, IInvFacts, Concluded DEF m

LEMMA IsrStep ==
  ASSUME IInv, load.isr, isr_Post, load' = load
  PROVE  IInv' /\ Accepted(Min(Unused(ecb))) /\ ~Full(ecb) /\ ecb.type # "INVALID"
<1> DEFINE m == Min(Unused(ecb))
<1>1. /\ ~Full(ecb) /\ ecb.type # "INVALID" /\ Accept(ecb)
      /\ pc' = pc /\ call' = call
  BY DEF isr_Post
<1>2. Accepted(m)
  BY <1>1, AcceptFacts
<1> HIDE DEF m
<1>3. ASSUME NEW u \in Tasks PROVE pc[u] # "posting"
  <2> SUFFICES ASSUME pc[u] = "posting" PROVE FALSE
    OBVIOUS
  <2>1. call[u] \in load.calls[u] /\ call[u].op = "Post"
    BY IInvFacts DEF Callers, OpOf
  <2>2. QED
    BY <2>1, IInvFacts DEF Makes, Disciplined
<1>4. Callers(ecb', pc, call)
  BY <1>2, <1>3, IInvFacts, AcceptedCallers
<1>5. Prompt(ecb', pc)
  BY <1>2, AcceptedPrompt DEF PostersYield
<1>6. /\ ecb'.type = ecb.type /\ BoxOK(ecb') /\ ListOK(ecb') /\ MailOK(ecb', due')
      /\ given' \in Mail /\ sent' \in Mail
  BY <1>2, SizeFacts DEF Accepted
<1>7. QED
  BY <1>1, <1>2, <1>4, <1>5, <1>6, IInvFacts, Concluded DEF m

LEMMA PendWaitStep ==
  ASSUME IInv, NEW t \in Tasks, PendWait(t), load' = load
  PROVE  IInv' /\ SameBox(ecb, ecb')
<1> DEFINE d == call[t]
           timed == call[t].timed
           r == ecb'
<1>1. /\ ~ecb.waits[t] /\ pc[t] = "gap" /\ UNCHANGED <<call, sent, given, due>>
      /\ r = [EventTaskToWait(ecb, t) EXCEPT !.delay[t] = timed]
      /\ pc' = [pc EXCEPT ![t] = "blocked"]
  BY RunsFacts DEF PendWait, Goto
<1>2. /\ d \in load.calls[t] /\ d \in MailCalls /\ d.op = "Pend" /\ ~ecb.delay[t]
      /\ pc \in [Tasks -> Labels] /\ call \in [Tasks -> MailCalls \cup {NoCall}]
      /\ Callers(ecb, pc, call) /\ BoxOK(ecb) /\ ListOK(ecb) /\ ecb.pmail[t] = NONE
  BY <1>1, AtFacts, IInvFacts DEF OpOf
<1>3. timed \in BOOLEAN
  BY <1>2, CallFacts
<1>4. Joins(ecb, r, t, timed)
  <2> HIDE DEF timed, r
  <2>1. QED
    BY <1>1, <1>2, <1>3, IInvFacts, WaitJoins
<1>5. /\ "blocked" \in Labels /\ OpOf("blocked") = "Pend"
      /\ "blocked" \notin {"user", "posting", "Del", "release"}
      /\ [call EXCEPT ![t] = d] = call
  BY <1>2 DEF Labels, OpOf
<1> HIDE DEF d
<1>6. Callers(ecb, [pc EXCEPT ![t] = "blocked"], [call EXCEPT ![t] = d])
  BY <1>1, <1>2, <1>5, MoveCallers
<1>7. Callers(ecb, pc', call) /\ pc' \in [Tasks -> Labels] /\ pc'[t] = "blocked"
      /\ \A u \in Tasks \ {t} : pc'[u] = pc[u]
  BY <1>1, <1>2, <1>5, <1>6
<1> HIDE DEF r, timed
<1>8. /\ ListOK(r) /\ SameBox(ecb, r) /\ r.pmail = ecb.pmail
      /\ r.waits = [ecb.waits EXCEPT ![t] = TRUE]
      /\ r.delay = [ecb.delay EXCEPT ![t] = timed] /\ r \in EventBlocks
  BY <1>4, ListFacts DEF Joins
<1>9. /\ BoxOK(r) /\ Box(r) = Box(ecb) /\ (Full(r) <=> Full(ecb))
      /\ r.type = ecb.type /\ r.cnt = ecb.cnt
  BY <1>2, <1>8, SameBoxKeeps DEF SameBox
<1>10. MailOK(r, due)
  BY <1>8, <1>9, IInvFacts DEF MailOK
<1>11. \A u \in Tasks \ {t} :
         r.waits[u] = ecb.waits[u] /\ r.delay[u] = ecb.delay[u]
  BY <1>2, <1>8, ListFacts
<1>12. r.delay[t] = timed
  BY <1>2, <1>8, ListFacts
<1>13. /\ ecb.type # "INVALID"
       /\ \A u \in Tasks : pc'[u] # "release"
  BY <1>1, <1>2, <1>7, NoDeleter DEF Callers
<1>14. ASSUME NEW u \in Tasks
       PROVE  /\ r.waits[u] => pc'[u] = "blocked" /\ r.pmail[u] = NONE
              /\ r.pmail[u] # NONE => pc'[u] = "blocked"
              /\ r.delay[u] => call[u].timed
  <2>1. CASE u = t
    BY <1>2, <1>7, <1>8, <1>12, <2>1 DEF timed
  <2>2. CASE u # t
    BY <1>7, <1>8, <1>11, <2>2 DEF Callers
  <2>3. QED
    BY <2>1, <2>2
<1>15. Callers(r, pc', call)
  BY <1>7, <1>9, <1>13, <1>14 DEF Callers
<1>16. Prompt(r, pc')
  <2>1. PostersYield => ecb.cnt = 0
    BY <1>1, IInvFacts DEF Prompt
  <2>2. QED
    BY <1>9, <2>1 DEF Prompt
<1>17. QED
  BY <1>1, <1>2, <1>7, <1>8, <1>9, <1>10, <1>15, <1>16, IInvFacts, Concluded DEF r

LEMMA PendReturnStep ==
  ASSUME IInv, NEW t \in Tasks, PendReturn(t), load' = load
  PROVE  IInv' /\ SameBox(ecb, ecb')
<1> DEFINE r == ecb'
           mail == [ecb.pmail EXCEPT ![t] = NONE]
           x == ecb.pmail[t]
<1>1. /\ ~ecb.waits[t] /\ pc[t] = "blocked" /\ Return(t)
      /\ sent' = sent /\ given' = given
      /\ r = [ecb EXCEPT !.pmail[t] = NONE] /\ due' = due \ {x}
  BY RunsFacts DEF PendReturn
<1>2. /\ ecb \in EventBlocks /\ ecb.pmail \in [Tasks -> Mail] /\ ~ecb.delay[t]
      /\ Callers(ecb, pc, call) /\ BoxOK(ecb) /\ ListOK(ecb) /\ MailOK(ecb, due)
      /\ pc \in [Tasks -> Labels] /\ call \in [Tasks -> MailCalls \cup {NoCall}]
  BY <1>1, AtFacts, IInvFacts, ListFacts
<1>3. r = [ecb EXCEPT !.pmail = mail]
  BY <1>1, <1>2 DEF EventBlocks
<1>4. /\ mail \in [Tasks -> Mail] /\ mail[t] = NONE
      /\ \A u \in Tasks \ {t} : mail[u] = ecb.pmail[u]
  BY <1>2, SizeFacts
<1> HIDE DEF r, mail
<1>5. r \in EventBlocks
  BY <1>2, <1>3, <1>4 DEF EventBlocks
<1>6. /\ SameBox(ecb, r) /\ r.pmail = mail /\ r.waits = ecb.waits
      /\ r.delay = ecb.delay /\ r.list = ecb.list /\ r.prev = ecb.prev
      /\ r.wild = ecb.wild
  BY <1>2, <1>3 DEF EventBlocks, SameBox
<1>7. BoxOK(r) /\ Box(r) = Box(ecb) /\ (Full(r) <=> Full(ecb)) /\ r.type = ecb.type
      /\ r.cnt = ecb.cnt
  BY <1>2, <1>5, <1>6, SameBoxKeeps DEF SameBox
<1>8. ListOK(r)
  BY <1>2, <1>5, <1>6 DEF ListOK
<1>9. MailOK(r, due \ {x})
  <2>1. due = {ecb.pmail[u] : u \in Tasks} \ {NONE}
    BY <1>2 DEF MailOK
  <2>2. \A u \in Tasks \ {t} : ecb.pmail[u] # NONE => ecb.pmail[u] # x
    BY <1>2 DEF MailOK
  <2>3. due \ {x} = {mail[u] : u \in Tasks} \ {NONE}
    <3>1. ASSUME NEW y \in due \ {x} PROVE y \in {mail[u] : u \in Tasks} \ {NONE}
      BY <1>4, <2>1, <3>1
    <3>2. ASSUME NEW y \in {mail[u] : u \in Tasks} \ {NONE} PROVE y \in due \ {x}
      BY <1>4, <2>1, <2>2, <3>2
    <3>3. QED
      BY <3>1, <3>2
  <2>4. \A u, v \in Tasks : mail[u] # NONE /\ mail[u] = mail[v] => u = v
    BY <1>2, <1>4 DEF MailOK
  <2>5. \A i \in 1 .. Len(Box(r)) : Box(r)[i] \notin due \ {x}
    BY <1>2, <1>7 DEF MailOK
  <2>6. QED
    BY <1>6, <2>3, <2>4, <2>5 DEF MailOK
<1>10. \A u \in Tasks : r.pmail[u] # NONE => r.pmail[u] = ecb.pmail[u]
  BY <1>4, <1>6
<1>11. \A u \in Tasks : ecb.pmail[u] = NONE => r.pmail[u] = NONE
  BY <1>4, <1>6
<1>12. Callers(r, pc, call)
  BY <1>2, <1>6, <1>7, <1>10, <1>11 DEF Callers
<1>13. /\ "user" \in Labels /\ NoCall.op = OpOf("user")
       /\ pc' = [pc EXCEPT ![t] = "user"] /\ call' = [call EXCEPT ![t] = NoCall]
  BY <1>1 DEF Return, Labels, OpOf, NoCall
<1>14. Callers(r, [pc EXCEPT ![t] = "user"], [call EXCEPT ![t] = NoCall])
  BY <1>1, <1>2, <1>4, <1>6, <1>12, <1>13, MoveCallers
<1>15. /\ pc' \in [Tasks -> Labels] /\ call' \in [Tasks -> MailCalls \cup {NoCall}]
       /\ \A u \in Tasks : pc'[u] = "gap" => pc[u] = "gap"
  BY <1>2, <1>13
<1>16. Prompt(r, pc')
  BY <1>6, <1>7, <1>15, IInvFacts, StillPrompt
<1>17. QED
  BY <1>1, <1>6, <1>7, <1>8, <1>9, <1>13, <1>14, <1>15, <1>16, IInvFacts,
     Concluded DEF r

LEMMA TimeoutStep ==
  ASSUME IInv, NEW t \in Tasks, Timeout(t), load' = load
  PROVE  IInv' /\ SameBox(ecb, ecb')
<1> DEFINE r == ecb'
<1>1. ecb.delay[t] /\ r = TimeDispose(ecb, t) /\ UNCHANGED <<pc, call, sent, given, due>>
  BY DEF Timeout
<1>2. /\ Callers(ecb, pc, call) /\ BoxOK(ecb) /\ ListOK(ecb) /\ MailOK(ecb, due)
      /\ pc \in [Tasks -> Labels] /\ call \in [Tasks -> MailCalls \cup {NoCall}]
  BY IInvFacts
<1>3. /\ ecb.waits[t] /\ ecb.waits \in [Tasks -> BOOLEAN]
      /\ ecb.delay \in [Tasks -> BOOLEAN]
  BY <1>1, <1>2, ListFacts
<1>4. Leaves(ecb, r, t)
  BY <1>1, <1>2, <1>3, DisposeLeaves
<1> HIDE DEF r
<1>5. /\ ListOK(r) /\ SameBox(ecb, r) /\ r.pmail = ecb.pmail /\ ecb.list # <<>>
      /\ r.waits = [ecb.waits EXCEPT ![t] = FALSE]
      /\ r.delay = [ecb.delay EXCEPT ![t] = FALSE] /\ r \in EventBlocks
  BY <1>4, ListFacts DEF Leaves
<1>6. /\ BoxOK(r) /\ Box(r) = Box(ecb) /\ (Full(r) <=> Full(ecb))
      /\ r.type = ecb.type /\ r.cnt = ecb.cnt
  BY <1>2, <1>5, SameBoxKeeps DEF SameBox
<1>7. MailOK(r, due)
  BY <1>2, <1>5, <1>6 DEF MailOK
<1>8. \A u \in Tasks : (r.waits[u] => ecb.waits[u]) /\ (r.delay[u] => ecb.delay[u])
  BY <1>3, <1>5
<1>9. ecb.type # "INVALID" /\ \A u \in Tasks : pc[u] # "release"
  BY <1>2, <1>5 DEF Callers
<1>10. Callers(r, pc, call)
  BY <1>2, <1>5, <1>6, <1>8, <1>9 DEF Callers
<1>11. Prompt(r, pc)
  BY <1>5, <1>6, IInvFacts DEF Prompt
<1>12. QED
  BY <1>1, <1>2, <1>5, <1>6, <1>7, <1>10, <1>11, IInvFacts, Concluded DEF r

-----------------------------------------------------------------------------
(* The theorems.                                                           *)

LEMMA InitIInv ==
  ASSUME Init, Disciplined
  PROVE  IInv /\ Box(ecb) = <<>>
<1> DEFINE off == [t \in Tasks |-> FALSE]
           none == [t \in Tasks |-> NONE]
           empty == [i \in Cells |-> NONE]
<1>1. /\ load \in Loads /\ load.kind \in {"MBOX", "QUEUE"}
      /\ ecb = [type |-> load.kind, list |-> <<>>, prev |-> none, waits |-> off,
                delay |-> off, pmail |-> none, wild |-> FALSE, ptr |-> NONE,
                cnt |-> 0, buf |-> empty, head |-> 0, tail |-> 0]
      /\ pc = [t \in Tasks |-> "user"] /\ call = [t \in Tasks |-> NoCall]
      /\ sent = NONE /\ given = NONE /\ due = {}
  BY LoadFacts DEF Init
<1>2. /\ off \in [Tasks -> BOOLEAN] /\ none \in [Tasks -> Tasks \cup {NONE}]
      /\ none \in [Tasks -> Mail] /\ empty \in [Cells -> Mail] /\ 0 \in Cells
      /\ \A t \in Tasks : off[t] = FALSE /\ none[t] = NONE
  BY SizeFacts DEF Cells
<1> HIDE DEF off, none, empty
<1>3. ecb \in EventBlocks
  BY <1>1, <1>2, SizeFacts, EmptySeq DEF EventBlocks
<1>4. /\ ecb.type = load.kind /\ ecb.list = <<>> /\ ecb.prev = none
      /\ ecb.waits = off /\ ecb.delay = off /\ ecb.pmail = none
      /\ ecb.wild = FALSE /\ ecb.cnt = 0 /\ ecb.head = 0 /\ ecb.tail = 0
  BY <1>1
<1>5. Box(ecb) = <<>> /\ Len(Box(ecb)) = 0
  <2>1. Len(Box(ecb)) = 0 /\ Box(ecb) \in Seq(Mail)
    BY <1>3, <1>4, SizeFacts, BoxIs
  <2>2. QED
    BY <2>1, EmptySeq
<1>6. BoxOK(ecb)
  <2>1. ecb.tail = Wrap(ecb.head + ecb.cnt) /\ ecb.cnt <= qMaxSize /\ ecb.cnt <= 1
    BY <1>4, SizeFacts DEF Wrap
  <2>2. Box(ecb) \in Seq(Messages)
    BY <1>5, EmptySeq
  <2>3. \A i, j \in 1 .. Len(Box(ecb)) : Box(ecb)[i] = Box(ecb)[j] => i = j
    BY <1>5
  <2>4. QED
    BY <1>3, <1>4, <2>1, <2>2, <2>3 DEF BoxOK
<1>7. Linked(<<>>, none) /\ Sorted(<<>>) /\ \A t : ~In(<<>>, t)
  BY <1>2, EmptySeq DEF Linked, Sorted, In
<1>8. ListOK(ecb)
  BY <1>2, <1>3, <1>4, <1>7 DEF ListOK
<1>9. MailOK(ecb, due)
  BY <1>1, <1>2, <1>4, <1>5 DEF MailOK
<1>10. NoCall.op = "none" /\ "user" \in Labels /\ OpOf("user") = "none"
  BY DEF NoCall, Labels, OpOf
<1>11. \A t \in Tasks : pc[t] = "user" /\ call[t] = NoCall
  BY <1>1
<1>12. Callers(ecb, pc, call)
  BY <1>1, <1>2, <1>4, <1>10, <1>11 DEF Callers
<1>13. Prompt(ecb, pc)
  BY <1>4 DEF Prompt
<1>14. TypeOK
  BY <1>1, <1>3, <1>4, <1>10, SizeFacts DEF TypeOK
<1>15. QED
  BY <1>5, <1>6, <1>8, <1>9, <1>12, <1>13, <1>14 DEF IInv

LEMMA StutterStep ==
  ASSUME IInv, UNCHANGED vars
  PROVE  IInv'
<1>1. /\ ecb' = ecb /\ pc' = pc /\ call' = call /\ load' = load
      /\ sent' = sent /\ given' = given /\ due' = due
  BY DEF vars
<1>2. QED
  BY <1>1, IInvFacts, Concluded

LEMMA NextIInv ==
  ASSUME IInv, [Next]_vars
  PROVE  IInv'
<1>1. CASE UNCHANGED vars
  BY <1>1, StutterStep
<1>2. CASE Next
  <2>1. load' = load
    BY <1>2 DEF Next
  <2>2. CASE load.isr /\ isr_Post
    BY <2>1, <2>2, IsrStep
  <2>3. ASSUME NEW t \in Tasks, Step(t) \/ Timeout(t)
        PROVE  IInv'
    <3>1. CASE Call(t)
      BY <2>1, <3>1, CallStep
    <3>2. CASE Create(t)
      BY <2>1, <3>2, CreateStep
    <3>3. CASE Del(t)
      BY <2>1, <3>3, DelStep
    <3>4. CASE DelRelease(t)
      BY <2>1, <3>4, DelReleaseStep
    <3>5. CASE PostTest(t)
      BY <2>1, <3>5, PostTestStep
    <3>6. CASE PostPut(t)
      BY <2>1, <3>6, PostPutStep
    <3>7. CASE AcceptMail(t)
      BY <2>1, <3>7, AcceptStep
    <3>8. CASE PendLook(t)
      BY <2>1, <3>8, PendLookStep
    <3>9. CASE PendWait(t)
      BY <2>1, <3>9, PendWaitStep
    <3>10. CASE PendReturn(t)
      BY <2>1, <3>10, PendReturnStep
    <3>11. CASE Timeout(t)
      BY <2>1, <3>11, TimeoutStep
    <3>12. QED
      BY <2>3, <3>1, <3>2, <3>3, <3>4, <3>5, <3>6, <3>7, <3>8, <3>9, <3>10,
         <3>11 DEF Step
  <2>4. QED
    BY <1>2, <2>2, <2>3 DEF Next
<1>3. QED
  BY <1>1, <1>2

\* Along every run of an application that keeps the two rules, the ring of
\* cells, the waiting list with its waitPrev links, the mail of the tasks and
\* their control points fit together.
THEOREM MailInvariant == Spec /\ Disciplined => []IInv
<1>1. Init /\ Disciplined => IInv
  BY InitIInv
<1>2. IInv /\ [Next]_vars => IInv'
  BY NextIInv
<1>3. QED
  BY <1>1, <1>2, PTL DEF Spec

\* CoOS's waiting list stays linked, sorted and free of duplicates, and holds
\* exactly the tasks that wait, through every interleaving of posts, pends,
\* deletions and time-outs.
THEOREM MailLists == Spec /\ Disciplined => []ListAgrees
<1>1. ASSUME IInv PROVE ListAgrees
  <2> DEFINE s == ecb.list
  <2>1. /\ TypeOK /\ ListOK(ecb) /\ Callers(ecb, pc, call)
    BY <1>1 DEF IInv
  <2>2. /\ s \in Seq(Tasks) /\ Linked(s, ecb.prev) /\ Sorted(s) /\ ecb.wild = FALSE
        /\ \A t \in Tasks :
             (ecb.waits[t] <=> In(s, t)) /\ (ecb.delay[t] => ecb.waits[t])
    BY <2>1, ListFacts
  <2>3. \A t \in Tasks : ecb.delay[t] => call[t].timed
    BY <2>1 DEF Callers
  <2> HIDE DEF s
  <2>4. IsInjective(s)
    BY <2>2 DEF IsInjective, Linked
  <2>5. \A t : t \in ToSet(s) <=> In(s, t)
    BY <2>2 DEF ToSet, In
  <2>6. QED
    BY <2>1, <2>2, <2>3, <2>4, <2>5 DEF ListAgrees, Sorted, s
<1>2. QED
  BY <1>1, MailInvariant, PTL

\* Mail handed to a waiting task is returned by its own call and by no other,
\* also when its time-out races the post.
THEOREM MailReturned == Spec /\ Disciplined => []ReturnedOnce
<1>1. ASSUME IInv PROVE ReturnedOnce
  <2>1. MailOK(ecb, due) /\ Callers(ecb, pc, call)
    BY <1>1 DEF IInv
  <2>2. QED
    BY <2>1 DEF MailOK, Callers, ReturnedOnce
<1>2. QED
  BY <1>1, MailInvariant, PTL

\* If posters yield to those who pend, nobody waits for mail that is there.
THEOREM MailPrompt == Spec /\ Disciplined => []NoMailWhileWaiting
<1>1. ASSUME IInv PROVE NoMailWhileWaiting
  BY <1>1 DEF IInv, Prompt, NoMailWhileWaiting
<1>2. QED
  BY <1>1, MailInvariant, PTL

-----------------------------------------------------------------------------
(* A mailbox or queue implements the bounded FIFO channel.                 *)

Capacity == IF load.kind = "MBOX" THEN 1 ELSE qMaxSize

\* What a step may do to the box.
Forwards(m) ==
  /\ ecb.type # "INVALID" /\ ecb'.type = ecb.type
  /\ m \in Messages /\ ~In(Box(ecb), m) /\ Len(Box(ecb)) < Capacity
  /\ m # sent /\ m # given /\ sent' = m
  /\ \/ Box(ecb') = Append(Box(ecb), m) /\ given' = given
     \/ /\ Box(ecb') = Tail(Append(Box(ecb), m))
        /\ given' = Head(Append(Box(ecb), m))

Takes ==
  /\ ecb.type # "INVALID" /\ ecb'.type = ecb.type /\ sent' = sent
  /\ Box(ecb) # <<>> /\ given' = Head(Box(ecb)) /\ Box(ecb') = Tail(Box(ecb))

Rests == Box(ecb') = Box(ecb) /\ ecb'.type = ecb.type

Creates ==
  ecb.type = "INVALID" /\ ecb'.type # "INVALID" /\ Box(ecb') = Box(ecb)

Deletes ==
  ecb.type # "INVALID" /\ ecb'.type = "INVALID" /\ Box(ecb') = <<>>

Quiet == sent' = sent /\ given' = given

BoxStep ==
  Takes \/ (\E m : Forwards(m)) \/ (Quiet /\ (Rests \/ Creates \/ Deletes))

LEMMA AcceptForwards ==
  ASSUME IInv, NEW m, Accepted(m), ~Full(ecb), ecb.type # "INVALID"
  PROVE  BoxStep
<1>1. Len(Box(ecb)) < Capacity
  <2>1. /\ BoxOK(ecb) /\ ecb.cnt \in Nat /\ Len(Box(ecb)) = ecb.cnt
        /\ ecb.type = load.kind /\ load.kind \in {"MBOX", "QUEUE"}
    BY IInvFacts, BoxLen
  <2>2. CASE load.kind = "MBOX"
    <3>1. ecb.cnt = 0 /\ Capacity = 1
      BY <2>1, <2>2 DEF Full, Capacity
    <3>2. QED
      BY <2>1, <3>1
  <2>3. CASE load.kind = "QUEUE"
    <3>1. ecb.cnt # qMaxSize /\ Capacity = qMaxSize /\ ecb.cnt <= qMaxSize
      BY <2>1, <2>3 DEF Full, Capacity, BoxOK
    <3>2. QED
      BY <2>1, <3>1, SizeFacts
  <2>4. QED
    BY <2>1, <2>2, <2>3
<1>2. Forwards(m)
  BY <1>1 DEF Accepted, Kept, Handed, Forwards
<1>3. QED
  BY <1>2 DEF BoxStep

LEMMA SameBoxStep ==
  ASSUME IInv, IInv', Quiet, SameBox(ecb, ecb')
  PROVE  BoxStep
<1>1. BoxOK(ecb) /\ ecb' \in EventBlocks
  BY IInvFacts DEF IInv, TypeOK
<1>2. Box(ecb') = Box(ecb) /\ ecb'.type = ecb.type
  BY <1>1, SameBoxKeeps DEF SameBox
<1>3. QED
  BY <1>2 DEF BoxStep, Rests

LEMMA TakeBoxStep ==
  ASSUME IInv, ecb.cnt # 0, TakeOldest
  PROVE  BoxStep
<1>1. ecb' = Drop(ecb) /\ given' = Oldest(ecb) /\ sent' = sent
  BY DEF TakeOldest
<1>2. ecb.type # "INVALID"
  BY IInvFacts DEF BoxOK
<1>3. Takes
  BY <1>1, <1>2, IInvFacts, DropBox DEF Takes
<1>4. QED
  BY <1>3 DEF BoxStep

LEMMA NextBoxStep ==
  ASSUME IInv, [Next]_vars
  PROVE  BoxStep /\ load' = load
<1>0. IInv'
  BY NextIInv
<1>1. CASE UNCHANGED vars
  BY <1>1 DEF vars, BoxStep, Quiet, Rests
<1>2. CASE Next
  <2>1. load' = load
    BY <1>2 DEF Next
  <2>2. CASE load.isr /\ isr_Post
    BY <2>1, <2>2, IsrStep, AcceptForwards
  <2>3. ASSUME NEW t \in Tasks, Step(t) \/ Timeout(t)
        PROVE  BoxStep
    <3>0. ASSUME UNCHANGED <<ecb, sent, given>> PROVE BoxStep
      BY <3>0 DEF BoxStep, Quiet, Rests
    <3>1. CASE Call(t)
      BY <3>0, <3>1 DEF Call
    <3>2. CASE Create(t)
      <4>1. CASE ecb.type # "INVALID"
        BY <3>0, <3>2, <4>1 DEF Create
      <4>2. CASE ecb.type = "INVALID"
        <5> DEFINE e == [ecb EXCEPT !.type = load.kind, !.list = <<>>]
        <5>1. ecb' = Fresh(e) /\ Quiet
          BY <3>2, <4>2 DEF Create, Quiet
        <5>2. e \in EventBlocks /\ e.type = load.kind
          BY IInvFacts, EmptySeq DEF EventBlocks
        <5> HIDE DEF e
        <5>3. Box(ecb') = <<>> /\ ecb'.type = load.kind
          BY <5>1, <5>2, FreshBox
        <5>4. Box(ecb) = <<>> /\ load.kind # "INVALID"
          BY <4>2, IInvFacts, BoxLen DEF BoxOK
        <5>5. QED
          BY <4>2, <5>1, <5>3, <5>4 DEF BoxStep, Creates
      <4>3. QED
        BY <4>1, <4>2
    <3>3. CASE Del(t)
      <4>1. Quiet /\ (ecb' = ecb \/ SameBox(ecb, ecb'))
        BY <2>1, <3>3, DelStep DEF Del, Quiet
      <4>2. QED
        BY <1>0, <3>0, <4>1, SameBoxStep DEF Quiet
    <3>4. CASE DelRelease(t)
      <4> DEFINE e == [ecb EXCEPT !.type = "INVALID"]
      <4>1. ecb' = Fresh(e) /\ Quiet /\ pc[t] = "release"
        BY <3>4 DEF DelRelease, Quiet, At
      <4>2. e \in EventBlocks /\ e.type = "INVALID"
        BY IInvFacts DEF EventBlocks
      <4> HIDE DEF e
      <4>3. Box(ecb') = <<>> /\ ecb'.type = "INVALID"
        BY <4>1, <4>2, FreshBox
      <4>4. ecb.type # "INVALID"
        BY <4>1, IInvFacts DEF Callers
      <4>5. QED
        BY <4>1, <4>3, <4>4 DEF BoxStep, Deletes
    <3>5. CASE PostTest(t)
      BY <3>0, <3>5 DEF PostTest
    <3>6. CASE PostPut(t)
      BY <2>1, <3>6, PostPutStep, AcceptForwards
    <3>7. CASE AcceptMail(t)
      BY <3>0, <3>7, TakeBoxStep DEF AcceptMail
    <3>8. CASE PendLook(t)
      BY <3>0, <3>8, TakeBoxStep DEF PendLook
    <3>9. CASE PendWait(t)
      <4>1. Quiet /\ SameBox(ecb, ecb')
        BY <2>1, <3>9, PendWaitStep DEF PendWait, Quiet
      <4>2. QED
        BY <1>0, <4>1, SameBoxStep
    <3>10. CASE PendReturn(t)
      <4>1. Quiet /\ SameBox(ecb, ecb')
        BY <2>1, <3>10, PendReturnStep DEF PendReturn, Quiet
      <4>2. QED
        BY <1>0, <4>1, SameBoxStep
    <3>11. CASE Timeout(t)
      <4>1. Quiet /\ SameBox(ecb, ecb')
        BY <2>1, <3>11, TimeoutStep DEF Timeout, Quiet
      <4>2. QED
        BY <1>0, <4>1, SameBoxStep
    <3>12. QED
      BY <2>3, <3>1, <3>2, <3>3, <3>4, <3>5, <3>6, <3>7, <3>8, <3>9, <3>10,
         <3>11 DEF Step
  <2>4. QED
    BY <1>2, <2>1, <2>2, <2>3 DEF Next
<1>3. QED
  BY <1>1, <1>2 DEF vars

\* A mailbox or queue is a bounded FIFO channel: every step of every task,
\* interrupt and time-out sends, forwards or receives, in order, creates or
\* deletes the channel, or leaves it alone.
THEOREM MailImplementsFifo == Spec /\ Disciplined => ImplementsFifo
<1> DEFINE exists == ecb.type # "INVALID"
<1>1. ASSUME Init, Disciplined PROVE Abstract!Init
  <2>1. Box(ecb) = <<>> /\ sent = NONE /\ given = NONE /\ load \in Loads
    BY <1>1, InitIInv DEF Init
  <2>2. (IF load.kind = "MBOX" THEN 1 ELSE qMaxSize) \in Nat \ {0}
    BY SizeFacts
  <2>3. QED
    BY <2>1, <2>2, SizeFacts DEF Abstract!Init
<1>2. ASSUME IInv, [Next]_vars PROVE [Abstract!Next]_(Abstract!vars)
  <2>1. BoxStep /\ load' = load
    BY <1>2, NextBoxStep
  <2>2. /\ Box(ecb) \in Seq(Messages)
        /\ \A m : m \in Abstract!ToSet(Box(ecb)) => In(Box(ecb), m)
    BY <1>2, IInvFacts, BoxLen DEF In, Abstract!ToSet
  <2>3. UNCHANGED (IF load.kind = "MBOX" THEN 1 ELSE qMaxSize)
    BY <2>1
  <2>4. CASE Takes
    <3>1. exists /\ UNCHANGED exists
      BY <2>4 DEF Takes
    <3>2. Abstract!Receive
      BY <2>4, <3>1 DEF Takes, Abstract!Receive
    <3>3. QED
      BY <2>3, <3>2 DEF Abstract!Next
  <2>5. CASE \E m : Forwards(m)
    <3>1. PICK m : Forwards(m)
      BY <2>5
    <3>2. exists /\ UNCHANGED exists /\ m \in Messages
      BY <3>1 DEF Forwards
    <3>3. Abstract!Accept(m)
      BY <2>2, <3>1, <3>2 DEF Forwards, Capacity, Abstract!Accept
    <3>4. Abstract!Send(m) \/ Abstract!Forward(m)
      BY <3>1, <3>2, <3>3 DEF Forwards, Abstract!Send, Abstract!Forward
    <3>5. QED
      BY <2>3, <3>2, <3>4 DEF Abstract!Next
  <2>6. CASE Quiet /\ Deletes
    <3>1. Abstract!Delete
      BY <2>6 DEF Quiet, Deletes, Abstract!Delete
    <3>2. QED
      BY <2>3, <3>1 DEF Abstract!Next
  <2>7. CASE Quiet /\ Creates
    <3>1. Abstract!Create
      BY <2>7 DEF Quiet, Creates, Abstract!Create
    <3>2. QED
      BY <2>3, <3>1 DEF Abstract!Next
  <2>8. CASE Quiet /\ Rests
    BY <2>3, <2>8 DEF Quiet, Rests, Abstract!vars
  <2>9. QED
    BY <2>1, <2>4, <2>5, <2>6, <2>7, <2>8 DEF BoxStep
<1>3. QED
  BY <1>1, <1>2, MailInvariant, PTL DEF Spec, ImplementsFifo, Abstract!Spec

=============================================================================
