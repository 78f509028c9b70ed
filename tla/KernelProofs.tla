---------------------------- MODULE KernelProofs ----------------------------
(***************************************************************************)
(* Two parts of the CoOS kernel that share nothing.                        *)
(*                                                                         *)
(* Mutexes: for every number of tasks and every choice of priorities, a    *)
(* mutex excludes, loses no waiter, inverts no priority and leaves nobody  *)
(* less urgent, as long as no task is deleted while it is in use.          *)
(*                                                                         *)
(* Heap: for every size of the heap and every sequence of requests and     *)
(* releases, what is handed out is left alone and handed out once, the     *)
(* three lists through the heap agree, and the heap is a first-fit heap.   *)
(***************************************************************************)
EXTENDS CoMutex, KernelHeap, FiniteSetTheorems, SequenceTheorems, DataFacts

-----------------------------------------------------------------------------
(* Mutexes: the invariant.                                                 *)

\* CoDelTask is not called: RemoveMutexList can corrupt the waiting list.
NoDeletion == cast.deletable = {}

\* The waiting list is the tasks that wait, each once.
Linked(s) ==
  /\ \A t \in Tasks : s.state[t] = "WAITING" <=> In(s.list, t)
  /\ \A i, j \in 1 .. Len(s.list) : s.list[i] = s.list[j] => i = j
  /\ ~s.corrupt

\* mutexID says who owns the mutex or waits for it.
Members(s) ==
  /\ \A t \in Tasks : s.mutexID[t] <=> s.owner = t \/ s.state[t] = "WAITING"
  /\ s.owner # NONE => s.state[s.owner] \in {"READY", "SLEEPING"}
  /\ \A t \in Tasks : s.state[t] = "WAITING" => s.owner # NONE

\* The owner is at least as urgent as it was when it came, and as every task
\* that waits.
Promoted(s) ==
  /\ s.owner # NONE => s.orig \in Priorities /\ s.prio[s.owner] <= s.orig
  /\ \A t \in Tasks : s.state[t] = "WAITING" => s.prio[s.owner] <= s.prio[t]

\* Every task is as urgent as it was created, and the owner was when it came.
Kept(s) ==
  /\ \A t \in Tasks : s.prio[t] <= Prio[t]
  /\ s.owner # NONE => s.orig <= Prio[s.owner]

KInv(s) ==
  s \in Kernels /\ Linked(s) /\ Members(s) /\ Promoted(s) /\ Kept(s)

IInv ==
  /\ TypeOK /\ NoDeletion /\ KInv(k)
  /\ \A t \in Tasks : (inside[t] <=> k.mutexID[t]) /\ del[t] = NONE

-----------------------------------------------------------------------------
(* The loop over the waiting list.                                         *)

\* It finds a lower bound of the priorities in the list.
LEMMA UrgentFacts ==
  ASSUME NEW prio \in [Tasks -> Priorities], NEW q \in Seq(Tasks),
         NEW p \in Priorities, NEW h
  PROVE  /\ Urgent(prio, q, p, h).prio \in Priorities
         /\ Urgent(prio, q, p, h).prio <= p
         /\ \A i \in 1 .. Len(q) : Urgent(prio, q, p, h).prio <= prio[q[i]]
         /\ Urgent(prio, q, p, h).task \in Tasks \cup {h}
<1> DEFINE better == {i \in 1 .. Len(q) : prio[q[i]] < p}
           Best(i) == \A j \in better :
             prio[q[i]] < prio[q[j]] \/ (prio[q[i]] = prio[q[j]] /\ i <= j)
           best == CHOOSE i \in better : Best(i)
<1>0. \A i \in 1 .. Len(q) : q[i] \in Tasks /\ prio[q[i]] \in Priorities
  OBVIOUS
<1>1. Priorities \subseteq Nat
  BY DEF Priorities, CFG_LOWEST_PRIO
<1>2. CASE better = {}
  <2>1. Urgent(prio, q, p, h) = [prio |-> p, task |-> h]
    BY <1>2 DEF Urgent
  <2>2. ASSUME NEW i \in 1 .. Len(q) PROVE p <= prio[q[i]]
    <3>1. ~(prio[q[i]] < p)
      BY <1>2
    <3>2. p \in Nat /\ prio[q[i]] \in Nat
      BY <1>0, <1>1
    <3>3. QED
      BY <3>1, <3>2
  <2>3. p <= p
    BY <1>1
  <2>4. QED
    BY <2>1, <2>2, <2>3
<1>3. CASE better # {}
  <2>1. \E i \in better : Best(i)
    <3> DEFINE values == {prio[q[i]] : i \in better}
    <3>1. values \in SUBSET Nat /\ values # {}
      BY <1>0, <1>1, <1>3
    <3>2. PICK m \in values : \A v \in values : m <= v
      <4> HIDE DEF values
      <4>1. QED
        BY <3>1, LeastNat
    <3> DEFINE at == {i \in better : prio[q[i]] = m}
    <3>3. at \in SUBSET Nat /\ at # {}
      BY <3>2
    <3>4. PICK n \in at : \A j \in at : n <= j
      <4> HIDE DEF at
      <4>1. QED
        BY <3>3, LeastNat
    <3>5. ASSUME NEW j \in better
          PROVE  prio[q[n]] < prio[q[j]] \/ (prio[q[n]] = prio[q[j]] /\ n <= j)
      <4>1. prio[q[n]] = m /\ m <= prio[q[j]] /\ m \in Nat /\ prio[q[j]] \in Nat
        BY <1>0, <1>1, <3>1, <3>2, <3>4, <3>5
      <4>2. CASE prio[q[j]] = m
        BY <3>4, <4>1, <4>2
      <4>3. CASE prio[q[j]] # m
        BY <4>1, <4>3
      <4>4. QED
        BY <4>2, <4>3
    <3>6. QED
      BY <3>4, <3>5
  <2>2. best \in better /\ Best(best)
    <3> HIDE DEF better, Best
    <3>1. QED
      BY <2>1
  <2>3. Urgent(prio, q, p, h) = [prio |-> prio[q[best]], task |-> q[best]]
    BY <1>3 DEF Urgent
  <2> HIDE DEF best
  <2>4. best \in 1 .. Len(q) /\ prio[q[best]] < p
    BY <2>2
  <2>5. ASSUME NEW i \in 1 .. Len(q) PROVE prio[q[best]] <= prio[q[i]]
    <3>1. /\ p \in Nat /\ prio[q[i]] \in Nat /\ prio[q[best]] \in Nat
      BY <1>0, <1>1, <2>4
    <3>2. CASE i \in better
      BY <2>2, <3>1, <3>2
    <3>3. CASE i \notin better
      BY <2>4, <3>1, <3>3
    <3>4. QED
      BY <3>2, <3>3
  <2>6. prio[q[best]] <= p
    <3>1. p \in Nat /\ prio[q[best]] \in Nat
      BY <1>0, <1>1, <2>4
    <3>2. QED
      BY <2>4, <3>1
  <2>7. /\ Urgent(prio, q, p, h).prio = prio[q[best]]
        /\ Urgent(prio, q, p, h).task = q[best]
    BY <2>3
  <2>8. q[best] \in Tasks /\ prio[q[best]] \in Priorities
    BY <1>0, <2>4
  <2>9. QED
    BY <2>5, <2>6, <2>7, <2>8
<1>4. QED
  BY <1>2, <1>3

-----------------------------------------------------------------------------
(* Entering and leaving.                                                   *)

LEMMA NatPriorities == Priorities \subseteq Nat
BY DEF Priorities, CFG_LOWEST_PRIO

\* A task that is neither owner nor waiter enters or joins the list.
LEMMA EnterKeeps ==
  ASSUME NEW s, KInv(s), NEW t \in Tasks, s.state[t] = "READY", ~s.mutexID[t]
  PROVE  /\ KInv(CoEnterMutexSection(s, t))
         /\ CoEnterMutexSection(s, t).mutexID = [s.mutexID EXCEPT ![t] = TRUE]
<1> DEFINE r == CoEnterMutexSection(s, t)
           o == s.owner
           last == IF s.list = <<>> THEN NONE ELSE s.list[Len(s.list)]
           queued == [s EXCEPT !.state[t] = "WAITING", !.list = Append(@, t),
                               !.mutexID[t] = TRUE, !.prev[t] = last]
<1>1. /\ s \in Kernels /\ s.prio \in [Tasks -> Priorities]
      /\ Linked(s) /\ Members(s) /\ Promoted(s) /\ Kept(s) /\ t # NONE
      /\ o \in Tasks \cup {NONE} /\ s.list \in Seq(Tasks)
      /\ s.state \in [Tasks -> States] /\ s.mutexID \in [Tasks -> BOOLEAN]
      /\ s.prev \in [Tasks -> Tasks \cup {NONE}]
  BY TaskAssumption DEF KInv, Kernels
<1>2. \A u \in Tasks : s.prio[u] \in Nat
  BY <1>1, NatPriorities
<1>3. CASE o = NONE
  <2>1. r = [s EXCEPT !.mutexID[t] = TRUE, !.orig = s.prio[t], !.owner = t,
                      !.hipri = t]
    BY <1>3 DEF CoEnterMutexSection
  <2>2. r = [s EXCEPT !.mutexID = [s.mutexID EXCEPT ![t] = TRUE],
                      !.orig = s.prio[t], !.owner = t, !.hipri = t]
    BY <1>1, <2>1 DEF Kernels
  <2> HIDE DEF r
  <2>3. r \in Kernels
    <3>1. /\ [s.mutexID EXCEPT ![t] = TRUE] \in [Tasks -> BOOLEAN]
          /\ s.prio[t] \in Priorities \cup {255} /\ s \in Kernels
      BY <1>1
    <3> DEFINE on == [s.mutexID EXCEPT ![t] = TRUE]
    <3>2. on \in [Tasks -> BOOLEAN] /\ r = [s EXCEPT !.mutexID = on,
             !.orig = s.prio[t], !.owner = t, !.hipri = t]
      BY <2>2, <3>1
    <3> HIDE DEF on
    <3>3. QED
      BY <3>1, <3>2 DEF Kernels
  <2>4. /\ r.mutexID = [s.mutexID EXCEPT ![t] = TRUE] /\ r.orig = s.prio[t]
        /\ r.owner = t /\ r.state = s.state /\ r.list = s.list
        /\ r.prio = s.prio /\ r.corrupt = s.corrupt
    BY <1>1, <2>2 DEF Kernels
  <2>5. Linked(r)
    BY <1>1, <2>4 DEF Linked
  <2>6. \A u \in Tasks : s.state[u] # "WAITING"
    BY <1>1, <1>3 DEF Members
  <2>7. Members(r)
    <3>1. \A u \in Tasks : s.mutexID[u] = FALSE
      BY <1>1, <1>3, <2>6, TaskAssumption DEF Members
    <3>2. \A u \in Tasks : r.mutexID[u] <=> u = t
      BY <1>1, <2>4, <3>1
    <3>3. QED
      BY <2>4, <2>6, <3>2 DEF Members
  <2>8. s.prio[t] <= s.prio[t] /\ s.prio[t] \in Priorities
    BY <1>1, <1>2
  <2>9. Promoted(r)
    BY <2>4, <2>6, <2>8 DEF Promoted
  <2>10. Kept(r)
    BY <1>1, <2>4 DEF Kept
  <2>11. QED
    BY <2>3, <2>4, <2>5, <2>7, <2>9, <2>10 DEF KInv, r
<1>4. CASE o # NONE
  <2>1. queued = [s EXCEPT !.state = [s.state EXCEPT ![t] = "WAITING"],
                           !.list = Append(s.list, t),
                           !.mutexID = [s.mutexID EXCEPT ![t] = TRUE],
                           !.prev = [s.prev EXCEPT ![t] = last]]
    BY <1>1 DEF Kernels
  <2>2. last \in Tasks \cup {NONE} /\ Append(s.list, t) \in Seq(Tasks)
    BY <1>1, EmptySeq
  <2>3. r = IF s.prio[o] > s.prio[t]
            THEN [queued EXCEPT !.prio[o] = s.prio[t], !.hipri = t] ELSE queued
    BY <1>4 DEF CoEnterMutexSection
  <2> HIDE DEF queued, last, r
  <2>4. /\ queued \in Kernels
        /\ queued.state = [s.state EXCEPT ![t] = "WAITING"]
        /\ queued.list = Append(s.list, t)
        /\ queued.mutexID = [s.mutexID EXCEPT ![t] = TRUE]
    BY <1>1, <2>1, <2>2 DEF Kernels, States
  <2>5. /\ queued.prio = s.prio /\ queued.orig = s.orig /\ queued.owner = o
        /\ queued.corrupt = s.corrupt
    BY <1>1, <2>1 DEF Kernels
  <2>6. o \in Tasks /\ o # t /\ s.mutexID[o]
    BY <1>1, <1>4 DEF Members
  <2>7. ~In(s.list, t)
    BY <1>1 DEF Linked
  <2>8. Linked(queued)
    <3>1. \A u \in Tasks : In(Append(s.list, t), u) <=> In(s.list, u) \/ u = t
      BY <1>1 DEF In
    <3>2. \A i, j \in 1 .. Len(Append(s.list, t)) :
            Append(s.list, t)[i] = Append(s.list, t)[j] => i = j
      <4>1. \A i \in 1 .. Len(s.list) : s.list[i] # t
        BY <2>7 DEF In
      <4>2. /\ Len(Append(s.list, t)) = Len(s.list) + 1 /\ Len(s.list) \in Nat
            /\ \A i \in 1 .. Len(s.list) : Append(s.list, t)[i] = s.list[i]
            /\ Append(s.list, t)[Len(s.list) + 1] = t
        BY <1>1
      <4>3. \A i, j \in 1 .. Len(s.list) : s.list[i] = s.list[j] => i = j
        BY <1>1 DEF Linked
      <4>4. \A i \in 1 .. Len(s.list) + 1 :
              i \in 1 .. Len(s.list) \/ i = Len(s.list) + 1
        BY <4>2
      <4>5. QED
        BY <4>1, <4>2, <4>3, <4>4
    <3>3. \A u \in Tasks : queued.state[u] = "WAITING" <=> In(queued.list, u)
      BY <1>1, <2>4, <3>1 DEF Linked
    <3>4. QED
      BY <1>1, <2>4, <2>5, <3>2, <3>3 DEF Linked
  <2>9. Members(queued)
    BY <1>1, <1>4, <2>4, <2>5, <2>6 DEF Members
  <2>10. /\ r \in Kernels /\ r.state = queued.state /\ r.list = queued.list
         /\ r.mutexID = queued.mutexID /\ r.owner = o
         /\ r.corrupt = queued.corrupt /\ r.orig = s.orig
         /\ r.prio = IF s.prio[o] > s.prio[t] THEN [s.prio EXCEPT ![o] = s.prio[t]]
                     ELSE s.prio
    <3>1. CASE s.prio[o] > s.prio[t]
      <4>1. r = [queued EXCEPT !.prio = [s.prio EXCEPT ![o] = s.prio[t]],
                               !.hipri = t]
        BY <2>3, <2>4, <2>5, <3>1 DEF Kernels
      <4>2. [s.prio EXCEPT ![o] = s.prio[t]] \in [Tasks -> Priorities]
        BY <1>1, <2>6
      <4> DEFINE up == [s.prio EXCEPT ![o] = s.prio[t]]
      <4>3. /\ up \in [Tasks -> Priorities] /\ t \in Tasks \cup {NONE}
            /\ r = [queued EXCEPT !.prio = up, !.hipri = t]
            /\ queued \in Kernels /\ queued.owner = o /\ queued.orig = s.orig
        BY <2>4, <2>5, <4>1, <4>2
      <4> HIDE DEF up
      <4>4. /\ r \in Kernels /\ r.state = queued.state /\ r.list = queued.list
            /\ r.mutexID = queued.mutexID /\ r.owner = queued.owner
            /\ r.corrupt = queued.corrupt /\ r.orig = queued.orig /\ r.prio = up
        BY <4>3 DEF Kernels
      <4>5. QED
        BY <3>1, <4>3, <4>4 DEF up
    <3>2. CASE ~(s.prio[o] > s.prio[t])
      BY <2>3, <2>4, <2>5, <3>2
    <3>3. QED
      BY <3>1, <3>2
  <2>11. Linked(r) /\ Members(r)
    BY <2>5, <2>8, <2>9, <2>10 DEF Linked, Members
  <2>12. /\ r.prio[o] <= s.prio[o] /\ r.prio[o] <= s.prio[t] /\ r.prio[o] \in Nat
         /\ \A u \in Tasks \ {o} : r.prio[u] = s.prio[u]
    BY <1>1, <1>2, <2>6, <2>10
  <2>13. s.orig \in Priorities /\ s.prio[o] <= s.orig
    BY <1>1, <1>4 DEF Promoted
  <2>14. r.prio[o] <= s.orig
    <3>1. s.orig \in Nat /\ s.prio[o] \in Nat
      BY <1>2, <2>6, <2>13, NatPriorities
    <3>2. QED
      BY <2>12, <2>13, <3>1
  <2>15. ASSUME NEW w \in Tasks, r.state[w] = "WAITING"
         PROVE  r.prio[o] <= r.prio[w]
    <3>1. w # o
      BY <1>1, <1>4, <2>4, <2>6, <2>10, <2>15 DEF Members
    <3>2. r.prio[w] = s.prio[w]
      BY <2>12, <3>1
    <3>3. CASE w = t
      BY <2>12, <3>2, <3>3
    <3>4. CASE w # t
      <4>1. s.prio[o] <= s.prio[w]
        BY <1>1, <2>4, <2>10, <2>15, <3>4 DEF Promoted
      <4>2. QED
        BY <1>2, <2>6, <2>12, <3>2, <4>1
    <3>5. QED
      BY <3>3, <3>4
  <2>16. Promoted(r)
    BY <2>10, <2>13, <2>14, <2>15 DEF Promoted
  <2>17. ASSUME NEW u \in Tasks PROVE r.prio[u] <= Prio[u]
    <3>1. s.prio[u] <= Prio[u] /\ r.prio[u] <= s.prio[u] /\ r.prio[u] \in Nat
      BY <1>1, <1>2, <2>12 DEF Kept
    <3>2. Prio[u] \in Nat /\ s.prio[u] \in Nat
      BY <1>2, TaskAssumption, NatPriorities
    <3>3. QED
      BY <3>1, <3>2
  <2>18. Kept(r)
    BY <1>1, <1>4, <2>10, <2>17 DEF Kept
  <2>19. QED
    BY <2>4, <2>10, <2>11, <2>16, <2>18 DEF KInv, r
<1>5. QED
  BY <1>3, <1>4

\* Taking off the head of the list leaves the others in it, each once.
LEMMA TailLinked ==
  ASSUME NEW q \in Seq(Tasks), q # <<>>,
         \A i, j \in 1 .. Len(q) : q[i] = q[j] => i = j
  PROVE  /\ Tail(q) \in Seq(Tasks) /\ Head(q) \in Tasks /\ In(q, Head(q))
         /\ \A u : In(Tail(q), u) <=> In(q, u) /\ u # Head(q)
         /\ \A i, j \in 1 .. Len(Tail(q)) : Tail(q)[i] = Tail(q)[j] => i = j
<1>1. Len(q) \in Nat \ {0}
  BY EmptySeq
<1>2. /\ Tail(q) \in Seq(Tasks) /\ Len(Tail(q)) = Len(q) - 1 /\ Head(q) = q[1]
      /\ \A i \in 1 .. Len(q) - 1 : Tail(q)[i] = q[i + 1]
  OBVIOUS
<1>3. 1 \in 1 .. Len(q) /\ q[1] \in Tasks
  BY <1>1
<1>4. \A i \in 1 .. Len(q) - 1 : i + 1 \in 1 .. Len(q) /\ i + 1 # 1
  BY <1>1
<1>5. ASSUME NEW u PROVE In(Tail(q), u) <=> In(q, u) /\ u # Head(q)
  <2>1. In(Tail(q), u) => In(q, u) /\ u # Head(q)
    BY <1>2, <1>3, <1>4 DEF In
  <2>2. ASSUME In(q, u), u # Head(q) PROVE In(Tail(q), u)
    <3>1. PICK i \in 1 .. Len(q) : q[i] = u
      BY <2>2 DEF In
    <3>2. i # 1
      BY <1>2, <2>2, <3>1
    <3>3. i - 1 \in 1 .. Len(q) - 1 /\ (i - 1) + 1 = i
      BY <1>1, <3>2
    <3>4. Tail(q)[i - 1] = u
      BY <1>2, <3>1, <3>3
    <3>5. QED
      BY <1>2, <3>3, <3>4 DEF In
  <2>3. QED
    BY <2>1, <2>2
<1>6. ASSUME NEW i \in 1 .. Len(q) - 1, NEW j \in 1 .. Len(q) - 1,
             Tail(q)[i] = Tail(q)[j]
      PROVE  i = j
  <2>1. i + 1 = j + 1
    BY <1>2, <1>4, <1>6
  <2>2. QED
    BY <1>1, <2>1
<1>7. QED
  BY <1>2, <1>3, <1>5, <1>6 DEF In

\* The mutex goes to the first waiter, which gets ahead of the others.
LEMMA LeaveKeeps ==
  ASSUME NEW s, KInv(s), NEW t \in Tasks, s.owner = t, s.state[t] = "READY"
  PROVE  /\ KInv(CoLeaveMutexSection(s))
         /\ CoLeaveMutexSection(s).mutexID = [s.mutexID EXCEPT ![t] = FALSE]
<1> DEFINE r == CoLeaveMutexSection(s)
           first == Head(s.list)
           top == IF s.hipri = t
                  THEN Urgent(s.prio, s.list, s.prio[first], s.hipri)
                  ELSE [prio |-> s.prio[t], task |-> s.hipri]
           free == [s EXCEPT !.mutexID[t] = FALSE, !.owner = NONE,
                             !.hipri = top.task]
           reset == CoSetPriority(free, t, s.orig)
           off == [s.mutexID EXCEPT ![t] = FALSE]
<1>1. /\ s \in Kernels /\ s.prio \in [Tasks -> Priorities]
      /\ Linked(s) /\ Members(s) /\ Promoted(s) /\ Kept(s) /\ t # NONE
      /\ s.list \in Seq(Tasks) /\ s.state \in [Tasks -> States]
      /\ s.mutexID \in [Tasks -> BOOLEAN] /\ s.hipri \in Tasks \cup {NONE}
      /\ s.prev \in [Tasks -> Tasks \cup {NONE}]
  BY TaskAssumption DEF KInv, Kernels
<1>2. \A u \in Tasks : s.prio[u] \in Nat
  BY <1>1, NatPriorities
<1>3. off \in [Tasks -> BOOLEAN] /\ ~off[t]
      /\ \A u \in Tasks \ {t} : off[u] = s.mutexID[u]
  BY <1>1
<1>4. CASE s.list = <<>>
  <2>1. r = [s EXCEPT !.mutexID[t] = FALSE, !.owner = NONE]
    BY <1>1, <1>4 DEF CoLeaveMutexSection
  <2>2. r = [s EXCEPT !.mutexID = off, !.owner = NONE]
    BY <1>1, <2>1 DEF Kernels
  <2> HIDE DEF r, off
  <2>3. r \in Kernels
    <3>1. s \in Kernels /\ off \in [Tasks -> BOOLEAN] /\ NONE \in Tasks \cup {NONE}
      BY <1>1, <1>3
    <3>2. QED
      BY <2>2, <3>1 DEF Kernels
  <2>4. /\ r.mutexID = off /\ r.owner = NONE /\ r.state = s.state
        /\ r.list = s.list /\ r.corrupt = s.corrupt /\ r.prio = s.prio
    BY <1>1, <2>2 DEF Kernels
  <2>5. \A u \in Tasks : s.state[u] # "WAITING"
    <3>1. \A u : ~In(s.list, u)
      BY <1>4, EmptySeq DEF In
    <3>2. QED
      BY <1>1, <3>1 DEF Linked
  <2>6. \A u \in Tasks : off[u] = FALSE
    BY <1>1, <1>3, <2>5 DEF Members
  <2>7. Linked(r) /\ Members(r) /\ Promoted(r) /\ Kept(r)
    <3>1. Linked(r)
      BY <1>1, <2>4 DEF Linked
    <3>2. Members(r)
      BY <2>4, <2>5, <2>6, TaskAssumption DEF Members
    <3>3. Promoted(r)
      BY <2>4, <2>5 DEF Promoted
    <3>4. Kept(r)
      BY <1>1, <2>4 DEF Kept
    <3>5. QED
      BY <3>1, <3>2, <3>3, <3>4
  <2>8. QED
    BY <2>3, <2>4, <2>7 DEF KInv, r, off
<1>5. CASE s.list # <<>>
  <2>1. /\ Tail(s.list) \in Seq(Tasks) /\ first \in Tasks /\ In(s.list, first)
        /\ \A u : In(Tail(s.list), u) <=> In(s.list, u) /\ u # first
        /\ \A i, j \in 1 .. Len(Tail(s.list)) :
             Tail(s.list)[i] = Tail(s.list)[j] => i = j
    BY <1>1, <1>5, TailLinked DEF Linked
  <2>2. /\ s.state[first] = "WAITING" /\ first # t /\ s.mutexID[first]
        /\ s.orig \in Priorities
    BY <1>1, <2>1 DEF Linked, Members, Promoted
  <2>3. r = [reset EXCEPT !.list = Tail(@), !.orig = reset.prio[first],
                          !.owner = first, !.prio[first] = top.prio,
                          !.prev[first] = NONE, !.state[first] = "READY"]
    BY <1>1, <1>5 DEF CoLeaveMutexSection
  <2> HIDE DEF r, first
  <2>4. /\ top.prio \in Priorities /\ top.task \in Tasks \cup {NONE}
        /\ \A u \in Tasks : s.state[u] = "WAITING" => top.prio <= s.prio[u]
    <3>1. CASE s.hipri = t
      <4> DEFINE w == Urgent(s.prio, s.list, s.prio[first], s.hipri)
      <4>1. s.prio[first] \in Priorities
        BY <1>1, <2>1
      <4>2. /\ w.prio \in Priorities /\ w.task \in Tasks \cup {s.hipri}
            /\ \A i \in 1 .. Len(s.list) : w.prio <= s.prio[s.list[i]]
        BY <1>1, <4>1, UrgentFacts
      <4>3. top = w
        BY <3>1
      <4> HIDE DEF w, top
      <4>4. QED
        BY <1>1, <3>1, <4>2, <4>3 DEF Linked, In
    <3>2. CASE s.hipri # t
      <4>1. top.prio = s.prio[t] /\ top.task = s.hipri
        BY <3>2
      <4> HIDE DEF top
      <4>2. QED
        BY <1>1, <4>1 DEF Promoted
    <3>3. QED
      BY <3>1, <3>2
  <2> HIDE DEF top
  <2>5. free = [s EXCEPT !.mutexID = off, !.owner = NONE, !.hipri = top.task]
    BY <1>1 DEF Kernels
  <2> HIDE DEF free, off
  <2>6. /\ free \in Kernels /\ free.mutexID = off /\ free.owner = NONE
        /\ free.prio = s.prio /\ free.state = s.state /\ free.list = s.list
        /\ free.corrupt = s.corrupt
    BY <1>1, <1>3, <2>4, <2>5 DEF Kernels
  <2>7. /\ reset \in Kernels /\ reset.prio = [s.prio EXCEPT ![t] = s.orig]
        /\ reset.mutexID = off /\ reset.state = s.state /\ reset.list = s.list
        /\ reset.corrupt = s.corrupt
    <3> DEFINE lower == [s.prio EXCEPT ![t] = s.orig]
    <3>1. lower \in [Tasks -> Priorities]
      BY <1>1, <2>2
    <3>2. CASE s.prio[t] = s.orig
      <4>1. reset = free
        BY <2>6, <3>2 DEF CoSetPriority
      <4>2. lower = s.prio
        BY <1>1, <3>2
      <4>3. QED
        BY <2>6, <4>1, <4>2
    <3>3. CASE s.prio[t] # s.orig
      <4>1. reset = [free EXCEPT !.prio[t] = s.orig]
        BY <1>1, <1>3, <2>6, <3>3 DEF CoSetPriority
      <4>2. reset = [free EXCEPT !.prio = lower]
        BY <2>6, <4>1 DEF Kernels
      <4> HIDE DEF lower, reset
      <4>3. reset \in Kernels /\ reset.prio = lower
        BY <2>6, <3>1, <4>2 DEF Kernels
      <4>4. /\ reset.mutexID = free.mutexID /\ reset.state = free.state
            /\ reset.list = free.list /\ reset.corrupt = free.corrupt
        BY <2>6, <4>2 DEF Kernels
      <4>5. QED
        BY <2>6, <4>3, <4>4 DEF lower
    <3>4. QED
      BY <3>2, <3>3
  <2> HIDE DEF reset
  <2>8. reset.prev \in [Tasks -> Tasks \cup {NONE}]
    BY <2>7 DEF Kernels
  <2> DEFINE prio == [reset.prio EXCEPT ![first] = top.prio]
             state == [reset.state EXCEPT ![first] = "READY"]
             prev == [reset.prev EXCEPT ![first] = NONE]
  <2>9. r = [reset EXCEPT !.list = Tail(s.list), !.orig = reset.prio[first],
                          !.owner = first, !.prio = prio, !.prev = prev,
                          !.state = state]
    BY <2>3, <2>7, <2>8 DEF Kernels
  <2>10. /\ reset.prio[first] = s.prio[first] /\ s.prio[first] \in Priorities
         /\ prio \in [Tasks -> Priorities] /\ prio[first] = top.prio
         /\ \A u \in Tasks \ {t, first} : prio[u] = s.prio[u]
         /\ prio[t] = s.orig
    BY <1>1, <2>1, <2>2, <2>4, <2>7
  <2>11. /\ state \in [Tasks -> States] /\ state[first] = "READY"
         /\ \A u \in Tasks \ {first} : state[u] = s.state[u]
         /\ prev \in [Tasks -> Tasks \cup {NONE}]
    BY <1>1, <2>1, <2>7, <2>8 DEF States, Kernels
  <2> HIDE DEF prio, state, prev
  <2>12. r \in Kernels
    BY <2>1, <2>7, <2>9, <2>10, <2>11 DEF Kernels
  <2>13. /\ r.list = Tail(s.list) /\ r.orig = s.prio[first] /\ r.owner = first
         /\ r.prio = prio /\ r.state = state /\ r.mutexID = off
         /\ r.corrupt = s.corrupt
    BY <2>7, <2>8, <2>9, <2>10 DEF Kernels
  <2>14. Linked(r)
    BY <1>1, <2>1, <2>2, <2>11, <2>13 DEF Linked
  <2>15. Members(r)
    <3>1. \A u \in Tasks : off[u] <=> u # t /\ s.state[u] = "WAITING"
      BY <1>1, <1>3 DEF Members
    <3>2. first # NONE
      BY <2>1, TaskAssumption
    <3>3. QED
      BY <2>1, <2>2, <2>11, <2>13, <3>1, <3>2 DEF Members
  <2>16. ASSUME NEW u \in Tasks, state[u] = "WAITING"
         PROVE  top.prio <= prio[u]
    <3>1. u # first /\ s.state[u] = "WAITING" /\ u # t
      BY <2>11, <2>16
    <3>2. QED
      BY <2>4, <2>10, <3>1
  <2>17. Promoted(r)
    BY <2>2, <2>4, <2>10, <2>1, <2>13, <2>16 DEF Promoted
  <2>18. ASSUME NEW u \in Tasks PROVE prio[u] <= Prio[u]
    <3>1. s.prio[u] <= Prio[u] /\ s.prio[u] \in Nat /\ Prio[u] \in Nat
      BY <1>1, <1>2, TaskAssumption, NatPriorities DEF Kept
    <3>2. CASE u = t
      BY <1>1, <2>10, <3>2 DEF Kept
    <3>3. CASE u = first
      <4>1. top.prio <= s.prio[u] /\ top.prio \in Nat
        BY <2>2, <2>4, <3>3, NatPriorities
      <4>2. QED
        BY <2>10, <3>1, <3>3, <4>1
    <3>4. CASE u \notin {t, first}
      BY <2>10, <3>1, <3>4
    <3>5. QED
      BY <3>2, <3>3, <3>4
  <2>19. Kept(r)
    <3>1. s.prio[first] <= Prio[first]
      BY <1>1, <2>1 DEF Kept
    <3>2. QED
      BY <2>13, <2>18, <3>1 DEF Kept
  <2>20. QED
    BY <2>12, <2>13, <2>14, <2>15, <2>17, <2>19 DEF KInv, r, off
<1>6. QED
  BY <1>4, <1>5

-----------------------------------------------------------------------------
(* The steps of the tasks.                                                 *)

\* A task that waits for something else waits for no mutex.
LEMMA BlockKeeps ==
  ASSUME NEW s, KInv(s), NEW t \in Tasks, NEW v \in {"READY", "SLEEPING"},
         s.state[t] \in {"READY", "SLEEPING"}
  PROVE  LET r == [s EXCEPT !.state[t] = v]
         IN  KInv(r) /\ r.mutexID = s.mutexID
<1> DEFINE r == [s EXCEPT !.state[t] = v]
           state == [s.state EXCEPT ![t] = v]
<1>1. /\ s \in Kernels /\ s.state \in [Tasks -> States]
      /\ Linked(s) /\ Members(s) /\ Promoted(s) /\ Kept(s)
  BY DEF KInv, Kernels
<1>2. r = [s EXCEPT !.state = state]
  BY <1>1 DEF Kernels
<1>3. /\ state \in [Tasks -> States] /\ state[t] = v
      /\ \A u \in Tasks \ {t} : state[u] = s.state[u]
      /\ \A u \in Tasks : state[u] = "WAITING" <=> s.state[u] = "WAITING"
  BY <1>1 DEF States
<1> HIDE DEF r, state
<1>4. r \in Kernels /\ r.state = state
  BY <1>1, <1>2, <1>3 DEF Kernels
<1>5. /\ r.mutexID = s.mutexID /\ r.owner = s.owner /\ r.list = s.list
      /\ r.corrupt = s.corrupt /\ r.prio = s.prio /\ r.orig = s.orig
  BY <1>1, <1>2 DEF Kernels
<1>6. Linked(r)
  BY <1>1, <1>3, <1>4, <1>5 DEF Linked
<1>7. Members(r)
  <2>1. s.owner \in Tasks \cup {NONE}
    BY <1>1 DEF Kernels
  <2>2. s.owner # NONE => state[s.owner] \in {"READY", "SLEEPING"}
    BY <1>1, <1>3, <2>1 DEF Members
  <2>3. QED
    BY <1>1, <1>3, <1>4, <1>5, <2>2 DEF Members
<1>8. Promoted(r) /\ Kept(r)
  BY <1>1, <1>3, <1>4, <1>5 DEF Promoted, Kept
<1>9. QED
  BY <1>4, <1>5, <1>6, <1>7, <1>8 DEF KInv, r

LEMMA SectionStep ==
  ASSUME IInv, NEW t \in Tasks, Section(t), UNCHANGED cast
  PROVE  IInv'
<1>1. /\ KInv(k) /\ k \in Kernels /\ inside \in [Tasks -> BOOLEAN] /\ NoDeletion'
      /\ del \in [Tasks -> Tasks \cup {NONE}]
      /\ cast' \in Casts /\ k.mutexID \in [Tasks -> BOOLEAN]
      /\ \A u \in Tasks : (inside[u] <=> k.mutexID[u]) /\ del[u] = NONE
  BY DEF IInv, TypeOK, NoDeletion, Kernels
<1>2. del' = del
  BY DEF Section, Enter, Leave, Sleep, Wake
<1>3. ASSUME KInv(k'), inside' \in [Tasks -> BOOLEAN],
             \A u \in Tasks : inside'[u] <=> k'.mutexID[u]
      PROVE  IInv'
  <2>1. TypeOK'
    BY <1>1, <1>2, <1>3 DEF TypeOK, KInv
  <2>2. QED
    BY <1>1, <1>2, <1>3, <2>1 DEF IInv
<1>4. CASE Enter(t)
  <2>1. /\ k.state[t] = "READY" /\ ~inside[t] /\ k' = CoEnterMutexSection(k, t)
        /\ inside' = [inside EXCEPT ![t] = TRUE]
    BY <1>4 DEF Enter, User, Runs
  <2>2. KInv(k') /\ k'.mutexID = [k.mutexID EXCEPT ![t] = TRUE]
    BY <1>1, <2>1, EnterKeeps
  <2>3. QED
    BY <1>1, <1>3, <2>1, <2>2
<1>5. CASE Leave(t)
  <2>1. /\ k.state[t] = "READY" /\ inside[t] /\ k' = CoLeaveMutexSection(k)
        /\ inside' = [inside EXCEPT ![t] = FALSE]
    BY <1>5 DEF Leave, User, Runs
  <2>2. k.owner = t
    BY <1>1, <2>1 DEF KInv, Members
  <2>3. KInv(k') /\ k'.mutexID = [k.mutexID EXCEPT ![t] = FALSE]
    BY <1>1, <2>1, <2>2, LeaveKeeps
  <2>4. QED
    BY <1>1, <1>3, <2>1, <2>3
<1>6. CASE Sleep(t)
  <2>1. /\ k.state[t] = "READY" /\ k' = [k EXCEPT !.state[t] = "SLEEPING"]
        /\ inside' = inside
    BY <1>6 DEF Sleep, User, Runs
  <2>2. KInv(k') /\ k'.mutexID = k.mutexID
    BY <1>1, <2>1, BlockKeeps
  <2>3. QED
    BY <1>1, <1>3, <2>1, <2>2
<1>7. CASE Wake(t)
  <2>1. /\ k.state[t] = "SLEEPING" /\ k' = [k EXCEPT !.state[t] = "READY"]
        /\ inside' = inside
    BY <1>7 DEF Wake
  <2>2. KInv(k') /\ k'.mutexID = k.mutexID
    BY <1>1, <2>1, BlockKeeps
  <2>3. QED
    BY <1>1, <1>3, <2>1, <2>2
<1>8. QED
  BY <1>4, <1>5, <1>6, <1>7 DEF Section

\* Without deletions there is nothing to manage.
LEMMA ManageStep == ASSUME IInv, Manage PROVE FALSE
<1>1. /\ cast.deletable = {} /\ \A u \in Tasks : del[u] = NONE
  BY DEF IInv, NoDeletion
<1>2. QED
  BY <1>1 DEF Manage, DelTaskRemove

\* At the start nobody owns the mutex or waits for it.
LEMMA InitIInv == Init /\ NoDeletion => IInv
<1> SUFFICES ASSUME Init, NoDeletion PROVE IInv
  OBVIOUS
<1>1. /\ k.prio = [t \in Tasks |-> Prio[t]] /\ k.mutexID = [t \in Tasks |-> FALSE]
      /\ k.state = [t \in Tasks |->
                      IF t \in cast.tasks THEN "READY" ELSE "DORMANT"]
      /\ k.owner = NONE /\ k.list = <<>> /\ k.corrupt = FALSE
  BY DEF Init
<1>2. k \in Kernels
  BY TaskAssumption DEF Init, Kernels, States
<1>3. Linked(k)
  BY <1>1, EmptySeq DEF Linked, In
<1>4. Members(k) /\ Promoted(k) /\ Kept(k)
  <2>1. \A t \in Tasks : k.prio[t] = Prio[t] /\ Prio[t] \in Nat
    BY <1>1, TaskAssumption, NatPriorities
  <2>2. Kept(k)
    BY <1>1, <2>1 DEF Kept
  <2>3. QED
    BY <1>1, <2>2, TaskAssumption DEF Members, Promoted
<1>5. TypeOK
  BY <1>2, TaskAssumption DEF Init, TypeOK
<1>6. QED
  BY <1>1, <1>2, <1>3, <1>4, <1>5 DEF Init, IInv, KInv

LEMMA NextIInv == IInv /\ [Next]_vars => IInv'
<1> SUFFICES ASSUME IInv, [Next]_vars PROVE IInv'
  OBVIOUS
<1>1. CASE Next
  BY <1>1, SectionStep, ManageStep DEF Next
<1>2. CASE UNCHANGED vars
  BY <1>2 DEF vars, IInv, TypeOK, NoDeletion, KInv
<1>3. QED
  BY <1>1, <1>2

LEMMA CastFixed == ~NoDeletion /\ [Next]_vars => ~NoDeletion'
BY DEF Next, vars, NoDeletion

-----------------------------------------------------------------------------
\* Every behaviour without deletions keeps the invariant.
THEOREM MutexInvariant == Spec => [](NoDeletion => IInv)
<1>1. Init => (NoDeletion => IInv)
  BY InitIInv
<1>2. (NoDeletion => IInv) /\ [Next]_vars => (NoDeletion => IInv)'
  <2>1. CASE NoDeletion
    BY <2>1, NextIInv
  <2>2. CASE ~NoDeletion
    BY <2>2, CastFixed
  <2>3. QED
    BY <2>1, <2>2
<1>3. QED
  BY <1>1, <1>2, PTL DEF Spec

\* Between CoEnterMutexSection and CoLeaveMutexSection a task that runs is the
\* owner, for any number of tasks and whatever their priorities.
THEOREM MutexExcludes == Spec => [](NoDeletion => MutualExclusion)
<1>1. IInv => MutualExclusion
  BY DEF IInv, MutualExclusion, User, Runs, KInv, Members
<1>2. QED
  BY <1>1, MutexInvariant, PTL

\* The waiting list of CoEnterMutexSection and CoLeaveMutexSection holds the
\* tasks that wait, each once, and the state keeps its type.
THEOREM MutexQueues == Spec => [](NoDeletion => WaitersQueued)
<1>1. IInv => WaitersQueued
  BY DEF IInv, WaitersQueued, Waiting, KInv, Linked
<1>2. QED
  BY <1>1, MutexInvariant, PTL

\* The owner is at least as urgent as every waiter, although only a newcomer
\* promotes it and hipriTaskID may be stale when CoLeaveMutexSection reads it.
THEOREM MutexInherits == Spec => [](NoDeletion => NoInversion)
<1>1. IInv => NoInversion
  BY DEF IInv, NoInversion, Waiting, KInv, Members, Promoted
<1>2. QED
  BY <1>1, MutexInvariant, PTL

\* No task is ever less urgent than it was created, although the priority that
\* CoLeaveMutexSection hands on and the originalPrio it restores are those of
\* other tasks and other times.
THEOREM MutexNeverDemotes == Spec => [](NoDeletion => NeverDemoted)
<1>1. IInv => NeverDemoted
  BY DEF IInv, NeverDemoted, KInv, Kept
<1>2. QED
  BY <1>1, MutexInvariant, PTL

-----------------------------------------------------------------------------
(* Heap: the invariant.                                                    *)

\* A pointer to block a when those in U are used.
Pointer(U, a) == IF a \in U THEN UMB(a) ELSE FMB(a)

\* x is the next address of S after a; the last one before a.
NextIn(S, a, x) == x \in S /\ a < x /\ \A y \in S : a < y => x <= y
PrevIn(S, a, x) == x \in S /\ x < a /\ \A y \in S : y < a => y <= x

\* Link p leads from a to the next block of S, back to the one before.
Forth(S, U, a, p) ==
  \/ p = NULL /\ \A y \in S : y <= a
  \/ \E x \in S : NextIn(S, a, x) /\ p = Pointer(U, x)

Back(S, U, a, p) ==
  \/ p = NULL /\ \A y \in S : a <= y
  \/ \E x \in S : PrevIn(S, a, x) /\ p = Pointer(U, x)

\* The blocks start at B, the used ones at U.
Heads(B, U) ==
  /\ B \in SUBSET (1 .. KHEAP_SIZE) /\ 1 \in B /\ U \in SUBSET B
  /\ \A a \in B : a + 2 <= KHEAP_SIZE
  /\ \A a, x \in B : a < x => a + 3 <= x
  /\ \A a \in B \ U, x \in B : NextIn(B, a, x) => x \in U

\* Every link of a block leads where it should, and so does the head of the
\* free list.
UsedLinks(B, U, m) ==
  \A a \in U : Forth(B, U, a, m[a]) /\ Back(B, U, a, m[a + 1])

FreeLinks(B, U, m) ==
  \A a \in B \ U : /\ Forth(B \ U, U, a, m[a])
                   /\ Forth(B, U, a, m[a + 1]) /\ Back(B, U, a, m[a + 2])

Shape(B, U, m, first) ==
  /\ Heads(B, U) /\ UsedLinks(B, U, m) /\ FreeLinks(B, U, m)
  /\ Forth(B \ U, U, 0, first)

\* What a block has been handed out for lies behind its two links and ends
\* before the next block.
Owned(B, U, m) ==
  /\ U = {b.at : b \in live}
  /\ \A b, c \in live : b.at = c.at => b = c
  /\ \A b \in live :
       /\ b.data # {} /\ b.data \in SUBSET (b.at + 2 .. KHEAP_SIZE)
       /\ \A x \in B : b.at < x => \A d \in b.data : d < x
       /\ \A d \in b.data : m[d] = USER

\* What a word can hold.
Cells == -1 .. UMB(KHEAP_SIZE)

HeapInv ==
  /\ mem \in [1 .. KHEAP_SIZE -> Cells]
  /\ \E B, U \in SUBSET (1 .. KHEAP_SIZE) :
       Shape(B, U, mem, FMBlist) /\ Owned(B, U, mem)

-----------------------------------------------------------------------------
(* Next and previous in a set of addresses.                                *)

\* A pointer is never Co_NULL, and gives back its address and its tag.
LEMMA PointerFacts ==
  ASSUME NEW U, NEW a \in Nat, a >= 1
  PROVE  /\ Pointer(U, a) \in Nat /\ Pointer(U, a) # NULL /\ Addr(Pointer(U, a)) = a
         /\ IsUMB(Pointer(U, a)) <=> a \in U
         /\ 2 * a <= Pointer(U, a) /\ Pointer(U, a) <= 2 * a + 1
BY DEF Pointer, UMB, FMB, NULL, Addr, IsUMB

\* Next and previous are the reverse of each other.
LEMMA NextPrev ==
  ASSUME NEW S \in SUBSET Nat, NEW a \in S, NEW x \in S
  PROVE  NextIn(S, a, x) <=> PrevIn(S, x, a)
BY DEF NextIn, PrevIn

LEMMA NextOnce ==
  ASSUME NEW S \in SUBSET Nat, NEW a \in Int, NEW x, NEW y, NextIn(S, a, x), NextIn(S, a, y)
  PROVE  x = y
BY DEF NextIn

LEMMA PrevOnce ==
  ASSUME NEW S \in SUBSET Nat, NEW a \in Int, NEW x, NEW y, PrevIn(S, a, x), PrevIn(S, a, y)
  PROVE  x = y
BY DEF PrevIn

\* What a link says: Co_NULL, or the one block it can lead to.
LEMMA ForthIs ==
  ASSUME NEW S \in SUBSET (Nat \ {0}), NEW U, NEW a \in Int, NEW p, Forth(S, U, a, p)
  PROVE  /\ p = NULL => \A y \in S : y <= a
         /\ p # NULL => \E x \in S : NextIn(S, a, x) /\ p = Pointer(U, x)
         /\ \A x \in S : NextIn(S, a, x) => p = Pointer(U, x)
<1>1. CASE p = NULL /\ \A y \in S : y <= a
  BY <1>1 DEF NextIn
<1>2. CASE \E x \in S : NextIn(S, a, x) /\ p = Pointer(U, x)
  <2>1. PICK x \in S : NextIn(S, a, x) /\ p = Pointer(U, x)
    BY <1>2
  <2>2. p # NULL
    BY <2>1, PointerFacts
  <2>3. \A y \in S : NextIn(S, a, y) => y = x
    BY <2>1, NextOnce
  <2>4. QED
    BY <2>1, <2>2, <2>3
<1>3. QED
  BY <1>1, <1>2 DEF Forth

LEMMA BackIs ==
  ASSUME NEW S \in SUBSET (Nat \ {0}), NEW U, NEW a \in Int, NEW p, Back(S, U, a, p)
  PROVE  /\ p = NULL => \A y \in S : a <= y
         /\ p # NULL => \E x \in S : PrevIn(S, a, x) /\ p = Pointer(U, x)
         /\ \A x \in S : PrevIn(S, a, x) => p = Pointer(U, x)
<1>1. CASE p = NULL /\ \A y \in S : a <= y
  BY <1>1 DEF PrevIn
<1>2. CASE \E x \in S : PrevIn(S, a, x) /\ p = Pointer(U, x)
  <2>1. PICK x \in S : PrevIn(S, a, x) /\ p = Pointer(U, x)
    BY <1>2
  <2>2. p # NULL
    BY <2>1, PointerFacts
  <2>3. \A y \in S : PrevIn(S, a, y) => y = x
    BY <2>1, PrevOnce
  <2>4. QED
    BY <2>1, <2>2, <2>3
<1>3. QED
  BY <1>1, <1>2 DEF Back

-----------------------------------------------------------------------------
(* Links when a block changes hands, appears or goes.                      *)

\* Block f is handed out or released: only links to f must follow.
LEMMA ForthTag ==
  ASSUME NEW S \in SUBSET Nat, NEW U, NEW V, NEW f, NEW a \in Int, NEW p,
         \A x \in S : x # f => (x \in U <=> x \in V),
         Forth(S, U, a, p), ~NextIn(S, a, f)
  PROVE  Forth(S, V, a, p)
BY DEF Forth, Pointer

LEMMA BackTag ==
  ASSUME NEW S \in SUBSET Nat, NEW U, NEW V, NEW f, NEW a \in Int, NEW p,
         \A x \in S : x # f => (x \in U <=> x \in V),
         Back(S, U, a, p), ~PrevIn(S, a, f)
  PROVE  Back(S, V, a, p)
BY DEF Back, Pointer

\* Block f goes: the links that did not lead to f remain, and the link of f
\* is the one for the block that led to f.
LEMMA ForthDrop ==
  ASSUME NEW S \in SUBSET Nat, NEW U, NEW f, NEW a \in Int, NEW p,
         Forth(S, U, a, p), ~NextIn(S, a, f)
  PROVE  Forth(S \ {f}, U, a, p)
BY DEF Forth, NextIn

LEMMA BackDrop ==
  ASSUME NEW S \in SUBSET Nat, NEW U, NEW f, NEW a \in Int, NEW p,
         Back(S, U, a, p), ~PrevIn(S, a, f)
  PROVE  Back(S \ {f}, U, a, p)
BY DEF Back, PrevIn

LEMMA ForthSkip ==
  ASSUME NEW S \in SUBSET Nat, NEW U, NEW f \in S, NEW a \in Int, NEW p,
         NextIn(S, a, f), Forth(S, U, f, p)
  PROVE  Forth(S \ {f}, U, a, p)
BY DEF Forth, NextIn

LEMMA BackSkip ==
  ASSUME NEW S \in SUBSET Nat, NEW U, NEW f \in S, NEW a \in Int, NEW p,
         PrevIn(S, a, f), Back(S, U, f, p)
  PROVE  Back(S \ {f}, U, a, p)
BY DEF Back, PrevIn

\* Block g appears: the links that should not lead to g remain, and g has the
\* link of the block that leads to it.
LEMMA ForthAdd ==
  ASSUME NEW S \in SUBSET Nat, NEW U, NEW g \in Nat, NEW a \in Int, NEW p,
         Forth(S, U, a, p), ~NextIn(S \cup {g}, a, g)
  PROVE  Forth(S \cup {g}, U, a, p)
BY DEF Forth, NextIn

LEMMA BackAdd ==
  ASSUME NEW S \in SUBSET Nat, NEW U, NEW g \in Nat, NEW a \in Int, NEW p,
         Back(S, U, a, p), ~PrevIn(S \cup {g}, a, g)
  PROVE  Back(S \cup {g}, U, a, p)
BY DEF Back, PrevIn

LEMMA ForthNew ==
  ASSUME NEW S \in SUBSET Nat, NEW U, NEW g \in Nat, g \notin S, NEW a \in Int, NEW p,
         NextIn(S \cup {g}, a, g), Forth(S, U, a, p)
  PROVE  Forth(S \cup {g}, U, g, p)
BY DEF Forth, NextIn

LEMMA BackNew ==
  ASSUME NEW S \in SUBSET Nat, NEW U, NEW g \in Nat, g \notin S, NEW a \in Int, NEW p,
         PrevIn(S \cup {g}, a, g), Back(S, U, a, p)
  PROVE  Back(S \cup {g}, U, g, p)
BY DEF Back, PrevIn

-----------------------------------------------------------------------------
(* CoKmalloc: the links after free block f has been handed out.            *)

LEMMA HeadsFacts ==
  ASSUME NEW B, NEW U, Heads(B, U)
  PROVE  /\ KHEAP_SIZE \in Nat /\ B \in SUBSET (Nat \ {0}) /\ U \in SUBSET (Nat \ {0})
         /\ B \in SUBSET Nat /\ U \in SUBSET Nat
         /\ B \ U \in SUBSET (Nat \ {0}) /\ B \ U \in SUBSET Nat
         /\ \A a \in B : a \in Nat /\ a \in Int /\ a >= 1
         /\ U \in SUBSET B
BY HeapAssumption DEF Heads

\* Neighbours of a free block are used.
LEMMA Neighbours ==
  ASSUME NEW B, NEW U, Heads(B, U), NEW f \in B \ U
  PROVE  /\ \A x : NextIn(B, f, x) => x \in U
         /\ \A x : PrevIn(B, f, x) => x \in U
<1>1. B \in SUBSET Nat
  BY HeadsFacts
<1>2. \A x \in B : PrevIn(B, f, x) => NextIn(B, x, f)
  BY <1>1, NextPrev
<1>3. \A x : NextIn(B, f, x) => x \in B
  BY DEF NextIn
<1>4. \A x : PrevIn(B, f, x) => x \in B
  BY DEF PrevIn
<1>5. QED
  BY <1>2, <1>3, <1>4 DEF Heads

\* What the stores of CoKmalloc do to the blocks other than f: the used one
\* before f and the used one after f get their links, and so does the free
\* block whose link led to f.
Others(B, U, f, m, n, before, after, listed) ==
  \A a \in B \ {f} :
    /\ a \in U => n[a] = IF NextIn(B, a, f) THEN before ELSE m[a]
    /\ a \in U => n[a + 1] = IF NextIn(B, f, a) THEN after ELSE m[a + 1]
    /\ a \notin U => n[a] = IF NextIn(B \ U, a, f) THEN listed ELSE m[a]
    /\ a \notin U => n[a + 1] = m[a + 1] /\ n[a + 2] = m[a + 2]

\* All of f is handed out.
LEMMA WholeShape ==
  ASSUME NEW B, NEW U, NEW m, NEW first, Shape(B, U, m, first), NEW f \in B \ U,
         NEW n, Others(B, U, f, m, n, UMB(f), UMB(f), m[f]),
         n[f] = m[f + 1], n[f + 1] = m[f + 2],
         NEW last, last = IF NextIn(B \ U, 0, f) THEN m[f] ELSE first
  PROVE  Shape(B, U \cup {f}, n, last)
<1> DEFINE V == U \cup {f}
           F == B \ U
<1>0. Heads(B, U) /\ UsedLinks(B, U, m) /\ FreeLinks(B, U, m) /\ Forth(F, U, 0, first)
  BY DEF Shape
<1>1. /\ B \in SUBSET Nat /\ F \in SUBSET Nat /\ U \in SUBSET B /\ f \in F /\ f \in B
      /\ \A a \in B : a \in Int
  BY <1>0, HeadsFacts
<1>2. B \ V = F \ {f} /\ (\A x : x # f => (x \in U <=> x \in V)) /\ Pointer(V, f) = UMB(f)
  BY DEF Pointer
<1>3. Heads(B, V)
  BY <1>0 DEF Heads
<1> HIDE DEF V, F
<1>4. ASSUME NEW a \in U PROVE Forth(B, V, a, n[a]) /\ Back(B, V, a, n[a + 1])
  <2>1. a \in B \ {f} /\ Forth(B, U, a, m[a]) /\ Back(B, U, a, m[a + 1])
    BY <1>0, <1>1, <1>4 DEF UsedLinks, F
  <2>2. /\ n[a] = IF NextIn(B, a, f) THEN UMB(f) ELSE m[a]
        /\ n[a + 1] = IF NextIn(B, f, a) THEN UMB(f) ELSE m[a + 1]
    BY <1>4, <2>1 DEF Others
  <2>3. Forth(B, V, a, n[a])
    <3>1. CASE NextIn(B, a, f)
      BY <1>1, <1>2, <2>2, <3>1 DEF Forth
    <3>2. CASE ~NextIn(B, a, f)
      BY <1>1, <1>2, <2>1, <2>2, <3>2, ForthTag
    <3>3. QED
      BY <3>1, <3>2
  <2>4. Back(B, V, a, n[a + 1])
    <3>0. NextIn(B, f, a) <=> PrevIn(B, a, f)
      BY <1>1, <2>1, NextPrev
    <3>1. CASE NextIn(B, f, a)
      BY <1>1, <1>2, <2>2, <3>0, <3>1 DEF Back
    <3>2. CASE ~NextIn(B, f, a)
      BY <1>1, <1>2, <2>1, <2>2, <3>0, <3>2, BackTag
    <3>3. QED
      BY <3>1, <3>2
  <2>5. QED
    BY <2>3, <2>4
<1>5. Forth(B, V, f, n[f]) /\ Back(B, V, f, n[f + 1])
  <2>1. Forth(B, U, f, m[f + 1]) /\ Back(B, U, f, m[f + 2])
    BY <1>0, <1>1 DEF FreeLinks, F
  <2>2. ~NextIn(B, f, f) /\ ~PrevIn(B, f, f)
    BY <1>1 DEF NextIn, PrevIn
  <2>3. QED
    BY <1>1, <1>2, <2>1, <2>2, ForthTag, BackTag
<1>6. ASSUME NEW a \in F \cup {0}, NEW p, NEW q, a # f, Forth(F, U, a, p),
             q = IF NextIn(F, a, f) THEN m[f] ELSE p
      PROVE  Forth(F \ {f}, V, a, q)
  <2>0. Forth(F, U, f, m[f])
    BY <1>0, <1>1 DEF FreeLinks, F
  <2>1. a \in Int /\ F \ {f} \in SUBSET Nat /\ Forth(F, U, f, m[f])
    <3>1. a \in Int
      BY <1>1
    <3>2. QED
      BY <1>1, <2>0, <3>1
  <2>2. Forth(F \ {f}, U, a, q)
    <3>1. CASE NextIn(F, a, f)
      BY <1>1, <1>6, <2>1, <3>1, ForthSkip
    <3>2. CASE ~NextIn(F, a, f)
      BY <1>1, <1>6, <2>1, <3>2, ForthDrop
    <3>3. QED
      BY <3>1, <3>2
  <2>3. ~NextIn(F \ {f}, a, f)
    BY DEF NextIn
  <2>4. QED
    BY <1>2, <2>1, <2>2, <2>3, ForthTag
<1>7. ASSUME NEW a \in F \ {f}
      PROVE  /\ Forth(F \ {f}, V, a, n[a])
             /\ Forth(B, V, a, n[a + 1]) /\ Back(B, V, a, n[a + 2])
  <2>1. /\ a \in B \ {f} /\ a \notin U /\ a \in F /\ Forth(F, U, a, m[a])
        /\ Forth(B, U, a, m[a + 1]) /\ Back(B, U, a, m[a + 2])
    BY <1>0, <1>7 DEF FreeLinks, F
  <2>2. /\ n[a] = IF NextIn(F, a, f) THEN m[f] ELSE m[a]
        /\ n[a + 1] = m[a + 1] /\ n[a + 2] = m[a + 2]
    BY <2>1 DEF Others, F
  <2>3. Forth(F \ {f}, V, a, n[a])
    BY <1>6, <2>1, <2>2
  <2>4. ~NextIn(B, a, f) /\ ~PrevIn(B, a, f)
    BY <1>0, <1>1, <2>1, Neighbours DEF F
  <2>5. QED
    BY <1>1, <1>2, <2>1, <2>2, <2>3, <2>4, ForthTag, BackTag
<1>8. Forth(F \ {f}, V, 0, last)
  <2>1. 0 # f /\ last = IF NextIn(F, 0, f) THEN m[f] ELSE first
    BY <1>0, HeadsFacts DEF F
  <2>2. QED
    BY <1>0, <1>6, <2>1
<1>9. UsedLinks(B, V, n)
  BY <1>4, <1>5 DEF UsedLinks, V
<1>10. FreeLinks(B, V, n)
  BY <1>2, <1>7 DEF FreeLinks
<1>11. QED
  BY <1>2, <1>3, <1>8, <1>9, <1>10 DEF Shape, V

\* The front of f is handed out, the rest is free block g.
LEMMA SplitShape ==
  ASSUME NEW B, NEW U, NEW m, NEW first, Shape(B, U, m, first), NEW f \in B \ U,
         NEW g \in Nat, f + 3 <= g, g + 2 <= KHEAP_SIZE, \A x \in B : f < x => g + 3 <= x,
         NEW n, Others(B, U, f, m, n, UMB(f), FMB(g), FMB(g)),
         n[f] = FMB(g), n[f + 1] = m[f + 2],
         n[g] = m[f], n[g + 1] = m[f + 1], n[g + 2] = UMB(f),
         NEW last, last = IF NextIn(B \ U, 0, f) THEN FMB(g) ELSE first
  PROVE  Shape(B \cup {g}, U \cup {f}, n, last)
<1> DEFINE V == U \cup {f}
           F == B \ U
           C == B \cup {g}
           G == (F \ {f}) \cup {g}
<1>0. Heads(B, U) /\ UsedLinks(B, U, m) /\ FreeLinks(B, U, m) /\ Forth(F, U, 0, first)
  BY DEF Shape
<1>1. /\ B \in SUBSET Nat /\ F \in SUBSET Nat /\ U \in SUBSET B /\ f \in F /\ f \in B
      /\ (\A a \in B : a \in Int /\ a \in Nat /\ a >= 1) /\ KHEAP_SIZE \in Nat /\ f \in Nat
  BY <1>0, HeadsFacts
<1>2. /\ g \notin B /\ f < g /\ g # f /\ g \in Int /\ \A x \in B : f < x <=> g < x
  <2>1. \A x \in B : f < x => g < x /\ x # g
    BY <1>1
  <2>2. f < g /\ g # f
    BY <1>1
  <2>3. \A x \in B : g < x => f < x
    BY <1>1, <2>2
  <2>4. QED
    BY <2>1, <2>2, <2>3
<1>3. /\ C \ V = G /\ (\A x : x # f => (x \in U <=> x \in V)) /\ g \notin V /\ g \in C /\ g \in G
      /\ Pointer(V, f) = UMB(f) /\ Pointer(V, g) = FMB(g)
      /\ C \in SUBSET Nat /\ G \in SUBSET Nat /\ V \in SUBSET C /\ F \ {f} \in SUBSET Nat
  BY <1>1, <1>2 DEF Pointer
<1>4. /\ NextIn(C, f, g) /\ PrevIn(C, g, f)
      /\ \A a \in B : a # f => ~NextIn(C, a, g)
      /\ ~NextIn(C, 0, g)
      /\ \A a \in B : PrevIn(C, a, g) <=> NextIn(B, f, a)
  <2>0. \A y \in C : y \in B \/ y = g
    OBVIOUS
  <2>1. NextIn(C, f, g) /\ PrevIn(C, g, f)
    <3>1. f \in C /\ g \in C /\ f < g /\ f \in Int /\ g \in Int
      BY <1>1, <1>2
    <3>2. ASSUME NEW y \in C PROVE (f < y => g <= y) /\ (y < g => y <= f)
      <4>1. CASE y = g
        BY <3>1, <4>1
      <4>2. CASE y \in B
        <5>1. y \in Int /\ (f < y <=> g < y)
          BY <1>1, <1>2, <4>2
        <5>2. QED
          BY <3>1, <5>1
      <4>3. QED
        BY <2>0, <4>1, <4>2
    <3>3. QED
      BY <3>1, <3>2 DEF NextIn, PrevIn
  <2>2. ASSUME NEW a \in B \cup {0}, a # f PROVE ~NextIn(C, a, g)
    <3>1. f \in C /\ a \in Int /\ f \in Int /\ g \in Int
      BY <1>1, <1>2
    <3>2. CASE a < f
      BY <1>2, <3>1, <3>2 DEF NextIn
    <3>3. CASE f < a
      <4>1. a \in B
        BY <1>1, <3>3
      <4>2. g < a
        BY <1>2, <3>3, <4>1
      <4>3. QED
        BY <3>1, <4>2 DEF NextIn
    <3>4. QED
      BY <2>2, <3>1, <3>2, <3>3
  <2>3. ASSUME NEW a \in B PROVE PrevIn(C, a, g) <=> NextIn(B, f, a)
    BY <1>1, <1>2 DEF NextIn, PrevIn
  <2>4. f # 0
    BY <1>1
  <2>5. QED
    BY <2>1, <2>2, <2>3, <2>4
<1>5. ASSUME NEW a \in F \cup {0}, NextIn(F, a, f) PROVE NextIn(G, a, g)
  BY <1>1, <1>2, <1>5 DEF NextIn
<1>6. ASSUME NEW a \in F \cup {0}, a # f, ~NextIn(F, a, f) PROVE ~NextIn(G, a, g)
  BY <1>1, <1>2, <1>6 DEF NextIn
<1>7. Heads(C, V)
  <2>1. C \in SUBSET (1 .. KHEAP_SIZE) /\ 1 \in C
    BY <1>0, <1>1, <1>2 DEF Heads
  <2>2. \A a \in C : a + 2 <= KHEAP_SIZE
    BY <1>0 DEF Heads
  <2>3. ASSUME NEW a \in C, NEW x \in C, a < x PROVE a + 3 <= x
    <3>1. CASE a \in B /\ x \in B
      BY <1>0, <2>3, <3>1 DEF Heads
    <3>2. CASE a = g /\ x \in B
      BY <1>1, <1>2, <2>3, <3>2
    <3>3. CASE a \in B /\ x = g
      <4>1. a <= f
        BY <1>1, <1>2, <2>3, <3>3
      <4>2. a = f \/ a < f
        BY <1>1, <3>3, <4>1
      <4>3. CASE a < f
        <5>1. a + 3 <= f
          BY <1>0, <1>1, <3>3, <4>3 DEF Heads
        <5>2. QED
          BY <1>1, <1>2, <3>3, <5>1
      <4>4. QED
        BY <3>3, <4>2, <4>3
    <3>4. QED
      BY <1>2, <2>3, <3>1, <3>2, <3>3
  <2>4. ASSUME NEW a \in C \ V, NEW x \in C, NextIn(C, a, x) PROVE x \in V
    <3>1. CASE a = g
      <4>1. x \in B /\ NextIn(B, f, x)
        BY <1>1, <1>2, <2>4, <3>1 DEF NextIn
      <4>2. QED
        BY <1>0, <1>1, <4>1 DEF Heads
    <3>2. CASE a # g
      <4>1. a \in B \ U /\ a # f
        BY <2>4, <3>2
      <4>2. x # g
        BY <1>4, <2>4, <4>1
      <4>3. NextIn(B, a, x) /\ x \in B
        BY <2>4, <4>2 DEF NextIn
      <4>4. QED
        BY <1>0, <4>1, <4>3 DEF Heads
    <3>3. QED
      BY <3>1, <3>2
  <2>5. QED
    BY <1>3, <2>1, <2>2, <2>3, <2>4 DEF Heads
<1> HIDE DEF V, F, C, G
<1>8. ASSUME NEW a \in B, NEW p, Forth(B, V, a, p), a # f PROVE Forth(C, V, a, p)
  BY <1>1, <1>2, <1>4, <1>8, ForthAdd DEF C
<1>9. ASSUME NEW a \in B, NEW p, Back(B, V, a, p), ~NextIn(B, f, a) PROVE Back(C, V, a, p)
  BY <1>1, <1>2, <1>4, <1>9, BackAdd DEF C
<1>10. ASSUME NEW a \in U PROVE Forth(C, V, a, n[a]) /\ Back(C, V, a, n[a + 1])
  <2>1. a \in B \ {f} /\ Forth(B, U, a, m[a]) /\ Back(B, U, a, m[a + 1]) /\ a \in Int
    BY <1>0, <1>1, <1>10 DEF UsedLinks, F
  <2>2. /\ n[a] = IF NextIn(B, a, f) THEN UMB(f) ELSE m[a]
        /\ n[a + 1] = IF NextIn(B, f, a) THEN FMB(g) ELSE m[a + 1]
    BY <1>10, <2>1 DEF Others
  <2>3. Forth(B, V, a, n[a])
    <3>1. CASE NextIn(B, a, f)
      BY <1>1, <1>3, <2>2, <3>1 DEF Forth
    <3>2. CASE ~NextIn(B, a, f)
      BY <1>1, <1>3, <2>1, <2>2, <3>2, ForthTag
    <3>3. QED
      BY <3>1, <3>2
  <2>4. Back(C, V, a, n[a + 1])
    <3>0. NextIn(B, f, a) <=> PrevIn(B, a, f)
      BY <1>1, <2>1, NextPrev
    <3>1. CASE NextIn(B, f, a)
      BY <1>3, <1>4, <2>1, <2>2, <3>1 DEF Back
    <3>2. CASE ~NextIn(B, f, a)
      <4>1. Back(B, V, a, m[a + 1])
        BY <1>1, <1>3, <2>1, <3>0, <3>2, BackTag
      <4>2. QED
        BY <1>9, <2>1, <2>2, <3>2, <4>1
    <3>3. QED
      BY <3>1, <3>2
  <2>5. QED
    BY <1>8, <2>1, <2>3, <2>4
<1>11. /\ Forth(F, U, f, m[f]) /\ Forth(B, U, f, m[f + 1]) /\ Back(B, U, f, m[f + 2])
       /\ ~NextIn(B, f, f) /\ ~PrevIn(B, f, f)
  BY <1>0, <1>1 DEF FreeLinks, F, NextIn, PrevIn
<1>12. Forth(C, V, f, n[f]) /\ Back(C, V, f, n[f + 1])
  <2>1. Back(B, V, f, m[f + 2])
    BY <1>1, <1>3, <1>11, BackTag
  <2>2. QED
    BY <1>1, <1>3, <1>4, <1>9, <1>11, <2>1 DEF Forth
<1>13. Forth(G, V, g, n[g]) /\ Forth(C, V, g, n[g + 1]) /\ Back(C, V, g, n[g + 2])
  <2>1. Forth(B, V, f, m[f + 1])
    BY <1>1, <1>3, <1>11, ForthTag
  <2>2. Forth(C, V, g, m[f + 1])
    BY <1>1, <1>2, <1>4, <2>1, ForthNew DEF C
  <2>3. Forth(F \ {f}, U, f, m[f])
    <3>1. ~NextIn(F, f, f)
      BY <1>1 DEF NextIn
    <3>2. QED
      BY <1>1, <1>11, <3>1, ForthDrop
  <2>4. Forth(F \ {f}, V, f, m[f])
    <3>1. ~NextIn(F \ {f}, f, f)
      BY DEF NextIn
    <3>2. QED
      BY <1>1, <1>3, <2>3, <3>1, ForthTag
  <2>5. NextIn(G, f, g) /\ g \notin F \ {f}
    BY <1>1, <1>2 DEF NextIn, G, F
  <2>6. Forth(G, V, g, m[f])
    BY <1>1, <1>2, <1>3, <2>4, <2>5, ForthNew DEF G
  <2>7. Back(C, V, g, UMB(f))
    BY <1>1, <1>3, <1>4 DEF Back, C
  <2>8. QED
    BY <2>2, <2>6, <2>7
<1>14. ASSUME NEW a \in F \cup {0}, NEW p, NEW q, a # f, Forth(F, U, a, p),
              q = IF NextIn(F, a, f) THEN FMB(g) ELSE p
       PROVE  Forth(G, V, a, q)
  <2>1. CASE NextIn(F, a, f)
    BY <1>3, <1>5, <1>14, <2>1 DEF Forth
  <2>2. CASE ~NextIn(F, a, f)
    <3>1. a \in Int
      BY <1>1 DEF F
    <3>2. Forth(F \ {f}, U, a, p)
      BY <1>1, <1>14, <2>2, <3>1, ForthDrop
    <3>3. ~NextIn(F \ {f}, a, f)
      BY DEF NextIn
    <3>4. Forth(F \ {f}, V, a, p)
      BY <1>3, <3>1, <3>2, <3>3, ForthTag
    <3>5. ~NextIn(G, a, g)
      BY <1>6, <1>14, <2>2
    <3>6. QED
      BY <1>3, <1>14, <2>2, <3>1, <3>4, <3>5, ForthAdd DEF G
  <2>3. QED
    BY <2>1, <2>2
<1>15. ASSUME NEW a \in F \ {f}
       PROVE  /\ Forth(G, V, a, n[a])
              /\ Forth(C, V, a, n[a + 1]) /\ Back(C, V, a, n[a + 2])
  <2>1. /\ a \in B \ {f} /\ a \notin U /\ a \in F /\ Forth(F, U, a, m[a]) /\ a \in Int
        /\ Forth(B, U, a, m[a + 1]) /\ Back(B, U, a, m[a + 2])
    BY <1>0, <1>1, <1>15 DEF FreeLinks, F
  <2>2. /\ n[a] = IF NextIn(F, a, f) THEN FMB(g) ELSE m[a]
        /\ n[a + 1] = m[a + 1] /\ n[a + 2] = m[a + 2]
    BY <2>1 DEF Others, F
  <2>3. Forth(G, V, a, n[a])
    BY <1>14, <2>1, <2>2
  <2>4. ~NextIn(B, a, f) /\ ~PrevIn(B, a, f)
    BY <1>0, <1>1, <2>1, Neighbours DEF F
  <2>5. Forth(B, V, a, n[a + 1]) /\ Back(B, V, a, n[a + 2])
    BY <1>1, <1>3, <2>1, <2>2, <2>4, ForthTag, BackTag
  <2>6. ~NextIn(B, f, a)
    BY <1>1, <2>1, <2>4, NextPrev
  <2>7. QED
    BY <1>8, <1>9, <2>1, <2>3, <2>5, <2>6
<1>16. Forth(G, V, 0, last)
  <2>1. 0 # f /\ last = IF NextIn(F, 0, f) THEN FMB(g) ELSE first
    BY <1>0, HeadsFacts DEF F
  <2>2. QED
    BY <1>0, <1>14, <2>1
<1>17. UsedLinks(C, V, n)
  BY <1>10, <1>12 DEF UsedLinks, V
<1>18. FreeLinks(C, V, n)
  BY <1>3, <1>13, <1>15 DEF FreeLinks, G
<1>19. QED
  BY <1>3, <1>7, <1>16, <1>17, <1>18 DEF Shape, V, C

-----------------------------------------------------------------------------
(* The walks.                                                              *)

LEMMA StepFacts == LastStep \in Nat /\ LastStep >= 1 /\ 3 * LastStep > KHEAP_SIZE
                   /\ 1 \in Steps /\ LastStep \in Steps
BY HeapAssumption DEF LastStep, Steps

\* Walk w starts at first and goes from each pointer to the next.
Follows(w, first, next) ==
  /\ w \in [Steps -> Int] /\ w[1] = first
  /\ \A i \in Steps : i # 1 => w[i] = next[w[i - 1]]

LEMMA WalkIs ==
  ASSUME NEW first \in Int, NEW next \in [Int -> Int], NEW w, w = Walk(first, next)
  PROVE  Follows(w, first, next)
<1> DEFINE n == LastStep - 1
           step == [x \in Int \X (1 .. n) |-> next[x[1]]]
           Def(f) == [i \in Steps |-> IF i = 1 THEN first ELSE next[f[i - 1]]]
<1>1. n \in Nat
  BY StepFacts
<1>2. step \in [Int \X (1 .. n) -> Int]
  OBVIOUS
<1>3. PICK f \in [0 .. n -> Int] : FoldsTo(f, n, first, step)
  <2> HIDE DEF n, step
  <2>1. QED
    BY <1>1, <1>2, FoldDefined
<1>4. f[0] = first /\ \A i \in 1 .. n : f[i] = next[f[i - 1]]
  <2>1. f[0] = first /\ \A i \in 1 .. n : f[i] = step[<<f[i - 1], i>>]
    BY <1>3 DEF FoldsTo
  <2>2. ASSUME NEW i \in 1 .. n PROVE f[i - 1] \in Int
    <3>1. i - 1 \in 0 .. n
      BY <1>1
    <3> HIDE DEF n
    <3>2. QED
      BY <3>1
  <2>3. QED
    BY <2>1, <2>2
<1> DEFINE g == [i \in Steps |-> f[i - 1]]
<1>5. g = Def(g)
  <2>1. ASSUME NEW i \in Steps PROVE g[i] = IF i = 1 THEN first ELSE next[g[i - 1]]
    <3>1. CASE i = 1
      BY <1>4, <3>1
    <3>2. CASE i # 1
      <4>1. i - 1 \in Steps /\ i - 1 \in 1 .. n
        BY <3>2, StepFacts DEF Steps
      <4>2. QED
        BY <1>4, <3>2, <4>1
    <3>3. QED
      BY <3>1, <3>2
  <2>2. QED
    BY <2>1
<1>6. w = CHOOSE met : met = Def(met)
  BY DEF Walk
<1>7. w = Def(w)
  <2> HIDE DEF g, Def
  <2>1. QED
    BY <1>5, <1>6
<1>8. w = [i \in Steps |-> IF i = 1 THEN first ELSE next[w[i - 1]]]
  BY <1>7
<1>9. \A i \in Steps : w[i] = IF i = 1 THEN first ELSE next[w[i - 1]]
  BY <1>8
<1>10. DOMAIN w = Steps
  BY <1>8
<1>11. ASSUME NEW i \in Steps PROVE w[i] \in Int
  <2> DEFINE T == {h \in Steps : w[h] \in Int}
  <2>1. 1 \in T
    BY <1>9, StepFacts
  <2>2. ASSUME NEW h \in 1 .. LastStep, h # 1, h - 1 \in T PROVE h \in T
    BY <1>9, <2>2 DEF Steps
  <2> HIDE DEF T
  <2>3. 1 .. LastStep \subseteq T
    BY <2>1, <2>2, StepFacts, UpInduction
  <2>4. QED
    BY <2>3 DEF T, Steps
<1>12. QED
  BY <1>8, <1>9, <1>11, StepFacts DEF Follows

\* A word of the heap.
LEMMA WordIs ==
  ASSUME mem \in [1 .. KHEAP_SIZE -> Cells]
  PROVE  /\ \A a \in 1 .. KHEAP_SIZE : Word(a) = mem[a] /\ mem[a] \in Int
         /\ \A a : Word(a) \in Int
<1>1. Cells \in SUBSET Int
  BY HeapAssumption DEF Cells, UMB
<1>2. \A a \in 1 .. KHEAP_SIZE : Word(a) = mem[a] /\ mem[a] \in Int
  BY <1>1 DEF Word
<1>3. ASSUME NEW a PROVE Word(a) \in Int
  <2>1. CASE a \in 1 .. KHEAP_SIZE
    BY <1>2, <2>1
  <2>2. CASE a \notin 1 .. KHEAP_SIZE
    BY <2>2 DEF Word, NULL
  <2>3. QED
    BY <2>1, <2>2
<1>4. QED
  BY <1>2, <1>3

\* The words of the links of a block lie in the heap.
LEMMA LinkWords ==
  ASSUME NEW B, NEW U, Heads(B, U), NEW a \in B
  PROVE  /\ a \in 1 .. KHEAP_SIZE /\ a + 1 \in 1 .. KHEAP_SIZE /\ a + 2 \in 1 .. KHEAP_SIZE
         /\ a \in Nat /\ a >= 1
BY HeapAssumption DEF Heads

\* Pointers to the blocks of the heap fit a word.
LEMMA PointerCells ==
  ASSUME NEW a \in 1 .. KHEAP_SIZE
  PROVE  FMB(a) \in Cells /\ UMB(a) \in Cells
BY HeapAssumption DEF FMB, UMB, Cells

\* Walk w meets the blocks of S in order, from the first, and nothing else.
Meets(S, U, w) ==
  \A i \in Steps : w[i] # NULL =>
    \E x \in S : /\ w[i] = Pointer(U, x)
                 /\ i = 1 => NextIn(S, 0, x)
                 /\ i # 1 => \E q \in S : w[i - 1] = Pointer(U, q) /\ NextIn(S, q, x)

\* It meets all of them, as it has a step for each three words.
MeetsAll(S, U, w) == \A x \in S : \E i \in Steps : w[i] = Pointer(U, x)

\* A walk along links of S.
LEMMA WalkAlong ==
  ASSUME NEW S \in SUBSET (1 .. KHEAP_SIZE), NEW U,
         \A a, x \in S : a < x => a + 3 <= x,
         NEW first, Forth(S, U, 0, first),
         NEW next \in [Int -> Int], next[NULL] = NULL,
         \A a \in S : Forth(S, U, a, next[Pointer(U, a)]),
         NEW w, w = Walk(first, next)
  PROVE  w \in [Steps -> Int] /\ Meets(S, U, w) /\ MeetsAll(S, U, w)
<1>1. /\ KHEAP_SIZE \in Nat /\ S \in SUBSET (Nat \ {0})
      /\ \A x \in S : /\ x \in Nat /\ x \in Int /\ x >= 1 /\ x <= KHEAP_SIZE
                      /\ Pointer(U, x) \in Int /\ Pointer(U, x) # NULL
  <2>1. KHEAP_SIZE \in Nat /\ S \in SUBSET (Nat \ {0})
    BY HeapAssumption
  <2>2. \A x \in S : x \in Nat /\ x \in Int /\ x >= 1 /\ x <= KHEAP_SIZE
    BY <2>1
  <2>3. \A x \in S : Pointer(U, x) \in Int /\ Pointer(U, x) # NULL
    BY <2>2, PointerFacts
  <2>4. QED
    BY <2>1, <2>2, <2>3
<1>2. /\ first # NULL => \E x \in S : NextIn(S, 0, x) /\ first = Pointer(U, x)
      /\ \A x \in S : NextIn(S, 0, x) => first = Pointer(U, x)
  BY <1>1, ForthIs
<1>3. ASSUME NEW a \in S
      PROVE  /\ next[Pointer(U, a)] # NULL =>
                  \E x \in S : NextIn(S, a, x) /\ next[Pointer(U, a)] = Pointer(U, x)
             /\ \A x \in S : NextIn(S, a, x) => next[Pointer(U, a)] = Pointer(U, x)
  <2>1. PICK p : p = next[Pointer(U, a)]
    OBVIOUS
  <2>2. Forth(S, U, a, p) /\ a \in Int
    BY <1>1, <2>1
  <2>3. QED
    BY <1>1, <2>1, <2>2, ForthIs
<1>4. first \in Int
  BY <1>1, <1>2 DEF NULL
<1>5. /\ w \in [Steps -> Int] /\ w[1] = first
      /\ \A i \in Steps : i # 1 => w[i] = next[w[i - 1]]
  <2>1. Follows(w, first, next)
    BY <1>4, WalkIs
  <2>2. QED
    BY <2>1 DEF Follows
<1> DEFINE Met(p) == p = NULL \/ \E x \in S : p = Pointer(U, x)
<1>6. Met(first)
  BY <1>2
<1>7. ASSUME NEW a \in S PROVE Met(next[Pointer(U, a)])
  BY <1>3
<1>8. ASSUME NEW i \in Steps, i # 1 PROVE i - 1 \in Steps
  BY <1>8, StepFacts DEF Steps
<1>9. ASSUME NEW i \in Steps PROVE Met(w[i])
  <2> DEFINE T == {h \in Steps : Met(w[h])}
  <2> HIDE DEF Met
  <2>1. 1 \in T
    BY <1>5, <1>6, StepFacts
  <2>2. ASSUME NEW h \in 1 .. LastStep, h # 1, h - 1 \in T PROVE h \in T
    <3>1. h \in Steps /\ w[h] = next[w[h - 1]] /\ Met(w[h - 1])
      BY <1>5, <2>2 DEF Steps
    <3>2. CASE w[h - 1] = NULL
      BY <3>1, <3>2 DEF Met
    <3>3. CASE w[h - 1] # NULL
      <4>1. PICK a \in S : w[h - 1] = Pointer(U, a)
        BY <3>1, <3>3 DEF Met
      <4>2. QED
        BY <1>7, <3>1, <4>1
    <3>4. QED
      BY <3>2, <3>3
  <2> HIDE DEF T
  <2>3. 1 .. LastStep \subseteq T
    BY <2>1, <2>2, StepFacts, UpInduction
  <2>4. QED
    BY <2>3 DEF T, Steps
<1>10. Meets(S, U, w)
  <2> SUFFICES ASSUME NEW i \in Steps, w[i] # NULL
               PROVE  \E x \in S : /\ w[i] = Pointer(U, x)
                                   /\ i = 1 => NextIn(S, 0, x)
                                   /\ i # 1 => \E q \in S : w[i - 1] = Pointer(U, q) /\ NextIn(S, q, x)
    BY DEF Meets
  <2>1. CASE i = 1
    BY <1>2, <1>5, <2>1
  <2>2. CASE i # 1
    <3>1. Met(w[i - 1]) /\ w[i] = next[w[i - 1]]
      BY <1>5, <1>8, <1>9, <2>2
    <3>2. PICK q \in S : w[i - 1] = Pointer(U, q)
      BY <3>1
    <3>3. PICK x \in S : NextIn(S, q, x) /\ next[Pointer(U, q)] = Pointer(U, x)
      BY <1>3, <3>1, <3>2
    <3>4. QED
      BY <2>2, <3>1, <3>2, <3>3
  <2>3. QED
    BY <2>1, <2>2
<1>11. MeetsAll(S, U, w)
  <2> DEFINE At(x, i) == i \in Steps /\ 3 * i - 2 <= x /\ w[i] = Pointer(U, x)
             Upto(n) == /\ \A x \in S : x <= n => \E i \in Int : At(x, i)
                        /\ \/ \A x \in S : x > n
                           \/ \E q \in S : q <= n /\ \A x \in S : x <= n => x <= q
             T == {n \in 0 .. KHEAP_SIZE : Upto(n)}
  <2>1. 0 \in T
    BY <1>1
  <2>2. ASSUME NEW n \in 1 .. KHEAP_SIZE, n - 1 \in T PROVE n \in T
    <3>1. /\ \A x \in S : x <= n - 1 => \E i \in Int : At(x, i)
          /\ \/ \A x \in S : x > n - 1
             \/ \E q \in S : q <= n - 1 /\ \A x \in S : x <= n - 1 => x <= q
      BY <2>2
    <3>2. n \in Int /\ n \in 0 .. KHEAP_SIZE
      BY <1>1
    <3> HIDE DEF At
    <3>3. CASE n \notin S
      <4>1. \A x \in S : (x <= n <=> x <= n - 1) /\ (x > n <=> x > n - 1)
        BY <1>1, <3>2, <3>3
      <4>2. Upto(n)
        BY <1>1, <3>1, <3>2, <4>1
      <4>3. QED
        BY <3>2, <4>2
    <3>4. CASE n \in S
      <4>1. \E i \in Int : At(n, i)
        <5>1. CASE \A x \in S : x > n - 1
          <6>1. NextIn(S, 0, n)
            BY <1>1, <3>4, <5>1 DEF NextIn
          <6>2. w[1] = Pointer(U, n)
            BY <1>2, <1>5, <3>4, <6>1
          <6>3. QED
            BY <1>1, <3>4, <6>2, StepFacts DEF At
        <5>2. CASE \E q \in S : q <= n - 1 /\ \A x \in S : x <= n - 1 => x <= q
          <6>1. PICK q \in S : q <= n - 1 /\ \A x \in S : x <= n - 1 => x <= q
            BY <5>2
          <6>2. PICK i \in Int : At(q, i)
            BY <3>1, <6>1
          <6>3. NextIn(S, q, n)
            BY <1>1, <3>4, <6>1 DEF NextIn
          <6>4. q + 3 <= n /\ n <= KHEAP_SIZE /\ q \in Int /\ n \in Int
            BY <1>1, <3>4, <6>1
          <6>5. i \in Steps /\ 3 * i - 2 <= q /\ w[i] = Pointer(U, q)
            BY <6>2 DEF At
          <6>6. i >= 1 /\ LastStep \in Nat /\ 3 * LastStep > KHEAP_SIZE
            BY <6>5, StepFacts DEF Steps
          <6>7. 3 * (i + 1) - 2 <= n /\ i + 1 <= LastStep
            BY <1>1, <6>4, <6>5, <6>6
          <6>8. i + 1 \in Steps /\ i + 1 # 1 /\ (i + 1) - 1 = i
            BY <6>6, <6>7 DEF Steps
          <6>9. w[i + 1] = next[w[i]]
            BY <1>5, <6>8
          <6>10. w[i + 1] = Pointer(U, n)
            BY <1>3, <3>4, <6>3, <6>5, <6>9
          <6>11. QED
            BY <6>7, <6>8, <6>10 DEF At
        <5>3. QED
          BY <3>1, <5>1, <5>2
      <4>2. \A x \in S : x <= n <=> x <= n - 1 \/ x = n
        BY <1>1, <3>2
      <4>3. Upto(n)
        <5>1. \A x \in S : x <= n => \E i \in Int : At(x, i)
          BY <3>1, <4>1, <4>2
        <5>2. n <= n
          BY <3>2
        <5>3. QED
          BY <3>4, <5>1, <5>2
      <4>4. QED
        BY <3>2, <4>3
    <3>5. QED
      BY <3>3, <3>4
  <2> HIDE DEF T
  <2>3. 0 .. KHEAP_SIZE \subseteq T
    <3>1. ASSUME NEW h \in 0 .. KHEAP_SIZE - 1, h \in T PROVE h + 1 \in T
      <4>1. h + 1 \in 1 .. KHEAP_SIZE /\ (h + 1) - 1 = h
        BY <1>1
      <4>2. QED
        BY <2>2, <3>1, <4>1
    <3>2. QED
      BY <1>1, <2>1, <3>1, IntervalInduction
  <2>4. KHEAP_SIZE \in T
    BY <1>1, <2>3
  <2>5. ASSUME NEW x \in S PROVE \E i \in Steps : w[i] = Pointer(U, x)
    BY <1>1, <2>4 DEF T
  <2>6. QED
    BY <2>5 DEF MeetsAll
<1>12. QED
  BY <1>5, <1>10, <1>11

\* The walk along the free list.
LEMMA FreeWalkIs ==
  ASSUME NEW B, NEW U, Shape(B, U, mem, FMBlist), mem \in [1 .. KHEAP_SIZE -> Cells]
  PROVE  FreeWalk \in [Steps -> Int] /\ Meets(B \ U, U, FreeWalk) /\ MeetsAll(B \ U, U, FreeWalk)
<1> DEFINE F == B \ U
           next == [p \in Int |-> IF p = NULL THEN NULL ELSE Word(nextFMB(Addr(p)))]
<1>1. /\ Heads(B, U) /\ Forth(F, U, 0, FMBlist)
      /\ \A f \in F : Forth(F, U, f, mem[f]) /\ f \in B
  BY DEF Shape, FreeLinks
<1>2. F \in SUBSET (1 .. KHEAP_SIZE) /\ \A a, x \in F : a < x => a + 3 <= x
  BY <1>1 DEF Heads
<1>3. next \in [Int -> Int] /\ next[NULL] = NULL
  BY WordIs DEF NULL
<1>4. FreeWalk = Walk(FMBlist, next)
  BY DEF FreeWalk
<1>5. ASSUME NEW a \in F PROVE Forth(F, U, a, next[Pointer(U, a)])
  <2>1. a \in 1 .. KHEAP_SIZE /\ a \in Nat /\ a >= 1
    BY <1>1, LinkWords
  <2>2. Pointer(U, a) \in Int /\ Pointer(U, a) # NULL /\ Addr(Pointer(U, a)) = a
    BY <2>1, PointerFacts
  <2>3. next[Pointer(U, a)] = mem[a]
    BY <2>1, <2>2, WordIs DEF nextFMB
  <2>4. QED
    BY <1>1, <2>3
<1> HIDE DEF next, F
<1>6. PICK w : w = FreeWalk
  OBVIOUS
<1>7. w \in [Steps -> Int] /\ Meets(F, U, w) /\ MeetsAll(F, U, w)
  BY <1>1, <1>2, <1>3, <1>4, <1>5, <1>6, WalkAlong
<1>8. QED
  BY <1>6, <1>7 DEF F

\* The walk through all blocks.
LEMMA BlockWalkIs ==
  ASSUME NEW B, NEW U, Shape(B, U, mem, FMBlist), mem \in [1 .. KHEAP_SIZE -> Cells]
  PROVE  BlockWalk \in [Steps -> Int] /\ Meets(B, U, BlockWalk) /\ MeetsAll(B, U, BlockWalk)
<1> DEFINE first == IF FMBlist = FMB(1) THEN FMB(1) ELSE UMB(1)
           next == [p \in Int |-> IF p = NULL THEN NULL
                                  ELSE IF IsUMB(p) THEN Word(nextMB(Addr(p)))
                                  ELSE Word(nextUMB(Addr(p)))]
<1>1. /\ Heads(B, U) /\ Forth(B \ U, U, 0, FMBlist)
      /\ \A a \in U : Forth(B, U, a, mem[a])
      /\ \A a \in B \ U : Forth(B, U, a, mem[a + 1])
  BY DEF Shape, FreeLinks, UsedLinks
<1>2. /\ B \in SUBSET (1 .. KHEAP_SIZE) /\ 1 \in B /\ U \in SUBSET B
      /\ \A a, x \in B : a < x => a + 3 <= x
  BY <1>1 DEF Heads
<1>3. next \in [Int -> Int] /\ next[NULL] = NULL
  BY WordIs DEF NULL
<1>4. BlockWalk = Walk(first, next)
  BY DEF BlockWalk
<1>5. ASSUME NEW a \in B PROVE Forth(B, U, a, next[Pointer(U, a)])
  <2>1. a \in 1 .. KHEAP_SIZE /\ a + 1 \in 1 .. KHEAP_SIZE /\ a \in Nat /\ a >= 1
    BY <1>1, LinkWords
  <2>2. /\ Pointer(U, a) \in Int /\ Pointer(U, a) # NULL /\ Addr(Pointer(U, a)) = a
        /\ IsUMB(Pointer(U, a)) <=> a \in U
    BY <2>1, PointerFacts
  <2>3. next[Pointer(U, a)] = IF a \in U THEN mem[a] ELSE mem[a + 1]
    BY <2>1, <2>2, WordIs DEF nextMB, nextUMB
  <2>4. QED
    BY <1>1, <2>3
<1>6. Forth(B, U, 0, first)
  <2>1. NextIn(B, 0, 1)
    BY <1>2 DEF NextIn
  <2>2. B \ U \in SUBSET (Nat \ {0})
    BY <1>1, HeadsFacts
  <2>3. CASE 1 \in U
    <3>1. FMBlist # FMB(1)
      <4>1. FMBlist # NULL => \E x \in B \ U : FMBlist = Pointer(U, x)
        <5>1. PICK F : F = B \ U
          OBVIOUS
        <5>2. Forth(F, U, 0, FMBlist) /\ F \in SUBSET (Nat \ {0}) /\ 0 \in Int
          BY <1>1, <2>2, <5>1
        <5>3. FMBlist # NULL => \E x \in F : NextIn(F, 0, x) /\ FMBlist = Pointer(U, x)
          BY <5>2, ForthIs
        <5>4. QED
          BY <5>1, <5>3
      <4>2. \A x \in B \ U : x # 1 /\ x \in Nat /\ Pointer(U, x) = FMB(x)
        BY <2>2, <2>3 DEF Pointer
      <4>3. QED
        BY <4>1, <4>2 DEF FMB, NULL
    <3>2. first = Pointer(U, 1)
      BY <2>3, <3>1 DEF Pointer
    <3>3. QED
      BY <1>2, <2>1, <3>2 DEF Forth
  <2>4. CASE 1 \notin U
    <3>1. NextIn(B \ U, 0, 1)
      BY <1>2, <2>1, <2>4 DEF NextIn
    <3>2. FMBlist = Pointer(U, 1)
      BY <1>1, <1>2, <2>2, <2>4, <3>1, ForthIs
    <3>3. first = Pointer(U, 1)
      BY <2>4, <3>2 DEF Pointer
    <3>4. QED
      BY <1>2, <2>1, <3>3 DEF Forth
  <2>5. QED
    BY <2>3, <2>4
<1> HIDE DEF next, first
<1>7. PICK w : w = BlockWalk
  OBVIOUS
<1>8. w \in [Steps -> Int] /\ Meets(B, U, w) /\ MeetsAll(B, U, w)
  BY <1>2, <1>3, <1>4, <1>5, <1>6, <1>7, WalkAlong
<1>9. QED
  BY <1>7, <1>8

-----------------------------------------------------------------------------
(* The row of blocks.                                                      *)

\* e lists the n addresses of S in order.
Row(S, e, n) ==
  /\ n \in Nat /\ n >= 1 /\ e \in [1 .. n -> S]
  /\ \A i, j \in 1 .. n : i < j => e[i] < e[j]
  /\ \A x \in S : \E i \in 1 .. n : e[i] = x

\* Its neighbours are those of S.
AdjacentIn(S, e, n) ==
  /\ NextIn(S, 0, e[1]) /\ \A y \in S : y <= e[n]
  /\ \A i \in 1 .. n : i < n => NextIn(S, e[i], e[i + 1])

LEMMA RowLinked ==
  ASSUME NEW S \in SUBSET (Nat \ {0}), NEW e, NEW n, Row(S, e, n)
  PROVE  AdjacentIn(S, e, n)
<1>0. \A y \in S : y \in Int /\ y > 0
  OBVIOUS
<1>1. /\ n \in Nat /\ n >= 1 /\ 1 \in 1 .. n /\ n \in 1 .. n
      /\ \A i \in 1 .. n : e[i] \in S /\ e[i] \in Int /\ e[i] > 0
      /\ \A i, j \in 1 .. n : i < j => e[i] < e[j]
      /\ \A x \in S : \E i \in 1 .. n : e[i] = x
  <2>1. n \in Nat /\ n >= 1 /\ 1 \in 1 .. n /\ n \in 1 .. n /\ e \in [1 .. n -> S]
    BY DEF Row
  <2>2. ASSUME NEW i \in 1 .. n PROVE e[i] \in S /\ e[i] \in Int /\ e[i] > 0
    <3>1. e[i] \in S
      BY <2>1
    <3>2. QED
      BY <1>0, <3>1
  <2>3. QED
    BY <2>1, <2>2 DEF Row
<1>2. ASSUME NEW i \in 1 .. n, NEW j \in 1 .. n, i <= j PROVE e[i] <= e[j]
  BY <1>1, <1>2
<1>3. ASSUME NEW y \in S PROVE e[1] <= y /\ y <= e[n]
  <2>1. PICK i \in 1 .. n : e[i] = y
    BY <1>1
  <2>2. QED
    BY <1>1, <1>2, <2>1
<1>4. ASSUME NEW i \in 1 .. n, i < n PROVE NextIn(S, e[i], e[i + 1])
  <2>1. i + 1 \in 1 .. n /\ i < i + 1 /\ i \in Int
    BY <1>1, <1>4
  <2>2. ASSUME NEW y \in S, e[i] < y PROVE e[i + 1] <= y
    <3>1. PICK j \in 1 .. n : e[j] = y
      BY <1>1
    <3>2. ~(j <= i)
      BY <1>1, <1>2, <2>2, <3>1
    <3>3. i + 1 <= j
      BY <2>1, <3>2
    <3>4. QED
      BY <1>2, <2>1, <3>1, <3>3
  <2>3. QED
    BY <1>1, <2>1, <2>2 DEF NextIn
<1>5. NextIn(S, 0, e[1])
  BY <1>1, <1>3 DEF NextIn
<1>6. QED
  BY <1>3, <1>4, <1>5 DEF AdjacentIn

\* There is one way to list them.
LEMMA RowOnce ==
  ASSUME NEW S \in SUBSET (Nat \ {0}), NEW e, NEW n, Row(S, e, n),
         NEW d, NEW m, Row(S, d, m)
  PROVE  n = m /\ e = d
<1>1. /\ n \in Nat /\ n >= 1 /\ 1 \in 1 .. n /\ n \in 1 .. n /\ e \in [1 .. n -> S]
      /\ m \in Nat /\ m >= 1 /\ 1 \in 1 .. m /\ m \in 1 .. m /\ d \in [1 .. m -> S]
  BY DEF Row
<1>2. /\ NextIn(S, 0, e[1]) /\ \A y \in S : y <= e[n]
      /\ \A i \in 1 .. n : i < n => NextIn(S, e[i], e[i + 1])
  BY RowLinked DEF AdjacentIn
<1>3. /\ NextIn(S, 0, d[1]) /\ \A y \in S : y <= d[m]
      /\ \A i \in 1 .. m : i < m => NextIn(S, d[i], d[i + 1])
  BY RowLinked DEF AdjacentIn
<1>4. S \in SUBSET Nat /\ \A y \in S : y \in Int
  OBVIOUS
<1> DEFINE T == {i \in 1 .. n : i <= m => e[i] = d[i]}
<1>5. 1 \in T
  BY <1>1, <1>2, <1>3, <1>4, NextOnce
<1>6. ASSUME NEW i \in 1 .. n, i # 1, i - 1 \in T PROVE i \in T
  <2> SUFFICES ASSUME i <= m PROVE e[i] = d[i]
    OBVIOUS
  <2>1. i - 1 \in 1 .. n /\ i - 1 \in 1 .. m /\ i - 1 < n /\ i - 1 < m /\ (i - 1) + 1 = i
    BY <1>1, <1>6
  <2>2. e[i - 1] = d[i - 1] /\ e[i - 1] \in Int
    <3>1. e[i - 1] \in S
      BY <1>1, <2>1
    <3>2. i - 1 <= m
      BY <1>1, <2>1
    <3>3. QED
      BY <1>4, <1>6, <3>1, <3>2
  <2>3. NextIn(S, e[i - 1], e[i]) /\ NextIn(S, d[i - 1], d[i])
    BY <1>2, <1>3, <2>1
  <2>4. QED
    BY <1>4, <2>2, <2>3, NextOnce
<1> HIDE DEF T
<1>7. 1 .. n \subseteq T
  BY <1>1, <1>5, <1>6, UpInduction
<1>8. \A i \in 1 .. n : i <= m => e[i] = d[i]
  BY <1>7 DEF T
<1>9. ~(n < m)
  <2> SUFFICES ASSUME n < m PROVE FALSE
    OBVIOUS
  <2>1. n \in 1 .. m /\ e[n] = d[n]
    BY <1>1, <1>8
  <2>2. NextIn(S, d[n], d[n + 1])
    BY <1>3, <2>1
  <2>3. d[n + 1] \in S /\ d[n] < d[n + 1] /\ d[n + 1] <= e[n]
    BY <1>2, <2>2 DEF NextIn
  <2>4. PICK x, y \in S : x = d[n] /\ y = d[n + 1]
    BY <1>1, <2>1, <2>3
  <2>5. x < y /\ y <= x
    BY <2>1, <2>3, <2>4
  <2>6. QED
    BY <1>4, <2>5
<1>10. ~(m < n)
  <2> SUFFICES ASSUME m < n PROVE FALSE
    OBVIOUS
  <2>1. m \in 1 .. n /\ e[m] = d[m]
    BY <1>1, <1>8
  <2>2. NextIn(S, e[m], e[m + 1])
    BY <1>2, <2>1
  <2>3. e[m + 1] \in S /\ e[m] < e[m + 1] /\ e[m + 1] <= d[m]
    BY <1>3, <2>2 DEF NextIn
  <2>4. PICK x, y \in S : x = e[m] /\ y = e[m + 1]
    BY <1>1, <2>1, <2>3
  <2>5. x < y /\ y <= x
    BY <2>1, <2>3, <2>4
  <2>6. QED
    BY <1>4, <2>5
<1>11. n = m
  BY <1>1, <1>9, <1>10
<1>12. QED
  BY <1>1, <1>8, <1>11

\* Two steps of a walk are two neighbours.
MeetsNext(S, U, w, i) ==
  \E x, q \in S : w[i] = Pointer(U, x) /\ w[i - 1] = Pointer(U, q) /\ NextIn(S, q, x)

LEMMA MetNext ==
  ASSUME NEW S, NEW U, NEW w, Meets(S, U, w), NEW i \in Steps, i # 1, w[i] # NULL
  PROVE  MeetsNext(S, U, w, i)
BY DEF Meets, MeetsNext

\* A walk that meets all of S is a row of S.
WalksRow(U, w, e, n) ==
  n <= LastStep /\ \A i \in Steps : w[i] = IF i <= n THEN Pointer(U, e[i]) ELSE NULL

LEMMA WalkRow ==
  ASSUME NEW S \in SUBSET (Nat \ {0}), NEW U, NEW w,
         w \in [Steps -> Int], Meets(S, U, w), MeetsAll(S, U, w), S # {}
  PROVE  \E e, n : Row(S, e, n) /\ WalksRow(U, w, e, n)
<1>1. \A x \in S : /\ x \in Nat /\ x \in Int /\ x >= 1
                   /\ Pointer(U, x) # NULL /\ Addr(Pointer(U, x)) = x
  <2>1. \A x \in S : x \in Nat /\ x \in Int /\ x >= 1
    OBVIOUS
  <2>2. QED
    BY <2>1, PointerFacts
<1>2. LastStep \in Nat /\ LastStep >= 1 /\ Steps = 1 .. LastStep
  BY StepFacts DEF Steps
<1>3. ASSUME NEW i \in Steps, w[i] # NULL
      PROVE  Addr(w[i]) \in S /\ w[i] = Pointer(U, Addr(w[i]))
  <2>1. PICK x \in S : w[i] = Pointer(U, x)
    BY <1>3 DEF Meets
  <2>2. QED
    BY <1>1, <2>1
<1>4. ASSUME NEW i \in Steps, i # 1, w[i] # NULL
      PROVE  w[i - 1] # NULL /\ Addr(w[i - 1]) < Addr(w[i])
  <2>1. MeetsNext(S, U, w, i)
    BY <1>4, MetNext
  <2>2. PICK x, q \in S : w[i] = Pointer(U, x) /\ w[i - 1] = Pointer(U, q) /\ NextIn(S, q, x)
    BY <2>1 DEF MeetsNext
  <2>3. QED
    BY <1>1, <2>2 DEF NextIn
<1> DEFINE Off == {i \in 1 .. LastStep + 1 : i = LastStep + 1 \/ w[i] = NULL}
<1>5. PICK z \in Off : \A i \in Off : z <= i
  <2>1. Off \in SUBSET Nat /\ LastStep + 1 \in Off
    BY <1>2
  <2> HIDE DEF Off
  <2>2. QED
    BY <2>1, LeastNat
<1>6. PICK n \in Int : n = z - 1
  BY <1>2, <1>5
<1>7. ASSUME NEW i \in 1 .. n PROVE i \in Steps /\ w[i] # NULL
  BY <1>2, <1>5, <1>6
<1>8. ASSUME NEW i \in Steps, i > n PROVE w[i] = NULL
  <2> DEFINE T == {h \in Steps : h > n => w[h] = NULL}
  <2>1. 1 \in T
    <3>1. 1 > n => z = 1 /\ 1 # LastStep + 1
      BY <1>2, <1>5, <1>6
    <3>2. 1 > n => w[1] = NULL
      BY <1>5, <3>1
    <3>3. QED
      BY <3>2, StepFacts
  <2>2. ASSUME NEW h \in 1 .. LastStep, h # 1, h - 1 \in T PROVE h \in T
    <3> SUFFICES ASSUME h > n PROVE w[h] = NULL
      BY <1>2
    <3>1. h - 1 > n \/ h = z
      BY <1>2, <1>5, <1>6
    <3>2. CASE h = z
      <4>1. h # LastStep + 1 /\ h \in Off
        BY <1>2, <1>5, <3>2
      <4>2. QED
        BY <4>1
    <3>3. CASE h - 1 > n
      BY <1>2, <1>4, <2>2, <3>3
    <3>4. QED
      BY <3>1, <3>2, <3>3
  <2> HIDE DEF T
  <2>3. 1 .. LastStep \subseteq T
    BY <1>2, <2>1, <2>2, UpInduction
  <2>4. QED
    BY <1>2, <1>8, <2>3 DEF T
<1>9. n \in Nat /\ n <= LastStep
  BY <1>2, <1>5, <1>6
<1>10. PICK e : e = [i \in 1 .. n |-> Addr(w[i])]
  OBVIOUS
<1>11. ASSUME NEW i \in 1 .. n PROVE e[i] \in S /\ e[i] \in Int /\ w[i] = Pointer(U, e[i])
  BY <1>1, <1>3, <1>7, <1>10
<1>12. ASSUME NEW x \in S PROVE \E i \in 1 .. n : e[i] = x
  <2>1. PICK i \in Steps : w[i] = Pointer(U, x)
    BY DEF MeetsAll
  <2>2. w[i] # NULL /\ Addr(w[i]) = x
    BY <1>1, <2>1
  <2>3. i \in 1 .. n
    BY <1>2, <1>8, <1>9, <2>2
  <2>4. QED
    BY <1>10, <2>2, <2>3
<1>13. n >= 1
  <2>1. PICK x : x \in S
    OBVIOUS
  <2>2. PICK i \in 1 .. n : e[i] = x
    BY <1>12, <2>1
  <2>3. QED
    BY <1>9, <2>2
<1>14. ASSUME NEW i \in 1 .. n, NEW j \in 1 .. n, i < j PROVE e[i] < e[j]
  <2> DEFINE T == {h \in 1 .. n : i < h => e[i] < e[h]}
  <2>1. 1 \in T
    BY <1>13
  <2>2. ASSUME NEW h \in 1 .. n, h # 1, h - 1 \in T PROVE h \in T
    <3> SUFFICES ASSUME i < h PROVE e[i] < e[h]
      OBVIOUS
    <3>1. h - 1 \in 1 .. n /\ (i < h - 1 \/ i = h - 1)
      BY <1>9, <2>2
    <3>2. e[h - 1] < e[h]
      <4>1. h \in Steps /\ w[h] # NULL
        BY <1>7
      <4>2. Addr(w[h - 1]) < Addr(w[h])
        BY <1>4, <2>2, <4>1
      <4>3. QED
        BY <1>10, <3>1, <4>2
    <3>3. CASE i = h - 1
      BY <3>2, <3>3
    <3>4. CASE i < h - 1
      <4>1. e[i] < e[h - 1]
        BY <2>2, <3>4
      <4>2. e[i] \in Int /\ e[h - 1] \in Int /\ e[h] \in Int
        BY <1>11, <3>1
      <4>3. QED
        BY <3>2, <4>1, <4>2
    <3>5. QED
      BY <3>1, <3>3, <3>4
  <2> HIDE DEF T
  <2>3. 1 .. n \subseteq T
    BY <1>9, <2>1, <2>2, UpInduction
  <2>4. QED
    BY <1>14, <2>3 DEF T
<1>15. Row(S, e, n)
  <2>1. e \in [1 .. n -> S]
    BY <1>10, <1>11
  <2>2. QED
    BY <1>9, <1>12, <1>13, <1>14, <2>1 DEF Row
<1>16. WalksRow(U, w, e, n)
  <2>1. ASSUME NEW i \in Steps PROVE w[i] = IF i <= n THEN Pointer(U, e[i]) ELSE NULL
    <3>1. CASE i <= n
      BY <1>2, <1>9, <1>11, <3>1
    <3>2. CASE ~(i <= n)
      <4>1. i > n
        BY <1>2, <1>9, <3>2
      <4>2. QED
        BY <1>8, <3>2, <4>1
    <3>3. QED
      BY <3>1, <3>2
  <2>2. QED
    BY <1>9, <2>1 DEF WalksRow
<1>17. QED
  BY <1>15, <1>16

-----------------------------------------------------------------------------
(* CoKmalloc: the stores.                                                  *)

\* A store changes one word, if any.
LEMMA PutIs ==
  ASSUME NEW D, NEW V, NEW m \in [D -> V], NEW c \in BOOLEAN, NEW a, NEW v,
         c => a \in D /\ v \in V
  PROVE  /\ Put(m, c, a, v) \in [D -> V]
         /\ \A x \in D : Put(m, c, a, v)[x] = IF c /\ x = a THEN v ELSE m[x]
<1>1. CASE c
  BY <1>1 DEF Put
<1>2. CASE ~c
  BY <1>2 DEF Put
<1>3. QED
  BY <1>1, <1>2

\* The used neighbours of a free block, as its links name them.
LEMMA FreeNeighbours ==
  ASSUME NEW B, NEW U, NEW m, Heads(B, U), FreeLinks(B, U, m), NEW f \in B \ U
  PROVE  /\ m[f + 1] = NULL => \A y \in B : y <= f
         /\ m[f + 1] # NULL => /\ Addr(m[f + 1]) \in U /\ NextIn(B, f, Addr(m[f + 1]))
                               /\ m[f + 1] = UMB(Addr(m[f + 1]))
         /\ m[f + 2] = NULL => \A y \in B : f <= y
         /\ m[f + 2] # NULL => /\ Addr(m[f + 2]) \in U /\ PrevIn(B, f, Addr(m[f + 2]))
                               /\ m[f + 2] = UMB(Addr(m[f + 2]))
<1>1. B \in SUBSET (Nat \ {0}) /\ f \in Int /\ \A x \in B : x \in Nat /\ x >= 1
  BY HeadsFacts
<1>2. Forth(B, U, f, m[f + 1]) /\ Back(B, U, f, m[f + 2])
  BY DEF FreeLinks
<1>3. ASSUME m[f + 1] # NULL
      PROVE  /\ Addr(m[f + 1]) \in U /\ NextIn(B, f, Addr(m[f + 1]))
             /\ m[f + 1] = UMB(Addr(m[f + 1]))
  <2>1. PICK x \in B : NextIn(B, f, x) /\ m[f + 1] = Pointer(U, x)
    BY <1>1, <1>2, <1>3, ForthIs
  <2>2. x \in U /\ Addr(m[f + 1]) = x
    BY <1>1, <2>1, Neighbours, PointerFacts
  <2>3. QED
    BY <2>1, <2>2 DEF Pointer
<1>4. ASSUME m[f + 2] # NULL
      PROVE  /\ Addr(m[f + 2]) \in U /\ PrevIn(B, f, Addr(m[f + 2]))
             /\ m[f + 2] = UMB(Addr(m[f + 2]))
  <2>1. PICK x \in B : PrevIn(B, f, x) /\ m[f + 2] = Pointer(U, x)
    BY <1>1, <1>2, <1>4, BackIs
  <2>2. x \in U /\ Addr(m[f + 2]) = x
    BY <1>1, <2>1, Neighbours, PointerFacts
  <2>3. QED
    BY <2>1, <2>2 DEF Pointer
<1>5. m[f + 1] = NULL => \A y \in B : y <= f
  BY <1>1, <1>2, ForthIs
<1>6. m[f + 2] = NULL => \A y \in B : f <= y
  <2>1. PICK p : p = m[f + 2]
    OBVIOUS
  <2>2. Back(B, U, f, p)
    BY <1>2, <2>1
  <2>3. p = NULL => \A y \in B : f <= y
    BY <1>1, <2>2, BackIs
  <2>4. QED
    BY <2>1, <2>3
<1>7. QED
  BY <1>3, <1>4, <1>5, <1>6

\* A free block ends where the next block starts.
LEMMA FreeSizeIs ==
  ASSUME NEW B, NEW U, Heads(B, U), FreeLinks(B, U, mem), NEW f \in B \ U
  PROVE  /\ FreeSize(f) \in Int /\ f + FreeSize(f) <= KHEAP_SIZE + 1
         /\ \A x \in B : f < x => f + FreeSize(f) <= x
         /\ \/ f + FreeSize(f) = KHEAP_SIZE + 1 /\ \A y \in B : y <= f
            \/ NextIn(B, f, f + FreeSize(f))
<1>1. f \in Nat /\ KHEAP_SIZE \in Nat /\ \A x \in B : x \in Nat /\ x <= KHEAP_SIZE
  BY HeapAssumption, LinkWords DEF Heads
<1>2. CASE mem[f + 1] = NULL
  <2>1. FreeSize(f) = KHEAP_SIZE + 1 - f
    BY <1>1, <1>2 DEF FreeSize, nextUMB, End
  <2>2. \A y \in B : y <= f
    BY <1>2, FreeNeighbours
  <2>3. QED
    BY <1>1, <2>1, <2>2
<1>3. CASE mem[f + 1] # NULL
  <2>1. PICK x \in B : x = Addr(mem[f + 1]) /\ NextIn(B, f, x)
    BY <1>3, FreeNeighbours DEF NextIn
  <2>2. FreeSize(f) = x - f
    BY <1>3, <2>1 DEF FreeSize, nextUMB
  <2>3. f + FreeSize(f) = x /\ x <= KHEAP_SIZE
    BY <1>1, <2>1, <2>2
  <2>4. QED
    BY <1>1, <2>1, <2>2, <2>3 DEF NextIn
<1>4. QED
  BY <1>2, <1>3

\* A block of the heap has three words at least, and the caller's data lies
\* behind the two links.
LEMMA WordsFacts ==
  ASSUME NEW n \in Nat, n > 0
  PROVE  /\ Words(n) \in Nat /\ Words(n) >= 3
         /\ \A f \in Nat : /\ Data(f, n) = f + 2 .. f + Words(n) - 1
                           /\ Data(f, n) # {} /\ f + 2 \in Data(f, n)
<1>1. PICK h \in Nat : h = (n + 3) \div 4 /\ h >= 1
  <2>1. (n + 3) \div 4 \in Nat /\ (n + 3) \div 4 >= 1
    OBVIOUS
  <2>2. QED
    BY <2>1
<1>2. Words(n) = h + 2
  BY <1>1 DEF Words
<1>3. ASSUME NEW f \in Nat PROVE Data(f, n) = f + 2 .. f + 1 + h
  BY <1>1 DEF Data
<1>4. ASSUME NEW f \in Nat
      PROVE  /\ Data(f, n) = f + 2 .. f + Words(n) - 1
             /\ Data(f, n) # {} /\ f + 2 \in Data(f, n)
  <2>1. f + Words(n) - 1 = f + 1 + h
    BY <1>1, <1>2
  <2>2. Data(f, n) = f + 2 .. f + Words(n) - 1
    BY <1>3, <2>1
  <2>3. f + 2 \in f + 2 .. f + 1 + h
    BY <1>1
  <2>4. QED
    BY <1>3, <2>2, <2>3
<1>5. Words(n) \in Nat /\ Words(n) >= 3
  BY <1>1, <1>2
<1>6. QED
  BY <1>4, <1>5

\* Outside block f, that ends before e, CoKmalloc stores three words at most.
Told(m, n, f, e, prev, q, before, after, listed) ==
  \A x \in 1 .. KHEAP_SIZE : x \notin f .. e - 1 =>
    n[x] = IF m[f + 2] # NULL /\ x = Addr(m[f + 2]) THEN before
           ELSE IF m[f + 1] # NULL /\ x = Addr(m[f + 1]) + 1 THEN after
           ELSE IF prev /\ x = q THEN listed ELSE m[x]

\* Those are words of links, and the right ones.
LEMMA OthersTold ==
  ASSUME NEW B, NEW U, Heads(B, U), NEW m, FreeLinks(B, U, m), NEW f \in B \ U,
         NEW e \in Int, f + 3 <= e, \A x \in B : f < x => e <= x,
         NEW prev \in BOOLEAN, NEW q, prev => q \in B \ U /\ NextIn(B \ U, q, f),
         ~prev => NextIn(B \ U, 0, f),
         NEW n, NEW before, NEW after, NEW listed,
         Told(m, n, f, e, prev, q, before, after, listed)
  PROVE  Others(B, U, f, m, n, before, after, listed)
<1> DEFINE F == B \ U
           up == m[f + 1]
           down == m[f + 2]
<1>1. /\ B \in SUBSET Nat /\ F \in SUBSET Nat /\ f \in F /\ f \in B /\ f \in Nat
      /\ \A a \in B : a \in Nat /\ a >= 1
  BY HeadsFacts
<1>2. /\ up = NULL => \A y \in B : y <= f
      /\ up # NULL => Addr(up) \in U /\ Addr(up) \in B /\ NextIn(B, f, Addr(up))
      /\ down = NULL => \A y \in B : f <= y
      /\ down # NULL => Addr(down) \in U /\ Addr(down) \in B /\ PrevIn(B, f, Addr(down))
  BY FreeNeighbours, HeadsFacts
<1> HIDE DEF up, down
<1>3. ASSUME NEW a \in B, a # f, NEW h \in 0 .. 2
      PROVE  /\ a + h \in 1 .. KHEAP_SIZE /\ a + h \notin f .. e - 1
             /\ n[a + h] = IF down # NULL /\ a + h = Addr(down) THEN before
                           ELSE IF up # NULL /\ a + h = Addr(up) + 1 THEN after
                           ELSE IF prev /\ a + h = q THEN listed ELSE m[a + h]
             /\ down # NULL => (a + h = Addr(down) <=> a = Addr(down) /\ h = 0)
             /\ up # NULL => (a + h = Addr(up) + 1 <=> a = Addr(up) /\ h = 1)
             /\ prev => (a + h = q <=> a = q /\ h = 0)
  <2>1. a + h \in 1 .. KHEAP_SIZE
    <3>1. a \in 1 .. KHEAP_SIZE /\ a + 1 \in 1 .. KHEAP_SIZE /\ a + 2 \in 1 .. KHEAP_SIZE
      BY LinkWords
    <3>2. h = 0 \/ h = 1 \/ h = 2
      OBVIOUS
    <3>3. a + 0 = a
      BY <1>1
    <3>4. QED
      BY <3>1, <3>2, <3>3
  <2>2. a + h \notin f .. e - 1
    <3>1. CASE a < f
      <4>1. a + 3 <= f
        BY <1>1, <1>3, <3>1 DEF Heads
      <4>2. QED
        BY <1>1, <4>1
    <3>2. CASE f < a
      BY <1>1, <3>2
    <3>3. QED
      BY <1>1, <1>3, <3>1, <3>2
  <2>3. ASSUME NEW y \in B, NEW j \in 0 .. 2, a + h = y + j PROVE a = y /\ h = j
    <3>1. (a < y => a + 3 <= y) /\ (y < a => y + 3 <= a) /\ a \in Nat /\ y \in Nat
      BY <1>1 DEF Heads
    <3>2. QED
      BY <2>3, <3>1
  <2>4. down # NULL => (a + h = Addr(down) <=> a = Addr(down) /\ h = 0)
    <3>1. \A y \in B : y + 0 = y
      BY <1>1
    <3>2. QED
      BY <1>1, <1>2, <2>3, <3>1
  <2>5. up # NULL => (a + h = Addr(up) + 1 <=> a = Addr(up) /\ h = 1)
    BY <1>2, <2>3
  <2>6. prev => (a + h = q <=> a = q /\ h = 0)
    <3>1. \A y \in B : y + 0 = y
      BY <1>1
    <3>2. QED
      BY <1>1, <2>3, <3>1
  <2>7. QED
    BY <2>1, <2>2, <2>4, <2>5, <2>6 DEF Told, up, down
<1>4. ASSUME NEW a \in B, a # f
      PROVE  /\ n[a] = IF down # NULL /\ a = Addr(down) THEN before
                       ELSE IF prev /\ a = q THEN listed ELSE m[a]
             /\ n[a + 1] = IF up # NULL /\ a = Addr(up) THEN after ELSE m[a + 1]
             /\ n[a + 2] = m[a + 2]
  <2>1. a + 0 = a /\ 0 \in 0 .. 2 /\ 1 \in 0 .. 2 /\ 2 \in 0 .. 2 /\ 0 # 1 /\ 0 # 2 /\ 1 # 2
    BY <1>1
  <2>2. n[a] = IF down # NULL /\ a = Addr(down) THEN before
               ELSE IF prev /\ a = q THEN listed ELSE m[a]
    BY <1>3, <1>4, <2>1
  <2>3. n[a + 1] = IF up # NULL /\ a = Addr(up) THEN after ELSE m[a + 1]
    BY <1>3, <1>4, <2>1
  <2>4. n[a + 2] = m[a + 2]
    BY <1>3, <1>4, <2>1
  <2>5. QED
    BY <2>2, <2>3, <2>4
<1>5. ASSUME NEW a \in B PROVE NextIn(B, a, f) <=> down # NULL /\ a = Addr(down)
  <2>1. NextIn(B, a, f) <=> PrevIn(B, f, a)
    BY <1>1, NextPrev
  <2>2. CASE down = NULL
    BY <1>1, <1>2, <2>1, <2>2 DEF PrevIn
  <2>3. CASE down # NULL
    BY <1>1, <1>2, <2>1, <2>3, PrevOnce
  <2>4. QED
    BY <2>2, <2>3
<1>6. ASSUME NEW a \in B PROVE NextIn(B, f, a) <=> up # NULL /\ a = Addr(up)
  <2>2. CASE up = NULL
    BY <1>1, <1>2, <2>2 DEF NextIn
  <2>3. CASE up # NULL
    BY <1>1, <1>2, <2>3, NextOnce
  <2>4. QED
    BY <2>2, <2>3
<1>7. ASSUME NEW a \in F PROVE NextIn(F, a, f) <=> prev /\ a = q
  <2>1. CASE prev
    <3>1. q \in F /\ NextIn(F, q, f)
      BY <2>1
    <3>2. PrevIn(F, f, q) /\ (NextIn(F, a, f) <=> PrevIn(F, f, a))
      BY <1>1, <3>1, NextPrev
    <3>3. QED
      BY <1>1, <2>1, <3>1, <3>2, PrevOnce
  <2>2. CASE ~prev
    BY <1>1, <2>2 DEF NextIn
  <2>3. QED
    BY <2>1, <2>2
<1>8. QED
  BY <1>2, <1>4, <1>5, <1>6, <1>7 DEF Others

\* The data of a used block is none of the words of links, and none inside a
\* free block.
LEMMA DataApart ==
  ASSUME NEW B, NEW U, Heads(B, U), NEW m, Owned(B, U, m), NEW b \in live,
         NEW d \in b.data
  PROVE  /\ b.at \in U /\ b.at \in B /\ b.at \in Nat
         /\ d \in 1 .. KHEAP_SIZE /\ d \in Nat /\ b.at + 2 <= d
         /\ \A y \in B : d # y /\ d # y + 1 /\ (y \notin U => d # y + 2)
         /\ \A f \in B \ U, e \in Int : (\A x \in B : f < x => e <= x) => d \notin f .. e - 1
<1>1. b.at \in U /\ b.at \in B
  BY DEF Owned, Heads
<1>2. b.at \in Nat /\ b.at >= 1 /\ \A y \in B : y \in Nat
  BY <1>1, LinkWords
<1>3. d \in b.at + 2 .. KHEAP_SIZE /\ \A x \in B : b.at < x => d < x
  BY DEF Owned
<1>4. d \in 1 .. KHEAP_SIZE /\ d \in Nat /\ b.at + 2 <= d
  BY <1>2, <1>3, HeapAssumption
<1>5. ASSUME NEW y \in B PROVE d # y /\ d # y + 1 /\ (y \notin U => d # y + 2)
  <2>1. CASE y < b.at
    <3>1. y + 3 <= b.at
      BY <1>1, <2>1 DEF Heads
    <3>2. QED
      BY <1>2, <1>4, <3>1
  <2>2. CASE y = b.at
    BY <1>1, <1>2, <1>4, <2>2
  <2>3. CASE b.at < y
    BY <1>2, <1>3, <1>4, <2>3
  <2>4. QED
    BY <1>2, <2>1, <2>2, <2>3
<1>6. ASSUME NEW f \in B \ U, NEW e \in Int, \A x \in B : f < x => e <= x
      PROVE  d \notin f .. e - 1
  <2>1. f \in B /\ f # b.at
    BY <1>1
  <2>2. CASE f < b.at
    BY <1>1, <1>2, <1>4, <1>6, <2>1, <2>2
  <2>3. CASE b.at < f
    BY <1>2, <1>3, <1>4, <2>1, <2>3
  <2>4. QED
    BY <1>2, <2>1, <2>2, <2>3
<1>7. QED
  BY <1>1, <1>2, <1>4, <1>5, <1>6

\* The walk along the free list finds block f of F at step i, after q if not
\* as the first, and f is large enough.
Takes(F, size, i, f, q) ==
  /\ i \in Steps /\ Addr(FreeWalk[i]) = f /\ FreeSize(f) >= size
  /\ i > 1 => q \in F /\ Addr(FreeWalk[i - 1]) = q /\ NextIn(F, q, f)
  /\ ~(i > 1) => NextIn(F, 0, f)

\* The block CoKmalloc takes, the free block before it, and the room in it.
LEMMA Chosen ==
  ASSUME NEW B, NEW U, Shape(B, U, mem, FMBlist), mem \in [1 .. KHEAP_SIZE -> Cells],
         NEW size \in Nat, FitsAt(size) # {}
  PROVE  \E f \in B \ U, q \in Int :
           Takes(B \ U, size, Min(FitsAt(size)), f, q)
<1>0. PICK i : i = Min(FitsAt(size))
  OBVIOUS
<1> DEFINE F == B \ U
<1>1. PICK w : w = FreeWalk
  OBVIOUS
<1>2. ASSUME NEW h \in Steps, w[h] # NULL
      PROVE  \E f \in F : /\ w[h] = FMB(f)
                          /\ h = 1 => NextIn(F, 0, f)
                          /\ h # 1 => \E q \in F : w[h - 1] = FMB(q) /\ NextIn(F, q, f)
  <2>1. Meets(F, U, w)
    BY <1>1, FreeWalkIs
  <2>2. \A f \in F : Pointer(U, f) = FMB(f)
    BY DEF Pointer
  <2> HIDE DEF F
  <2>3. QED
    BY <1>2, <2>1, <2>2 DEF Meets
<1>3. FitsAt(size) = {h \in Steps : w[h] # NULL /\ FreeSize(Addr(w[h])) >= size}
  BY <1>1 DEF FitsAt
<1>4. i \in Steps /\ w[i] # NULL /\ FreeSize(Addr(w[i])) >= size
  <2>1. Steps \in SUBSET Nat
    BY DEF Steps
  <2>2. FitsAt(size) \in SUBSET Nat
    BY <1>3, <2>1
  <2>3. i \in FitsAt(size)
    BY <1>0, <2>2, MinNat
  <2>4. QED
    BY <1>3, <2>3
<1>5. \A a \in F : Addr(FMB(a)) = a /\ a \in Int
  <2>1. \A a \in F : a \in Nat
    BY HeadsFacts DEF Shape
  <2>2. QED
    BY <2>1 DEF Addr, FMB
<1>6. i = 1 \/ i > 1
  BY <1>4, StepFacts DEF Steps
<1> HIDE DEF F
<1>7. PICK f \in F : /\ w[i] = FMB(f)
                     /\ i = 1 => NextIn(F, 0, f)
                     /\ i # 1 => \E q \in F : w[i - 1] = FMB(q) /\ NextIn(F, q, f)
  BY <1>2, <1>4
<1>8. CASE i = 1
  <2>1. ~(i > 1) /\ 0 \in Int
    BY <1>8
  <2>2. QED
    BY <1>0, <1>1, <1>4, <1>5, <1>7, <1>8, <2>1 DEF F, Takes
<1>9. CASE i > 1
  <2>1. i # 1
    BY <1>9
  <2>2. PICK q \in F : w[i - 1] = FMB(q) /\ NextIn(F, q, f)
    BY <1>7, <2>1
  <2>3. QED
    BY <1>0, <1>1, <1>4, <1>5, <1>7, <1>9, <2>2 DEF F, Takes
<1>10. QED
  BY <1>6, <1>8, <1>9

\* No free block before it is large enough.
LEMMA ChosenFirst ==
  ASSUME NEW B, NEW U, Shape(B, U, mem, FMBlist), mem \in [1 .. KHEAP_SIZE -> Cells],
         NEW size \in Nat, FitsAt(size) # {}, NEW i, i = Min(FitsAt(size)),
         NEW f \in B \ U, NEW q, Takes(B \ U, size, i, f, q)
  PROVE  \A x \in B \ U : x < f => FreeSize(x) < size
<1>1. PICK F, w : F = B \ U /\ w = FreeWalk
  OBVIOUS
<1>2. /\ Heads(B, U) /\ FreeLinks(B, U, mem) /\ F \in SUBSET (Nat \ {0}) /\ F # {}
      /\ f \in F /\ \A x \in F : x \in Nat /\ x >= 1
  BY <1>1, HeadsFacts DEF Shape
<1>3. w \in [Steps -> Int] /\ Meets(F, U, w) /\ MeetsAll(F, U, w)
  BY <1>1, FreeWalkIs
<1>4. PICK e, n : Row(F, e, n) /\ WalksRow(U, w, e, n)
  BY <1>2, <1>3, WalkRow
<1>5. /\ n \in Nat /\ e \in [1 .. n -> F] /\ n <= LastStep
      /\ \A h, j \in 1 .. n : h < j => e[h] < e[j]
      /\ \A x \in F : \E h \in 1 .. n : e[h] = x
      /\ \A h \in Steps : w[h] = IF h <= n THEN Pointer(U, e[h]) ELSE NULL
  BY <1>4 DEF Row, WalksRow
<1>6. LastStep \in Nat /\ Steps = 1 .. LastStep
  BY StepFacts DEF Steps
<1>7. FitsAt(size) = {h \in Steps : w[h] # NULL /\ FreeSize(Addr(w[h])) >= size}
  BY <1>1 DEF FitsAt
<1>8. /\ i \in Steps /\ w[i] # NULL
      /\ \A h \in Steps : w[h] # NULL /\ FreeSize(Addr(w[h])) >= size => i <= h
  <2>1. FitsAt(size) \in SUBSET Nat
    BY <1>6, <1>7
  <2>2. i \in FitsAt(size) /\ \A h \in FitsAt(size) : i <= h
    BY <2>1, MinNat
  <2>3. QED
    BY <1>7, <2>2
<1>9. i \in 1 .. n /\ e[i] = f
  <2>1. i <= n /\ w[i] = Pointer(U, e[i])
    BY <1>5, <1>8
  <2>2. i \in 1 .. n
    BY <1>5, <1>6, <1>8, <2>1
  <2>3. e[i] \in F
    BY <1>5, <2>2
  <2>4. Addr(w[i]) = e[i]
    BY <1>2, <2>1, <2>3, PointerFacts
  <2>5. Addr(w[i]) = f
    BY <1>1 DEF Takes
  <2>6. QED
    BY <2>2, <2>4, <2>5
<1>10. ASSUME NEW x \in F, x < f PROVE FreeSize(x) < size
  <2>1. PICK h \in 1 .. n : e[h] = x
    BY <1>5
  <2>2. h < i
    <3>1. i < h => f < x
      BY <1>5, <1>9, <2>1
    <3>2. i # h
      BY <1>2, <1>9, <1>10, <2>1
    <3>3. ~(i < h)
      BY <1>2, <1>10, <3>1
    <3>4. QED
      BY <1>5, <1>9, <3>2, <3>3
  <2>3. h \in Steps /\ h <= n /\ ~(i <= h)
    BY <1>5, <1>6, <1>9, <2>2
  <2>4. w[h] # NULL /\ Addr(w[h]) = x
    BY <1>2, <1>5, <2>1, <2>3, PointerFacts
  <2>5. ~(FreeSize(x) >= size)
    BY <1>8, <2>3, <2>4
  <2>6. FreeSize(x) \in Int
    BY <1>1, <1>2, FreeSizeIs
  <2>7. QED
    BY <2>5, <2>6
<1>11. QED
  BY <1>1, <1>10

\* The new owner has its data, and the others keep theirs.
LEMMA OwnedMore ==
  ASSUME NEW B, NEW U, Heads(B, U), Owned(B, U, mem), NEW f \in B \ U,
         NEW n \in Nat, n > 0, f + Words(n) <= KHEAP_SIZE + 1,
         \A x \in B : f < x => f + Words(n) <= x,
         NEW C, \A x \in C : x \in B \/ (x = f + Words(n) /\ \A y \in B : f < y => x <= y),
         live' = live \cup {[at |-> f, data |-> Data(f, n)]},
         \A d \in Data(f, n) : mem'[d] = USER,
         \A b \in live : \A d \in b.data : mem'[d] = mem[d]
  PROVE  Owned(C, U \cup {f}, mem)'
<1> DEFINE new == [at |-> f, data |-> Data(f, n)]
<1>1. /\ f \in Nat /\ f >= 1 /\ Words(n) \in Nat /\ Words(n) >= 3 /\ KHEAP_SIZE \in Nat
      /\ Data(f, n) = f + 2 .. f + Words(n) - 1 /\ Data(f, n) # {}
      /\ (\A x \in B : x \in Nat) /\ new.at = f /\ new.data = Data(f, n)
  BY LinkWords, WordsFacts, HeapAssumption
<1>2. U = {b.at : b \in live} /\ \A b, c \in live : b.at = c.at => b = c
  BY DEF Owned
<1>3. \A b \in live : b.at \in U /\ b.at # f /\ b.at \in B
  BY <1>2 DEF Heads
<1> HIDE DEF new
<1>4. U \cup {f} = {b.at : b \in live'}
  <2>1. live' = live \cup {new}
    BY DEF new
  <2>2. QED
    BY <1>1, <1>2, <2>1
<1>5. \A b, c \in live' : b.at = c.at => b = c
  BY <1>1, <1>2, <1>3 DEF new
<1>6. ASSUME NEW b \in live
      PROVE  /\ b.data # {} /\ b.data \in SUBSET (b.at + 2 .. KHEAP_SIZE)
             /\ \A x \in C : b.at < x => \A d \in b.data : d < x
             /\ \A d \in b.data : mem'[d] = USER
  <2>1. /\ b.data # {} /\ b.data \in SUBSET (b.at + 2 .. KHEAP_SIZE)
        /\ \A x \in B : b.at < x => \A d \in b.data : d < x
        /\ \A d \in b.data : mem[d] = USER
    BY DEF Owned
  <2>2. ASSUME NEW x \in C, b.at < x, NEW d \in b.data PROVE d < x
    <3>1. CASE x \in B
      BY <2>1, <2>2, <3>1
    <3>2. CASE x = f + Words(n) /\ \A y \in B : f < y => x <= y
      <4>1. b.at \in B /\ b.at \in Nat
        BY <1>1, <1>3
      <4>2. ~(f < b.at)
        BY <1>1, <2>2, <3>2, <4>1
      <4>3. b.at < f
        BY <1>1, <1>3, <4>1, <4>2
      <4>4. d < f /\ d \in Int
        BY <2>1, <2>2, <4>1, <4>3
      <4>5. QED
        BY <1>1, <3>2, <4>4
    <3>3. QED
      BY <3>1, <3>2
  <2>3. QED
    BY <2>1, <2>2
<1>7. /\ new.data # {} /\ new.data \in SUBSET (new.at + 2 .. KHEAP_SIZE)
      /\ \A x \in C : new.at < x => \A d \in new.data : d < x
      /\ \A d \in new.data : mem'[d] = USER
  <2>1. f + Words(n) - 1 <= KHEAP_SIZE
    BY <1>1
  <2>2. new.data \in SUBSET (new.at + 2 .. KHEAP_SIZE)
    <3>1. ASSUME NEW d \in Data(f, n) PROVE d \in f + 2 .. KHEAP_SIZE
      <4>1. d \in f + 2 .. f + Words(n) - 1
        BY <1>1, <3>1
      <4>2. QED
        BY <1>1, <2>1, <4>1
    <3>2. QED
      BY <1>1, <3>1
  <2>3. ASSUME NEW x \in C, f < x PROVE f + Words(n) <= x /\ x \in Nat
    <3>1. CASE x \in B
      BY <1>1, <2>3, <3>1
    <3>2. CASE x = f + Words(n)
      BY <1>1, <3>2
    <3>3. QED
      BY <3>1, <3>2
  <2>4. ASSUME NEW x \in C, new.at < x, NEW d \in new.data PROVE d < x
    BY <1>1, <2>3, <2>4
  <2>5. QED
    BY <1>1, <2>2, <2>4
<1>8. live' = live \cup {new}
  BY DEF new
<1>9. \A b \in live' :
       /\ b.data # {} /\ b.data \in SUBSET (b.at + 2 .. KHEAP_SIZE)
       /\ \A x \in C : b.at < x => \A d \in b.data : d < x
       /\ \A d \in b.data : mem'[d] = USER
  BY <1>6, <1>7, <1>8
<1>10. QED
  BY <1>4, <1>5, <1>9 DEF Owned

\* CoKmalloc's stores when it hands out free block f: to the head of the
\* block, to its neighbours, and to the free block before it.
LEMMA TakeFacts ==
  ASSUME NEW B, NEW U, Heads(B, U), FreeLinks(B, U, mem),
         mem \in [1 .. KHEAP_SIZE -> Cells], NEW f \in B \ U
  PROVE  /\ f \in Nat /\ f >= 1 /\ KHEAP_SIZE \in Nat
         /\ f \in 1 .. KHEAP_SIZE /\ f + 1 \in 1 .. KHEAP_SIZE /\ f + 2 \in 1 .. KHEAP_SIZE
         /\ mem[f] \in Cells /\ mem[f + 1] \in Cells /\ mem[f + 2] \in Cells
         /\ UMB(f) \in Cells
         /\ mem[f + 1] # NULL => Addr(mem[f + 1]) + 1 \in 1 .. KHEAP_SIZE
         /\ mem[f + 2] # NULL => Addr(mem[f + 2]) \in 1 .. KHEAP_SIZE
<1>1. /\ f \in Nat /\ f >= 1 /\ KHEAP_SIZE \in Nat
      /\ f \in 1 .. KHEAP_SIZE /\ f + 1 \in 1 .. KHEAP_SIZE /\ f + 2 \in 1 .. KHEAP_SIZE
  BY LinkWords, HeapAssumption
<1>2. mem[f] \in Cells /\ mem[f + 1] \in Cells /\ mem[f + 2] \in Cells /\ UMB(f) \in Cells
  BY <1>1, PointerCells
<1>3. \A a \in U : a \in 1 .. KHEAP_SIZE /\ a + 1 \in 1 .. KHEAP_SIZE
  BY LinkWords, HeadsFacts
<1>4. /\ mem[f + 1] # NULL => Addr(mem[f + 1]) \in U
      /\ mem[f + 2] # NULL => Addr(mem[f + 2]) \in U
  BY FreeNeighbours
<1>5. QED
  BY <1>1, <1>2, <1>3, <1>4

\* The words after all of f is handed out, and after its front is.
WholeTaken(f, prev, q) ==
  Put(Whole(Put(mem, prev, nextFMB(q), mem[nextFMB(f)]), f),
      mem[preUMB(f)] # NULL, nextMB(Addr(mem[preUMB(f)])), UMB(f))

FrontTaken(f, size, prev, q) ==
  Put(Split(Put(mem, prev, nextFMB(q), FMB(f + size)), f, size),
      mem[preUMB(f)] # NULL, nextMB(Addr(mem[preUMB(f)])), UMB(f))

\* What they are, if f ends before e.
WholeIs(w, f, e, prev, q) ==
  /\ w \in [1 .. KHEAP_SIZE -> Cells]
  /\ Told(mem, w, f, e, prev, q, UMB(f), UMB(f), mem[f])
  /\ w[f] = mem[f + 1] /\ w[f + 1] = mem[f + 2]

FrontIs(w, f, g, e, prev, q) ==
  /\ w \in [1 .. KHEAP_SIZE -> Cells]
  /\ Told(mem, w, f, e, prev, q, UMB(f), FMB(g), FMB(g))
  /\ w[f] = FMB(g) /\ w[f + 1] = mem[f + 2]
  /\ w[g] = mem[f] /\ w[g + 1] = mem[f + 1] /\ w[g + 2] = UMB(f)

LEMMA TakeWhole ==
  ASSUME NEW B, NEW U, Heads(B, U), FreeLinks(B, U, mem),
         mem \in [1 .. KHEAP_SIZE -> Cells], NEW f \in B \ U,
         NEW prev \in BOOLEAN, NEW q, prev => q \in 1 .. KHEAP_SIZE,
         NEW e \in Int, f + 3 <= e
  PROVE  WholeIs(WholeTaken(f, prev, q), f, e, prev, q)
<1>0. PICK w : w = WholeTaken(f, prev, q)
  OBVIOUS
<1>1. PICK up, down, rest : up = mem[f + 1] /\ down = mem[f + 2] /\ rest = mem[f]
  OBVIOUS
<1>2. /\ f \in Nat /\ f >= 1 /\ KHEAP_SIZE \in Nat
      /\ f \in 1 .. KHEAP_SIZE /\ f + 1 \in 1 .. KHEAP_SIZE
      /\ rest \in Cells /\ up \in Cells /\ down \in Cells /\ UMB(f) \in Cells
      /\ up # NULL => Addr(up) + 1 \in 1 .. KHEAP_SIZE
      /\ down # NULL => Addr(down) \in 1 .. KHEAP_SIZE
      /\ f # f + 1
  BY <1>1, TakeFacts
<1>3. w = Put([Put(Put(mem, prev, q, rest), up # NULL, Addr(up) + 1, UMB(f))
                 EXCEPT ![f] = up, ![f + 1] = down],
              down # NULL, Addr(down), UMB(f))
  BY <1>0, <1>1 DEF WholeTaken, Whole, nextFMB, preUMB, nextMB, preMB, nextUMB
<1>4. /\ w \in [1 .. KHEAP_SIZE -> Cells]
      /\ \A x \in 1 .. KHEAP_SIZE :
           w[x] = IF down # NULL /\ x = Addr(down) THEN UMB(f)
                  ELSE IF x = f THEN up
                  ELSE IF x = f + 1 THEN down
                  ELSE IF up # NULL /\ x = Addr(up) + 1 THEN UMB(f)
                  ELSE IF prev /\ x = q THEN rest ELSE mem[x]
  <2>10. /\ mem \in [1 .. KHEAP_SIZE -> Cells] /\ UMB(f) \in Cells
         /\ rest \in Cells /\ up \in Cells /\ down \in Cells
         /\ up # NULL => Addr(up) + 1 \in 1 .. KHEAP_SIZE
         /\ down # NULL => Addr(down) \in 1 .. KHEAP_SIZE
    BY <1>2
  <2>1. PICK M0 : M0 = Put(mem, prev, q, rest)
    OBVIOUS
  <2>2. PICK M1 : M1 = Put(M0, up # NULL, Addr(up) + 1, UMB(f))
    OBVIOUS
  <2>3. PICK M2 : M2 = [M1 EXCEPT ![f] = up, ![f + 1] = down]
    OBVIOUS
  <2>4. w = Put(M2, down # NULL, Addr(down), UMB(f))
    BY <1>3, <2>1, <2>2, <2>3
  <2>5. /\ M0 \in [1 .. KHEAP_SIZE -> Cells]
        /\ \A x \in 1 .. KHEAP_SIZE : M0[x] = IF prev /\ x = q THEN rest ELSE mem[x]
    <3>1. CASE prev
      BY <2>1, <2>10, <3>1 DEF Put
    <3>2. CASE ~prev
      BY <2>1, <2>10, <3>2 DEF Put
    <3>3. QED
      BY <3>1, <3>2
  <2>6. /\ M1 \in [1 .. KHEAP_SIZE -> Cells]
        /\ \A x \in 1 .. KHEAP_SIZE : M1[x] = IF up # NULL /\ x = Addr(up) + 1 THEN UMB(f) ELSE M0[x]
    <3>1. CASE up # NULL
      BY <2>2, <2>5, <2>10, <3>1 DEF Put
    <3>2. CASE up = NULL
      BY <2>2, <2>5, <3>2 DEF Put
    <3>3. QED
      BY <3>1, <3>2
  <2>7. /\ M2 \in [1 .. KHEAP_SIZE -> Cells]
        /\ \A x \in 1 .. KHEAP_SIZE : M2[x] = IF x = f THEN up ELSE IF x = f + 1 THEN down ELSE M1[x]
    BY <1>2, <2>3, <2>6, <2>10
  <2>8. /\ w \in [1 .. KHEAP_SIZE -> Cells]
        /\ \A x \in 1 .. KHEAP_SIZE : w[x] = IF down # NULL /\ x = Addr(down) THEN UMB(f) ELSE M2[x]
    <3>1. CASE down # NULL
      BY <2>4, <2>7, <2>10, <3>1 DEF Put
    <3>2. CASE down = NULL
      BY <2>4, <2>7, <3>2 DEF Put
    <3>3. QED
      BY <3>1, <3>2
  <2>9. QED
    BY <2>5, <2>6, <2>7, <2>8
<1>5. Told(mem, w, f, e, prev, q, UMB(f), UMB(f), mem[f])
  <2> SUFFICES ASSUME NEW x \in 1 .. KHEAP_SIZE, x \notin f .. e - 1
               PROVE  w[x] = IF down # NULL /\ x = Addr(down) THEN UMB(f)
                             ELSE IF up # NULL /\ x = Addr(up) + 1 THEN UMB(f)
                             ELSE IF prev /\ x = q THEN rest ELSE mem[x]
    BY <1>1 DEF Told
  <2>1. x # f /\ x # f + 1
    BY <1>2
  <2>2. QED
    BY <1>4, <2>1
<1>6. down # NULL => Addr(down) # f /\ Addr(down) # f + 1
  <2>1. down # NULL => PrevIn(B, f, Addr(down))
    BY <1>1, FreeNeighbours
  <2>2. ASSUME down # NULL PROVE Addr(down) < f /\ Addr(down) \in Int
    BY <1>2, <2>1, <2>2 DEF PrevIn
  <2>3. QED
    BY <1>2, <2>2
<1>7. w[f] = up /\ w[f + 1] = down
  BY <1>2, <1>4, <1>6
<1>8. QED
  BY <1>0, <1>1, <1>4, <1>5, <1>7 DEF WholeIs

\* The words after f is split at g.
LEMMA TakeSplit ==
  ASSUME NEW B, NEW U, Heads(B, U), FreeLinks(B, U, mem),
         mem \in [1 .. KHEAP_SIZE -> Cells], NEW f \in B \ U,
         NEW prev \in BOOLEAN, NEW q, prev => q \in 1 .. KHEAP_SIZE,
         NEW size \in Nat, size >= 3, NEW e \in Int,
         f + size + 3 <= e, e <= KHEAP_SIZE + 1
  PROVE  FrontIs(FrontTaken(f, size, prev, q), f, f + size, e, prev, q)
<1>0. PICK w, g : w = FrontTaken(f, size, prev, q) /\ g = f + size
  OBVIOUS
<1>1. PICK up, down, list : up = mem[f + 1] /\ down = mem[f + 2] /\ list = mem[f]
  OBVIOUS
<1>2. /\ f \in Nat /\ f >= 1 /\ KHEAP_SIZE \in Nat /\ g \in Nat
      /\ f \in 1 .. KHEAP_SIZE /\ f + 1 \in 1 .. KHEAP_SIZE
      /\ list \in Cells /\ up \in Cells /\ down \in Cells /\ UMB(f) \in Cells
      /\ up # NULL => Addr(up) + 1 \in 1 .. KHEAP_SIZE
      /\ down # NULL => Addr(down) \in 1 .. KHEAP_SIZE
      /\ f # f + 1
  BY <1>0, <1>1, TakeFacts
<1>3. g \in 1 .. KHEAP_SIZE /\ g + 1 \in 1 .. KHEAP_SIZE /\ g + 2 \in 1 .. KHEAP_SIZE
  BY <1>0, <1>2
<1>4. FMB(g) \in Cells
  BY <1>3, PointerCells
<1>5. /\ f # g /\ f # g + 1 /\ f # g + 2 /\ f + 1 # g /\ f + 1 # g + 1 /\ f + 1 # g + 2
      /\ g # g + 1 /\ g # g + 2 /\ g + 1 # g + 2
  BY <1>0, <1>2
<1>6. w = Put([Put(Put(mem, prev, q, FMB(g)), up # NULL, Addr(up) + 1, FMB(g))
                 EXCEPT ![g + 2] = UMB(f), ![g + 1] = up, ![g] = list,
                        ![f] = FMB(g), ![f + 1] = down],
              down # NULL, Addr(down), UMB(f))
  BY <1>0, <1>1 DEF FrontTaken, Split, SplitLinks, nextFMB, preUMB, nextMB, preMB, nextUMB
<1>7. /\ w \in [1 .. KHEAP_SIZE -> Cells]
      /\ \A x \in 1 .. KHEAP_SIZE :
           w[x] = IF down # NULL /\ x = Addr(down) THEN UMB(f)
                  ELSE IF x = f THEN FMB(g)
                  ELSE IF x = f + 1 THEN down
                  ELSE IF x = g THEN list
                  ELSE IF x = g + 1 THEN up
                  ELSE IF x = g + 2 THEN UMB(f)
                  ELSE IF up # NULL /\ x = Addr(up) + 1 THEN FMB(g)
                  ELSE IF prev /\ x = q THEN FMB(g) ELSE mem[x]
  <2>10. /\ mem \in [1 .. KHEAP_SIZE -> Cells] /\ FMB(g) \in Cells /\ UMB(f) \in Cells
         /\ list \in Cells /\ up \in Cells /\ down \in Cells
         /\ up # NULL => Addr(up) + 1 \in 1 .. KHEAP_SIZE
         /\ down # NULL => Addr(down) \in 1 .. KHEAP_SIZE
    BY <1>2, <1>4
  <2>1. PICK M0 : M0 = Put(mem, prev, q, FMB(g))
    OBVIOUS
  <2>2. PICK M1 : M1 = Put(M0, up # NULL, Addr(up) + 1, FMB(g))
    OBVIOUS
  <2>3. PICK M2 : M2 = [M1 EXCEPT ![g + 2] = UMB(f), ![g + 1] = up, ![g] = list,
                                  ![f] = FMB(g), ![f + 1] = down]
    OBVIOUS
  <2>4. w = Put(M2, down # NULL, Addr(down), UMB(f))
    BY <1>6, <2>1, <2>2, <2>3
  <2>5. /\ M0 \in [1 .. KHEAP_SIZE -> Cells]
        /\ \A x \in 1 .. KHEAP_SIZE : M0[x] = IF prev /\ x = q THEN FMB(g) ELSE mem[x]
    <3>1. CASE prev
      BY <2>1, <2>10, <3>1 DEF Put
    <3>2. CASE ~prev
      BY <2>1, <2>10, <3>2 DEF Put
    <3>3. QED
      BY <3>1, <3>2
  <2>6. /\ M1 \in [1 .. KHEAP_SIZE -> Cells]
        /\ \A x \in 1 .. KHEAP_SIZE : M1[x] = IF up # NULL /\ x = Addr(up) + 1 THEN FMB(g) ELSE M0[x]
    <3>1. CASE up # NULL
      BY <2>2, <2>5, <2>10, <3>1 DEF Put
    <3>2. CASE up = NULL
      BY <2>2, <2>5, <3>2 DEF Put
    <3>3. QED
      BY <3>1, <3>2
  <2>7. /\ M2 \in [1 .. KHEAP_SIZE -> Cells]
        /\ \A x \in 1 .. KHEAP_SIZE : M2[x] = IF x = f THEN FMB(g) ELSE IF x = f + 1 THEN down
                                ELSE IF x = g THEN list ELSE IF x = g + 1 THEN up
                                ELSE IF x = g + 2 THEN UMB(f) ELSE M1[x]
    <3>1. PICK g0, g1, g2, f1 : g0 = g /\ g1 = g + 1 /\ g2 = g + 2 /\ f1 = f + 1
      OBVIOUS
    <3>2. /\ f # g0 /\ f # g1 /\ f # g2 /\ f1 # g0 /\ f1 # g1 /\ f1 # g2
          /\ g0 # g1 /\ g0 # g2 /\ g1 # g2 /\ f # f1
      BY <1>2, <1>5, <3>1
    <3>3. PICK M3 : M3 = [M1 EXCEPT ![g2] = UMB(f), ![g1] = up, ![g0] = list]
      OBVIOUS
    <3>4. M2 = [M3 EXCEPT ![f] = FMB(g), ![f1] = down]
      BY <2>3, <3>1, <3>3
    <3>5. PICK D : D = 1 .. KHEAP_SIZE
      OBVIOUS
    <3>6. M1 \in [D -> Cells] /\ f \in D /\ f1 \in D /\ g0 \in D /\ g1 \in D /\ g2 \in D
      BY <1>2, <1>3, <2>6, <3>1, <3>5
    <3>7. /\ M3 \in [D -> Cells]
          /\ \A x \in D : M3[x] = IF x = g0 THEN list ELSE IF x = g1 THEN up
                                  ELSE IF x = g2 THEN UMB(f) ELSE M1[x]
      BY <2>10, <3>2, <3>3, <3>6
    <3>8. /\ M2 \in [D -> Cells]
          /\ \A x \in D : M2[x] = IF x = f THEN FMB(g) ELSE IF x = f1 THEN down ELSE M3[x]
      BY <2>10, <3>2, <3>4, <3>6, <3>7
    <3>9. QED
      BY <3>1, <3>2, <3>5, <3>7, <3>8
  <2>8. /\ w \in [1 .. KHEAP_SIZE -> Cells]
        /\ \A x \in 1 .. KHEAP_SIZE : w[x] = IF down # NULL /\ x = Addr(down) THEN UMB(f) ELSE M2[x]
    <3>1. CASE down # NULL
      BY <2>4, <2>7, <2>10, <3>1 DEF Put
    <3>2. CASE down = NULL
      BY <2>4, <2>7, <3>2 DEF Put
    <3>3. QED
      BY <3>1, <3>2
  <2>9. QED
    BY <2>5, <2>6, <2>7, <2>8
<1>8. Told(mem, w, f, e, prev, q, UMB(f), FMB(g), FMB(g))
  <2> SUFFICES ASSUME NEW x \in 1 .. KHEAP_SIZE, x \notin f .. e - 1
               PROVE  w[x] = IF down # NULL /\ x = Addr(down) THEN UMB(f)
                             ELSE IF up # NULL /\ x = Addr(up) + 1 THEN FMB(g)
                             ELSE IF prev /\ x = q THEN FMB(g) ELSE mem[x]
    BY <1>1 DEF Told
  <2>1. x # f /\ x # f + 1 /\ x # g /\ x # g + 1 /\ x # g + 2
    BY <1>0, <1>2
  <2>2. QED
    BY <1>7, <2>1
<1>9. down # NULL => /\ Addr(down) # f /\ Addr(down) # f + 1
                     /\ Addr(down) # g /\ Addr(down) # g + 1 /\ Addr(down) # g + 2
  <2>1. down # NULL => PrevIn(B, f, Addr(down))
    BY <1>1, FreeNeighbours
  <2>2. ASSUME down # NULL PROVE Addr(down) < f /\ Addr(down) \in Int
    BY <1>2, <2>1, <2>2 DEF PrevIn
  <2>3. QED
    BY <1>0, <1>2, <2>2
<1>10. w[f] = FMB(g) /\ w[f + 1] = down /\ w[g] = list /\ w[g + 1] = up /\ w[g + 2] = UMB(f)
  BY <1>2, <1>3, <1>5, <1>7, <1>9
<1>11. QED
  BY <1>0, <1>1, <1>7, <1>8, <1>10 DEF FrontIs

\* v is w, filled.
FilledWords(v, w, f, n) ==
  /\ v \in [1 .. KHEAP_SIZE -> Cells]
  /\ \A x \in 1 .. KHEAP_SIZE : v[x] = IF x \in Data(f, n) THEN USER ELSE w[x]

\* The new owner writes to its data and to nothing else.
LEMMA FilledIs ==
  ASSUME NEW w \in [1 .. KHEAP_SIZE -> Cells], NEW f, NEW n
  PROVE  FilledWords(Filled(w, f, n), w, f, n)
<1>1. USER \in Cells
  BY HeapAssumption DEF USER, Cells, UMB
<1>2. QED
  BY <1>1 DEF Filled, FilledWords

LEMMA FilledTold ==
  ASSUME NEW w \in [1 .. KHEAP_SIZE -> Cells], NEW f, NEW n,
         NEW e, Data(f, n) \subseteq f .. e - 1,
         NEW prev \in BOOLEAN, NEW q, NEW before, NEW after, NEW listed,
         Told(mem, w, f, e, prev, q, before, after, listed)
  PROVE  Told(mem, Filled(w, f, n), f, e, prev, q, before, after, listed)
<1>1. \A x \in 1 .. KHEAP_SIZE : Filled(w, f, n)[x] = IF x \in Data(f, n) THEN USER ELSE w[x]
  <2>1. FilledWords(Filled(w, f, n), w, f, n)
    BY FilledIs
  <2>2. QED
    BY <2>1 DEF FilledWords
<1>2. \A x \in 1 .. KHEAP_SIZE : x \notin f .. e - 1 => Filled(w, f, n)[x] = w[x]
  <2>1. \A x : x \notin f .. e - 1 => x \notin Data(f, n)
    OBVIOUS
  <2>2. QED
    BY <1>1, <2>1
<1>3. QED
  BY <1>2 DEF Told

Spared(v) == \A b \in live : \A d \in b.data : v[d] = mem[d]

\* What the others own is not among the words stored to.
LEMMA TakenApart ==
  ASSUME NEW B, NEW U, Heads(B, U), FreeLinks(B, U, mem), Owned(B, U, mem), NEW f \in B \ U,
         NEW e \in Int, \A x \in B : f < x => e <= x,
         NEW prev \in BOOLEAN, NEW q, prev => q \in B,
         NEW v, NEW before, NEW after, NEW listed,
         Told(mem, v, f, e, prev, q, before, after, listed)
  PROVE  Spared(v)
<1> SUFFICES ASSUME NEW b \in live, NEW d \in b.data PROVE v[d] = mem[d]
  BY DEF Spared
<1>1. /\ d \in 1 .. KHEAP_SIZE /\ d \notin f .. e - 1
      /\ \A y \in B : d # y /\ d # y + 1
  BY DataApart
<1>2. /\ mem[f + 2] # NULL => Addr(mem[f + 2]) \in B
      /\ mem[f + 1] # NULL => Addr(mem[f + 1]) \in B
  BY FreeNeighbours, HeadsFacts
<1>3. v[d] = IF mem[f + 2] # NULL /\ d = Addr(mem[f + 2]) THEN before
             ELSE IF mem[f + 1] # NULL /\ d = Addr(mem[f + 1]) + 1 THEN after
             ELSE IF prev /\ d = q THEN listed ELSE mem[d]
  BY <1>1 DEF Told
<1>4. ~(mem[f + 2] # NULL /\ d = Addr(mem[f + 2]))
  BY <1>1, <1>2
<1>5. ~(mem[f + 1] # NULL /\ d = Addr(mem[f + 1]) + 1)
  BY <1>1, <1>2
<1>6. ~(prev /\ d = q)
  BY <1>1
<1>7. QED
  BY <1>3, <1>4, <1>5, <1>6

\* The heap of blocks B, used at U, becomes one of blocks C, used at V.
Becomes(B, U, C, V) ==
  /\ B \in SUBSET (1 .. KHEAP_SIZE) /\ U \in SUBSET (1 .. KHEAP_SIZE)
  /\ C \in SUBSET (1 .. KHEAP_SIZE) /\ V \in SUBSET (1 .. KHEAP_SIZE)
  /\ mem \in [1 .. KHEAP_SIZE -> Cells] /\ Shape(B, U, mem, FMBlist)
  /\ mem' \in [1 .. KHEAP_SIZE -> Cells] /\ Shape(C, V, mem', FMBlist')
  /\ Owned(C, V, mem)'

\* Free block f is the first that is large enough.
FirstFits(B, U, f, size) ==
  /\ f \in B \ U /\ FreeSize(f) >= size
  /\ \A x \in B \ U : x < f => FreeSize(x) < size

\* It is handed out, and what is left over is a block if it can be one.
Grants(B, U, f, size, C) ==
  /\ FirstFits(B, U, f, size)
  /\ C = IF TooSmall(f, size) THEN B ELSE B \cup {f + size}
  /\ Becomes(B, U, C, U \cup {f})

\* A call of CoKmalloc that succeeds.
LEMMA CoKmallocGrants ==
  ASSUME HeapInv, NEW n \in Requests, CoKmalloc(n)
  PROVE  \E B, U, f, C : Grants(B, U, f, Words(n), C)
<1>0. PICK size : size = Words(n)
  OBVIOUS
<1>1. n \in Nat /\ n > 0 /\ FitsAt(size) # {}
  BY <1>0, HeapAssumption DEF CoKmalloc
<1>2. size \in Nat /\ size >= 3
  BY <1>0, <1>1, WordsFacts
<1>3. mem \in [1 .. KHEAP_SIZE -> Cells] /\ KHEAP_SIZE \in Nat
  BY HeapAssumption DEF HeapInv
<1>4. PICK B, U \in SUBSET (1 .. KHEAP_SIZE) : Shape(B, U, mem, FMBlist) /\ Owned(B, U, mem)
  BY DEF HeapInv
<1>5. Heads(B, U) /\ FreeLinks(B, U, mem)
  BY <1>4 DEF Shape
<1>6. PICK i : i = Min(FitsAt(size))
  OBVIOUS
<1>70. PICK f \in B \ U, q \in Int : Takes(B \ U, size, i, f, q)
  BY <1>1, <1>2, <1>3, <1>4, <1>6, Chosen
<1>7.   /\ i \in Steps /\ Addr(FreeWalk[i]) = f /\ FreeSize(f) >= size
        /\ i > 1 => q \in B \ U /\ Addr(FreeWalk[i - 1]) = q /\ NextIn(B \ U, q, f)
        /\ ~(i > 1) => NextIn(B \ U, 0, f)
  BY <1>70 DEF Takes
<1>71. FirstFits(B, U, f, size)
  <2>1. \A x \in B \ U : x < f => FreeSize(x) < size
    BY <1>1, <1>2, <1>3, <1>4, <1>6, <1>70, ChosenFirst
  <2>2. QED
    BY <1>7, <2>1 DEF FirstFits
<1>8. PICK prev \in BOOLEAN : prev <=> i > 1
  OBVIOUS
<1>9. /\ prev => q \in B \ U /\ NextIn(B \ U, q, f) /\ q \in B /\ q \in 1 .. KHEAP_SIZE
      /\ ~prev => NextIn(B \ U, 0, f)
  BY <1>4, <1>7, <1>8
<1>10. f \in Nat /\ f >= 1 /\ f \in 1 .. KHEAP_SIZE /\ f + 1 \in 1 .. KHEAP_SIZE
  BY <1>5, LinkWords
<1>11. PICK e \in Int : e = f + FreeSize(f)
  BY <1>5, FreeSizeIs
<1>12. /\ e <= KHEAP_SIZE + 1 /\ f + size <= e /\ f + 3 <= e /\ FreeSize(f) \in Int
       /\ \A x \in B : f < x => e <= x
  <2>0. FreeSize(f) \in Int /\ f + FreeSize(f) <= KHEAP_SIZE + 1 /\ \A x \in B : f < x => f + FreeSize(f) <= x
    BY <1>5, FreeSizeIs
  <2>1. FreeSize(f) \in Int /\ e <= KHEAP_SIZE + 1 /\ \A x \in B : f < x => e <= x
    BY <1>11, <2>0
  <2>2. QED
    BY <1>2, <1>7, <1>10, <1>11, <2>1
<1>13. PICK D : D = Data(f, n)
  OBVIOUS
<1>14. D = f + 2 .. f + size - 1 /\ D \subseteq f .. e - 1 /\ D \subseteq 1 .. KHEAP_SIZE
  <2>1. D = f + 2 .. f + size - 1
    BY <1>0, <1>1, <1>10, <1>13, WordsFacts
  <2>2. ASSUME NEW d \in D PROVE d \in f .. e - 1 /\ d \in 1 .. KHEAP_SIZE
    <3>1. d \in Int /\ f + 2 <= d /\ d <= f + size - 1
      BY <1>2, <1>10, <2>1
    <3>2. QED
      BY <1>2, <1>3, <1>10, <1>12, <3>1
  <2>3. QED
    BY <2>1, <2>2
<1>15. live' = live \cup {[at |-> f, data |-> Data(f, n)]}
  BY <1>0, <1>6, <1>7 DEF CoKmalloc
<1>16. PICK rest : rest = IF TooSmall(f, size) THEN mem[nextFMB(f)] ELSE FMB(f + size)
  OBVIOUS
<1>17. PICK listed : listed = Put(mem, prev, nextFMB(q), rest)
  OBVIOUS
<1>18. PICK taken : taken = IF TooSmall(f, size) THEN Whole(listed, f) ELSE Split(listed, f, size)
  OBVIOUS
<1>19. PICK w : w = Put(taken, mem[preUMB(f)] # NULL, nextMB(Addr(mem[preUMB(f)])), UMB(f))
  OBVIOUS
<1>20. mem' = Filled(w, f, n) /\ FMBlist' = IF prev THEN FMBlist ELSE rest
  <2>1. listed = Put(mem, i > 1, nextFMB(Addr(FreeWalk[i - 1])), rest)
    BY <1>7, <1>8, <1>17 DEF Put
  <2>2. QED
    BY <1>0, <1>6, <1>7, <1>8, <1>16, <1>18, <1>19, <2>1 DEF CoKmalloc
<1>21. FMBlist' = IF NextIn(B \ U, 0, f) THEN rest ELSE FMBlist
  <2>1. prev => ~NextIn(B \ U, 0, f)
    BY <1>5, <1>9, HeadsFacts DEF NextIn
  <2>2. QED
    BY <1>9, <1>20, <2>1
<1>22. \A x \in B : x \in 1 .. KHEAP_SIZE /\ x \in Nat
  BY <1>4
<1>23. CASE TooSmall(f, size)
  <2>1. w = WholeTaken(f, prev, q)
    BY <1>16, <1>17, <1>18, <1>19, <1>23 DEF WholeTaken
  <2>2. /\ w \in [1 .. KHEAP_SIZE -> Cells]
        /\ Told(mem, w, f, e, prev, q, UMB(f), UMB(f), mem[f])
        /\ w[f] = mem[f + 1] /\ w[f + 1] = mem[f + 2]
    <3>1. WholeIs(WholeTaken(f, prev, q), f, e, prev, q)
      BY <1>3, <1>5, <1>9, <1>12, TakeWhole
    <3>2. QED
      BY <2>1, <3>1 DEF WholeIs
  <2>3. /\ mem' \in [1 .. KHEAP_SIZE -> Cells]
        /\ \A x \in 1 .. KHEAP_SIZE : mem'[x] = IF x \in D THEN USER ELSE w[x]
    <3>1. FilledWords(Filled(w, f, n), w, f, n)
      BY <2>2, FilledIs
    <3>2. FilledWords(mem', w, f, n)
      BY <1>20, <3>1
    <3>3. QED
      BY <1>13, <3>2 DEF FilledWords
  <2>4. Told(mem, mem', f, e, prev, q, UMB(f), UMB(f), mem[f])
    <3>1. Told(mem, Filled(w, f, n), f, e, prev, q, UMB(f), UMB(f), mem[f])
      BY <1>13, <1>14, <2>2, FilledTold
    <3>2. QED
      BY <1>20, <3>1
  <2>5. f \notin D /\ f + 1 \notin D
    BY <1>10, <1>14
  <2>6. mem'[f] = mem[f + 1] /\ mem'[f + 1] = mem[f + 2]
    BY <1>10, <2>2, <2>3, <2>5
  <2>7. Others(B, U, f, mem, mem', UMB(f), UMB(f), mem[f])
    BY <1>5, <1>9, <1>12, <2>4, OthersTold
  <2>8. Shape(B, U \cup {f}, mem', FMBlist')
    <3>1. FMBlist' = IF NextIn(B \ U, 0, f) THEN mem[f] ELSE FMBlist
      BY <1>16, <1>21, <1>23 DEF nextFMB
    <3>2. QED
      BY <1>4, <2>6, <2>7, <3>1, WholeShape
  <2>9. Owned(B, U \cup {f}, mem)'
    <3>0. Spared(mem')
      BY <1>4, <1>5, <1>9, <1>12, <2>4, TakenApart
    <3>1. \A b \in live : \A d \in b.data : mem'[d] = mem[d]
      BY <3>0 DEF Spared
    <3>2. \A d \in Data(f, n) : mem'[d] = USER
      BY <1>13, <1>14, <2>3
    <3>3. f + Words(n) <= KHEAP_SIZE + 1 /\ \A x \in B : f < x => f + Words(n) <= x
      BY <1>0, <1>2, <1>3, <1>10, <1>12, <1>22
    <3>4. QED
      BY <1>1, <1>4, <1>5, <1>15, <3>1, <3>2, <3>3, OwnedMore
  <2>10. U \cup {f} \in SUBSET (1 .. KHEAP_SIZE)
    BY <1>4, <1>10
  <2>11. Becomes(B, U, B, U \cup {f})
    BY <1>3, <1>4, <2>3, <2>8, <2>9, <2>10 DEF Becomes
  <2>12. QED
    BY <1>0, <1>23, <1>71, <2>11 DEF Grants
<1>24. CASE ~TooSmall(f, size)
  <2>0. PICK g \in Nat : g = f + size
    BY <1>2, <1>10
  <2>1. w = FrontTaken(f, size, prev, q)
    BY <1>16, <1>17, <1>18, <1>19, <1>24 DEF FrontTaken
  <2>2. g + 3 <= e /\ f + size + 3 <= e /\ f + 3 <= g
    BY <1>2, <1>10, <1>11, <1>12, <1>24, <2>0 DEF TooSmall
  <2>3. /\ w \in [1 .. KHEAP_SIZE -> Cells]
        /\ Told(mem, w, f, e, prev, q, UMB(f), FMB(g), FMB(g))
        /\ w[f] = FMB(g) /\ w[f + 1] = mem[f + 2]
        /\ w[g] = mem[f] /\ w[g + 1] = mem[f + 1] /\ w[g + 2] = UMB(f)
    <3>1. FrontIs(FrontTaken(f, size, prev, q), f, f + size, e, prev, q)
      BY <1>2, <1>3, <1>5, <1>9, <1>12, <2>2, TakeSplit
    <3>2. FrontIs(w, f, g, e, prev, q)
      BY <2>0, <2>1, <3>1
    <3>3. QED
      BY <3>2 DEF FrontIs
  <2>4. /\ mem' \in [1 .. KHEAP_SIZE -> Cells]
        /\ \A x \in 1 .. KHEAP_SIZE : mem'[x] = IF x \in D THEN USER ELSE w[x]
    <3>1. FilledWords(Filled(w, f, n), w, f, n)
      BY <2>3, FilledIs
    <3>2. FilledWords(mem', w, f, n)
      BY <1>20, <3>1
    <3>3. QED
      BY <1>13, <3>2 DEF FilledWords
  <2>5. Told(mem, mem', f, e, prev, q, UMB(f), FMB(g), FMB(g))
    <3>1. Told(mem, Filled(w, f, n), f, e, prev, q, UMB(f), FMB(g), FMB(g))
      BY <1>13, <1>14, <2>3, FilledTold
    <3>2. QED
      BY <1>20, <3>1
  <2>6. /\ f \notin D /\ f + 1 \notin D /\ g \notin D /\ g + 1 \notin D /\ g + 2 \notin D
        /\ g \in 1 .. KHEAP_SIZE /\ g + 1 \in 1 .. KHEAP_SIZE /\ g + 2 \in 1 .. KHEAP_SIZE
    BY <1>2, <1>3, <1>10, <1>12, <1>14, <2>0, <2>2
  <2>7. /\ mem'[f] = FMB(g) /\ mem'[f + 1] = mem[f + 2]
        /\ mem'[g] = mem[f] /\ mem'[g + 1] = mem[f + 1] /\ mem'[g + 2] = UMB(f)
    BY <1>10, <2>3, <2>4, <2>6
  <2>8. Others(B, U, f, mem, mem', UMB(f), FMB(g), FMB(g))
    BY <1>5, <1>9, <1>12, <2>5, OthersTold
  <2>9. Shape(B \cup {g}, U \cup {f}, mem', FMBlist')
    <3>1. FMBlist' = IF NextIn(B \ U, 0, f) THEN FMB(g) ELSE FMBlist
      BY <1>16, <1>21, <1>24, <2>0
    <3>2. f + 3 <= g /\ g + 2 <= KHEAP_SIZE /\ \A x \in B : f < x => g + 3 <= x
      BY <1>3, <1>12, <1>22, <2>2
    <3>3. QED
      BY <1>4, <2>7, <2>8, <3>1, <3>2, SplitShape
  <2>10. Owned(B \cup {g}, U \cup {f}, mem)'
    <3>0. Spared(mem')
      BY <1>4, <1>5, <1>9, <1>12, <2>5, TakenApart
    <3>1. \A b \in live : \A d \in b.data : mem'[d] = mem[d]
      BY <3>0 DEF Spared
    <3>2. \A d \in Data(f, n) : mem'[d] = USER
      BY <1>13, <1>14, <2>4
    <3>3. f + Words(n) <= KHEAP_SIZE + 1 /\ \A x \in B : f < x => f + Words(n) <= x
      BY <1>0, <1>2, <1>3, <1>10, <1>12, <1>22
    <3>4. PICK C : C = B \cup {g}
      OBVIOUS
    <3>5. \A x \in C : x \in B \/ (x = f + Words(n) /\ \A y \in B : f < y => x <= y)
      BY <1>0, <2>0, <3>3, <3>4
    <3>6. Owned(C, U \cup {f}, mem)'
      BY <1>1, <1>4, <1>5, <1>15, <3>1, <3>2, <3>3, <3>5, OwnedMore
    <3>7. QED
      BY <3>4, <3>6
  <2>11. U \cup {f} \in SUBSET (1 .. KHEAP_SIZE) /\ B \cup {g} \in SUBSET (1 .. KHEAP_SIZE)
    BY <1>4, <1>10, <2>6
  <2>12. Becomes(B, U, B \cup {g}, U \cup {f})
    BY <1>3, <1>4, <2>4, <2>9, <2>10, <2>11 DEF Becomes
  <2>13. QED
    BY <1>0, <1>24, <1>71, <2>0, <2>12 DEF Grants
<1>25. QED
  BY <1>23, <1>24

-----------------------------------------------------------------------------
(* CoKfree.  GetPreFMB goes back over used blocks only, at least three     *)
(* words at a time, so it has ended before its last step.                  *)

\* Where the walk back from u may be, after i steps.
WentBack(B, U, u, i, p) ==
  \/ p = NULL /\ \A y \in B \ U : u <= y
  \/ \E q \in B \ U : p = FMB(q) /\ PrevIn(B \ U, u, q)
  \/ \E a \in U : /\ p = UMB(a) /\ 3 * i + a <= u
                  /\ \A y \in B \ U : y < u => y < a

LEMMA BackStep ==
  ASSUME NEW B, NEW U, Heads(B, U), NEW u \in U, NEW a \in U, NEW i \in Nat,
         3 * i + a <= u, \A y \in B \ U : y < u => y < a,
         NEW p, Back(B, U, a, p)
  PROVE  WentBack(B, U, u, i + 1, p)
<1>1. /\ B \in SUBSET (Nat \ {0}) /\ B \ U \in SUBSET B /\ U \in SUBSET B
      /\ \A y \in B : y \in Int
  BY HeadsFacts
<1>2. a \in Int /\ u \in Int /\ a \in B /\ a <= u
  BY <1>1
<1>3. CASE p = NULL
  <2>1. \A y \in B : a <= y
    BY <1>1, <1>2, <1>3, BackIs
  <2>2. ASSUME NEW y \in B \ U PROVE u <= y
    BY <1>1, <1>2, <2>1
  <2>3. QED
    BY <1>3, <2>2 DEF WentBack
<1>4. CASE p # NULL
  <2>1. PICK x \in B : PrevIn(B, a, x) /\ p = Pointer(U, x)
    BY <1>1, <1>2, <1>4, BackIs
  <2>2. x \in Int /\ x < a /\ \A y \in B : y < a => y <= x
    BY <1>1, <2>1 DEF PrevIn
  <2>3. x + 3 <= a
    BY <1>2, <2>2 DEF Heads
  <2>4. CASE x \in U
    <3>1. p = UMB(x)
      BY <2>1, <2>4 DEF Pointer
    <3>2. 3 * (i + 1) + x <= u
      BY <1>2, <2>2, <2>3
    <3>3. ASSUME NEW y \in B \ U, y < u PROVE y < x
      <4>1. y \in B /\ y # x /\ y \in Int
        BY <1>1, <2>4
      <4>2. y < a
        BY <3>3
      <4>3. y <= x
        BY <2>2, <4>1, <4>2
      <4>4. QED
        BY <2>2, <4>1, <4>3
    <3>4. QED
      BY <2>4, <3>1, <3>2, <3>3 DEF WentBack
  <2>5. CASE x \notin U
    <3>1. p = FMB(x) /\ x \in B \ U
      BY <2>1, <2>5 DEF Pointer
    <3>2. PrevIn(B \ U, u, x)
      <4>1. x < u
        BY <1>2, <2>2
      <4>2. ASSUME NEW y \in B \ U, y < u PROVE y <= x
        BY <2>2, <4>2
      <4>3. QED
        BY <3>1, <4>1, <4>2 DEF PrevIn
    <3>3. QED
      BY <3>1, <3>2 DEF WentBack
  <2>6. QED
    BY <2>4, <2>5
<1>5. QED
  BY <1>3, <1>4

\* p is the last free block before u, or Co_NULL.
PreIs(B, U, u, p) ==
  \/ p = NULL /\ \A y \in B \ U : u <= y
  \/ \E q \in B \ U : p = FMB(q) /\ PrevIn(B \ U, u, q)

\* GetPreFMB finds the last free block before u.
LEMMA GetPreFMBIs ==
  ASSUME NEW B, NEW U, Shape(B, U, mem, FMBlist), mem \in [1 .. KHEAP_SIZE -> Cells],
         NEW u \in U
  PROVE  PreIs(B, U, u, GetPreFMB(u))
<1> DEFINE first == Word(preMB(u))
           next == [p \in Int |-> IF IsUMB(p) THEN Word(preMB(Addr(p))) ELSE p]
<1>0. PICK w : w = Walk(first, next)
  OBVIOUS
<1>1. /\ Heads(B, U) /\ \A a \in U : Back(B, U, a, mem[a + 1])
      /\ \A a \in U : a \in B
  BY DEF Shape, UsedLinks, Heads
<1>2. \A a \in U : a + 1 \in 1 .. KHEAP_SIZE /\ a \in Nat /\ a >= 1 /\ a \in 1 .. KHEAP_SIZE
  BY <1>1, LinkWords
<1>3. next \in [Int -> Int] /\ first \in Int
  BY WordIs
<1>4. \A a \in U : Word(preMB(a)) = mem[a + 1]
  BY <1>2, WordIs DEF preMB
<1>5. \A a \in U : UMB(a) \in Int /\ IsUMB(UMB(a)) /\ Addr(UMB(a)) = a
  BY <1>2 DEF UMB, IsUMB, Addr
<1>6. \A a \in U : next[UMB(a)] = mem[a + 1]
  BY <1>4, <1>5
<1>7. \A q \in B \ U : FMB(q) \in Int /\ ~IsUMB(FMB(q))
  BY <1>1, HeadsFacts DEF FMB, IsUMB
<1>8. \A q \in B \ U : next[FMB(q)] = FMB(q)
  BY <1>7
<1>9. next[NULL] = NULL
  BY DEF NULL, IsUMB
<1>10. GetPreFMB(u) = w[LastStep]
  BY <1>0 DEF GetPreFMB
<1>11. first = mem[u + 1]
  BY <1>4
<1> HIDE DEF first, next
<1>12. /\ w \in [Steps -> Int] /\ w[1] = first
       /\ \A i \in Steps : i # 1 => w[i] = next[w[i - 1]]
  <2>1. Follows(w, first, next)
    BY <1>0, <1>3, WalkIs
  <2>2. QED
    BY <2>1 DEF Follows
<1> DEFINE T == {h \in Steps : WentBack(B, U, u, h, w[h])}
<1>13. 1 \in T
  <2>1. Back(B, U, u, w[1])
    BY <1>1, <1>11, <1>12
  <2>2. /\ 3 * 0 + u <= u /\ 0 \in Nat /\ 0 + 1 = 1
        /\ \A y \in B \ U : y < u => y < u
    BY <1>2
  <2>3. WentBack(B, U, u, 0 + 1, w[1])
    BY <1>1, <2>1, <2>2, BackStep
  <2>4. QED
    BY <2>2, <2>3, StepFacts
<1>14. ASSUME NEW h \in 1 .. LastStep, h # 1, h - 1 \in T PROVE h \in T
  <2>1. /\ h \in Steps /\ h - 1 \in Nat /\ (h - 1) + 1 = h
        /\ w[h] = next[w[h - 1]] /\ WentBack(B, U, u, h - 1, w[h - 1])
    BY <1>12, <1>14, StepFacts DEF Steps
  <2>2. PICK j, p : j = h - 1 /\ p = w[h - 1]
    OBVIOUS
  <2>3. j \in Nat /\ j + 1 = h /\ w[h] = next[p] /\ WentBack(B, U, u, j, p)
    BY <2>1, <2>2
  <2>4. WentBack(B, U, u, h, w[h])
    <3>1. CASE p = NULL /\ \A y \in B \ U : u <= y
      BY <1>9, <2>3, <3>1 DEF WentBack
    <3>2. CASE \E q \in B \ U : p = FMB(q) /\ PrevIn(B \ U, u, q)
      BY <1>8, <2>3, <3>2 DEF WentBack
    <3>3. CASE \E a \in U : /\ p = UMB(a) /\ 3 * j + a <= u
                            /\ \A y \in B \ U : y < u => y < a
      <4>1. PICK a \in U : /\ p = UMB(a) /\ 3 * j + a <= u
                           /\ \A y \in B \ U : y < u => y < a
        BY <3>3
      <4>2. Back(B, U, a, w[h])
        BY <1>1, <1>6, <2>3, <4>1
      <4>3. WentBack(B, U, u, j + 1, w[h])
        BY <1>1, <2>3, <4>1, <4>2, BackStep
      <4>4. QED
        BY <2>3, <4>3
    <3>4. QED
      BY <2>3, <3>1, <3>2, <3>3 DEF WentBack
  <2>5. QED
    BY <2>1, <2>4
<1> HIDE DEF T
<1>15. 1 .. LastStep \subseteq T
  BY <1>13, <1>14, StepFacts, UpInduction
<1>16. WentBack(B, U, u, LastStep, w[LastStep])
  BY <1>15, StepFacts DEF T, Steps
<1>17. ~\E a \in U : 3 * LastStep + a <= u
  BY <1>2, StepFacts, HeapAssumption
<1>18. QED
  BY <1>10, <1>16, <1>17 DEF WentBack, PreIs

-----------------------------------------------------------------------------
(* The blocks after u is released.  The free block that holds u starts at  *)
(* the free block before u, or at u; u itself and the free block after u   *)
(* are blocks no more.                                                     *)

Starts(B, U, u, at) ==
  \/ at = u /\ \A p \in B : NextIn(B, p, u) => p \in U
  \/ at \in B \ U /\ NextIn(B, at, u)

Joined(B, U, u, at) == {x \in B : (x = u => at = u) /\ ~(x \notin U /\ NextIn(B, u, x))}

\* What goes, what stays, and where the free block is.
LEMMA JoinedFacts ==
  ASSUME NEW B, NEW U, Heads(B, U), NEW u \in U, NEW at, Starts(B, U, u, at),
         NEW C, C = Joined(B, U, u, at)
  PROVE  /\ C \in SUBSET B /\ at \in C /\ at \notin U \ {u} /\ at <= u /\ at \in B
         /\ u \in C <=> at = u
         /\ \A x \in B : x \notin C /\ x # u => x \notin U /\ NextIn(B, u, x)
         /\ \A x \in C : x \notin U => ~NextIn(B, u, x)
         /\ \A x \in U : x # u => x \in C
         /\ \A y \in C : at < y => u < y
         /\ at # u => at \notin U /\ NextIn(B, at, u) /\ at < u
<1>1. B \in SUBSET Nat /\ u \in B /\ u \in Int /\ U \in SUBSET B
  BY HeadsFacts
<1>2. /\ at \in B /\ at <= u /\ (at # u => at \notin U /\ NextIn(B, at, u) /\ at < u)
      /\ at \notin U \ {u}
  <2>1. CASE at = u
    BY <1>1, <2>1
  <2>2. CASE at \in B \ U /\ NextIn(B, at, u)
    BY <1>1, <2>2 DEF NextIn
  <2>3. QED
    BY <2>1, <2>2 DEF Starts
<1>3. /\ C \in SUBSET B
      /\ \A x \in B : x \notin C /\ x # u => x \notin U /\ NextIn(B, u, x)
      /\ \A x \in C : x \notin U => ~NextIn(B, u, x)
      /\ \A x \in U : x # u => x \in C
  BY <1>1 DEF Joined
<1>4. u \in C <=> at = u
  BY <1>1 DEF Joined
<1>5. at \in C
  <2>1. ~NextIn(B, u, at)
    BY <1>1, <1>2 DEF NextIn
  <2>2. QED
    BY <1>2, <2>1 DEF Joined
<1>6. ASSUME NEW y \in C, at < y PROVE u < y
  <2>1. y \in B /\ y \in Int
    BY <1>1, <1>3
  <2>2. CASE at = u
    BY <1>6, <2>2
  <2>3. CASE at # u
    <3>1. u <= y
      BY <1>2, <1>6, <2>1, <2>3 DEF NextIn
    <3>2. y # u
      BY <1>4, <2>3
    <3>3. QED
      BY <1>1, <2>1, <3>1, <3>2
  <2>4. QED
    BY <2>2, <2>3
<1>7. QED
  BY <1>2, <1>3, <1>4, <1>5, <1>6

\* The neighbours of another block are the ones it had, unless the free block
\* is one of them.
LEMMA JoinedNext ==
  ASSUME NEW B, NEW U, Heads(B, U), NEW u \in U, NEW at, Starts(B, U, u, at),
         NEW C, C = Joined(B, U, u, at), NEW a \in C, a # at,
         NEW x, NextIn(B, a, x), ~NextIn(C, a, at)
  PROVE  x \in C /\ x # u
<1>1. /\ C \in SUBSET B /\ at \in C
      /\ u \in C <=> at = u
      /\ \A y \in B : y \notin C /\ y # u => NextIn(B, u, y)
      /\ at # u => NextIn(B, at, u)
  BY JoinedFacts
<1>2. /\ B \in SUBSET Nat /\ u \in B /\ a \in B /\ x \in B
      /\ \A y \in B : y \in Int
  BY <1>1, HeadsFacts DEF NextIn
<1>3. x # u
  <2>1. CASE at = u
    BY <1>1, <1>2, <2>1 DEF NextIn
  <2>2. CASE at # u
    <3>1. at \in B /\ NextIn(B, at, u)
      BY <1>1, <2>2
    <3>2. ASSUME x = u PROVE FALSE
      <4>1. PrevIn(B, u, a) /\ PrevIn(B, u, at)
        BY <1>2, <3>1, <3>2, NextPrev
      <4>2. QED
        BY <1>2, <4>1, PrevOnce
    <3>3. QED
      BY <3>2
  <2>3. QED
    BY <2>1, <2>2
<1>4. x \in C
  <2> SUFFICES ASSUME x \notin C PROVE FALSE
    OBVIOUS
  <2>1. NextIn(B, u, x)
    BY <1>1, <1>2, <1>3
  <2>2. PrevIn(B, x, a) /\ PrevIn(B, x, u)
    BY <1>2, <2>1, NextPrev
  <2>3. a = u
    BY <1>2, <2>2, PrevOnce
  <2>4. QED
    BY <1>1, <2>3
<1>5. QED
  BY <1>3, <1>4

LEMMA JoinedPrev ==
  ASSUME NEW B, NEW U, Heads(B, U), NEW u \in U, NEW at, Starts(B, U, u, at),
         NEW C, C = Joined(B, U, u, at), NEW a \in C, a # at,
         NEW x, PrevIn(B, a, x), ~NextIn(C, at, a)
  PROVE  x \in C /\ x # u
<1>1. /\ C \in SUBSET B /\ at \in C /\ at <= u
      /\ \A y \in B : y \notin C /\ y # u => NextIn(B, u, y)
      /\ \A y \in C : at < y => u < y
  BY JoinedFacts
<1>2. /\ B \in SUBSET Nat /\ u \in B /\ a \in B /\ x \in B /\ at \in B
      /\ \A y \in B : y \in Int
  BY <1>1, HeadsFacts DEF PrevIn
<1>3. NextIn(B, x, a)
  BY <1>2, NextPrev
<1>4. ASSUME u < a, \A y \in C : u < y => a <= y PROVE FALSE
  BY <1>1, <1>2, <1>4 DEF NextIn
<1>5. x # u
  <2> SUFFICES ASSUME x = u PROVE FALSE
    OBVIOUS
  <2>1. u < a /\ \A y \in B : u < y => a <= y
    BY <1>3 DEF NextIn
  <2>2. QED
    BY <1>1, <1>4, <2>1
<1>6. x \in C
  <2> SUFFICES ASSUME x \notin C PROVE FALSE
    OBVIOUS
  <2>1. u < x /\ \A y \in B : u < y => x <= y
    BY <1>1, <1>2, <1>5 DEF NextIn
  <2>2. x < a /\ \A y \in B : x < y => a <= y
    BY <1>3 DEF NextIn
  <2>3. ASSUME NEW y \in C, u < y PROVE a <= y
    <3>1. y \in B /\ y # x /\ y \in Int /\ x \in Int
      BY <1>1, <1>2
    <3>2. x < y
      BY <2>1, <2>3, <3>1
    <3>3. QED
      BY <2>2, <3>1, <3>2
  <2>4. u < a
    BY <1>2, <2>1, <2>2
  <2>5. QED
    BY <1>4, <2>3, <2>4
<1>7. QED
  BY <1>5, <1>6

\* The blocks that remain lie as blocks should: no two that are free are
\* neighbours.
LEMMA JoinedHeads ==
  ASSUME NEW B, NEW U, Heads(B, U), NEW u \in U, NEW at, Starts(B, U, u, at),
         NEW C, C = Joined(B, U, u, at)
  PROVE  Heads(C, U \ {u})
<1>1. /\ C \in SUBSET B /\ at \in C /\ at \notin U \ {u} /\ at <= u /\ at \in B
      /\ u \in C <=> at = u
      /\ \A x \in B : x \notin C /\ x # u => x \notin U /\ NextIn(B, u, x)
      /\ \A x \in C : x \notin U => ~NextIn(B, u, x)
      /\ \A x \in U : x # u => x \in C
      /\ \A y \in C : at < y => u < y
      /\ at # u => at \notin U /\ NextIn(B, at, u) /\ at < u
  BY JoinedFacts
<1>2. /\ B \in SUBSET Nat /\ u \in B /\ \A y \in B : y \in Int /\ y >= 1
  BY HeadsFacts
<1>3. /\ B \in SUBSET (1 .. KHEAP_SIZE) /\ 1 \in B /\ U \in SUBSET B
      /\ \A a \in B : a + 2 <= KHEAP_SIZE
      /\ \A a, x \in B : a < x => a + 3 <= x
      /\ \A a \in B \ U, x \in B : NextIn(B, a, x) => x \in U
  BY DEF Heads
<1>4. 1 \in C
  <2>1. ~NextIn(B, u, 1)
    BY <1>2 DEF NextIn
  <2>2. 1 = u => at = u
    BY <1>1, <1>2
  <2>3. QED
    BY <1>3, <2>1, <2>2 DEF Joined
<1>5. C \in SUBSET (1 .. KHEAP_SIZE) /\ U \ {u} \in SUBSET C
  BY <1>1, <1>3
<1>6. (\A a \in C : a + 2 <= KHEAP_SIZE) /\ \A a, x \in C : a < x => a + 3 <= x
  BY <1>1, <1>3
<1>7. ASSUME NEW a \in C, a \notin U \ {u}, NEW x \in C, NextIn(C, a, x), x \notin U \ {u}
      PROVE  FALSE
  <2>1. /\ a \in B /\ x \in B /\ a \in Int /\ x \in Int /\ a < x /\ u \in Int /\ at \in Int
        /\ \A y \in C : a < y => x <= y
    BY <1>1, <1>2, <1>7 DEF NextIn
  <2>2. ASSUME NEW n \in B, NextIn(B, u, n), n \notin C, n < x, u < x PROVE FALSE
    <3>1. n \notin U /\ n \in Int /\ u < n
      BY <1>1, <1>2, <2>2 DEF NextIn
    <3>2. NextIn(B, n, x) => x \in U
      BY <1>3, <3>1, <2>1
    <3>3. x \notin U
      BY <1>7, <2>2, <2>1
    <3>4. PICK y \in B : n < y /\ y < x
      BY <1>2, <2>1, <2>2, <3>2, <3>3 DEF NextIn
    <3>5. y \in Int /\ y # u /\ u < y
      BY <1>2, <2>1, <3>1, <3>4
    <3>6. CASE y \in C
      <4>1. ~(a < y)
        BY <2>1, <3>4, <3>5, <3>6
      <4>2. y <= a /\ n < a /\ u < a
        BY <2>1, <3>1, <3>4, <3>5, <4>1
      <4>3. a \notin U /\ a # at
        BY <1>1, <1>7, <2>1, <4>2
      <4>4. NextIn(B, a, x) => x \in U
        BY <1>3, <2>1, <4>3
      <4>5. PICK z \in B : a < z /\ z < x
        BY <1>2, <2>1, <3>3, <4>4 DEF NextIn
      <4>6. z \in Int /\ z \notin C /\ z # u
        BY <1>2, <2>1, <4>2, <4>5
      <4>7. NextIn(B, u, z)
        BY <1>1, <4>6
      <4>8. z <= n
        BY <2>2, <4>7, <1>2, NextOnce
      <4>9. QED
        BY <2>1, <3>1, <4>2, <4>5, <4>6, <4>8
    <3>7. CASE y \notin C
      <4>1. NextIn(B, u, y)
        BY <1>1, <3>5, <3>7
      <4>2. y = n
        BY <1>2, <2>2, <4>1, NextOnce
      <4>3. QED
        BY <3>1, <3>4, <4>2
    <3>8. QED
      BY <3>6, <3>7
  <2>3. CASE u < a
    <3>1. a # at /\ a # u /\ a \notin U /\ x # u /\ x \notin U
      BY <1>1, <1>7, <2>1, <2>3
    <3>2. PICK y \in B : a < y /\ y < x
      BY <1>2, <1>3, <2>1, <3>1 DEF NextIn
    <3>3. y \in Int /\ y \notin C /\ y # u
      BY <1>2, <2>1, <2>3, <3>2
    <3>4. NextIn(B, u, y)
      BY <1>1, <3>3
    <3>5. y <= a
      BY <2>1, <2>3, <3>4 DEF NextIn
    <3>6. QED
      BY <2>1, <3>2, <3>3, <3>5
  <2>4. CASE a = at
    <3>1. u < x /\ x # u /\ x \notin U
      BY <1>1, <1>7, <2>1, <2>4
    <3>2. ~NextIn(B, u, x)
      BY <1>1, <3>1
    <3>3. PICK y \in B : u < y /\ y < x
      BY <1>2, <2>1, <3>1, <3>2 DEF NextIn
    <3>4. y \in Int /\ y \notin C /\ y # u
      BY <1>1, <1>2, <2>1, <2>4, <3>3
    <3>5. NextIn(B, u, y)
      BY <1>1, <3>4
    <3>6. QED
      BY <2>2, <3>1, <3>3, <3>4, <3>5
  <2>5. CASE a < at
    <3>1. a \notin U /\ a # u
      BY <1>1, <1>7, <2>1, <2>5
    <3>2. x <= at
      BY <1>1, <2>1, <2>5
    <3>3. NextIn(B, a, x)
      <4>1. ASSUME NEW y \in B, a < y, y < x PROVE FALSE
        <5>1. y \in Int /\ y < at /\ y < u
          BY <1>1, <1>2, <2>1, <3>2, <4>1
        <5>2. y \notin C /\ y # u
          BY <2>1, <4>1, <5>1
        <5>3. NextIn(B, u, y)
          BY <1>1, <5>2
        <5>4. QED
          BY <2>1, <5>1, <5>3 DEF NextIn
      <4>2. QED
        BY <1>2, <2>1, <4>1 DEF NextIn
    <3>4. x \in U
      BY <1>3, <2>1, <3>1, <3>3
    <3>5. x = u
      BY <1>7, <3>4
    <3>6. at = u
      BY <1>1, <3>5, <1>7
    <3>7. \A p \in B : NextIn(B, p, u) => p \in U
      BY <1>1, <3>6 DEF Starts
    <3>8. QED
      BY <2>1, <3>1, <3>3, <3>5, <3>7
  <2>6. CASE at < a /\ a <= u
    BY <1>1, <2>1, <2>6
  <2>7. QED
    BY <2>1, <2>3, <2>4, <2>5, <2>6
<1>8. QED
  BY <1>4, <1>5, <1>6, <1>7 DEF Heads

\* What is next after a in S is next in T.
Moves(S, T, a) ==
  /\ \A x : NextIn(S, a, x) => NextIn(T, a, x)
  /\ (\A y \in S : y <= a) => \A y \in T : y <= a

\* The free list, too, keeps its order.
LEMMA JoinedFree ==
  ASSUME NEW B, NEW U, Heads(B, U), NEW u \in U, NEW at, Starts(B, U, u, at),
         NEW G, G = Joined(B, U, u, at) \ (U \ {u}),
         NEW a, a = 0 \/ (a \in G /\ a # at), ~NextIn(G, a, at)
  PROVE  Moves(B \ U, G, a)
<1> DEFINE F == B \ U
<1>0. PICK C : C = Joined(B, U, u, at)
  OBVIOUS
<1>1. /\ C \in SUBSET B /\ at \in C /\ at \notin U \ {u} /\ at <= u /\ at \in B
      /\ u \in C <=> at = u
      /\ \A x \in B : x \notin C /\ x # u => x \notin U /\ NextIn(B, u, x)
      /\ \A y \in C : at < y => u < y
      /\ at # u => at \notin U
  BY <1>0, JoinedFacts
<1>2. /\ B \in SUBSET Nat /\ u \in B /\ \A y \in B : y \in Int /\ y >= 1
  BY HeadsFacts
<1>3. /\ \A x \in G : x \in C /\ (x \in F \/ x = at) /\ x \in Int /\ x >= 1
      /\ \A x \in F : x \in C => x \in G
      /\ at \in G
      /\ at \in F \/ at = u
  BY <1>0, <1>1, <1>2
<1>4. a \in Int /\ at \in Int /\ a # at /\ u \in Int /\ \A x \in F : x \in Int /\ x \in B
  <2>1. at \in Int /\ at >= 1 /\ u \in Int
    BY <1>1, <1>2
  <2>2. \A x \in F : x \in Int /\ x \in B
    BY <1>2
  <2>3. a \in Int /\ a # at
    <3>1. CASE a = 0
      BY <2>1, <3>1
    <3>2. CASE a \in G /\ a # at
      BY <1>3, <3>2
    <3>3. QED
      BY <3>1, <3>2
  <2>4. QED
    BY <2>1, <2>2, <2>3
<1> HIDE DEF F
<1>5. ASSUME a < at, \A y \in F : a < y => at <= y PROVE FALSE
  BY <1>3, <1>4, <1>5 DEF NextIn
<1>6. ASSUME NEW x, NextIn(F, a, x) PROVE NextIn(G, a, x)
  <2>1. x \in F /\ a < x /\ x \in Int /\ \A y \in F : a < y => x <= y
    BY <1>4, <1>6 DEF NextIn
  <2>2. a < at => x <= at
    <3> SUFFICES ASSUME a < at, at < x PROVE FALSE
      BY <1>4, <2>1
    <3>1. \A y \in F : a < y => at <= y
      BY <1>4, <2>1
    <3>2. QED
      BY <1>5, <3>1
  <2>3. x \in C
    <3> SUFFICES ASSUME x \notin C PROVE FALSE
      OBVIOUS
    <3>1. x \in B /\ x # u
      BY <1>4, <2>1 DEF F
    <3>2. u < x /\ \A y \in B : u < y => x <= y
      BY <1>1, <3>1 DEF NextIn
    <3>3. ~(a < at)
      BY <1>1, <1>4, <2>1, <2>2, <3>2
    <3>4. at < a /\ a \in C
      BY <1>1, <1>2, <1>3, <1>4, <3>3
    <3>5. u < a /\ a \in B
      BY <1>1, <3>4
    <3>6. QED
      BY <1>4, <2>1, <3>2, <3>5
  <2>4. ASSUME NEW y \in G, a < y PROVE x <= y
    <3>1. CASE y \in F
      BY <2>1, <2>4, <3>1
    <3>2. CASE y = at
      BY <2>2, <2>4, <3>2
    <3>3. QED
      BY <1>3, <3>1, <3>2
  <2>5. QED
    BY <1>3, <2>1, <2>3, <2>4 DEF NextIn
<1>7. ASSUME \A y \in F : y <= a, NEW y \in G PROVE y <= a
  <2>1. CASE y \in F
    BY <1>7, <2>1
  <2>2. CASE y = at
    <3>1. ~(a < at)
      BY <1>4, <1>5, <1>7
    <3>2. QED
      BY <1>4, <2>2, <3>1
  <2>3. QED
    BY <1>3, <2>1, <2>2
<1>8. QED
  BY <1>6, <1>7 DEF F, Moves

\* What CoKfree has found out before it stores: block c of C, whose used
\* blocks are V, has the right links, and so has the one of the free list
\* that leads to it.
Ready(C, V, c) ==
  /\ c.at \in C \ V
  /\ Forth(C \ V, V, c.at, c.next)
  /\ Forth(C, V, c.at, c.after) /\ Back(C, V, c.at, c.before)
  /\ Forth(C \ V, V, 0, c.head)
  /\ c.pre = NULL => \A a \in C \ V : NextIn(C \ V, a, c.at) => mem[a] = FMB(c.at)
  /\ c.pre # NULL => \E q \in C \ V : c.pre = FMB(q) /\ NextIn(C \ V, q, c.at)

\* A link fits a word.
LEMMA LinkCells ==
  ASSUME NEW S \in SUBSET (1 .. KHEAP_SIZE), NEW U, NEW a, NEW p,
         Forth(S, U, a, p) \/ Back(S, U, a, p)
  PROVE  p \in Cells
<1>1. NULL \in Cells
  BY HeapAssumption DEF NULL, Cells, UMB
<1>2. \A x \in S : Pointer(U, x) \in Cells
  BY PointerCells DEF Pointer
<1>3. QED
  BY <1>1, <1>2 DEF Forth, Back

\* The neighbours of a free block, by its links.
LEMMA LinkNeighbours ==
  ASSUME NEW C, NEW V, Heads(C, V), NEW f \in C \ V, NEW p, NEW r,
         Forth(C, V, f, p), Back(C, V, f, r)
  PROVE  /\ p = NULL => \A y \in C : y <= f
         /\ p # NULL => Addr(p) \in V /\ NextIn(C, f, Addr(p))
         /\ r = NULL => \A y \in C : f <= y
         /\ r # NULL => Addr(r) \in V /\ PrevIn(C, f, Addr(r))
<1>1. C \in SUBSET (Nat \ {0}) /\ f \in Int /\ \A x \in C : x \in Nat /\ x >= 1
  BY HeadsFacts
<1>2. \A x \in C : Addr(Pointer(V, x)) = x
  BY <1>1, PointerFacts
<1>3. p = NULL => \A y \in C : y <= f
  BY <1>1, ForthIs
<1>4. r = NULL => \A y \in C : f <= y
  BY <1>1, BackIs
<1>5. ASSUME p # NULL PROVE Addr(p) \in V /\ NextIn(C, f, Addr(p))
  <2>1. PICK x \in C : NextIn(C, f, x) /\ p = Pointer(V, x)
    BY <1>1, <1>5, ForthIs
  <2>2. QED
    BY <1>2, <2>1, Neighbours
<1>6. ASSUME r # NULL PROVE Addr(r) \in V /\ PrevIn(C, f, Addr(r))
  <2>1. PICK x \in C : PrevIn(C, f, x) /\ r = Pointer(V, x)
    BY <1>1, <1>6, BackIs
  <2>2. QED
    BY <1>2, <2>1, Neighbours
<1>7. QED
  BY <1>3, <1>4, <1>5, <1>6

\* The words after a release.
ReleasedIs(w, c) ==
  /\ w \in [1 .. KHEAP_SIZE -> Cells]
  /\ \A x \in 1 .. KHEAP_SIZE :
       w[x] = IF c.after # NULL /\ x = Addr(c.after) + 1 THEN FMB(c.at)
              ELSE IF c.before # NULL /\ x = Addr(c.before) THEN FMB(c.at)
              ELSE IF c.pre # NULL /\ x = Addr(c.pre) THEN FMB(c.at)
              ELSE IF x = c.at THEN c.next
              ELSE IF x = c.at + 1 THEN c.after
              ELSE IF x = c.at + 2 THEN c.before
              ELSE mem[x]

LEMMA ReleasedWords ==
  ASSUME NEW C, NEW V, Heads(C, V), NEW c, Ready(C, V, c),
         mem \in [1 .. KHEAP_SIZE -> Cells]
  PROVE  ReleasedIs(Released(c), c)
<1>1. PICK at, next, after, before, pre :
        at = c.at /\ next = c.next /\ after = c.after /\ before = c.before /\ pre = c.pre
  OBVIOUS
<1>2. /\ at \in C \ V /\ at \in C
      /\ Forth(C \ V, V, at, next) /\ Forth(C, V, at, after) /\ Back(C, V, at, before)
      /\ pre # NULL => \E q \in C \ V : pre = FMB(q)
  BY <1>1 DEF Ready
<1>3. /\ at \in 1 .. KHEAP_SIZE /\ at + 1 \in 1 .. KHEAP_SIZE /\ at + 2 \in 1 .. KHEAP_SIZE
      /\ at \in Nat
  BY <1>2, LinkWords
<1>4. C \in SUBSET (1 .. KHEAP_SIZE) /\ C \ V \in SUBSET (1 .. KHEAP_SIZE) /\ V \in SUBSET C
  BY DEF Heads
<1>5. next \in Cells /\ after \in Cells /\ before \in Cells /\ FMB(at) \in Cells
  <2>1. next \in Cells
    BY <1>2, <1>4, LinkCells
  <2>2. after \in Cells
    BY <1>2, <1>4, LinkCells
  <2>3. before \in Cells
    BY <1>2, <1>4, LinkCells
  <2>4. FMB(at) \in Cells
    BY <1>3, PointerCells
  <2>5. QED
    BY <2>1, <2>2, <2>3, <2>4
<1>6. \A a \in C : a \in 1 .. KHEAP_SIZE /\ a + 1 \in 1 .. KHEAP_SIZE /\ a \in Nat
  BY LinkWords
<1>7. after # NULL => Addr(after) + 1 \in 1 .. KHEAP_SIZE
  BY <1>2, <1>4, <1>6, LinkNeighbours
<1>8. before # NULL => Addr(before) \in 1 .. KHEAP_SIZE
  BY <1>2, <1>4, <1>6, LinkNeighbours
<1>9. pre # NULL => Addr(pre) \in 1 .. KHEAP_SIZE
  <2>1. \A q \in C : Addr(FMB(q)) = q
    BY <1>6 DEF Addr, FMB
  <2>2. QED
    BY <1>2, <1>6, <2>1
<1>10. PICK M0 : M0 = [mem EXCEPT ![at] = next, ![at + 1] = after, ![at + 2] = before]
  OBVIOUS
<1>11. PICK M1 : M1 = Put(M0, pre # NULL, Addr(pre), FMB(at))
  OBVIOUS
<1>12. PICK M2 : M2 = Put(M1, before # NULL, Addr(before), FMB(at))
  OBVIOUS
<1>13. PICK w : w = Put(M2, after # NULL, Addr(after) + 1, FMB(at))
  OBVIOUS
<1>14. w = Released(c)
  BY <1>1, <1>10, <1>11, <1>12, <1>13
     DEF Released, ReleasedLinks, nextFMB, nextUMB, preUMB, nextMB, preMB
<1>15. /\ M0 \in [1 .. KHEAP_SIZE -> Cells]
       /\ \A x \in 1 .. KHEAP_SIZE :
            M0[x] = IF x = at THEN next ELSE IF x = at + 1 THEN after
                    ELSE IF x = at + 2 THEN before ELSE mem[x]
  <2>1. PICK at1, at2 : at1 = at + 1 /\ at2 = at + 2
    OBVIOUS
  <2>2. at # at1 /\ at # at2 /\ at1 # at2
    BY <1>3, <2>1
  <2>3. M0 = [mem EXCEPT ![at] = next, ![at1] = after, ![at2] = before]
    BY <1>10, <2>1
  <2>4. PICK D : D = 1 .. KHEAP_SIZE
    OBVIOUS
  <2>5. mem \in [D -> Cells] /\ at \in D /\ at1 \in D /\ at2 \in D
    BY <1>3, <2>1, <2>4
  <2>6. /\ M0 \in [D -> Cells]
        /\ \A x \in D : M0[x] = IF x = at THEN next ELSE IF x = at1 THEN after
                                ELSE IF x = at2 THEN before ELSE mem[x]
    BY <1>5, <2>2, <2>3, <2>5
  <2>7. QED
    BY <2>1, <2>4, <2>6
<1>16. /\ M1 \in [1 .. KHEAP_SIZE -> Cells]
       /\ \A x \in 1 .. KHEAP_SIZE : M1[x] = IF pre # NULL /\ x = Addr(pre) THEN FMB(at) ELSE M0[x]
  <2>1. CASE pre # NULL
    BY <1>5, <1>9, <1>11, <1>15, <2>1 DEF Put
  <2>2. CASE pre = NULL
    BY <1>11, <1>15, <2>2 DEF Put
  <2>3. QED
    BY <2>1, <2>2
<1>17. /\ M2 \in [1 .. KHEAP_SIZE -> Cells]
       /\ \A x \in 1 .. KHEAP_SIZE : M2[x] = IF before # NULL /\ x = Addr(before) THEN FMB(at) ELSE M1[x]
  <2>1. CASE before # NULL
    BY <1>5, <1>8, <1>12, <1>16, <2>1 DEF Put
  <2>2. CASE before = NULL
    BY <1>12, <1>16, <2>2 DEF Put
  <2>3. QED
    BY <2>1, <2>2
<1>18. /\ w \in [1 .. KHEAP_SIZE -> Cells]
       /\ \A x \in 1 .. KHEAP_SIZE : w[x] = IF after # NULL /\ x = Addr(after) + 1 THEN FMB(at) ELSE M2[x]
  <2>1. CASE after # NULL
    BY <1>5, <1>7, <1>13, <1>17, <2>1 DEF Put
  <2>2. CASE after = NULL
    BY <1>13, <1>17, <2>2 DEF Put
  <2>3. QED
    BY <2>1, <2>2
<1>19. ReleasedIs(w, c)
  BY <1>1, <1>15, <1>16, <1>17, <1>18 DEF ReleasedIs
<1>20. QED
  BY <1>14, <1>19

\* Blocks do not overlap.
LEMMA Apart ==
  ASSUME NEW C, NEW V, Heads(C, V), NEW a \in C, NEW x \in C, a # x
  PROVE  /\ a # x + 1 /\ a # x + 2 /\ a + 1 # x /\ a + 2 # x
         /\ a + 1 # x + 1 /\ a + 1 # x + 2 /\ a + 2 # x + 1 /\ a + 2 # x + 2
<1>1. a \in Int /\ x \in Int
  BY HeadsFacts
<1>2. a + 3 <= x \/ x + 3 <= a
  BY <1>1 DEF Heads
<1>3. QED
  BY <1>1, <1>2

\* CoKfree tells the used neighbours and the free block before, and leaves
\* the links of the others alone.
LEMMA ReleasedOthers ==
  ASSUME NEW C, NEW V, Heads(C, V), NEW c, Ready(C, V, c), NEW w, ReleasedIs(w, c)
  PROVE  /\ w[c.at] = c.next /\ w[c.at + 1] = c.after /\ w[c.at + 2] = c.before
         /\ Others(C, V, c.at, mem, w, FMB(c.at), FMB(c.at), FMB(c.at))
<1>1. PICK at, next, after, before, pre :
        at = c.at /\ next = c.next /\ after = c.after /\ before = c.before /\ pre = c.pre
  OBVIOUS
<1>2. PICK G : G = C \ V
  OBVIOUS
<1>3. /\ at \in G /\ at \in C /\ at \notin V
      /\ Forth(C, V, at, after) /\ Back(C, V, at, before)
      /\ pre = NULL => \A a \in G : NextIn(G, a, at) => mem[a] = FMB(at)
      /\ pre # NULL => \E q \in G : pre = FMB(q) /\ NextIn(G, q, at)
  BY <1>1, <1>2 DEF Ready
<1>4. /\ C \in SUBSET Nat /\ V \in SUBSET C /\ G \in SUBSET Nat
      /\ \A a \in C : a \in Int /\ a \in Nat
      /\ \A a \in G : a \in C /\ a \notin V
  BY <1>2, HeadsFacts
<1>5. \A a \in C : a \in 1 .. KHEAP_SIZE /\ a + 1 \in 1 .. KHEAP_SIZE /\ a + 2 \in 1 .. KHEAP_SIZE
  BY LinkWords
<1>6. PICK n, b, q : n = Addr(after) /\ b = Addr(before) /\ q = Addr(pre)
  OBVIOUS
<1>7. \A x \in 1 .. KHEAP_SIZE :
        w[x] = IF after # NULL /\ x = n + 1 THEN FMB(at)
               ELSE IF before # NULL /\ x = b THEN FMB(at)
               ELSE IF pre # NULL /\ x = q THEN FMB(at)
               ELSE IF x = at THEN next
               ELSE IF x = at + 1 THEN after
               ELSE IF x = at + 2 THEN before
               ELSE mem[x]
  BY <1>1, <1>6 DEF ReleasedIs
<1>8. /\ after = NULL => \A y \in C : y <= at
      /\ after # NULL => n \in V /\ n \in C /\ NextIn(C, at, n)
      /\ before = NULL => \A y \in C : at <= y
      /\ before # NULL => b \in V /\ b \in C /\ PrevIn(C, at, b)
  <2>1. at \in C \ V
    BY <1>3
  <2>2. QED
    BY <1>3, <1>4, <1>6, <2>1, LinkNeighbours
<1>9. pre # NULL => q \in G /\ q \in C /\ q \notin V /\ NextIn(G, q, at)
  <2>1. \A a \in G : Addr(FMB(a)) = a
    BY <1>4 DEF Addr, FMB
  <2>2. QED
    BY <1>3, <1>4, <1>6, <2>1
<1>10. \A a, x \in C : a # x =>
         /\ a # x + 1 /\ a # x + 2 /\ a + 1 # x /\ a + 2 # x
         /\ a + 1 # x + 1 /\ a + 1 # x + 2 /\ a + 2 # x + 1 /\ a + 2 # x + 2
  BY Apart
<1>11. \A a \in C : a # a + 1 /\ a # a + 2 /\ a + 1 # a + 2
  BY <1>4
<1>12. q # at
  <2>1. pre # NULL => q < at
    BY <1>9 DEF NextIn
  <2>2. CASE pre # NULL
    BY <1>4, <1>3, <1>9, <2>1, <2>2
  <2>3. CASE pre = NULL
    <3>1. q = 0
      BY <1>6, <2>3 DEF NULL, Addr
    <3>2. QED
      BY <1>3, <3>1, HeadsFacts
  <2>4. QED
    BY <2>2, <2>3
<1>13. w[at] = next /\ w[at + 1] = after /\ w[at + 2] = before
  <2>1. after # NULL => n # at
    BY <1>3, <1>8
  <2>2. before # NULL => b # at
    BY <1>3, <1>8
  <2>3. QED
    BY <1>3, <1>5, <1>7, <1>8, <1>9, <1>10, <1>11, <1>12, <2>1, <2>2
<1>14. ASSUME NEW a \in C, a # at, a \in V
       PROVE  w[a] = IF NextIn(C, a, at) THEN FMB(at) ELSE mem[a]
  <2>1. w[a] = IF before # NULL /\ a = b THEN FMB(at) ELSE mem[a]
    <3>1. ~(after # NULL /\ a = n + 1)
      BY <1>8, <1>10, <1>11
    <3>2. ~(pre # NULL /\ a = q)
      BY <1>9, <1>14
    <3>3. a # at /\ a # at + 1 /\ a # at + 2
      BY <1>3, <1>10, <1>14
    <3>4. QED
      BY <1>5, <1>7, <3>1, <3>2, <3>3
  <2>2. NextIn(C, a, at) <=> PrevIn(C, at, a)
    BY <1>3, <1>4, NextPrev
  <2>3. (before # NULL /\ a = b) <=> PrevIn(C, at, a)
    <3>1. CASE before = NULL
      BY <1>3, <1>4, <1>8, <3>1 DEF PrevIn
    <3>2. CASE before # NULL
      BY <1>3, <1>4, <1>8, <3>2, PrevOnce
    <3>3. QED
      BY <3>1, <3>2
  <2>4. QED
    BY <2>1, <2>2, <2>3
<1>15. ASSUME NEW a \in C, a # at, a \in V
       PROVE  w[a + 1] = IF NextIn(C, at, a) THEN FMB(at) ELSE mem[a + 1]
  <2>1. w[a + 1] = IF after # NULL /\ a + 1 = n + 1 THEN FMB(at) ELSE mem[a + 1]
    <3>1. ~(before # NULL /\ a + 1 = b)
      BY <1>8, <1>10, <1>11
    <3>2. ~(pre # NULL /\ a + 1 = q)
      BY <1>9, <1>10, <1>11
    <3>3. a + 1 # at /\ a + 1 # at + 1 /\ a + 1 # at + 2
      BY <1>3, <1>10, <1>15
    <3>4. QED
      BY <1>5, <1>7, <3>1, <3>2, <3>3
  <2>2. after # NULL => (a + 1 = n + 1 <=> a = n)
    BY <1>8, <1>10
  <2>3. (after # NULL /\ a = n) <=> NextIn(C, at, a)
    <3>1. CASE after = NULL
      BY <1>3, <1>4, <1>8, <3>1 DEF NextIn
    <3>2. CASE after # NULL
      BY <1>3, <1>4, <1>8, <3>2, NextOnce
    <3>3. QED
      BY <3>1, <3>2
  <2>4. QED
    BY <2>1, <2>2, <2>3
<1>16. ASSUME NEW a \in C, a # at, a \notin V
       PROVE  w[a] = IF NextIn(G, a, at) THEN FMB(at) ELSE mem[a]
  <2>1. w[a] = IF pre # NULL /\ a = q THEN FMB(at) ELSE mem[a]
    <3>1. ~(after # NULL /\ a = n + 1)
      BY <1>8, <1>10, <1>11
    <3>2. ~(before # NULL /\ a = b)
      BY <1>8, <1>16
    <3>3. a # at /\ a # at + 1 /\ a # at + 2
      BY <1>3, <1>10, <1>16
    <3>4. QED
      BY <1>5, <1>7, <3>1, <3>2, <3>3
  <2>2. a \in G
    BY <1>2, <1>16
  <2>3. CASE pre = NULL
    BY <1>3, <2>1, <2>2, <2>3
  <2>4. CASE pre # NULL
    <3>1. NextIn(G, a, at) => a = q
      <4>1. NextIn(G, q, at) /\ q \in G
        BY <1>9, <2>4
      <4>2. PrevIn(G, at, q) /\ (NextIn(G, a, at) => PrevIn(G, at, a))
        BY <1>3, <1>4, <2>2, <4>1, NextPrev
      <4>3. QED
        BY <1>3, <1>4, <4>2, PrevOnce
    <3>2. QED
      BY <1>9, <2>1, <2>4, <3>1
  <2>5. QED
    BY <2>3, <2>4
<1>17. ASSUME NEW a \in C, a # at, a \notin V
       PROVE  w[a + 1] = mem[a + 1] /\ w[a + 2] = mem[a + 2]
  <2>1. ~(after # NULL /\ a + 1 = n + 1) /\ ~(after # NULL /\ a + 2 = n + 1)
    BY <1>8, <1>10, <1>17
  <2>2. ~(before # NULL /\ a + 1 = b) /\ ~(before # NULL /\ a + 2 = b)
    BY <1>8, <1>10, <1>17
  <2>3. ~(pre # NULL /\ a + 1 = q) /\ ~(pre # NULL /\ a + 2 = q)
    BY <1>9, <1>10, <1>11
  <2>4. /\ a + 1 # at /\ a + 1 # at + 1 /\ a + 1 # at + 2
        /\ a + 2 # at /\ a + 2 # at + 1 /\ a + 2 # at + 2
    BY <1>3, <1>10, <1>17
  <2>5. QED
    BY <1>5, <1>7, <2>1, <2>2, <2>3, <2>4
<1>18. Others(C, V, at, mem, w, FMB(at), FMB(at), FMB(at))
  BY <1>2, <1>14, <1>15, <1>16, <1>17 DEF Others
<1>19. QED
  BY <1>1, <1>13, <1>18

\* Links that need not change.
LEMMA ForthStays ==
  ASSUME NEW S \in SUBSET Nat, NEW T \in SUBSET S, NEW U, NEW V, NEW a \in Int, NEW p,
         Forth(S, U, a, p), \A x : NextIn(S, a, x) => x \in T /\ (x \in U <=> x \in V)
  PROVE  Forth(T, V, a, p)
<1>1. CASE p = NULL /\ \A y \in S : y <= a
  BY <1>1 DEF Forth
<1>2. CASE \E x \in S : NextIn(S, a, x) /\ p = Pointer(U, x)
  <2>1. PICK x \in S : NextIn(S, a, x) /\ p = Pointer(U, x)
    BY <1>2
  <2>2. x \in T /\ p = Pointer(V, x)
    BY <2>1 DEF Pointer
  <2>3. NextIn(T, a, x)
    BY <2>1, <2>2 DEF NextIn
  <2>4. QED
    BY <2>2, <2>3 DEF Forth
<1>3. QED
  BY <1>1, <1>2 DEF Forth

LEMMA BackStays ==
  ASSUME NEW S \in SUBSET Nat, NEW T \in SUBSET S, NEW U, NEW V, NEW a \in Int, NEW p,
         Back(S, U, a, p), \A x : PrevIn(S, a, x) => x \in T /\ (x \in U <=> x \in V)
  PROVE  Back(T, V, a, p)
<1>1. CASE p = NULL /\ \A y \in S : a <= y
  BY <1>1 DEF Back
<1>2. CASE \E x \in S : PrevIn(S, a, x) /\ p = Pointer(U, x)
  <2>1. PICK x \in S : PrevIn(S, a, x) /\ p = Pointer(U, x)
    BY <1>2
  <2>2. x \in T /\ p = Pointer(V, x)
    BY <2>1 DEF Pointer
  <2>3. PrevIn(T, a, x)
    BY <2>1, <2>2 DEF PrevIn
  <2>4. QED
    BY <2>2, <2>3 DEF Back
<1>3. QED
  BY <1>1, <1>2 DEF Back

LEMMA ForthMoves ==
  ASSUME NEW S, NEW T, NEW U, NEW V, NEW a, NEW p, Forth(S, U, a, p),
         Moves(S, T, a),
         \A x \in S : x \notin U /\ x \notin V
  PROVE  Forth(T, V, a, p)
<1>1. CASE p = NULL /\ \A y \in S : y <= a
  BY <1>1 DEF Forth, Moves
<1>2. CASE \E x \in S : NextIn(S, a, x) /\ p = Pointer(U, x)
  <2>1. PICK x \in S : NextIn(S, a, x) /\ p = Pointer(U, x)
    BY <1>2
  <2>2. NextIn(T, a, x) /\ p = Pointer(V, x)
    BY <2>1 DEF Pointer, Moves
  <2>3. x \in T
    BY <2>2 DEF NextIn
  <2>4. QED
    BY <2>2, <2>3 DEF Forth
<1>3. QED
  BY <1>1, <1>2 DEF Forth

\* After a release every link leads where it should.
LEMMA ReleasedShape ==
  ASSUME NEW B, NEW U, Shape(B, U, mem, FMBlist), NEW u \in U, NEW c,
         Starts(B, U, u, c.at), NEW C, C = Joined(B, U, u, c.at),
         NEW V, V = U \ {u}, Ready(C, V, c), NEW w, ReleasedIs(w, c)
  PROVE  Shape(C, V, w, c.head)
<1>1. PICK at, F, G : at = c.at /\ F = B \ U /\ G = C \ V
  OBVIOUS
<1>2. /\ Heads(B, U)
      /\ \A a \in U : Forth(B, U, a, mem[a]) /\ Back(B, U, a, mem[a + 1])
      /\ \A a \in F : Forth(F, U, a, mem[a]) /\ Forth(B, U, a, mem[a + 1]) /\ Back(B, U, a, mem[a + 2])
      /\ Starts(B, U, u, at) /\ C = Joined(B, U, u, at)
  BY <1>1 DEF Shape, UsedLinks, FreeLinks
<1>3. Heads(C, V)
  BY <1>2, JoinedHeads
<1>4. /\ w[at] = c.next /\ w[at + 1] = c.after /\ w[at + 2] = c.before
      /\ Others(C, V, at, mem, w, FMB(at), FMB(at), FMB(at))
  BY <1>1, <1>3, ReleasedOthers
<1>5. /\ at \in G /\ at \in C /\ at \notin V /\ at \in C \ V
      /\ Forth(G, V, at, c.next) /\ Forth(C, V, at, c.after) /\ Back(C, V, at, c.before)
      /\ Forth(G, V, 0, c.head)
  BY <1>1 DEF Ready
<1>6. /\ C \in SUBSET B /\ at <= u /\ at \in B
      /\ u \in C <=> at = u
  BY <1>2, JoinedFacts
<1>7. /\ B \in SUBSET Nat /\ U \in SUBSET B /\ \A a \in B : a \in Int
      /\ C \in SUBSET Nat /\ \A a \in C : a \in Int /\ a \in Nat
  BY <1>2, <1>6, HeadsFacts
<1>8. FMB(at) = Pointer(V, at)
  BY <1>5 DEF Pointer
<1>9. ASSUME NEW a \in C, a # at, NEW p, Forth(B, U, a, p), ~NextIn(C, a, at)
      PROVE  Forth(C, V, a, p)
  <2>1. ASSUME NEW x, NextIn(B, a, x) PROVE x \in C /\ (x \in U <=> x \in V)
    <3>1. x \in C /\ x # u
      BY <1>2, <1>9, <2>1, JoinedNext
    <3>2. QED
      BY <3>1
  <2>2. QED
    BY <1>6, <1>7, <1>9, <2>1, ForthStays
<1>10. ASSUME NEW a \in C, a # at, NEW p, Back(B, U, a, p), ~NextIn(C, at, a)
       PROVE  Back(C, V, a, p)
  <2>1. ASSUME NEW x, PrevIn(B, a, x) PROVE x \in C /\ (x \in U <=> x \in V)
    <3>1. x \in C /\ x # u
      BY <1>2, <1>10, <2>1, JoinedPrev
    <3>2. QED
      BY <3>1
  <2>2. QED
    BY <1>6, <1>7, <1>10, <2>1, BackStays
<1>11. ASSUME NEW a \in C, NextIn(C, a, at) PROVE Forth(C, V, a, FMB(at))
  BY <1>5, <1>8, <1>11 DEF Forth
<1>12. ASSUME NEW a \in C, NextIn(C, at, a) PROVE Back(C, V, a, FMB(at))
  <2>1. PrevIn(C, a, at)
    BY <1>5, <1>7, <1>12, NextPrev
  <2>2. QED
    BY <1>5, <1>8, <2>1 DEF Back
<1>13. ASSUME NEW a \in V PROVE Forth(C, V, a, w[a]) /\ Back(C, V, a, w[a + 1])
  <2>1. a \in C /\ a # at /\ a \in U
    BY <1>3, <1>5 DEF Heads
  <2>2. /\ w[a] = IF NextIn(C, a, at) THEN FMB(at) ELSE mem[a]
        /\ w[a + 1] = IF NextIn(C, at, a) THEN FMB(at) ELSE mem[a + 1]
    BY <1>4, <2>1 DEF Others
  <2>3. Forth(B, U, a, mem[a]) /\ Back(B, U, a, mem[a + 1])
    BY <1>2, <2>1
  <2>4. Forth(C, V, a, w[a])
    <3>1. CASE NextIn(C, a, at)
      BY <1>11, <2>1, <2>2, <3>1
    <3>2. CASE ~NextIn(C, a, at)
      BY <1>9, <2>1, <2>2, <2>3, <3>2
    <3>3. QED
      BY <3>1, <3>2
  <2>5. Back(C, V, a, w[a + 1])
    <3>1. CASE NextIn(C, at, a)
      BY <1>12, <2>1, <2>2, <3>1
    <3>2. CASE ~NextIn(C, at, a)
      BY <1>10, <2>1, <2>2, <2>3, <3>2
    <3>3. QED
      BY <3>1, <3>2
  <2>6. QED
    BY <2>4, <2>5
<1>14. ASSUME NEW a \in G
       PROVE  Forth(G, V, a, w[a]) /\ Forth(C, V, a, w[a + 1]) /\ Back(C, V, a, w[a + 2])
  <2>1. CASE a = at
    BY <1>4, <1>5, <2>1
  <2>2. CASE a # at
    <3>1. a \in C /\ a \notin V /\ a \in F /\ a \in B
      BY <1>1, <1>6, <2>2
    <3>2. ~NextIn(C, a, at) /\ ~NextIn(C, at, a)
      <4>1. a \in C \ V /\ at \in C \ V
        BY <1>5, <3>1
      <4>2. QED
        BY <1>3, <4>1, Neighbours
    <3>3. /\ w[a] = IF NextIn(G, a, at) THEN FMB(at) ELSE mem[a]
          /\ w[a + 1] = mem[a + 1] /\ w[a + 2] = mem[a + 2]
      BY <1>1, <1>4, <2>2, <3>1 DEF Others
    <3>4. Forth(F, U, a, mem[a]) /\ Forth(B, U, a, mem[a + 1]) /\ Back(B, U, a, mem[a + 2])
      BY <1>2, <3>1
    <3>5. Forth(C, V, a, w[a + 1])
      BY <1>9, <2>2, <3>1, <3>2, <3>3, <3>4
    <3>6. Back(C, V, a, w[a + 2])
      BY <1>10, <2>2, <3>1, <3>2, <3>3, <3>4
    <3>7. Forth(G, V, a, w[a])
      <4>1. CASE NextIn(G, a, at)
        BY <1>5, <1>8, <3>3, <4>1 DEF Forth
      <4>2. CASE ~NextIn(G, a, at)
        <5>1. G = Joined(B, U, u, at) \ (U \ {u})
          BY <1>1, <1>2
        <5>2. Moves(B \ U, G, a)
          BY <1>2, <2>2, <4>2, <5>1, JoinedFree
        <5>3. \A x \in F : x \notin U /\ x \notin V
          BY <1>1
        <5>4. Forth(G, V, a, mem[a])
          BY <1>1, <3>4, <5>2, <5>3, ForthMoves
        <5>5. QED
          BY <3>3, <4>2, <5>4
      <4>3. QED
        BY <4>1, <4>2
    <3>8. QED
      BY <3>5, <3>6, <3>7
  <2>3. QED
    BY <2>1, <2>2
<1>15. QED
  BY <1>1, <1>3, <1>5, <1>13, <1>14 DEF Shape, UsedLinks, FreeLinks

\* What Merged says of the blocks after u: either no free block follows u, or
\* it takes over the links of the one that does.
RightSide(B, U, u, c) ==
  \/ /\ \A x : NextIn(B, u, x) => x \in U
     /\ c.after = mem[u] /\ Forth(B \ U, U, u, c.next)
  \/ \E n \in B \ U : NextIn(B, u, n) /\ c.after = mem[n + 1] /\ c.next = mem[n]

\* And of those before: u is the first free block, or the next after q on the
\* free list, or joins the free block before it.
LeftSide(B, U, u, c) ==
  \/ /\ c.at = u /\ \A x \in B : NextIn(B, x, u) => x \in U
     /\ c.before = mem[u + 1]
     /\ \/ c.pre = NULL /\ c.head = FMB(u) /\ \A y \in B \ U : u <= y
        \/ \E q \in B \ U : c.pre = FMB(q) /\ PrevIn(B \ U, u, q) /\ c.head = FMBlist
  \/ /\ c.at \in B \ U /\ NextIn(B, c.at, u) /\ c.before = mem[c.at + 2]
     /\ c.pre = NULL /\ c.head = FMBlist

LEMMA MergedRight ==
  ASSUME NEW B, NEW U, Shape(B, U, mem, FMBlist), NEW u \in U, NEW c,
         Starts(B, U, u, c.at), NEW C, C = Joined(B, U, u, c.at),
         RightSide(B, U, u, c)
  PROVE  /\ Forth(C, U \ {u}, c.at, c.after)
         /\ Forth(C \ (U \ {u}), U \ {u}, c.at, c.next)
<1>1. PICK at, F, V, G, after, next :
        /\ at = c.at /\ F = B \ U /\ V = U \ {u} /\ G = C \ V
        /\ after = c.after /\ next = c.next
  OBVIOUS
<1>2. /\ Heads(B, U)
      /\ \A a \in U : Forth(B, U, a, mem[a])
      /\ \A a \in F : Forth(F, U, a, mem[a]) /\ Forth(B, U, a, mem[a + 1])
      /\ Starts(B, U, u, at) /\ C = Joined(B, U, u, at)
  BY <1>1 DEF Shape, UsedLinks, FreeLinks
<1>3. /\ C \in SUBSET B /\ at \in C /\ at \notin V /\ at <= u /\ at \in B
      /\ u \in C <=> at = u
      /\ \A x \in B : x \notin C /\ x # u => x \notin U /\ NextIn(B, u, x)
      /\ \A x \in C : x \notin U => ~NextIn(B, u, x)
      /\ \A x \in U : x # u => x \in C
      /\ \A y \in C : at < y => u < y
  BY <1>1, <1>2, JoinedFacts
<1>4. /\ B \in SUBSET (Nat \ {0}) /\ U \in SUBSET B /\ F \in SUBSET (Nat \ {0})
      /\ \A a \in B : a \in Int
      /\ u \in B /\ u \in Int /\ at \in Int
      /\ \A a \in F : a \in B /\ a \notin U /\ a # u /\ a \notin V
      /\ \A a \in G : a \in C /\ a \in B /\ (at < a => a \in F)
      /\ \A a \in F : a \in C => a \in G
  BY <1>1, <1>2, <1>3, HeadsFacts
<1>5. CASE /\ \A x : NextIn(B, u, x) => x \in U
           /\ after = mem[u] /\ Forth(F, U, u, next)
  <2>1. Forth(C, V, at, after)
    <3>0. Forth(B, U, u, after)
      BY <1>2, <1>5
    <3>1. CASE after = NULL
      <4>1. \A y \in B : y <= u
        BY <1>4, <3>0, <3>1, ForthIs
      <4>2. ASSUME NEW y \in C PROVE y <= at
        BY <1>3, <1>4, <4>1
      <4>3. QED
        BY <3>1, <4>2 DEF Forth
    <3>2. CASE after # NULL
      <4>1. PICK x \in B : NextIn(B, u, x) /\ after = Pointer(U, x)
        BY <1>4, <3>0, <3>2, ForthIs
      <4>2. x \in U /\ u < x /\ x \in Int /\ \A y \in B : u < y => x <= y
        BY <1>4, <1>5, <4>1 DEF NextIn
      <4>3. x # u /\ x \in C /\ x \in V /\ after = Pointer(V, x)
        BY <1>1, <1>3, <1>4, <4>1, <4>2 DEF Pointer
      <4>4. NextIn(C, at, x)
        BY <1>3, <1>4, <4>2, <4>3 DEF NextIn
      <4>5. QED
        BY <4>3, <4>4 DEF Forth
    <3>3. QED
      BY <3>1, <3>2
  <2>2. Forth(G, V, at, next)
    <3>1. CASE next = NULL
      <4>1. \A y \in F : y <= u
        BY <1>4, <1>5, <3>1, ForthIs
      <4>2. ASSUME NEW y \in G, ~(y <= at) PROVE FALSE
        <5>0. y \in C /\ y \in B /\ y \in Int
          BY <1>4
        <5>1. y \in C /\ y \in Int /\ at < y
          BY <1>4, <4>2, <5>0
        <5>2. y \in F /\ u < y
          BY <1>3, <1>4, <5>1
        <5>3. QED
          BY <1>4, <4>1, <5>1, <5>2
      <4>3. QED
        BY <3>1, <4>2 DEF Forth
    <3>2. CASE next # NULL
      <4>0. F \in SUBSET (Nat \ {0}) /\ u \in Int /\ Forth(F, U, u, next)
        BY <1>4, <1>5
      <4>1. PICK x \in F : NextIn(F, u, x) /\ next = Pointer(U, x)
        BY <3>2, <4>0, ForthIs
      <4>2. u < x /\ x \in Int /\ \A y \in F : u < y => x <= y
        BY <1>4, <4>1 DEF NextIn
      <4>3. x \in C
        BY <1>3, <1>4, <1>5
      <4>4. x \in G /\ next = Pointer(V, x)
        BY <1>4, <4>1, <4>3 DEF Pointer
      <4>5. ASSUME NEW y \in G, at < y PROVE x <= y
        BY <1>3, <1>4, <4>2, <4>5
      <4>6. at < x
        BY <1>3, <1>4, <4>2
      <4>7. QED
        BY <4>4, <4>5, <4>6 DEF Forth, NextIn
    <3>3. QED
      BY <3>1, <3>2
  <2>3. QED
    BY <1>1, <2>1, <2>2
<1>6. CASE \E n \in F : NextIn(B, u, n) /\ after = mem[n + 1] /\ next = mem[n]
  <2>1. PICK n \in F : NextIn(B, u, n) /\ after = mem[n + 1] /\ next = mem[n]
    BY <1>6
  <2>2. n \in B /\ n \in Int /\ u < n /\ n \notin C /\ \A y \in B : u < y => n <= y
    BY <1>3, <1>4, <2>1 DEF NextIn
  <2>3. ASSUME NEW y \in C, at < y PROVE n < y /\ y \in B /\ y \in Int
    <3>1. u < y /\ y \in B /\ y # n /\ y \in Int
      BY <1>3, <1>4, <2>2, <2>3
    <3>2. QED
      BY <2>2, <3>1
  <2>4. Forth(C, V, at, after)
    <3>0. Forth(B, U, n, after)
      BY <1>2, <2>1
    <3>1. CASE after = NULL
      <4>1. \A y \in B : y <= n
        BY <1>4, <2>2, <3>0, <3>1, ForthIs
      <4>2. ASSUME NEW y \in C, ~(y <= at) PROVE FALSE
        BY <1>3, <1>4, <2>2, <2>3, <4>1, <4>2
      <4>3. QED
        BY <3>1, <4>2 DEF Forth
    <3>2. CASE after # NULL
      <4>1. PICK x \in B : NextIn(B, n, x) /\ after = Pointer(U, x)
        BY <1>4, <2>2, <3>0, <3>2, ForthIs
      <4>2. n < x /\ x \in Int /\ \A y \in B : n < y => x <= y
        BY <1>4, <4>1 DEF NextIn
      <4>3. x \in U
        BY <1>1, <1>2, <2>1, <4>1, Neighbours
      <4>4. x # u /\ x \in C /\ x \in V /\ after = Pointer(V, x)
        BY <1>1, <1>3, <1>4, <2>2, <4>1, <4>2, <4>3 DEF Pointer
      <4>5. NextIn(C, at, x)
        BY <1>3, <1>4, <2>2, <2>3, <4>2, <4>4 DEF NextIn
      <4>6. QED
        BY <4>4, <4>5 DEF Forth
    <3>3. QED
      BY <3>1, <3>2
  <2>5. Forth(G, V, at, next)
    <3>0. Forth(F, U, n, next)
      BY <1>2, <2>1
    <3>1. CASE next = NULL
      <4>1. \A y \in F : y <= n
        BY <1>4, <2>2, <3>0, <3>1, ForthIs
      <4>2. ASSUME NEW y \in G, ~(y <= at) PROVE FALSE
        <5>0. y \in C /\ y \in B /\ y \in Int
          BY <1>4
        <5>1. y \in C /\ y \in Int /\ at < y
          BY <1>4, <4>2, <5>0
        <5>2. y \in F /\ n < y
          BY <1>4, <2>3, <5>1
        <5>3. QED
          BY <2>2, <4>1, <5>1, <5>2
      <4>3. QED
        BY <3>1, <4>2 DEF Forth
    <3>2. CASE next # NULL
      <4>1. PICK x \in F : NextIn(F, n, x) /\ next = Pointer(U, x)
        BY <1>4, <2>2, <3>0, <3>2, ForthIs
      <4>2. n < x /\ x \in Int /\ \A y \in F : n < y => x <= y
        BY <1>4, <4>1 DEF NextIn
      <4>3. x \in C
        <5>1. ASSUME x \notin C PROVE FALSE
          <6>1. NextIn(B, u, x)
            BY <1>3, <1>4, <5>1
          <6>2. QED
            BY <2>2, <4>2, <6>1 DEF NextIn
        <5>2. QED
          BY <5>1
      <4>4. x \in G /\ next = Pointer(V, x)
        BY <1>4, <4>1, <4>3 DEF Pointer
      <4>5. ASSUME NEW y \in G, at < y PROVE x <= y
        BY <1>4, <2>3, <4>2, <4>5
      <4>6. at < x
        BY <1>3, <1>4, <2>2, <4>2
      <4>7. QED
        BY <4>4, <4>5, <4>6 DEF Forth, NextIn
    <3>3. QED
      BY <3>1, <3>2
  <2>6. QED
    BY <1>1, <2>4, <2>5
<1>7. QED
  BY <1>1, <1>5, <1>6 DEF RightSide

\* What is before the free block, and the free list up to it.
LeftReady(C, V, G, c) ==
  /\ Back(C, V, c.at, c.before)
  /\ Forth(G, V, 0, c.head)
  /\ c.pre = NULL => \A a \in G : NextIn(G, a, c.at) => mem[a] = FMB(c.at)
  /\ c.pre # NULL => \E q \in G : c.pre = FMB(q) /\ NextIn(G, q, c.at)

\* The left side of a release.
LEMMA MergedLeft ==
  ASSUME NEW B, NEW U, Shape(B, U, mem, FMBlist), NEW u \in U, NEW c,
         Starts(B, U, u, c.at), NEW C, C = Joined(B, U, u, c.at), NEW G, G = C \ (U \ {u}),
         LeftSide(B, U, u, c)
  PROVE  LeftReady(C, U \ {u}, G, c)
<1>1. PICK at, F, V, before, head, pre :
        /\ at = c.at /\ F = B \ U /\ V = U \ {u}
        /\ before = c.before /\ head = c.head /\ pre = c.pre
  OBVIOUS
<1>2. /\ Heads(B, U) /\ Forth(F, U, 0, FMBlist)
      /\ \A a \in U : Back(B, U, a, mem[a + 1])
      /\ \A a \in F : Forth(F, U, a, mem[a]) /\ Back(B, U, a, mem[a + 2])
      /\ Starts(B, U, u, at) /\ C = Joined(B, U, u, at)
  BY <1>1 DEF Shape, UsedLinks, FreeLinks
<1>3. /\ C \in SUBSET B /\ at \in C /\ at \notin V /\ at <= u /\ at \in B
      /\ u \in C <=> at = u
      /\ \A x \in B : x \notin C /\ x # u => x \notin U /\ NextIn(B, u, x)
      /\ \A x \in U : x # u => x \in C
  BY <1>1, <1>2, JoinedFacts
<1>4. /\ B \in SUBSET (Nat \ {0}) /\ B \in SUBSET Nat /\ U \in SUBSET B
      /\ F \in SUBSET (Nat \ {0})
      /\ \A a \in B : a \in Int /\ a >= 1
      /\ u \in B /\ u \in Int /\ at \in Int
      /\ \A a \in F : a \in B /\ a \notin U /\ a # u /\ a \notin V
      /\ \A a \in G : a \in C /\ a \in B /\ (a # u => a \in F)
      /\ \A a \in F : a \in C => a \in G
      /\ at \in G /\ G = C \ V
  BY <1>1, <1>2, <1>3, HeadsFacts
<1>5. ASSUME NEW x \in B, x < u PROVE x \in C
  <2>1. x # u /\ ~NextIn(B, u, x)
    BY <1>4, <1>5 DEF NextIn
  <2>2. QED
    BY <1>3, <2>1
<1>6. ASSUME NEW p, NEW a \in B, a <= u, Back(B, U, a, p), \A x : PrevIn(B, a, x) => x \in U
      PROVE  Back(C, V, a, p)
  <2>1. ASSUME NEW x, PrevIn(B, a, x) PROVE x \in C /\ (x \in U <=> x \in V)
    <3>1. x \in B /\ x < a /\ x \in U
      BY <1>6, <2>1 DEF PrevIn
    <3>2. x < u /\ x # u
      BY <1>4, <1>6, <3>1
    <3>3. QED
      BY <1>1, <1>5, <3>1, <3>2
  <2>2. a \in Int
    BY <1>4
  <2>3. QED
    BY <1>3, <1>4, <1>6, <2>1, <2>2, BackStays
<1>7. ASSUME ~NextIn(G, 0, at) PROVE Forth(G, V, 0, FMBlist)
  <2>1. G = Joined(B, U, u, at) \ (U \ {u})
    BY <1>1, <1>2, <1>4
  <2>2. Moves(B \ U, G, 0)
    <3>1. PICK a : a = 0
      OBVIOUS
    <3>2. ~NextIn(G, a, at)
      BY <1>7, <3>1
    <3>3. Moves(B \ U, G, a)
      <4>1. Heads(B, U) /\ Starts(B, U, u, at) /\ (a = 0 \/ (a \in G /\ a # at))
        BY <1>2, <3>1, Zenon
      <4>2. QED
        BY <2>1, <3>2, <4>1, JoinedFree, Zenon
    <3>4. QED
      BY <3>1, <3>3
  <2>3. \A x \in F : x \notin U /\ x \notin V
    BY <1>4
  <2>4. QED
    BY <1>1, <1>2, <2>2, <2>3, ForthMoves
<1>8. FMB(at) = Pointer(V, at)
  BY <1>3 DEF Pointer
<1>9. CASE /\ at = u /\ \A x \in B : NextIn(B, x, u) => x \in U
           /\ before = mem[u + 1]
           /\ \/ pre = NULL /\ head = FMB(u) /\ \A y \in F : u <= y
              \/ \E q \in F : pre = FMB(q) /\ PrevIn(F, u, q) /\ head = FMBlist
  <2>1. Back(C, V, at, before)
    <3>1. ASSUME NEW x, PrevIn(B, u, x) PROVE x \in U
      <4>1. x \in B
        BY <3>1 DEF PrevIn
      <4>2. NextIn(B, x, u)
        BY <1>4, <3>1, <4>1, NextPrev
      <4>3. QED
        BY <1>9, <4>1, <4>2
    <3>2. Back(B, U, u, before) /\ u <= u
      BY <1>2, <1>4, <1>9
    <3>3. QED
      BY <1>4, <1>6, <1>9, <3>1, <3>2
  <2>2. CASE pre = NULL /\ head = FMB(u) /\ \A y \in F : u <= y
    <3>1. ASSUME NEW y \in G PROVE u <= y
      BY <1>4, <2>2
    <3>2. NextIn(G, 0, u)
      BY <1>4, <1>9, <3>1 DEF NextIn
    <3>3. Forth(G, V, 0, head)
      BY <1>4, <1>8, <1>9, <2>2, <3>2 DEF Forth
    <3>4. ASSUME NEW a \in G PROVE ~NextIn(G, a, at)
      <4>1. u <= a /\ a \in Int
        BY <1>4, <3>1
      <4>2. QED
        BY <1>4, <1>9, <4>1 DEF NextIn
    <3>5. QED
      BY <1>1, <2>1, <2>2, <3>3, <3>4 DEF LeftReady
  <2>3. CASE \E q \in F : pre = FMB(q) /\ PrevIn(F, u, q) /\ head = FMBlist
    <3>1. PICK q \in F : pre = FMB(q) /\ PrevIn(F, u, q) /\ head = FMBlist
      BY <2>3
    <3>2. q < u /\ q \in B /\ q \in Int /\ q >= 1 /\ \A y \in F : y < u => y <= q
      BY <1>4, <3>1 DEF PrevIn
    <3>3. q \in G
      BY <1>4, <1>5, <3>2
    <3>4. ~NextIn(G, 0, at)
      BY <1>4, <1>9, <3>2, <3>3 DEF NextIn
    <3>5. ASSUME NEW y \in G, q < y PROVE u <= y
      <4>1. CASE y = u
        BY <1>4, <4>1
      <4>2. CASE y # u
        BY <1>4, <3>2, <3>5, <4>2
      <4>3. QED
        BY <4>1, <4>2
    <3>6. NextIn(G, q, at)
      BY <1>4, <1>9, <3>2, <3>5 DEF NextIn
    <3>7. pre # NULL
      BY <3>1, <3>2 DEF FMB, NULL
    <3>8. QED
      BY <1>1, <1>7, <2>1, <3>1, <3>3, <3>4, <3>6, <3>7 DEF LeftReady
  <2>4. QED
    BY <1>9, <2>2, <2>3
<1>10. CASE /\ at \in F /\ NextIn(B, at, u) /\ before = mem[at + 2]
            /\ pre = NULL /\ head = FMBlist
  <2>1. Back(C, V, at, before)
    <3>1. at \in B \ U
      BY <1>1, <1>10
    <3>2. \A x : PrevIn(B, at, x) => x \in U
      BY <1>2, <3>1, Neighbours
    <3>3. Back(B, U, at, before)
      BY <1>2, <1>10
    <3>4. QED
      BY <1>3, <1>6, <3>2, <3>3
  <2>2. ASSUME NEW a \in Int, NextIn(G, a, at) PROVE NextIn(F, a, at)
    <3>1. a < at /\ \A y \in G : a < y => at <= y
      BY <2>2 DEF NextIn
    <3>2. ASSUME NEW y \in F, a < y PROVE at <= y
      <4>1. y \in B /\ y \in Int /\ y # u
        BY <1>4
      <4>2. CASE y \in C
        BY <1>4, <3>1, <3>2, <4>2
      <4>3. CASE y \notin C
        <5>1. u < y
          BY <1>3, <4>1, <4>3 DEF NextIn
        <5>2. QED
          BY <1>3, <1>4, <4>1, <5>1
      <4>4. QED
        BY <4>2, <4>3
    <3>3. QED
      BY <1>10, <3>1, <3>2 DEF NextIn
  <2>3. Pointer(U, at) = FMB(at) /\ Pointer(V, at) = FMB(at)
    BY <1>4, <1>8, <1>10 DEF Pointer
  <2>4. Forth(G, V, 0, head)
    <3>1. CASE NextIn(G, 0, at)
      <4>1. NextIn(F, 0, at) /\ 0 \in Int
        BY <2>2, <3>1
      <4>2. FMBlist = Pointer(U, at)
        BY <1>2, <1>4, <1>10, <4>1, ForthIs
      <4>3. QED
        BY <1>4, <1>10, <2>3, <3>1, <4>2 DEF Forth
    <3>2. CASE ~NextIn(G, 0, at)
      BY <1>7, <1>10, <3>2
    <3>3. QED
      BY <3>1, <3>2
  <2>5. ASSUME NEW a \in G, NextIn(G, a, at) PROVE mem[a] = FMB(at)
    <3>1. a \in Int /\ a \in C
      BY <1>4
    <3>2. NextIn(F, a, at)
      BY <2>2, <2>5, <3>1
    <3>3. a \in F
      <4>1. a # u
        BY <1>3, <1>4, <3>1, <3>2 DEF NextIn
      <4>2. QED
        BY <1>4, <4>1
    <3>4. PICK p : p = mem[a]
      OBVIOUS
    <3>5. Forth(F, U, a, p)
      BY <1>2, <3>3, <3>4
    <3>6. p = Pointer(U, at)
      BY <1>4, <1>10, <3>1, <3>2, <3>5, ForthIs
    <3>7. QED
      BY <2>3, <3>4, <3>6
  <2>6. QED
    BY <1>1, <1>10, <2>1, <2>4, <2>5 DEF LeftReady
<1>11. QED
  BY <1>1, <1>9, <1>10 DEF LeftSide

\* What a link to the next free block may be taken from.
LEMMA FreeAfter ==
  ASSUME NEW B, NEW U, Shape(B, U, mem, FMBlist), NEW u \in U
  PROVE  /\ (\A y \in B \ U : u <= y) => Forth(B \ U, U, u, FMBlist)
         /\ \A q \in B \ U : PrevIn(B \ U, u, q) => Forth(B \ U, U, u, mem[q])
         /\ (\A y \in B : y <= u) => Forth(B \ U, U, u, NULL)
<1>1. PICK F : F = B \ U
  OBVIOUS
<1>2. /\ Heads(B, U) /\ Forth(F, U, 0, FMBlist) /\ \A a \in F : Forth(F, U, a, mem[a])
  BY <1>1 DEF Shape, FreeLinks
<1>3. /\ F \in SUBSET (Nat \ {0}) /\ u \in Int /\ u >= 1
      /\ \A a \in F : a \in Int /\ a # u /\ a \in B /\ a >= 1
  BY <1>1, <1>2, HeadsFacts
<1>4. ASSUME NEW a \in Int, a < u, \A y \in F : a < y => u < y, NEW p, Forth(F, U, a, p)
      PROVE  Forth(F, U, u, p)
  <2>1. CASE p = NULL
    <3>1. \A y \in F : y <= a
      BY <1>3, <1>4, <2>1, ForthIs
    <3>2. \A y \in F : y <= u
      BY <1>3, <1>4, <3>1
    <3>3. QED
      BY <2>1, <3>2 DEF Forth
  <2>2. CASE p # NULL
    <3>1. PICK x \in F : NextIn(F, a, x) /\ p = Pointer(U, x)
      BY <1>3, <1>4, <2>2, ForthIs
    <3>2. NextIn(F, u, x)
      BY <1>3, <1>4, <3>1 DEF NextIn
    <3>3. QED
      BY <3>1, <3>2 DEF Forth
  <2>3. QED
    BY <2>1, <2>2
<1>5. ASSUME \A y \in F : u <= y PROVE Forth(F, U, u, FMBlist)
  <2>1. \A y \in F : 0 < y => u < y
    BY <1>3, <1>5
  <2>2. 0 \in Int /\ 0 < u
    BY <1>3
  <2>3. QED
    BY <1>2, <1>4, <2>1, <2>2
<1>6. ASSUME NEW q \in F, PrevIn(F, u, q) PROVE Forth(F, U, u, mem[q])
  <2>1. q \in Int /\ q < u /\ \A y \in F : q < y => u < y
    BY <1>3, <1>6 DEF PrevIn
  <2>2. QED
    BY <1>2, <1>4, <2>1
<1>7. ASSUME \A y \in B : y <= u PROVE Forth(F, U, u, NULL)
  BY <1>3, <1>7 DEF Forth
<1>8. QED
  BY <1>1, <1>5, <1>6, <1>7

\* The nine cases of CoKfree are the three on the right with the three on the
\* left.
LEMMA MergedSides ==
  ASSUME NEW B, NEW U, Shape(B, U, mem, FMBlist), mem \in [1 .. KHEAP_SIZE -> Cells],
         NEW u \in U
  PROVE  RightSide(B, U, u, Merged(u)) /\ LeftSide(B, U, u, Merged(u))
<1>1. PICK F, c, nx, pv, n, p, pre :
        /\ F = B \ U /\ c = Merged(u) /\ nx = mem[u] /\ pv = mem[u + 1]
        /\ n = Addr(nx) /\ p = Addr(pv) /\ pre = GetPreFMB(u)
  OBVIOUS
<1>2. PICK succ, s, head :
        /\ succ = IF pre = NULL THEN FMBlist ELSE mem[Addr(pre)]
        /\ s = Addr(succ) /\ head = IF pre = NULL THEN FMB(u) ELSE FMBlist
  OBVIOUS
<1>3. c = IF ~IsUMB(nx) /\ ~IsUMB(pv)
          THEN IF nx = NULL /\ pv = NULL
               THEN Block(u, NULL, NULL, NULL, FMB(u), NULL)
               ELSE IF pv = NULL
               THEN Block(u, mem[n], mem[n + 1], NULL, FMB(u), NULL)
               ELSE IF nx = NULL
               THEN Block(p, NULL, NULL, mem[p + 2], FMBlist, NULL)
               ELSE Block(p, mem[n], mem[n + 1], mem[p + 2], FMBlist, NULL)
          ELSE IF ~IsUMB(pv)
          THEN IF pv = NULL
               THEN Block(u, FMBlist, nx, NULL, FMB(u), NULL)
               ELSE Block(p, mem[p], nx, mem[p + 2], FMBlist, NULL)
          ELSE IF ~IsUMB(nx)
          THEN IF succ = NULL THEN Block(u, NULL, NULL, pv, head, pre)
               ELSE Block(u, mem[s], mem[s + 1], pv, head, pre)
          ELSE Block(u, succ, nx, pv, head, pre)
  BY <1>1, <1>2 DEF Merged, nextMB, preMB, nextFMB, nextUMB, preUMB
<1>4. /\ Heads(B, U) /\ Forth(B, U, u, nx) /\ Back(B, U, u, pv)
  BY <1>1 DEF Shape, UsedLinks
<1>5. /\ B \in SUBSET (Nat \ {0}) /\ B \in SUBSET Nat /\ F \in SUBSET (Nat \ {0})
      /\ u \in B /\ u \in Int
      /\ \A a \in B : a \in Int /\ a \in Nat /\ a >= 1
      /\ \A a \in F : a \in B /\ a \notin U
  BY <1>1, <1>4, HeadsFacts
<1>6. \A a \in B : /\ Addr(Pointer(U, a)) = a /\ Pointer(U, a) # NULL
                   /\ IsUMB(Pointer(U, a)) <=> a \in U
                   /\ a \notin U => Pointer(U, a) = FMB(a)
  BY <1>5, PointerFacts DEF Pointer
<1>7. ~IsUMB(NULL)
  BY DEF IsUMB, NULL
\* The right side.
<1>8. \/ nx = NULL /\ \A y \in B : y <= u
      \/ nx # NULL /\ ~IsUMB(nx) /\ n \in F /\ NextIn(B, u, n)
      \/ nx # NULL /\ IsUMB(nx) /\ n \in U /\ NextIn(B, u, n)
  <2>1. CASE nx = NULL
    BY <1>4, <1>5, <2>1, ForthIs
  <2>2. CASE nx # NULL
    <3>1. PICK x \in B : NextIn(B, u, x) /\ nx = Pointer(U, x)
      BY <1>4, <1>5, <2>2, ForthIs
    <3>2. x = n /\ (IsUMB(nx) <=> x \in U)
      BY <1>1, <1>6, <3>1
    <3>3. QED
      BY <1>1, <2>2, <3>1, <3>2
  <2>3. QED
    BY <2>1, <2>2
<1>9. \/ pv = NULL /\ \A y \in B : u <= y
      \/ pv # NULL /\ ~IsUMB(pv) /\ p \in F /\ PrevIn(B, u, p)
      \/ pv # NULL /\ IsUMB(pv) /\ p \in U /\ PrevIn(B, u, p)
  <2>1. CASE pv = NULL
    BY <1>4, <1>5, <2>1, BackIs
  <2>2. CASE pv # NULL
    <3>1. PICK x \in B : PrevIn(B, u, x) /\ pv = Pointer(U, x)
      BY <1>4, <1>5, <2>2, BackIs
    <3>2. x = p /\ (IsUMB(pv) <=> x \in U)
      BY <1>1, <1>6, <3>1
    <3>3. QED
      BY <1>1, <2>2, <3>1, <3>2
  <2>3. QED
    BY <2>1, <2>2
<1>10. /\ (\A y \in F : u <= y) => Forth(F, U, u, FMBlist)
       /\ \A q \in F : PrevIn(F, u, q) => Forth(F, U, u, mem[q])
       /\ (\A y \in B : y <= u) => Forth(F, U, u, NULL)
  BY <1>1, FreeAfter
<1>11. \/ pre = NULL /\ \A y \in F : u <= y
       \/ pre # NULL /\ Addr(pre) \in F /\ pre = FMB(Addr(pre)) /\ PrevIn(F, u, Addr(pre))
  <2>1. \A q \in F : Addr(FMB(q)) = q /\ FMB(q) # NULL
    BY <1>5 DEF Addr, FMB, NULL
  <2>2. \/ pre = NULL /\ \A y \in F : u <= y
        \/ \E q \in F : pre = FMB(q) /\ PrevIn(F, u, q)
    <3>1. PreIs(B, U, u, GetPreFMB(u))
      BY GetPreFMBIs
    <3>2. PreIs(B, U, u, pre)
      BY <1>1, <3>1
    <3>3. QED
      BY <1>1, <3>2 DEF PreIs
  <2>3. QED
    BY <2>1, <2>2
<1>12. Forth(F, U, u, succ)
  BY <1>2, <1>10, <1>11
<1>13. /\ nx = NULL => succ = NULL
       /\ (nx # NULL /\ ~IsUMB(nx)) => succ # NULL /\ s = n
  <2>1. succ # NULL => \E x \in F : NextIn(F, u, x)
    BY <1>5, <1>12, ForthIs
  <2>2. nx = NULL => succ = NULL
    BY <1>5, <1>8, <2>1 DEF NextIn
  <2>3. ASSUME nx # NULL, ~IsUMB(nx) PROVE succ # NULL /\ s = n
    <3>1. n \in F /\ NextIn(B, u, n) /\ n \in B
      BY <1>5, <1>8, <2>3
    <3>2. NextIn(F, u, n)
      BY <1>5, <3>1 DEF NextIn
    <3>3. succ = Pointer(U, n)
      BY <1>5, <1>12, <3>1, <3>2, ForthIs
    <3>4. QED
      BY <1>2, <1>6, <3>1, <3>3
  <2>4. QED
    BY <2>2, <2>3
<1>14. (nx = NULL \/ IsUMB(nx)) => \A x : NextIn(B, u, x) => x \in U
  <2>1. ASSUME nx = NULL, NEW x, NextIn(B, u, x) PROVE FALSE
    BY <1>5, <1>8, <2>1 DEF NextIn
  <2>2. ASSUME IsUMB(nx), NEW x, NextIn(B, u, x) PROVE x \in U
    <3>1. n \in U /\ NextIn(B, u, n)
      BY <1>7, <1>8, <2>2
    <3>2. x = n
      BY <1>5, <2>2, <3>1, NextOnce
    <3>3. QED
      BY <3>1, <3>2
  <2>3. QED
    BY <2>1, <2>2
<1>15. (pv = NULL \/ IsUMB(pv)) => \A x \in B : NextIn(B, x, u) => x \in U
  <2>1. ASSUME pv = NULL, NEW x \in B, NextIn(B, x, u) PROVE FALSE
    BY <1>5, <1>9, <2>1 DEF NextIn
  <2>2. ASSUME IsUMB(pv), NEW x \in B, NextIn(B, x, u) PROVE x \in U
    <3>1. p \in U /\ PrevIn(B, u, p)
      BY <1>7, <1>9, <2>2
    <3>2. PrevIn(B, u, x)
      BY <1>5, <2>2, NextPrev
    <3>3. x = p
      BY <1>5, <3>1, <3>2, PrevOnce
    <3>4. QED
      BY <3>1, <3>3
  <2>3. QED
    BY <2>1, <2>2
<1>16. (pv # NULL /\ ~IsUMB(pv)) => p \in F /\ NextIn(B, p, u) /\ PrevIn(F, u, p)
  <2> SUFFICES ASSUME pv # NULL, ~IsUMB(pv)
               PROVE  p \in F /\ NextIn(B, p, u) /\ PrevIn(F, u, p)
    OBVIOUS
  <2>1. p \in F /\ PrevIn(B, u, p) /\ p \in B
    BY <1>5, <1>9
  <2>2. NextIn(B, p, u)
    BY <1>5, <2>1, NextPrev
  <2>3. PrevIn(F, u, p)
    BY <1>5, <2>1 DEF PrevIn
  <2>4. QED
    BY <2>1, <2>2, <2>3
<1>17. (nx # NULL /\ ~IsUMB(nx)) => n \in F /\ NextIn(B, u, n)
  BY <1>8
<1>18. RightSide(B, U, u, c)
  <2>1. CASE nx = NULL
    <3>1. c.after = nx /\ c.next = NULL
      BY <1>3, <1>7, <1>13, <2>1 DEF Block
    <3>2. Forth(F, U, u, c.next)
      BY <1>8, <1>10, <2>1, <3>1
    <3>3. QED
      BY <1>1, <1>14, <2>1, <3>1, <3>2 DEF RightSide
  <2>2. CASE nx # NULL /\ ~IsUMB(nx)
    <3>1. c.after = mem[n + 1] /\ c.next = mem[n]
      BY <1>3, <1>7, <1>13, <2>2 DEF Block
    <3>2. QED
      BY <1>1, <1>17, <2>2, <3>1 DEF RightSide
  <2>3. CASE IsUMB(nx)
    <3>1. c.after = nx
      BY <1>3, <2>3 DEF Block
    <3>2. Forth(F, U, u, c.next)
      <4>1. CASE pv = NULL
        <5>1. c.next = FMBlist
          BY <1>3, <1>7, <2>3, <4>1 DEF Block
        <5>2. QED
          BY <1>5, <1>9, <1>10, <4>1, <5>1
      <4>2. CASE pv # NULL /\ ~IsUMB(pv)
        <5>1. c.next = mem[p]
          BY <1>3, <2>3, <4>2 DEF Block
        <5>2. QED
          BY <1>10, <1>16, <4>2, <5>1
      <4>3. CASE IsUMB(pv)
        <5>1. c.next = succ
          BY <1>3, <2>3, <4>3 DEF Block
        <5>2. QED
          BY <1>12, <5>1
      <4>4. QED
        BY <4>1, <4>2, <4>3
    <3>3. QED
      BY <1>1, <1>14, <2>3, <3>1, <3>2 DEF RightSide
  <2>4. QED
    BY <2>1, <2>2, <2>3
\* The left side.
<1>19. LeftSide(B, U, u, c)
  <2>1. CASE pv = NULL
    <3>1. c.at = u /\ c.before = pv /\ c.pre = NULL /\ c.head = FMB(u)
      BY <1>3, <1>7, <2>1 DEF Block
    <3>2. \A y \in F : u <= y
      BY <1>5, <1>9, <2>1
    <3>3. QED
      BY <1>1, <1>15, <2>1, <3>1, <3>2 DEF LeftSide
  <2>2. CASE pv # NULL /\ ~IsUMB(pv)
    <3>1. c.at = p /\ c.before = mem[p + 2] /\ c.pre = NULL /\ c.head = FMBlist
      BY <1>3, <2>2 DEF Block
    <3>2. QED
      BY <1>1, <1>16, <2>2, <3>1 DEF LeftSide
  <2>3. CASE IsUMB(pv)
    <3>1. c.at = u /\ c.before = pv /\ c.pre = pre /\ c.head = head
      BY <1>3, <1>7, <2>3 DEF Block
    <3>2. CASE pre = NULL
      <4>1. head = FMB(u) /\ \A y \in F : u <= y
        BY <1>2, <1>11, <3>2
      <4>2. QED
        BY <1>1, <1>15, <2>3, <3>1, <3>2, <4>1 DEF LeftSide
    <3>3. CASE pre # NULL
      <4>1. PICK q \in F : pre = FMB(q) /\ PrevIn(F, u, q) /\ head = FMBlist
        BY <1>2, <1>11, <3>3
      <4>2. QED
        BY <1>1, <1>15, <2>3, <3>1, <4>1 DEF LeftSide
    <3>4. QED
      BY <3>2, <3>3
  <2>4. QED
    BY <2>1, <2>2, <2>3
<1>20. QED
  BY <1>1, <1>18, <1>19

\* Before it stores, CoKfree has everything right.
LEMMA MergedReady ==
  ASSUME NEW B, NEW U, Shape(B, U, mem, FMBlist), mem \in [1 .. KHEAP_SIZE -> Cells],
         NEW u \in U, NEW c, RightSide(B, U, u, c), LeftSide(B, U, u, c)
  PROVE  /\ Starts(B, U, u, c.at)
         /\ Ready(Joined(B, U, u, c.at), U \ {u}, c)
<1>1. Starts(B, U, u, c.at)
  BY DEF LeftSide, Starts
<1>2. PICK C, V, G : C = Joined(B, U, u, c.at) /\ V = U \ {u} /\ G = C \ V
  OBVIOUS
<1>3. Heads(B, U)
  BY DEF Shape
<1>4. c.at \in C /\ c.at \notin V
  <2>1. PICK at : at = c.at
    OBVIOUS
  <2>2. Starts(B, U, u, at) /\ C = Joined(B, U, u, at)
    BY <1>1, <1>2, <2>1
  <2>3. at \in C /\ at \notin U \ {u}
    BY <1>3, <2>2, JoinedFacts
  <2>4. QED
    BY <1>2, <2>1, <2>3
<1>5. Forth(C, V, c.at, c.after) /\ Forth(G, V, c.at, c.next)
  <2>1. Forth(C, U \ {u}, c.at, c.after) /\ Forth(C \ (U \ {u}), U \ {u}, c.at, c.next)
    BY <1>1, <1>2, MergedRight
  <2>2. QED
    BY <1>2, <2>1
<1>6. LeftReady(C, V, G, c)
  <2>1. G = C \ (U \ {u})
    BY <1>2
  <2>2. LeftReady(C, U \ {u}, G, c)
    BY <1>1, <1>2, <2>1, MergedLeft
  <2>3. QED
    BY <1>2, <2>2
<1>7. Ready(C, V, c)
  BY <1>2, <1>4, <1>5, <1>6 DEF Ready, LeftReady
<1>8. QED
  BY <1>1, <1>2, <1>7

\* Word d of the data of x is none of the words of links.
AwayFrom(B, U, x, d) ==
  /\ d \in 1 .. KHEAP_SIZE /\ d \in Nat /\ x.at \in B /\ x.at \in U /\ x.at + 2 <= d
  /\ \A y \in B : d # y /\ d # y + 1 /\ (y \notin U => d # y + 2)

LEMMA DataAway ==
  ASSUME NEW B, NEW U, Heads(B, U), Owned(B, U, mem), NEW x \in live, NEW d \in x.data
  PROVE  AwayFrom(B, U, x, d)
BY DataApart DEF AwayFrom

\* The blocks beside a free one are used.
ReadyLinks(V, c) ==
  /\ c.after # NULL => Addr(c.after) \in V
  /\ c.before # NULL => Addr(c.before) \in V

LEMMA ReadyNeighbours ==
  ASSUME NEW C, NEW V, Heads(C, V), NEW c, Ready(C, V, c)
  PROVE  ReadyLinks(V, c)
<1>1. PICK at, after, before : at = c.at /\ after = c.after /\ before = c.before
  OBVIOUS
<1>2. at \in C \ V /\ Forth(C, V, at, after) /\ Back(C, V, at, before)
  BY <1>1 DEF Ready
<1>3. (after # NULL => Addr(after) \in V) /\ (before # NULL => Addr(before) \in V)
  BY <1>2, LinkNeighbours
<1>4. QED
  BY <1>1, <1>3 DEF ReadyLinks

\* No word that another block owns is stored to.
LEMMA ReleasedApart ==
  ASSUME NEW B, NEW U, Heads(B, U), Owned(B, U, mem), NEW b \in live, NEW u, u = b.at,
         NEW c, Starts(B, U, u, c.at), NEW C, C = Joined(B, U, u, c.at),
         NEW V, V = U \ {u}, Heads(C, V), Ready(C, V, c), NEW w, ReleasedIs(w, c),
         NEW x \in live, x # b, NEW d \in x.data
  PROVE  w[d] = mem[d]
<1>1. u \in U
  BY DEF Owned
<1>2. PICK at, after, before, pre :
        at = c.at /\ after = c.after /\ before = c.before /\ pre = c.pre
  OBVIOUS
<1>3. /\ at \in C /\ at \notin V /\ at \in C \ V
      /\ Forth(C, V, at, after) /\ Back(C, V, at, before)
      /\ pre # NULL => \E q \in C \ V : pre = FMB(q)
  BY <1>2 DEF Ready
<1>4. C \in SUBSET B
  BY DEF Joined
<1>5. \A a \in B : a \in Nat /\ a \in Int
  BY HeadsFacts
<1>6. V \in SUBSET C
  BY DEF Heads
<1>7. /\ d \in 1 .. KHEAP_SIZE /\ d \in Nat /\ x.at \in B /\ x.at \in U /\ x.at + 2 <= d
      /\ \A y \in B : d # y /\ d # y + 1 /\ (y \notin U => d # y + 2)
  <2>1. AwayFrom(B, U, x, d)
    BY DataAway
  <2>2. QED
    BY <2>1 DEF AwayFrom
<1>8. ReadyLinks(V, c)
  BY ReadyNeighbours
<1>9. (after # NULL => Addr(after) \in B) /\ (before # NULL => Addr(before) \in B)
  BY <1>2, <1>4, <1>6, <1>8 DEF ReadyLinks
<1>10. pre # NULL => Addr(pre) \in B
  <2>1. \A q \in C : Addr(FMB(q)) = q
    BY <1>4, <1>5 DEF Addr, FMB
  <2>2. QED
    BY <1>3, <1>4, <2>1
<1>11. d # at + 2
  <2>1. CASE at \notin U
    BY <1>3, <1>4, <1>7, <2>1
  <2>2. CASE at = u
    <3>1. x.at # u
      BY DEF Owned
    <3>2. u \in B /\ u \in Int /\ x.at \in Int
      BY <1>1, <1>5, <1>7, HeadsFacts
    <3>3. CASE x.at < u
      <4>1. d < u
        BY <3>2, <3>3 DEF Owned
      <4>2. QED
        BY <1>7, <2>2, <3>2, <4>1
    <3>4. CASE u < x.at
      <4>1. u + 3 <= x.at
        BY <1>7, <3>2, <3>4 DEF Heads
      <4>2. QED
        BY <1>7, <2>2, <3>2, <4>1
    <3>5. QED
      BY <3>1, <3>2, <3>3, <3>4
  <2>3. QED
    BY <1>3, <2>1, <2>2
<1>12. d # at /\ d # at + 1
  BY <1>3, <1>4, <1>7
<1>13. w[d] = IF after # NULL /\ d = Addr(after) + 1 THEN FMB(at)
              ELSE IF before # NULL /\ d = Addr(before) THEN FMB(at)
              ELSE IF pre # NULL /\ d = Addr(pre) THEN FMB(at)
              ELSE IF d = at THEN c.next
              ELSE IF d = at + 1 THEN after
              ELSE IF d = at + 2 THEN before
              ELSE mem[d]
  BY <1>2, <1>7 DEF ReleasedIs
<1>14. /\ ~(after # NULL /\ d = Addr(after) + 1) /\ ~(before # NULL /\ d = Addr(before))
       /\ ~(pre # NULL /\ d = Addr(pre))
  BY <1>7, <1>9, <1>10
<1>15. QED
  BY <1>11, <1>12, <1>13, <1>14

\* CoKfree: block u becomes part of the free block that starts at at.
Frees(B, U, u, at, C) ==
  /\ u \in U /\ Starts(B, U, u, at) /\ C = Joined(B, U, u, at)
  /\ Becomes(B, U, C, U \ {u})

LEMMA CoKfreeFrees ==
  ASSUME HeapInv, NEW b \in live, CoKfree(b)
  PROVE  \E B, U, at, C : Frees(B, U, b.at, at, C)
<1>1. PICK u, c : u = b.at /\ c = Merged(u)
  OBVIOUS
<1>2. mem' = Released(c) /\ FMBlist' = c.head /\ live' = live \ {b}
  BY <1>1 DEF CoKfree
<1>3. mem \in [1 .. KHEAP_SIZE -> Cells]
  BY DEF HeapInv
<1>4. PICK B, U \in SUBSET (1 .. KHEAP_SIZE) : Shape(B, U, mem, FMBlist) /\ Owned(B, U, mem)
  BY DEF HeapInv
<1>5. Heads(B, U) /\ u \in U
  BY <1>1, <1>4 DEF Shape, Owned
<1>6. Starts(B, U, u, c.at) /\ Ready(Joined(B, U, u, c.at), U \ {u}, c)
  <2>1. RightSide(B, U, u, Merged(u)) /\ LeftSide(B, U, u, Merged(u))
    BY <1>3, <1>4, <1>5, MergedSides
  <2>2. RightSide(B, U, u, c) /\ LeftSide(B, U, u, c)
    BY <1>1, <2>1
  <2>3. QED
    BY <1>3, <1>4, <1>5, <2>2, MergedReady
<1>7. PICK C, V : C = Joined(B, U, u, c.at) /\ V = U \ {u}
  OBVIOUS
<1>8. Heads(C, V)
  <2>1. PICK at : at = c.at
    OBVIOUS
  <2>2. Starts(B, U, u, at) /\ C = Joined(B, U, u, at)
    BY <1>6, <1>7, <2>1
  <2>3. Heads(C, U \ {u})
    BY <1>5, <2>2, JoinedHeads
  <2>4. QED
    BY <1>7, <2>3
<1>9. Ready(C, V, c)
  BY <1>6, <1>7
<1>10. ReleasedIs(mem', c)
  <2>1. ReleasedIs(Released(c), c)
    BY <1>3, <1>8, <1>9, ReleasedWords
  <2>2. QED
    BY <1>2, <2>1
<1>11. mem' \in [1 .. KHEAP_SIZE -> Cells]
  BY <1>10 DEF ReleasedIs
<1>12. Shape(C, V, mem', FMBlist')
  <2>1. Shape(C, V, mem', c.head)
    BY <1>4, <1>5, <1>6, <1>7, <1>9, <1>10, ReleasedShape
  <2>2. QED
    BY <1>2, <2>1
<1>13. C \in SUBSET B
  BY <1>7 DEF Joined
<1>14. Owned(C, V, mem)'
  <2>1. U = {y.at : y \in live} /\ \A y, z \in live : y.at = z.at => y = z
    BY <1>4 DEF Owned
  <2>2. V = {y.at : y \in live \ {b}}
    BY <1>1, <1>7, <2>1
  <2>3. ASSUME NEW y \in live \ {b}
        PROVE  /\ y.data # {} /\ y.data \in SUBSET (y.at + 2 .. KHEAP_SIZE)
               /\ \A x \in C : y.at < x => \A d \in y.data : d < x
               /\ \A d \in y.data : mem'[d] = USER
    <3>1. /\ y.data # {} /\ y.data \in SUBSET (y.at + 2 .. KHEAP_SIZE)
          /\ \A x \in B : y.at < x => \A d \in y.data : d < x
          /\ \A d \in y.data : mem[d] = USER
      BY <1>4 DEF Owned
    <3>2. ASSUME NEW d \in y.data PROVE mem'[d] = mem[d]
      <4>1. PICK w : w = mem'
        OBVIOUS
      <4>2. /\ Heads(B, U) /\ Owned(B, U, mem) /\ u = b.at /\ Starts(B, U, u, c.at)
            /\ C = Joined(B, U, u, c.at) /\ V = U \ {u} /\ Heads(C, V) /\ Ready(C, V, c)
            /\ ReleasedIs(w, c) /\ y \in live /\ y # b
        BY <1>1, <1>4, <1>5, <1>6, <1>7, <1>8, <1>9, <1>10, <4>1
      <4>3. w[d] = mem[d]
        BY <4>2, ReleasedApart
      <4>4. QED
        BY <4>1, <4>3
    <3>3. QED
      BY <1>13, <3>1, <3>2
  <2>4. QED
    BY <1>2, <2>1, <2>2, <2>3 DEF Owned
<1>15. C \in SUBSET (1 .. KHEAP_SIZE) /\ V \in SUBSET (1 .. KHEAP_SIZE)
  BY <1>4, <1>7, <1>13
<1>16. Becomes(B, U, C, V)
  BY <1>3, <1>4, <1>11, <1>12, <1>14, <1>15 DEF Becomes
<1>17. QED
  BY <1>1, <1>5, <1>6, <1>7, <1>16 DEF Frees


-----------------------------------------------------------------------------
(* The invariant, and what it says of the heap.                            *)

\* CoCreateKheap makes one free block of all words.
LEMMA HeapStarts ==
  ASSUME HeapInit
  PROVE  HeapInv /\ Shape({1}, {}, mem, FMBlist)
<1>1. PICK B, U : B = {1} /\ U = {}
  OBVIOUS
<1>2. /\ B \in SUBSET (1 .. KHEAP_SIZE) /\ U \in SUBSET (1 .. KHEAP_SIZE)
      /\ B \ U = B /\ \A y \in B : y = 1
  BY <1>1, HeapAssumption
<1>3. /\ mem \in [1 .. KHEAP_SIZE -> Cells]
      /\ mem[1] = NULL /\ mem[1 + 1] = NULL /\ mem[1 + 2] = NULL
  BY HeapAssumption DEF HeapInit, Cells, UMB, NULL
<1>4. Heads(B, U)
  BY <1>1, <1>2, HeapAssumption DEF Heads, NextIn
<1>5. \A y \in B : y <= 1 /\ 1 <= y
  BY <1>2
<1>6. Forth(B, U, 1, NULL) /\ Back(B, U, 1, NULL)
  BY <1>5 DEF Forth, Back
<1>7. UsedLinks(B, U, mem) /\ FreeLinks(B, U, mem)
  <2>1. UsedLinks(B, U, mem)
    BY <1>1 DEF UsedLinks
  <2>2. ASSUME NEW a \in B \ U
        PROVE  /\ Forth(B \ U, U, a, mem[a])
               /\ Forth(B, U, a, mem[a + 1]) /\ Back(B, U, a, mem[a + 2])
    BY <1>2, <1>3, <1>6
  <2>3. QED
    BY <2>1, <2>2 DEF FreeLinks
<1>8. Forth(B \ U, U, 0, FMBlist)
  <2>1. 1 \in B /\ NextIn(B, 0, 1)
    BY <1>1 DEF NextIn
  <2>2. FMBlist = Pointer(U, 1)
    BY <1>1 DEF HeapInit, Pointer
  <2>3. QED
    BY <1>2, <2>1, <2>2 DEF Forth
<1>9. Owned(B, U, mem)
  BY <1>1 DEF HeapInit, Owned
<1>10. Shape(B, U, mem, FMBlist)
  BY <1>4, <1>7, <1>8 DEF Shape
<1>11. HeapInv
  BY <1>2, <1>3, <1>9, <1>10 DEF HeapInv
<1>12. QED
  BY <1>1, <1>10, <1>11

LEMMA BecomesInv ==
  ASSUME NEW B, NEW U, NEW C, NEW V, Becomes(B, U, C, V)
  PROVE  HeapInv'
BY DEF Becomes, HeapInv

\* HeapInv is kept by every step.
LEMMA HeapStep ==
  ASSUME HeapInv, [HeapNext]_heapVars
  PROVE  HeapInv'
<1>1. ASSUME NEW n \in Requests, CoKmalloc(n) PROVE HeapInv'
  <2>1. PICK B, U, f, C : Grants(B, U, f, Words(n), C)
    BY <1>1, CoKmallocGrants
  <2>2. QED
    BY <2>1, BecomesInv DEF Grants
<1>2. CASE UNCHANGED heapVars
  BY <1>2 DEF heapVars, HeapInv, Owned
<1>3. ASSUME NEW n \in Requests, CoKmallocFails(n) PROVE HeapInv'
  BY <1>2, <1>3 DEF CoKmallocFails
<1>4. ASSUME NEW b \in live, CoKfree(b) PROVE HeapInv'
  <2>1. PICK B, U, at, C : Frees(B, U, b.at, at, C)
    BY <1>4, CoKfreeFrees
  <2>2. QED
    BY <2>1, BecomesInv DEF Frees
<1>5. QED
  BY <1>1, <1>2, <1>3, <1>4 DEF HeapNext

\* The heap is always a row of blocks of three words at least, no two free
\* ones side by side, with every link leading to the neighbour it should and
\* the data of each caller inside its own block (kernelHeap.c, CoKmalloc and
\* CoKfree).
THEOREM HeapInvariant == HeapSpec => []HeapInv
<1>1. HeapInit => HeapInv
  BY HeapStarts
<1>2. HeapInv /\ [HeapNext]_heapVars => HeapInv'
  BY HeapStep
<1>3. QED
  BY <1>1, <1>2, PTL DEF HeapSpec

\* The data of two blocks is apart.
LEMMA DataDisjoint ==
  ASSUME NEW B, NEW U, Heads(B, U), Owned(B, U, mem),
         NEW b \in live, NEW c \in live, b # c, NEW d \in b.data, NEW e \in c.data
  PROVE  d # e
<1>1. AwayFrom(B, U, b, d)
  BY DataAway
<1>2. AwayFrom(B, U, c, e)
  BY DataAway
<1>3. /\ b.at \in B /\ b.at + 2 <= d /\ d \in Nat
      /\ c.at \in B /\ c.at + 2 <= e /\ e \in Nat
  BY <1>1, <1>2 DEF AwayFrom
<1>4. b.at \in Nat /\ c.at \in Nat
  BY <1>3, HeadsFacts
<1>5. b.at # c.at
  BY DEF Owned
<1>6. (b.at < c.at => d < c.at) /\ (c.at < b.at => e < b.at)
  BY <1>3 DEF Owned
<1>7. QED
  BY <1>3, <1>4, <1>5, <1>6

\* CoKmalloc hands out words of the heap to one caller at a time, and neither
\* function ever writes to them before they are given back (kernelHeap.c).
THEOREM HeapIntact == HeapSpec => []LiveIntact
<1>1. ASSUME HeapInv PROVE LiveIntact
  <2>1. PICK B, U \in SUBSET (1 .. KHEAP_SIZE) :
          Shape(B, U, mem, FMBlist) /\ Owned(B, U, mem)
    BY <1>1 DEF HeapInv
  <2>2. Heads(B, U)
    BY <2>1 DEF Shape
  <2>3. ASSUME NEW b \in live, NEW d \in b.data PROVE d \in 1 .. KHEAP_SIZE /\ mem[d] = USER
    <3>1. AwayFrom(B, U, b, d)
      BY <2>1, <2>2, DataAway
    <3>2. mem[d] = USER
      BY <2>1 DEF Owned
    <3>3. QED
      BY <3>1, <3>2 DEF AwayFrom
  <2>4. ASSUME NEW b \in live, NEW c \in live \ {b}, NEW d \in b.data, NEW e \in c.data
        PROVE  d # e
    BY <2>1, <2>2, DataDisjoint
  <2>5. QED
    BY <2>3, <2>4 DEF LiveIntact
<1>2. QED
  BY <1>1, HeapInvariant, PTL

\* The pointers that a walk meets.
LEMMA MetAre ==
  ASSUME NEW S, NEW U, NEW w, Meets(S, U, w), MeetsAll(S, U, w),
         \A x \in S : Pointer(U, x) # NULL
  PROVE  {w[i] : i \in Steps} \ {NULL} = {Pointer(U, x) : x \in S}
<1>1. ASSUME NEW i \in Steps, w[i] # NULL PROVE \E x \in S : w[i] = Pointer(U, x)
  BY <1>1 DEF Meets
<1>2. ASSUME NEW x \in S PROVE \E i \in Steps : w[i] = Pointer(U, x)
  BY DEF MeetsAll
<1>3. QED
  BY <1>1, <1>2

\* HeapTypeOK is part of it.
LEMMA HeapTypes ==
  ASSUME HeapInv
  PROVE  HeapTypeOK
<1>1. mem \in [1 .. KHEAP_SIZE -> Cells] /\ KHEAP_SIZE \in Nat
  BY HeapAssumption DEF HeapInv
<1>2. PICK B, U \in SUBSET (1 .. KHEAP_SIZE) :
        Shape(B, U, mem, FMBlist) /\ Owned(B, U, mem)
  BY DEF HeapInv
<1>3. PICK F : F = B \ U
  OBVIOUS
<1>4. Forth(F, U, 0, FMBlist) /\ F \in SUBSET (1 .. KHEAP_SIZE)
  BY <1>2, <1>3 DEF Shape
<1>5. \A x \in F : Pointer(U, x) = FMB(x) /\ FMB(x) \in 0 .. FMB(KHEAP_SIZE)
  BY <1>1, <1>3, <1>4 DEF Pointer, FMB
<1>6. NULL \in 0 .. FMB(KHEAP_SIZE)
  BY <1>1 DEF NULL, FMB
<1>7. FMBlist \in 0 .. FMB(KHEAP_SIZE)
  BY <1>4, <1>5, <1>6 DEF Forth
<1>8. \A b \in live : b.at \in 1 .. KHEAP_SIZE /\ b.data # {}
  BY <1>2 DEF Owned
<1>9. QED
  BY <1>1, <1>7, <1>8 DEF HeapTypeOK, Cells

\* The link back of a block leads to the block before it.
LEMMA BackWord ==
  ASSUME NEW B, NEW U, Shape(B, U, mem, FMBlist), mem \in [1 .. KHEAP_SIZE -> Cells],
         NEW x \in B, NEW p, p = Pointer(U, x)
  PROVE  Back(B, U, x, Word(IF IsUMB(p) THEN preMB(Addr(p)) ELSE preUMB(Addr(p))))
<1>1. Heads(B, U)
  BY DEF Shape
<1>2. x + 1 \in 1 .. KHEAP_SIZE /\ x + 2 \in 1 .. KHEAP_SIZE /\ x \in Nat /\ x >= 1
  BY <1>1, LinkWords
<1>3. Addr(p) = x /\ (IsUMB(p) <=> x \in U)
  BY <1>2, PointerFacts
<1>4. Word(x + 1) = mem[x + 1] /\ Word(x + 2) = mem[x + 2]
  BY <1>2, WordIs
<1>5. CASE x \in U
  <2>1. Back(B, U, x, mem[x + 1])
    BY <1>5 DEF Shape, UsedLinks
  <2>2. QED
    BY <1>3, <1>4, <1>5, <2>1 DEF preMB
<1>6. CASE x \notin U
  <2>1. Back(B, U, x, mem[x + 2])
    BY <1>6 DEF Shape, FreeLinks
  <2>2. QED
    BY <1>3, <1>4, <1>6, <2>1 DEF preUMB
<1>7. QED
  BY <1>5, <1>6

\* The free list is exactly the free blocks of the row, in address order, the
\* used blocks are those handed out, and every link back is the reverse of a
\* link forth (kernelHeap.c: nextFMB, nextUMB, preUMB, nextMB and preMB).
THEOREM HeapLinks == HeapSpec => []LinksAgree
<1>1. ASSUME HeapInv PROVE LinksAgree
  <2>1. mem \in [1 .. KHEAP_SIZE -> Cells] /\ HeapTypeOK
    BY <1>1, HeapTypes DEF HeapInv
  <2>2. PICK B, U \in SUBSET (1 .. KHEAP_SIZE) :
          Shape(B, U, mem, FMBlist) /\ Owned(B, U, mem)
    BY <1>1 DEF HeapInv
  <2>3. PICK F, all, free : F = B \ U /\ all = BlockWalk /\ free = FreeWalk
    OBVIOUS
  <2>4. /\ Meets(B, U, all) /\ MeetsAll(B, U, all)
        /\ Meets(F, U, free) /\ MeetsAll(F, U, free)
    <3>1. Meets(B, U, BlockWalk) /\ MeetsAll(B, U, BlockWalk)
      BY <2>1, <2>2, BlockWalkIs
    <3>2. Meets(B \ U, U, FreeWalk) /\ MeetsAll(B \ U, U, FreeWalk)
      BY <2>1, <2>2, FreeWalkIs
    <3>3. QED
      BY <2>3, <3>1, <3>2
  <2>5. Heads(B, U)
    BY <2>2 DEF Shape
  <2>6. /\ B \in SUBSET (Nat \ {0}) /\ U \in SUBSET B
        /\ \A x \in B : x \in Nat /\ x \in Int /\ x >= 1
        /\ \A x \in F : x \in B /\ x \notin U
        /\ \A x \in B : x \in U \/ x \in F
    BY <2>3, <2>5, HeadsFacts
  <2>7. \A x \in B : /\ Pointer(U, x) # NULL /\ Addr(Pointer(U, x)) = x
                     /\ IsUMB(Pointer(U, x)) <=> x \in U
    BY <2>6, PointerFacts
  <2>8. {all[i] : i \in Steps} \ {NULL} = {Pointer(U, x) : x \in B}
    BY <2>4, <2>7, MetAre
  <2>9. {free[i] : i \in Steps} \ {NULL} = {Pointer(U, x) : x \in F}
    BY <2>4, <2>6, <2>7, MetAre
  <2>10. {p \in {Pointer(U, x) : x \in B} : ~IsUMB(p)} = {Pointer(U, x) : x \in F}
    BY <2>6, <2>7
  <2>11. {p \in {Pointer(U, x) : x \in B} : IsUMB(p)} = {UMB(b.at) : b \in live}
    <3>1. U = {b.at : b \in live}
      BY <2>2 DEF Owned
    <3>2. \A x \in U : Pointer(U, x) = UMB(x)
      BY DEF Pointer
    <3>3. {p \in {Pointer(U, x) : x \in B} : IsUMB(p)} = {UMB(x) : x \in U}
      BY <2>6, <2>7, <3>2
    <3>4. QED
      BY <3>1, <3>3
  <2>12. ASSUME NEW i \in Steps \ {1}, free[i] # NULL PROVE free[i - 1] < free[i]
    <3>1. MeetsNext(F, U, free, i)
      BY <2>4, <2>12, MetNext
    <3>2. PICK x, q \in F : /\ free[i] = Pointer(U, x) /\ free[i - 1] = Pointer(U, q)
                            /\ NextIn(F, q, x)
      BY <3>1 DEF MeetsNext
    <3>3. x \in Nat /\ q \in Nat /\ q < x /\ free[i] = FMB(x) /\ free[i - 1] = FMB(q)
      BY <2>6, <3>2 DEF NextIn, Pointer
    <3>4. QED
      BY <3>3 DEF FMB
  <2>13. ASSUME NEW i \in Steps \ {1}, all[i] # NULL PROVE Addr(all[i - 1]) < Addr(all[i])
    <3>1. MeetsNext(B, U, all, i)
      BY <2>4, <2>13, MetNext
    <3>2. PICK x, q \in B : /\ all[i] = Pointer(U, x) /\ all[i - 1] = Pointer(U, q)
                            /\ NextIn(B, q, x)
      BY <3>1 DEF MeetsNext
    <3>3. q < x
      BY <3>2 DEF NextIn
    <3>4. QED
      BY <2>7, <3>2, <3>3
  <2>14. ASSUME NEW i \in Steps, all[i] # NULL
         PROVE  Word(IF IsUMB(all[i]) THEN preMB(Addr(all[i])) ELSE preUMB(Addr(all[i])))
                  = IF i = 1 THEN NULL ELSE all[i - 1]
    <3>1. PICK p, r : /\ p = all[i]
                      /\ r = Word(IF IsUMB(p) THEN preMB(Addr(p)) ELSE preUMB(Addr(p)))
      OBVIOUS
    <3>2. CASE i = 1
      <4>1. PICK x \in B : all[i] = Pointer(U, x) /\ NextIn(B, 0, x)
        BY <2>4, <2>14, <3>2 DEF Meets
      <4>2. Back(B, U, x, r)
        BY <2>1, <2>2, <3>1, <4>1, BackWord
      <4>3. r # NULL => \E y \in B : PrevIn(B, x, y)
        BY <2>6, <4>2, BackIs
      <4>4. r = NULL
        BY <2>6, <4>1, <4>3 DEF NextIn, PrevIn
      <4>5. QED
        BY <3>1, <3>2, <4>4
    <3>3. CASE i # 1
      <4>1. MeetsNext(B, U, all, i)
        BY <2>4, <2>14, <3>3, MetNext
      <4>2. PICK x, q \in B : /\ all[i] = Pointer(U, x) /\ all[i - 1] = Pointer(U, q)
                              /\ NextIn(B, q, x)
        BY <4>1 DEF MeetsNext
      <4>3. Back(B, U, x, r)
        BY <2>1, <2>2, <3>1, <4>2, BackWord
      <4>4. PrevIn(B, x, q)
        BY <2>6, <4>2, NextPrev
      <4>5. r = Pointer(U, q)
        BY <2>6, <4>3, <4>4, BackIs
      <4>6. QED
        BY <3>1, <3>3, <4>2, <4>5
    <3>4. QED
      BY <3>2, <3>3
  <2>15. PICK met : met = {all[i] : i \in Steps} \ {NULL}
    OBVIOUS
  <2>16. {free[i] : i \in Steps} \ {NULL} = {p \in met : ~IsUMB(p)}
    BY <2>8, <2>9, <2>10, <2>15
  <2>17. {p \in met : IsUMB(p)} = {UMB(b.at) : b \in live}
    BY <2>8, <2>11, <2>15
  <2>18. /\ {FreeWalk[i] : i \in Steps} \ {NULL}
              = {p \in {BlockWalk[i] : i \in Steps} \ {NULL} : ~IsUMB(p)}
         /\ {p \in {BlockWalk[i] : i \in Steps} \ {NULL} : IsUMB(p)}
              = {UMB(b.at) : b \in live}
    BY <2>3, <2>15, <2>16, <2>17
  <2>19. /\ \A i \in Steps \ {1} : FreeWalk[i] # NULL => FreeWalk[i - 1] < FreeWalk[i]
         /\ \A i \in Steps \ {1} :
              BlockWalk[i] # NULL => Addr(BlockWalk[i - 1]) < Addr(BlockWalk[i])
    BY <2>3, <2>12, <2>13
  <2>20. \A i \in Steps : BlockWalk[i] # NULL =>
           Word(IF IsUMB(BlockWalk[i]) THEN preMB(Addr(BlockWalk[i]))
                ELSE preUMB(Addr(BlockWalk[i])))
             = IF i = 1 THEN NULL ELSE BlockWalk[i - 1]
    BY <2>3, <2>14
  <2>21. QED
    BY <2>1, <2>18, <2>19, <2>20, Zenon DEF LinksAgree
<1>2. QED
  BY <1>1, HeapInvariant, PTL
\* The tiles of a row, those at U used.
TileEnd(e, n, i) == IF i = n THEN End ELSE e[i + 1]
TilesOf(U, e, n) ==
  [i \in 1 .. n |-> [used |-> e[i] \in U, size |-> TileEnd(e, n, i) - e[i]]]

\* Tiles are those of the row of blocks.
LEMMA TilesAre ==
  ASSUME NEW B, NEW U, Shape(B, U, mem, FMBlist), mem \in [1 .. KHEAP_SIZE -> Cells],
         NEW e, NEW n, Row(B, e, n)
  PROVE  Tiles = TilesOf(U, e, n)
<1>1. Heads(B, U)
  BY DEF Shape
<1>2. B \in SUBSET (Nat \ {0}) /\ B # {}
  BY <1>1, HeadsFacts DEF Heads
<1>3. PICK all : all = BlockWalk
  OBVIOUS
<1>4. all \in [Steps -> Int] /\ Meets(B, U, all) /\ MeetsAll(B, U, all)
  BY <1>3, BlockWalkIs
<1>5. WalksRow(U, all, e, n)
  <2>1. PICK d, m : Row(B, d, m) /\ WalksRow(U, all, d, m)
    BY <1>2, <1>4, WalkRow
  <2>2. e = d /\ n = m
    BY <1>2, <2>1, RowOnce
  <2>3. QED
    BY <2>1, <2>2
<1>6. n \in Nat /\ n >= 1 /\ e \in [1 .. n -> B] /\ n <= LastStep
  BY <1>5 DEF Row, WalksRow
<1>7. LastStep \in Nat /\ Steps = 1 .. LastStep
  BY StepFacts DEF Steps
<1>8. ASSUME NEW i \in 1 .. n
      PROVE  /\ i \in Steps /\ all[i] = Pointer(U, e[i]) /\ e[i] \in B
  BY <1>5, <1>6, <1>7 DEF WalksRow
<1>9. ASSUME NEW i \in 1 .. n
      PROVE  /\ all[i] # NULL /\ Addr(all[i]) = e[i] /\ (IsUMB(all[i]) <=> e[i] \in U)
  <2>1. e[i] \in Nat /\ e[i] >= 1
    BY <1>1, <1>8, HeadsFacts
  <2>2. QED
    BY <1>8, <2>1, PointerFacts
<1>10. {i \in Steps : all[i] # NULL} = 1 .. n
  <2>1. ASSUME NEW i \in Steps, all[i] # NULL PROVE i \in 1 .. n
    <3>1. i <= n
      BY <1>5, <2>1 DEF WalksRow
    <3>2. QED
      BY <1>6, <1>7, <3>1
  <2>2. QED
    BY <1>8, <1>9, <2>1
<1>11. Cardinality({i \in Steps : all[i] # NULL}) = n
  <2>1. Cardinality(1 .. n) = n
    BY <1>6, FS_Interval
  <2>2. QED
    BY <1>10, <2>1
<1>12. Tiles = [i \in 1 .. n |-> [used |-> IsUMB(all[i]),
                 size |-> (IF i = n THEN End ELSE Addr(all[i + 1])) - Addr(all[i])]]
  BY <1>3, <1>11 DEF Tiles
<1>13. ASSUME NEW i \in 1 .. n
       PROVE  /\ IsUMB(all[i]) = (e[i] \in U) /\ Addr(all[i]) = e[i]
              /\ (IF i = n THEN End ELSE Addr(all[i + 1])) = TileEnd(e, n, i)
  <2>1. IsUMB(all[i]) = (e[i] \in U) /\ Addr(all[i]) = e[i]
    BY <1>9 DEF IsUMB
  <2>2. i # n => i + 1 \in 1 .. n
    BY <1>6
  <2>3. i # n => Addr(all[i + 1]) = e[i + 1]
    BY <1>9, <2>2
  <2>4. QED
    BY <2>1, <2>3 DEF TileEnd
<1>14. QED
  BY <1>12, <1>13 DEF TilesOf

-----------------------------------------------------------------------------
(* Each step of the heap is one of FirstFit, or none.                      *)

TileSet == [used : BOOLEAN, size : Int]

TileRow(t, U, e, n) ==
  /\ t \in Seq(TileSet) /\ Len(t) = n
  /\ \A i \in 1 .. n : /\ t[i] = [used |-> e[i] \in U, size |-> TileEnd(e, n, i) - e[i]]
                       /\ e[i] \in Int /\ TileEnd(e, n, i) \in Int

LEMMA TilesFacts ==
  ASSUME NEW B \in SUBSET Nat, NEW U, NEW e, NEW n, Row(B, e, n)
  PROVE  TileRow(TilesOf(U, e, n), U, e, n)
<1>0. PICK t : t = TilesOf(U, e, n)
  OBVIOUS
<1>1. n \in Nat /\ n >= 1 /\ e \in [1 .. n -> B] /\ End \in Int
  BY HeapAssumption DEF Row, End
<1>2. ASSUME NEW i \in 1 .. n PROVE e[i] \in Int
  <2>1. \A y \in B : y \in Int
    OBVIOUS
  <2>2. QED
    BY <1>1, <2>1
<1>3. ASSUME NEW i \in 1 .. n PROVE TileEnd(e, n, i) \in Int
  <2>1. i # n => i + 1 \in 1 .. n
    BY <1>1
  <2>2. QED
    BY <1>1, <1>2, <2>1 DEF TileEnd
<1>4. ASSUME NEW i \in 1 .. n
      PROVE  [used |-> e[i] \in U, size |-> TileEnd(e, n, i) - e[i]] \in TileSet
  <2>1. TileEnd(e, n, i) - e[i] \in Int
    BY <1>2, <1>3
  <2>2. QED
    BY <2>1 DEF TileSet
<1>5. t \in [1 .. n -> TileSet]
  BY <1>0, <1>4 DEF TilesOf
<1>6. t \in Seq(TileSet) /\ Len(t) = n
  BY <1>1, <1>5
<1>7. ASSUME NEW i \in 1 .. n PROVE t[i] = [used |-> e[i] \in U, size |-> TileEnd(e, n, i) - e[i]]
  BY <1>0 DEF TilesOf
<1>8. QED
  BY <1>0, <1>2, <1>3, <1>6, <1>7 DEF TileRow

\* The size of a free tile is that of its block.
LEMMA TileSize ==
  ASSUME NEW B, NEW U, Heads(B, U), FreeLinks(B, U, mem), NEW e, NEW n, Row(B, e, n),
         NEW i \in 1 .. n, e[i] \notin U
  PROVE  FreeSize(e[i]) = TileEnd(e, n, i) - e[i]
<1>1. n \in Nat /\ n >= 1 /\ e \in [1 .. n -> B] /\ n \in 1 .. n
  BY DEF Row
<1>2. PICK f \in B \ U : f = e[i]
  BY <1>1
<1>3. B \in SUBSET (Nat \ {0}) /\ B \in SUBSET Nat /\ f \in Int /\ KHEAP_SIZE \in Nat
      /\ \A y \in B : y \in Int
  BY <1>2, HeadsFacts
<1>4. /\ \A y \in B : y <= e[n]
      /\ \A j \in 1 .. n : j < n => NextIn(B, e[j], e[j + 1])
  BY <1>3, RowLinked DEF AdjacentIn
<1>5. /\ FreeSize(f) \in Int
      /\ \/ f + FreeSize(f) = KHEAP_SIZE + 1 /\ \A y \in B : y <= f
         \/ NextIn(B, f, f + FreeSize(f))
  BY <1>2, FreeSizeIs
<1>6. CASE i = n
  <2>1. ~NextIn(B, f, f + FreeSize(f))
    <3>1. \A y \in B : y <= f
      BY <1>2, <1>4, <1>6
    <3>2. ASSUME NEW g, NextIn(B, f, g) PROVE FALSE
      BY <1>3, <3>1, <3>2 DEF NextIn
    <3>3. QED
      BY <3>2
  <2>2. QED
    BY <1>2, <1>3, <1>5, <1>6, <2>1 DEF TileEnd, End
<1>7. CASE i # n
  <2>0. i < n
    BY <1>1, <1>7
  <2>1. NextIn(B, f, e[i + 1])
    BY <1>2, <1>4, <2>0
  <2>2. PICK x \in B : x = e[i + 1] /\ f < x /\ x \in Int
    BY <1>3, <2>1 DEF NextIn
  <2>3. ~(\A y \in B : y <= f)
    BY <1>3, <2>2
  <2>4. f + FreeSize(f) = x
    BY <1>3, <1>5, <2>1, <2>2, <2>3, NextOnce
  <2>5. QED
    BY <1>2, <1>3, <1>5, <1>7, <2>2, <2>4 DEF TileEnd
<1>8. QED
  BY <1>6, <1>7

\* All of tile i is taken.
LEMMA WholeTiles ==
  ASSUME NEW B \in SUBSET Nat, NEW U, NEW e, NEW n, Row(B, e, n), NEW i \in 1 .. n,
         NEW t, t = TilesOf(U, e, n), NEW s, s = TilesOf(U \cup {e[i]}, e, n)
  PROVE  s = Splice(t, i, i, <<[used |-> TRUE, size |-> t[i].size]>>)
<1>1. /\ t \in Seq(TileSet) /\ Len(t) = n
      /\ \A j \in 1 .. n : /\ t[j] = [used |-> e[j] \in U, size |-> TileEnd(e, n, j) - e[j]]
                           /\ e[j] \in Int /\ TileEnd(e, n, j) \in Int
  <2>1. TileRow(t, U, e, n)
    BY TilesFacts
  <2>2. QED
    BY <2>1 DEF TileRow
<1>2. /\ s \in Seq(TileSet) /\ Len(s) = n
      /\ \A j \in 1 .. n :
           s[j] = [used |-> e[j] \in U \cup {e[i]}, size |-> TileEnd(e, n, j) - e[j]]
  <2>1. TileRow(s, U \cup {e[i]}, e, n)
    BY TilesFacts
  <2>2. QED
    BY <2>1 DEF TileRow
<1>3. n \in Nat /\ i \in Nat /\ i >= 1 /\ i <= n /\ \A j, h \in 1 .. n : j < h => e[j] < e[h]
  BY DEF Row
<1>4. PICK r : r = <<[used |-> TRUE, size |-> t[i].size]>>
  OBVIOUS
<1>5. /\ r \in Seq(TileSet) /\ Len(r) = 1
      /\ r[1] = [used |-> TRUE, size |-> TileEnd(e, n, i) - e[i]]
  <2>1. t[i].size = TileEnd(e, n, i) - e[i] /\ TileEnd(e, n, i) - e[i] \in Int
    BY <1>1
  <2>2. [used |-> TRUE, size |-> t[i].size] \in TileSet
    BY <2>1 DEF TileSet
  <2>3. QED
    BY <1>4, <2>1, <2>2
<1>6. ASSUME NEW j \in 1 .. n, j # i PROVE s[j] = t[j]
  <2>1. e[j] # e[i]
    BY <1>1, <1>3, <1>6
  <2>2. (e[j] \in U \cup {e[i]}) = (e[j] \in U)
    BY <2>1
  <2>3. QED
    BY <1>1, <1>2, <2>2
<1>7. s[i] = r[1]
  <2>1. (e[i] \in U \cup {e[i]}) = TRUE
    OBVIOUS
  <2>2. QED
    BY <1>2, <1>5, <2>1
<1>8. Spliced(s, t, i, i, r)
  <2>1. Len(s) = (i - 1) + Len(r) + (Len(t) - i)
    BY <1>1, <1>2, <1>3, <1>5
  <2>2. ASSUME NEW j \in 1 .. n
        PROVE  s[j] = IF j < i THEN t[j]
                      ELSE IF j < i + 1 THEN r[(j - i) + 1]
                      ELSE t[(j - (i - 1) - 1) + i]
    <3>1. CASE j < i
      BY <1>3, <1>6, <3>1
    <3>2. CASE j = i
      <4>1. ~(j < i) /\ j < i + 1 /\ (j - i) + 1 = 1
        BY <1>3, <3>2
      <4>2. QED
        BY <1>7, <3>2, <4>1
    <3>3. CASE j > i
      <4>1. ~(j < i) /\ ~(j < i + 1) /\ (j - (i - 1) - 1) + i = j /\ j # i
        BY <1>3, <3>3
      <4>2. QED
        BY <1>6, <4>1
    <3>4. QED
      BY <1>3, <3>1, <3>2, <3>3
  <2>3. QED
    BY <1>2, <1>5, <2>1, <2>2 DEF Spliced
<1>9. s = Splice(t, i, i, r)
  <2>1. s \in Seq(TileSet) /\ t \in Seq(TileSet) /\ r \in Seq(TileSet) /\ i \in 1 .. Len(t)
    BY <1>1, <1>2, <1>5
  <2>2. QED
    BY <1>8, <2>1, SplicedIs
<1>10. QED
  BY <1>4, <1>9

\* The row with g behind its i-th address.
InsertBehind(e, n, i, g) ==
  [j \in 1 .. n + 1 |-> IF j <= i THEN e[j] ELSE IF j = i + 1 THEN g ELSE e[j - 1]]

LEMMA FrontRow ==
  ASSUME NEW B \in SUBSET Nat, NEW e, NEW n, Row(B, e, n), NEW i \in 1 .. n,
         NEW g \in Nat, e[i] < g, \A x \in B : e[i] < x => g < x,
         NEW d, d = InsertBehind(e, n, i, g)
  PROVE  Row(B \cup {g}, d, n + 1)
<1>1. /\ n \in Nat /\ e \in [1 .. n -> B] /\ i \in Nat /\ i >= 1 /\ i <= n
      /\ \A j, h \in 1 .. n : j < h => e[j] < e[h]
      /\ \A x \in B : \E j \in 1 .. n : e[j] = x
  BY DEF Row
<1>2. ASSUME NEW j \in 1 .. n PROVE e[j] \in B /\ e[j] \in Int
  <2>1. \A x \in B : x \in Int
    OBVIOUS
  <2>2. QED
    BY <1>1, <2>1
<1>3. ASSUME NEW j \in 1 .. n + 1
      PROVE  /\ j <= i => j \in 1 .. n /\ d[j] = e[j]
             /\ j = i + 1 => d[j] = g
             /\ j > i + 1 => j - 1 \in 1 .. n /\ d[j] = e[j - 1]
  BY <1>1 DEF InsertBehind
<1>4. ASSUME NEW j \in 1 .. n PROVE (j <= i => e[j] < g) /\ (j > i => g < e[j])
  <2>1. j < i => e[j] < e[i]
    BY <1>1
  <2>2. j > i => e[i] < e[j]
    BY <1>1
  <2>3. j > i => g < e[j]
    BY <1>2, <2>2
  <2>4. j <= i => e[j] < g
    BY <1>1, <1>2, <2>1
  <2>5. QED
    BY <2>3, <2>4
<1>5. ASSUME NEW j \in 1 .. n + 1 PROVE d[j] \in B \cup {g}
  <2>1. j <= i \/ j = i + 1 \/ j > i + 1
    BY <1>1
  <2>2. QED
    BY <1>2, <1>3, <2>1
<1>6. d \in [1 .. n + 1 -> B \cup {g}]
  BY <1>5 DEF InsertBehind
<1>7. ASSUME NEW j \in 1 .. n + 1, NEW h \in 1 .. n + 1, j < h PROVE d[j] < d[h]
  <2>0. j \in Int /\ h \in Int /\ i \in Int
    BY <1>1
  <2>1. CASE h <= i
    <3>1. j <= i
      BY <1>7, <2>0, <2>1
    <3>2. QED
      BY <1>1, <1>3, <1>7, <2>1, <3>1
  <2>2. CASE h = i + 1
    <3>1. j <= i
      BY <1>7, <2>0, <2>2
    <3>2. QED
      BY <1>3, <1>4, <2>2, <3>1
  <2>3. CASE h > i + 1
    <3>0. h - 1 \in 1 .. n /\ d[h] = e[h - 1] /\ h - 1 > i
      BY <1>3, <2>0, <2>3
    <3>1. CASE j <= i
      <4>1. j < h - 1 /\ j \in 1 .. n /\ d[j] = e[j]
        BY <1>3, <2>0, <3>0, <3>1
      <4>2. QED
        BY <1>1, <3>0, <4>1
    <3>2. CASE j = i + 1
      BY <1>3, <1>4, <3>0, <3>2
    <3>3. CASE j > i + 1
      <4>1. j - 1 < h - 1 /\ j - 1 \in 1 .. n /\ d[j] = e[j - 1]
        BY <1>3, <1>7, <2>0, <3>3
      <4>2. QED
        BY <1>1, <3>0, <4>1
    <3>4. QED
      BY <2>0, <3>1, <3>2, <3>3
  <2>4. QED
    BY <2>0, <2>1, <2>2, <2>3
<1>8. ASSUME NEW x \in B \cup {g} PROVE \E j \in 1 .. n + 1 : d[j] = x
  <2>1. CASE x = g
    <3>1. i + 1 \in 1 .. n + 1
      BY <1>1
    <3>2. QED
      BY <1>3, <2>1, <3>1
  <2>2. CASE x \in B
    <3>1. PICK j \in 1 .. n : e[j] = x
      BY <1>1, <2>2
    <3>2. CASE j <= i
      <4>1. j \in 1 .. n + 1
        BY <1>1
      <4>2. QED
        BY <1>3, <3>1, <3>2, <4>1
    <3>3. CASE j > i
      <4>1. j + 1 \in 1 .. n + 1 /\ j + 1 > i + 1 /\ (j + 1) - 1 = j
        BY <1>1, <3>3
      <4>2. QED
        BY <1>3, <3>1, <4>1
    <3>4. QED
      BY <1>1, <3>2, <3>3
  <2>3. QED
    BY <2>1, <2>2
<1>9. n + 1 \in Nat /\ n + 1 >= 1
  BY <1>1
<1>10. QED
  BY <1>6, <1>7, <1>8, <1>9 DEF Row

\* The front of tile i is taken, and g is where the rest starts.
FrontAndRest(size, rest) == <<[used |-> TRUE, size |-> size], [used |-> FALSE, size |-> rest]>>

TakesFront(B, U, e, n, i, f, size, g, C, d) ==
  /\ B \in SUBSET Nat /\ Row(B, e, n) /\ i \in 1 .. n /\ e[i] = f
  /\ size \in Nat /\ g \in Nat /\ g = f + size /\ g \notin U /\ g # f
  /\ C \in SUBSET Nat /\ d = InsertBehind(e, n, i, g) /\ Row(C, d, n + 1)

LEMMA FrontTiles ==
  ASSUME NEW B, NEW U, NEW e, NEW n, NEW i, NEW f, NEW size, NEW g, NEW C, NEW d,
         TakesFront(B, U, e, n, i, f, size, g, C, d),
         NEW t, t = TilesOf(U, e, n), NEW s, s = TilesOf(U \cup {f}, d, n + 1)
  PROVE  s = Splice(t, i, i, FrontAndRest(size, t[i].size - size))
<1>0. /\ B \in SUBSET Nat /\ Row(B, e, n) /\ i \in 1 .. n /\ f = e[i]
      /\ size \in Nat /\ g \in Nat /\ g = e[i] + size /\ g \notin U /\ g # e[i]
      /\ C \in SUBSET Nat /\ d = InsertBehind(e, n, i, g) /\ Row(C, d, n + 1)
  BY DEF TakesFront
<1>1. /\ t \in Seq(TileSet) /\ Len(t) = n
      /\ \A j \in 1 .. n : /\ t[j] = [used |-> e[j] \in U, size |-> TileEnd(e, n, j) - e[j]]
                           /\ e[j] \in Int /\ TileEnd(e, n, j) \in Int
  <2>1. TileRow(t, U, e, n)
    BY <1>0, TilesFacts
  <2>2. QED
    BY <2>1 DEF TileRow
<1>2. PICK V : V = U \cup {e[i]}
  OBVIOUS
<1>3. /\ s \in Seq(TileSet) /\ Len(s) = n + 1
      /\ \A j \in 1 .. n + 1 :
           s[j] = [used |-> d[j] \in V, size |-> TileEnd(d, n + 1, j) - d[j]]
  <2>1. TileRow(s, V, d, n + 1)
    BY <1>0, <1>2, TilesFacts
  <2>2. QED
    BY <2>1 DEF TileRow
<1>4. n \in Nat /\ i \in Nat /\ i >= 1 /\ i <= n /\ \A j, h \in 1 .. n : j < h => e[j] < e[h]
  BY <1>0 DEF Row
<1>5. ASSUME NEW j \in 1 .. n + 1
      PROVE  /\ j <= i => j \in 1 .. n /\ d[j] = e[j]
             /\ j = i + 1 => d[j] = g
             /\ j > i + 1 => j - 1 \in 1 .. n /\ d[j] = e[j - 1]
  BY <1>0, <1>4 DEF InsertBehind
<1>6. ASSUME NEW j \in 1 .. n, j # i PROVE (e[j] \in V) = (e[j] \in U)
  <2>1. e[j] # e[i]
    BY <1>1, <1>4, <1>6
  <2>2. QED
    BY <1>2, <2>1
<1>7. ASSUME NEW j \in 1 .. n + 1, j < i PROVE s[j] = t[j]
  <2>1. /\ j \in 1 .. n /\ j + 1 \in 1 .. n + 1 /\ j + 1 <= i /\ j # i /\ j <= i
        /\ j # n /\ j # n + 1
    BY <1>4, <1>7
  <2>2. d[j] = e[j] /\ d[j + 1] = e[j + 1]
    BY <1>5, <2>1
  <2>3. TileEnd(d, n + 1, j) = TileEnd(e, n, j)
    BY <2>1, <2>2 DEF TileEnd
  <2>4. t[j] = [used |-> e[j] \in U, size |-> TileEnd(e, n, j) - e[j]]
    BY <1>1, <2>1
  <2>5. s[j] = [used |-> e[j] \in V, size |-> TileEnd(e, n, j) - e[j]]
    BY <1>3, <2>2, <2>3
  <2>6. QED
    BY <1>6, <2>1, <2>4, <2>5
<1>8. ASSUME NEW j \in 1 .. n + 1, j > i + 1 PROVE s[j] = t[j - 1]
  <2>1. /\ j - 1 \in 1 .. n /\ j - 1 # i /\ d[j] = e[j - 1]
        /\ j = n + 1 <=> j - 1 = n
    BY <1>4, <1>5, <1>8
  <2>2. TileEnd(d, n + 1, j) = TileEnd(e, n, j - 1)
    <3>1. CASE j = n + 1
      BY <2>1, <3>1 DEF TileEnd
    <3>2. CASE j # n + 1
      <4>1. j + 1 \in 1 .. n + 1 /\ j + 1 > i + 1 /\ (j + 1) - 1 = j /\ (j - 1) + 1 = j
        BY <1>4, <1>8, <3>2
      <4>2. d[j + 1] = e[j]
        BY <1>5, <4>1
      <4>3. QED
        BY <2>1, <3>2, <4>1, <4>2 DEF TileEnd
    <3>3. QED
      BY <3>1, <3>2
  <2>3. t[j - 1] = [used |-> e[j - 1] \in U, size |-> TileEnd(e, n, j - 1) - e[j - 1]]
    BY <1>1, <2>1
  <2>4. s[j] = [used |-> e[j - 1] \in V, size |-> TileEnd(e, n, j - 1) - e[j - 1]]
    BY <1>3, <2>1, <2>2
  <2>5. QED
    BY <1>6, <2>1, <2>3, <2>4
<1>9. s[i] = [used |-> TRUE, size |-> size]
  <2>1. i \in 1 .. n + 1 /\ i + 1 \in 1 .. n + 1 /\ i # n + 1 /\ i <= i
    BY <1>4
  <2>2. d[i] = e[i] /\ TileEnd(d, n + 1, i) = g
    BY <1>5, <2>1 DEF TileEnd
  <2>3. (d[i] \in V) = TRUE
    BY <1>2, <2>2
  <2>4. TileEnd(d, n + 1, i) - d[i] = size
    BY <1>0, <1>1, <2>2
  <2>5. QED
    BY <1>3, <2>1, <2>3, <2>4
<1>10. s[i + 1] = [used |-> FALSE, size |-> t[i].size - size]
  <2>1. i + 1 \in 1 .. n + 1 /\ (i + 1 = n + 1 <=> i = n)
    BY <1>4
  <2>2. d[i + 1] = g
    BY <1>5, <2>1
  <2>3. TileEnd(d, n + 1, i + 1) = TileEnd(e, n, i)
    <3>1. CASE i = n
      BY <2>1, <3>1 DEF TileEnd
    <3>2. CASE i # n
      <4>1. (i + 1) + 1 \in 1 .. n + 1 /\ (i + 1) + 1 > i + 1 /\ ((i + 1) + 1) - 1 = i + 1
        BY <1>4, <3>2
      <4>2. d[(i + 1) + 1] = e[i + 1]
        BY <1>5, <4>1
      <4>3. QED
        BY <2>1, <3>2, <4>2 DEF TileEnd
    <3>3. QED
      BY <3>1, <3>2
  <2>4. (d[i + 1] \in V) = FALSE
    BY <1>0, <1>2, <2>2
  <2>5. TileEnd(d, n + 1, i + 1) - d[i + 1] = t[i].size - size
    <3>1. t[i].size = TileEnd(e, n, i) - e[i]
      BY <1>0, <1>1
    <3>2. QED
      BY <1>0, <1>1, <2>2, <2>3, <3>1
  <2>6. QED
    BY <1>3, <2>1, <2>4, <2>5
<1>11. PICK r : r = FrontAndRest(size, t[i].size - size)
  OBVIOUS
<1>12. r \in Seq(TileSet) /\ Len(r) = 2 /\ r[1] = s[i] /\ r[2] = s[i + 1]
  <2>1. s[i] \in TileSet /\ s[i + 1] \in TileSet
    <3>1. i \in 1 .. Len(s) /\ i + 1 \in 1 .. Len(s)
      BY <1>3, <1>4
    <3>2. QED
      BY <1>3, <3>1
  <2>2. PICK a, b \in TileSet : a = s[i] /\ b = s[i + 1]
    BY <2>1
  <2>3. r = <<a, b>>
    BY <1>9, <1>10, <1>11, <2>2 DEF FrontAndRest
  <2>4. QED
    BY <2>2, <2>3
<1>13. Spliced(s, t, i, i, r)
  <2>1. Len(s) = (i - 1) + Len(r) + (Len(t) - i)
    <3>1. n + 1 = (i - 1) + 2 + (n - i)
      BY <1>4
    <3>2. QED
      BY <1>1, <1>3, <1>12, <3>1
  <2>2. ASSUME NEW j \in 1 .. n + 1
        PROVE  s[j] = IF j < i THEN t[j]
                      ELSE IF j < i + 2 THEN r[(j - i) + 1]
                      ELSE t[(j - (i - 1) - 2) + i]
    <3>1. CASE j < i
      BY <1>7, <3>1
    <3>2. CASE j = i
      <4>1. ~(j < i) /\ j < i + 2 /\ (j - i) + 1 = 1
        BY <1>4, <3>2
      <4>2. QED
        BY <1>12, <3>2, <4>1
    <3>3. CASE j = i + 1
      <4>1. ~(j < i) /\ j < i + 2 /\ (j - i) + 1 = 2
        BY <1>4, <3>3
      <4>2. QED
        BY <1>12, <3>3, <4>1
    <3>4. CASE j > i + 1
      <4>1. ~(j < i) /\ ~(j < i + 2) /\ (j - (i - 1) - 2) + i = j - 1
        BY <1>4, <3>4
      <4>2. QED
        BY <1>8, <3>4, <4>1
    <3>5. QED
      BY <1>4, <3>1, <3>2, <3>3, <3>4
  <2>3. QED
    BY <1>3, <1>12, <2>1, <2>2 DEF Spliced
<1>14. s = Splice(t, i, i, r)
  <2>1. s \in Seq(TileSet) /\ t \in Seq(TileSet) /\ r \in Seq(TileSet) /\ i \in 1 .. Len(t)
    BY <1>0, <1>1, <1>3, <1>12
  <2>2. QED
    BY <1>13, <2>1, SplicedIs
<1>15. QED
  BY <1>11, <1>14

\* The row without its addresses behind from up to to.
CutBehind(e, n, from, to) ==
  [j \in 1 .. n - (to - from) |-> IF j <= from THEN e[j] ELSE e[j + (to - from)]]

LEMMA CutRow ==
  ASSUME NEW B \in SUBSET Nat, NEW e, NEW n, Row(B, e, n),
         NEW from \in 1 .. n, NEW to \in 1 .. n, from <= to,
         NEW C \in SUBSET B, \A j \in 1 .. n : e[j] \in C <=> ~(from < j /\ j <= to),
         NEW d, d = CutBehind(e, n, from, to)
  PROVE  Row(C, d, n - (to - from))
<1>1. /\ n \in Nat /\ e \in [1 .. n -> B]
      /\ \A j, h \in 1 .. n : j < h => e[j] < e[h]
      /\ \A x \in B : \E j \in 1 .. n : e[j] = x
  BY DEF Row
<1>2. PICK c, m \in Nat : c = to - from /\ m = n - c
  <2>1. to - from \in Nat /\ n - (to - from) \in Nat
    BY <1>1
  <2>2. QED
    BY <2>1
<1>3. from \in Int /\ to \in Int /\ 1 <= from /\ from <= to /\ to <= n /\ to = from + c /\ m >= 1 /\ n = m + c
  BY <1>1, <1>2
<1>4. d = [j \in 1 .. m |-> IF j <= from THEN e[j] ELSE e[j + c]]
  BY <1>2 DEF CutBehind
<1>5. ASSUME NEW j \in 1 .. m
      PROVE  /\ j <= from => j \in 1 .. n /\ d[j] = e[j] /\ e[j] \in C
             /\ j > from => j + c \in 1 .. n /\ d[j] = e[j + c] /\ e[j + c] \in C
  <2>1. j <= from => j \in 1 .. n /\ ~(from < j /\ j <= to)
    BY <1>2, <1>3
  <2>2. j > from => j + c \in 1 .. n /\ ~(from < j + c /\ j + c <= to) /\ ~(j <= from)
    BY <1>2, <1>3
  <2>3. QED
    BY <1>4, <2>1, <2>2
<1>6. ASSUME NEW j \in 1 .. m PROVE j <= from \/ j > from
  BY <1>2, <1>3
<1>7. d \in [1 .. m -> C]
  <2>1. ASSUME NEW j \in 1 .. m PROVE d[j] \in C
    BY <1>5, <1>6
  <2>2. QED
    BY <1>4, <2>1
<1>8. ASSUME NEW j \in 1 .. m, NEW h \in 1 .. m, j < h PROVE d[j] < d[h]
  <2>1. CASE h <= from
    <3>1. j <= from
      BY <1>2, <1>3, <1>8, <2>1
    <3>2. QED
      BY <1>1, <1>5, <1>8, <2>1, <3>1
  <2>2. CASE h > from /\ j <= from
    <3>1. j < h + c
      BY <1>2, <1>8
    <3>2. QED
      BY <1>1, <1>5, <2>2, <3>1
  <2>3. CASE j > from /\ h > from
    <3>1. j + c < h + c
      BY <1>2, <1>8
    <3>2. QED
      BY <1>1, <1>5, <2>3, <3>1
  <2>4. QED
    BY <1>2, <1>3, <1>8, <2>1, <2>2, <2>3
<1>9. ASSUME NEW x \in C PROVE \E j \in 1 .. m : d[j] = x
  <2>1. PICK h \in 1 .. n : e[h] = x
    BY <1>1
  <2>2. h <= from \/ h > to
    BY <1>1, <1>3, <2>1
  <2>3. CASE h <= from
    <3>1. h \in 1 .. m
      BY <1>2, <1>3, <2>3
    <3>2. QED
      BY <1>5, <2>1, <2>3, <3>1
  <2>4. CASE h > to
    <3>1. h - c \in 1 .. m /\ h - c > from /\ (h - c) + c = h
      BY <1>2, <1>3, <2>4
    <3>2. QED
      BY <1>5, <2>1, <3>1
  <2>5. QED
    BY <2>2, <2>3, <2>4
<1>10. Row(C, d, m)
  BY <1>2, <1>3, <1>7, <1>8, <1>9 DEF Row
<1>11. QED
  BY <1>2, <1>10

\* Tile i is released, and from .. to become one free tile.
JoinsTiles(B, U, e, n, i, from, to, C, d) ==
  /\ B \in SUBSET Nat /\ Row(B, e, n) /\ i \in 1 .. n
  /\ from \in 1 .. n /\ to \in 1 .. n /\ from <= i /\ i <= to /\ e[from] \notin U \ {e[i]}
  /\ C \in SUBSET Nat /\ d = CutBehind(e, n, from, to) /\ Row(C, d, n - (to - from))

LEMMA CutTiles ==
  ASSUME NEW B, NEW U, NEW e, NEW n, NEW i, NEW from, NEW to, NEW C, NEW d,
         JoinsTiles(B, U, e, n, i, from, to, C, d),
         NEW t, t = TilesOf(U, e, n), NEW s, s = TilesOf(U \ {e[i]}, d, n - (to - from))
  PROVE  s = Splice(t, from, to, <<[used |-> FALSE, size |-> TileEnd(e, n, to) - e[from]]>>)
<1>0. PICK V, m : V = U \ {e[i]} /\ m = n - (to - from)
  OBVIOUS
<1>00. /\ B \in SUBSET Nat /\ Row(B, e, n) /\ i \in 1 .. n
       /\ from \in 1 .. n /\ to \in 1 .. n /\ from <= i /\ i <= to /\ e[from] \notin V
       /\ C \in SUBSET Nat /\ d = CutBehind(e, n, from, to) /\ Row(C, d, m)
       /\ s = TilesOf(V, d, m)
  BY <1>0 DEF JoinsTiles
<1>1. /\ t \in Seq(TileSet) /\ Len(t) = n
      /\ \A j \in 1 .. n : /\ t[j] = [used |-> e[j] \in U, size |-> TileEnd(e, n, j) - e[j]]
                           /\ e[j] \in Int /\ TileEnd(e, n, j) \in Int
  <2>1. TileRow(t, U, e, n)
    BY <1>00, TilesFacts
  <2>2. QED
    BY <2>1 DEF TileRow
<1>2. /\ s \in Seq(TileSet) /\ Len(s) = m
      /\ \A j \in 1 .. m : s[j] = [used |-> d[j] \in V, size |-> TileEnd(d, m, j) - d[j]]
  <2>1. TileRow(s, V, d, m)
    BY <1>00, TilesFacts
  <2>2. QED
    BY <2>1 DEF TileRow
<1>3. n \in Nat /\ m \in Nat /\ \A j, h \in 1 .. n : j < h => e[j] < e[h]
  BY <1>00 DEF Row
<1>4. PICK c \in Nat : c = to - from
  <2>1. to - from \in Nat
    BY <1>00, <1>3
  <2>2. QED
    BY <2>1
<1>5. /\ from \in Int /\ to \in Int /\ i \in Int /\ 1 <= from /\ from <= i /\ i <= to /\ to <= n
      /\ to = from + c /\ n = m + c /\ n \in Int /\ m \in Int /\ i \in 1 .. n
  BY <1>0, <1>00, <1>3, <1>4
<1>6. ASSUME NEW j \in 1 .. m
      PROVE  /\ j <= from => j \in 1 .. n /\ d[j] = e[j]
             /\ j > from => j + c \in 1 .. n /\ d[j] = e[j + c]
  <2>0. d = [h \in 1 .. m |-> IF h <= from THEN e[h] ELSE e[h + c]]
    BY <1>0, <1>00, <1>4 DEF CutBehind
  <2>1. d[j] = IF j <= from THEN e[j] ELSE e[j + c]
    BY <2>0
  <2>2. (j <= from => j \in 1 .. n) /\ (j > from => j + c \in 1 .. n /\ ~(j <= from))
    BY <1>4, <1>5
  <2>3. QED
    BY <2>1, <2>2
<1>7. ASSUME NEW j \in 1 .. n, j # i PROVE (e[j] \in V) = (e[j] \in U)
  <2>1. e[j] # e[i]
    <3>0. e[j] \in Int /\ e[i] \in Int
      BY <1>1, <1>5
    <3>1. j < i \/ i < j
      BY <1>5, <1>7
    <3>2. e[j] < e[i] \/ e[i] < e[j]
      BY <1>3, <1>5, <3>1
    <3>3. QED
      BY <3>0, <3>2
  <2>2. QED
    BY <1>0, <2>1
<1>8. ASSUME NEW j \in 1 .. m, j < from PROVE s[j] = t[j]
  <2>1. /\ j \in 1 .. n /\ j + 1 \in 1 .. m /\ j + 1 <= from /\ j # i /\ j <= from
        /\ j # n /\ j # m
    BY <1>4, <1>5, <1>8
  <2>2. d[j] = e[j] /\ d[j + 1] = e[j + 1]
    BY <1>6, <2>1
  <2>3. TileEnd(d, m, j) = TileEnd(e, n, j)
    BY <2>1, <2>2 DEF TileEnd
  <2>4. t[j] = [used |-> e[j] \in U, size |-> TileEnd(e, n, j) - e[j]]
    BY <1>1, <2>1
  <2>5. s[j] = [used |-> e[j] \in V, size |-> TileEnd(e, n, j) - e[j]]
    BY <1>2, <2>2, <2>3
  <2>6. QED
    BY <1>7, <2>1, <2>4, <2>5
<1>9. ASSUME NEW j \in 1 .. m, j >= from
      PROVE  j + c \in 1 .. n /\ TileEnd(d, m, j) = TileEnd(e, n, j + c)
  <2>1. j + c \in 1 .. n /\ (j + c = n <=> j = m)
    BY <1>4, <1>5, <1>9
  <2>2. CASE j = m
    BY <2>1, <2>2 DEF TileEnd
  <2>3. CASE j # m
    <3>1. j + 1 \in 1 .. m /\ j + 1 > from /\ (j + 1) + c = (j + c) + 1
      BY <1>3, <1>4, <1>5, <1>9, <2>3
    <3>2. d[j + 1] = e[(j + c) + 1]
      BY <1>6, <3>1
    <3>3. QED
      BY <2>1, <2>3, <3>2 DEF TileEnd
  <2>4. QED
    BY <2>1, <2>2, <2>3
<1>10. ASSUME NEW j \in 1 .. m, j > from PROVE s[j] = t[j + c]
  <2>1. j + c \in 1 .. n /\ j + c # i /\ d[j] = e[j + c] /\ j >= from
    BY <1>4, <1>5, <1>6, <1>10
  <2>2. TileEnd(d, m, j) = TileEnd(e, n, j + c)
    BY <1>9, <2>1
  <2>3. t[j + c] = [used |-> e[j + c] \in U, size |-> TileEnd(e, n, j + c) - e[j + c]]
    BY <1>1, <2>1
  <2>4. s[j] = [used |-> e[j + c] \in V, size |-> TileEnd(e, n, j + c) - e[j + c]]
    BY <1>2, <2>1, <2>2
  <2>5. QED
    BY <1>7, <2>1, <2>3, <2>4
<1>11. PICK r : r = <<[used |-> FALSE, size |-> TileEnd(e, n, to) - e[from]]>>
  OBVIOUS
<1>12. s[from] = [used |-> FALSE, size |-> TileEnd(e, n, to) - e[from]] /\ from \in 1 .. m
  <2>1. from \in 1 .. m /\ from >= from /\ from <= from /\ from + c = to
    BY <1>3, <1>4, <1>5
  <2>2. d[from] = e[from] /\ TileEnd(d, m, from) = TileEnd(e, n, to)
    BY <1>6, <1>9, <2>1
  <2>3. (d[from] \in V) = FALSE
    BY <1>00, <2>2
  <2>4. QED
    BY <1>2, <2>1, <2>2, <2>3
<1>13. r \in Seq(TileSet) /\ Len(r) = 1 /\ r[1] = s[from]
  <2>1. s[from] \in TileSet
    BY <1>2, <1>12
  <2>2. PICK a \in TileSet : a = s[from]
    BY <2>1
  <2>3. r = <<a>>
    BY <1>11, <1>12, <2>2
  <2>4. QED
    BY <2>2, <2>3
<1>14. Spliced(s, t, from, to, r)
  <2>1. Len(s) = (from - 1) + Len(r) + (Len(t) - to)
    <3>1. m = (from - 1) + 1 + (n - to)
      BY <1>3, <1>4, <1>5
    <3>2. QED
      BY <1>1, <1>2, <1>13, <3>1
  <2>2. ASSUME NEW j \in 1 .. m
        PROVE  s[j] = IF j < from THEN t[j]
                      ELSE IF j < from + 1 THEN r[(j - from) + 1]
                      ELSE t[(j - (from - 1) - 1) + to]
    <3>1. CASE j < from
      BY <1>8, <3>1
    <3>2. CASE j = from
      <4>1. ~(j < from) /\ j < from + 1 /\ (j - from) + 1 = 1
        BY <1>5, <3>2
      <4>2. QED
        BY <1>13, <3>2, <4>1
    <3>3. CASE j > from
      <4>1. ~(j < from) /\ ~(j < from + 1) /\ (j - (from - 1) - 1) + to = j + c
        BY <1>4, <1>5, <3>3
      <4>2. QED
        BY <1>10, <3>3, <4>1
    <3>4. QED
      BY <1>5, <3>1, <3>2, <3>3
  <2>3. QED
    BY <1>2, <1>13, <2>1, <2>2 DEF Spliced
<1>15. s = Splice(t, from, to, r)
  <2>1. /\ s \in Seq(TileSet) /\ t \in Seq(TileSet) /\ r \in Seq(TileSet)
        /\ from \in 1 .. Len(t) /\ to \in 1 .. Len(t)
    BY <1>00, <1>1, <1>2, <1>13
  <2>2. QED
    BY <1>14, <2>1, SplicedIs
<1>16. QED
  BY <1>11, <1>15

\* The first and the last tile of those that become one when tile i is
\* released.
FromTile(U, e, i) == IF i > 1 /\ e[i - 1] \notin U THEN i - 1 ELSE i
ToTile(U, e, n, i) == IF i < n /\ e[i + 1] \notin U THEN i + 1 ELSE i

JoinedAt(U, e, n, i, at, C) ==
  /\ at = e[FromTile(U, e, i)]
  /\ \A j \in 1 .. n : e[j] \in C <=> ~(FromTile(U, e, i) < j /\ j <= ToTile(U, e, n, i))

LEMMA JoinedTiles ==
  ASSUME NEW B, NEW U, Heads(B, U), NEW e, NEW n, Row(B, e, n), NEW i \in 1 .. n,
         NEW u \in U, u = e[i], NEW at, Starts(B, U, u, at), NEW C, C = Joined(B, U, u, at)
  PROVE  JoinedAt(U, e, n, i, at, C)
<1>0. PICK from, to : from = FromTile(U, e, i) /\ to = ToTile(U, e, n, i)
  OBVIOUS
<1>1. B \in SUBSET (Nat \ {0}) /\ B \in SUBSET Nat /\ \A y \in B : y \in Int
  BY HeadsFacts
<1>2. /\ n \in Nat /\ e \in [1 .. n -> B] /\ i \in Nat /\ i >= 1 /\ i <= n
      /\ \A j, h \in 1 .. n : j < h => e[j] < e[h]
      /\ \A x \in B : \E j \in 1 .. n : e[j] = x
  BY DEF Row
<1>3. /\ \A j \in 1 .. n : j < n => NextIn(B, e[j], e[j + 1])
      /\ \A j \in 1 .. n : e[j] \in B /\ e[j] \in Int
  <2>1. \A j \in 1 .. n : j < n => NextIn(B, e[j], e[j + 1])
    BY <1>1, RowLinked DEF AdjacentIn
  <2>2. QED
    BY <1>1, <1>2, <2>1
<1>4. u \in B /\ u = e[i]
  BY <1>3
<1>5. u \in U /\ u \in Int /\ Starts(B, U, u, at) /\ C = Joined(B, U, u, at)
  BY <1>3, <1>4
<1>6. i > 1 => i - 1 \in 1 .. n /\ NextIn(B, e[i - 1], u)
  <2>1. i > 1 => i - 1 \in 1 .. n /\ i - 1 < n /\ (i - 1) + 1 = i
    BY <1>2
  <2>2. QED
    BY <1>3, <1>4, <2>1
<1>7. i < n => i + 1 \in 1 .. n /\ NextIn(B, u, e[i + 1])
  BY <1>2, <1>3, <1>4
<1>8. /\ from = i \/ (from = i - 1 /\ i > 1 /\ e[i - 1] \notin U)
      /\ from = i => ~(i > 1 /\ e[i - 1] \notin U)
  BY <1>0, <1>2 DEF FromTile
<1>9. /\ to = i \/ (to = i + 1 /\ i < n /\ e[i + 1] \notin U)
      /\ to = i => ~(i < n /\ e[i + 1] \notin U)
  BY <1>0, <1>2 DEF ToTile
<1>10. at = e[from]
  <2>1. CASE at = u /\ \A p \in B : NextIn(B, p, u) => p \in U
    <3>1. i > 1 => e[i - 1] \in U
      BY <1>3, <1>6, <2>1
    <3>2. from = i
      BY <1>8, <3>1
    <3>3. QED
      BY <1>4, <2>1, <3>2
  <2>2. CASE at \in B \ U /\ NextIn(B, at, u)
    <3>1. PICK j \in 1 .. n : e[j] = at
      BY <1>2, <2>2
    <3>2. i > 1
      <4>1. at < u /\ at \in Int
        BY <1>1, <2>2 DEF NextIn
      <4>2. j < i
        <5>1. i < j => u < at
          BY <1>2, <1>4, <3>1
        <5>2. i # j
          BY <1>4, <1>5, <3>1, <4>1
        <5>3. ~(i < j)
          BY <1>5, <4>1, <5>1
        <5>4. QED
          BY <1>2, <5>2, <5>3
      <4>3. QED
        BY <1>2, <4>2
    <3>3. PICK p \in B : p = e[i - 1]
      BY <1>3, <1>6, <3>2
    <3>4. PrevIn(B, u, p) /\ PrevIn(B, u, at)
      BY <1>1, <1>4, <1>6, <2>2, <3>2, <3>3, NextPrev
    <3>5. at = p
      BY <1>1, <1>5, <3>4, PrevOnce
    <3>6. from = i - 1
      BY <1>8, <2>2, <3>2, <3>3, <3>5
    <3>7. QED
      BY <3>3, <3>5, <3>6
  <2>3. QED
    BY <1>5, <2>1, <2>2 DEF Starts
<1>11. ASSUME NEW j \in 1 .. n PROVE e[j] \in C <=> ~(from < j /\ j <= to)
  <2>0. /\ e[j] \in C <=> /\ e[j] = u => at = u
                          /\ ~(e[j] \notin U /\ NextIn(B, u, e[j]))
        /\ j \in Int
    BY <1>2, <1>3, <1>5 DEF Joined
  <2>1. CASE j = i
    <3>1. e[j] \in C <=> at = u
      BY <1>4, <1>5, <2>0, <2>1
    <3>2. at = u <=> from = i
      <4>1. from = i - 1 /\ i > 1 => at # u
        BY <1>1, <1>3, <1>4, <1>5, <1>6, <1>10 DEF NextIn
      <4>2. from = i => at = u
        BY <1>4, <1>10
      <4>3. QED
        BY <1>2, <1>8, <4>1, <4>2
    <3>3. from < j /\ j <= to <=> from # i
      BY <1>2, <1>8, <1>9, <2>1
    <3>4. QED
      BY <3>1, <3>2, <3>3
  <2>2. CASE j < i
    <3>1. e[j] < u
      BY <1>2, <1>4, <2>2
    <3>2. e[j] # u /\ ~NextIn(B, u, e[j])
      BY <1>3, <1>5, <3>1 DEF NextIn
    <3>3. ~(from < j)
      BY <1>2, <1>8, <2>0, <2>2
    <3>4. QED
      BY <2>0, <3>2, <3>3
  <2>3. CASE j = i + 1
    <3>1. i < n /\ NextIn(B, u, e[j]) /\ from < j
      BY <1>2, <1>7, <1>8, <2>3
    <3>2. e[j] # u
      BY <1>3, <1>5, <3>1 DEF NextIn
    <3>3. e[j] \in C <=> e[j] \in U
      BY <2>0, <3>1, <3>2
    <3>4. j <= to <=> e[j] \notin U
      BY <1>2, <1>9, <2>3, <3>1
    <3>5. QED
      BY <3>1, <3>3, <3>4
  <2>4. CASE j > i + 1
    <3>1. i < n /\ ~(j <= to)
      BY <1>2, <1>9, <2>0, <2>4
    <3>2. PICK x \in B : x = e[i + 1] /\ NextIn(B, u, x) /\ x < e[j] /\ x \in Int
      BY <1>2, <1>3, <1>7, <2>4, <3>1
    <3>3. u < e[j] /\ u < x
      BY <1>3, <1>5, <3>2 DEF NextIn
    <3>4. e[j] # u /\ ~NextIn(B, u, e[j])
      BY <1>3, <1>5, <3>2, <3>3 DEF NextIn
    <3>5. QED
      BY <2>0, <3>1, <3>4
  <2>5. QED
    BY <1>2, <2>0, <2>1, <2>2, <2>3, <2>4
<1>12. QED
  BY <1>0, <1>10, <1>11 DEF JoinedAt

\* What the walk through all blocks makes of the heap.
TilesFollow ==
  \A B, U \in SUBSET (1 .. KHEAP_SIZE) :
    mem \in [1 .. KHEAP_SIZE -> Cells] /\ Shape(B, U, mem, FMBlist) =>
      \A e, n : Row(B, e, n) => Tiles = TilesOf(U, e, n)

LEMMA TilesDoFollow == TilesFollow
BY TilesAre DEF TilesFollow

\* Every heap has a row.
LEMMA HasRow ==
  ASSUME NEW B, NEW U, Shape(B, U, mem, FMBlist), mem \in [1 .. KHEAP_SIZE -> Cells]
  PROVE  \E e, n : Row(B, e, n)
<1>1. B \in SUBSET (Nat \ {0}) /\ B # {}
  BY HeadsFacts DEF Shape, Heads
<1>2. PICK w : w = BlockWalk
  OBVIOUS
<1>3. w \in [Steps -> Int] /\ Meets(B, U, w) /\ MeetsAll(B, U, w)
  BY <1>2, BlockWalkIs
<1>4. QED
  BY <1>1, <1>3, WalkRow

\* CoKmalloc takes the first tile that is large enough.
LEMMA GrantsAllocates ==
  ASSUME TilesFollow, TilesFollow', NEW B, NEW U, NEW f, NEW C, NEW size \in Nat, size >= 3,
         Grants(B, U, f, size, C)
  PROVE  Abstract!Allocate(size)
<1>1. Becomes(B, U, C, U \cup {f}) /\ FirstFits(B, U, f, size)
  BY DEF Grants
<1>2. /\ Shape(B, U, mem, FMBlist) /\ mem \in [1 .. KHEAP_SIZE -> Cells]
      /\ Heads(B, U) /\ FreeLinks(B, U, mem)
      /\ B \in SUBSET (1 .. KHEAP_SIZE) /\ U \in SUBSET (1 .. KHEAP_SIZE)
      /\ Heads(C, U \cup {f})
  BY <1>1 DEF Becomes, Shape
<1>3. PICK e, n : Row(B, e, n)
  BY <1>2, HasRow
<1>4. PICK t : t = TilesOf(U, e, n)
  OBVIOUS
<1>5. Tiles = t
  BY <1>2, <1>3, <1>4 DEF TilesFollow
<1>6. ASSUME NEW d, NEW m, Row(C, d, m) PROVE Tiles' = TilesOf(U \cup {f}, d, m)
  BY <1>1, <1>6 DEF TilesFollow, Becomes
<1>7. B \in SUBSET Nat /\ C \in SUBSET Nat /\ U \in SUBSET B /\ \A x \in B : x \in Int
  BY <1>2, HeadsFacts
<1>8. /\ t \in Seq(TileSet) /\ Len(t) = n
      /\ \A j \in 1 .. n : /\ t[j] = [used |-> e[j] \in U, size |-> TileEnd(e, n, j) - e[j]]
                           /\ e[j] \in Int /\ TileEnd(e, n, j) \in Int
  <2>1. TileRow(t, U, e, n)
    BY <1>3, <1>4, <1>7, TilesFacts
  <2>2. QED
    BY <2>1 DEF TileRow
<1>9. /\ n \in Nat /\ e \in [1 .. n -> B]
      /\ \A j, h \in 1 .. n : j < h => e[j] < e[h]
      /\ \A x \in B : \E j \in 1 .. n : e[j] = x
  BY <1>3 DEF Row
<1>10. f \in B \ U /\ FreeSize(f) >= size /\ \A x \in B \ U : x < f => FreeSize(x) < size
  BY <1>1 DEF FirstFits
<1>11. PICK i \in 1 .. n : e[i] = f
  BY <1>9, <1>10
<1>12. ASSUME NEW j \in 1 .. n
       PROVE  /\ t[j].used <=> e[j] \in U
              /\ e[j] \notin U => t[j].size = FreeSize(e[j])
              /\ e[j] \in B
  <2>1. e[j] \notin U => FreeSize(e[j]) = TileEnd(e, n, j) - e[j]
    BY <1>2, <1>3, TileSize
  <2>2. t[j].size = TileEnd(e, n, j) - e[j]
    BY <1>8
  <2>3. t[j].used <=> e[j] \in U
    <3>1. t[j] = [used |-> e[j] \in U, size |-> TileEnd(e, n, j) - e[j]]
      BY <1>8
    <3>2. PICK b \in BOOLEAN : b <=> (e[j] \in U)
      OBVIOUS
    <3>3. t[j] = [used |-> b, size |-> TileEnd(e, n, j) - e[j]]
      BY <3>1, <3>2
    <3>4. t[j].used = b
      BY <3>3
    <3>5. QED
      BY <3>2, <3>4
  <2>4. QED
    BY <1>9, <2>1, <2>2, <2>3
<1>13. /\ ~t[i].used /\ t[i].size >= size /\ t[i].size = FreeSize(f)
       /\ \A j \in 1 .. i - 1 : t[j].used \/ t[j].size < size
  <2>1. ~t[i].used /\ t[i].size >= size /\ t[i].size = FreeSize(f)
    BY <1>10, <1>11, <1>12
  <2>2. ASSUME NEW j \in 1 .. i - 1 PROVE t[j].used \/ t[j].size < size
    <3>1. j \in 1 .. n /\ j < i
      BY <1>9
    <3>2. e[j] < f
      BY <1>9, <1>11, <3>1
    <3>3. QED
      BY <1>10, <1>12, <3>1, <3>2
  <2>3. QED
    BY <2>1, <2>2
<1>14. TooSmall(f, size) <=> t[i].size - size < 3
  BY <1>13 DEF TooSmall
<1>15. CASE TooSmall(f, size)
  <2>1. C = B
    BY <1>15 DEF Grants
  <2>2. Tiles' = TilesOf(U \cup {e[i]}, e, n)
    BY <1>3, <1>6, <1>11, <2>1
  <2>3. Tiles' = Splice(t, i, i, <<[used |-> TRUE, size |-> t[i].size]>>)
    <3>1. PICK s : s = Tiles'
      OBVIOUS
    <3>2. s = TilesOf(U \cup {e[i]}, e, n)
      BY <2>2, <3>1
    <3>3. s = Splice(t, i, i, <<[used |-> TRUE, size |-> t[i].size]>>)
      BY <1>3, <1>4, <1>7, <3>2, WholeTiles
    <3>4. QED
      BY <3>1, <3>3
  <2>4. t[i].size - size < 3 /\ i \in 1 .. Len(t)
    BY <1>8, <1>14, <1>15
  <2>5. QED
    BY <1>5, <1>13, <2>3, <2>4
       DEF Splice, Abstract!Allocate, Abstract!Replaced, Abstract!Taken, Abstract!Used, Abstract!Free
<1>16. CASE ~TooSmall(f, size)
  <2>1. PICK g \in Nat : g = f + size
    BY <1>7, <1>10
  <2>2. C = B \cup {g}
    BY <1>16, <2>1 DEF Grants
  <2>3. /\ f \in Int /\ FreeSize(f) \in Int /\ (\A x \in B : f < x => f + FreeSize(f) <= x)
    BY <1>2, <1>7, <1>10, FreeSizeIs
  <2>4. f < g /\ \A x \in B : f < x => g < x
    BY <1>7, <1>16, <2>1, <2>3 DEF TooSmall
  <2>5. g \notin B
    BY <1>7, <2>3, <2>4
  <2>6. PICK d : d = InsertBehind(e, n, i, g)
    OBVIOUS
  <2>7. Row(C, d, n + 1)
    <3>1. Row(B \cup {g}, d, n + 1)
      BY <1>3, <1>7, <1>11, <2>4, <2>6, FrontRow
    <3>2. QED
      BY <2>2, <3>1
  <2>8. Tiles' = TilesOf(U \cup {f}, d, n + 1)
    BY <1>6, <2>7
  <2>9. Tiles' = Splice(t, i, i, FrontAndRest(size, t[i].size - size))
    <3>1. g \notin U /\ g # f
      BY <1>7, <2>3, <2>4, <2>5
    <3>2. TakesFront(B, U, e, n, i, f, size, g, C, d)
      BY <1>3, <1>7, <1>11, <2>1, <2>6, <2>7, <3>1 DEF TakesFront
    <3>3. PICK s : s = TilesOf(U \cup {f}, d, n + 1)
      OBVIOUS
    <3>4. s = Splice(t, i, i, FrontAndRest(size, t[i].size - size))
      BY <1>4, <3>2, <3>3, FrontTiles
    <3>5. QED
      BY <2>8, <3>3, <3>4
  <2>10. ~(t[i].size - size < 3) /\ i \in 1 .. Len(t)
    BY <1>8, <1>14, <1>16
  <2>11. QED
    BY <1>5, <1>13, <2>9, <2>10
       DEF Splice, FrontAndRest, Abstract!Allocate, Abstract!Replaced, Abstract!Taken, Abstract!Used, Abstract!Free
<1>17. QED
  BY <1>15, <1>16

\* The size of the tiles that become one.
LEMMA JoinedSize ==
  ASSUME NEW B \in SUBSET Nat, NEW U, NEW e, NEW n, Row(B, e, n), NEW i \in 1 .. n,
         NEW t, t = TilesOf(U, e, n)
  PROVE  TileEnd(e, n, ToTile(U, e, n, i)) - e[FromTile(U, e, i)]
           = (IF i > 1 /\ e[i - 1] \notin U THEN t[i - 1].size ELSE 0) + t[i].size
               + (IF i < n /\ e[i + 1] \notin U THEN t[i + 1].size ELSE 0)
<1>1. \A j \in 1 .. n : /\ t[j] = [used |-> e[j] \in U, size |-> TileEnd(e, n, j) - e[j]]
                        /\ e[j] \in Int /\ TileEnd(e, n, j) \in Int
  <2>1. TileRow(t, U, e, n)
    BY TilesFacts
  <2>2. QED
    BY <2>1 DEF TileRow
<1>2. ASSUME NEW j \in 1 .. n PROVE t[j].size = TileEnd(e, n, j) - e[j]
  <2>1. PICK b : b = (e[j] \in U)
    OBVIOUS
  <2>2. t[j] = [used |-> b, size |-> TileEnd(e, n, j) - e[j]]
    BY <1>1, <2>1
  <2>3. QED
    BY <2>2
<1>3. n \in Nat
  BY DEF Row
<1>4. PICK x, y \in Int : x = e[i] /\ y = TileEnd(e, n, i) /\ t[i].size = y - x
  BY <1>1, <1>2
<1>5. PICK a \in Int : /\ a = x - e[FromTile(U, e, i)]
                       /\ a = IF i > 1 /\ e[i - 1] \notin U THEN t[i - 1].size ELSE 0
                       /\ e[FromTile(U, e, i)] \in Int
  <2>1. CASE i > 1 /\ e[i - 1] \notin U
    <3>1. i - 1 \in 1 .. n /\ i - 1 # n /\ (i - 1) + 1 = i
      BY <1>3, <2>1
    <3>2. PICK p \in Int : p = e[i - 1]
      BY <1>1, <3>1
    <3>3. t[i - 1].size = x - p
      BY <1>2, <1>4, <3>1, <3>2 DEF TileEnd
    <3>4. FromTile(U, e, i) = i - 1
      BY <2>1 DEF FromTile
    <3>5. QED
      BY <2>1, <3>2, <3>3, <3>4
  <2>2. CASE ~(i > 1 /\ e[i - 1] \notin U)
    <3>1. FromTile(U, e, i) = i
      BY <2>2 DEF FromTile
    <3>2. QED
      BY <1>4, <2>2, <3>1
  <2>3. QED
    BY <2>1, <2>2
<1>6. PICK b \in Int : /\ b = TileEnd(e, n, ToTile(U, e, n, i)) - y
                       /\ b = IF i < n /\ e[i + 1] \notin U THEN t[i + 1].size ELSE 0
                       /\ TileEnd(e, n, ToTile(U, e, n, i)) \in Int
  <2>1. CASE i < n /\ e[i + 1] \notin U
    <3>1. i + 1 \in 1 .. n /\ i # n
      BY <1>3, <2>1
    <3>2. PICK p \in Int : p = TileEnd(e, n, i + 1)
      BY <1>1, <3>1
    <3>3. y = e[i + 1]
      BY <1>4, <3>1 DEF TileEnd
    <3>4. t[i + 1].size = p - y
      BY <1>2, <3>1, <3>2, <3>3
    <3>5. ToTile(U, e, n, i) = i + 1
      BY <2>1 DEF ToTile
    <3>6. QED
      BY <2>1, <3>2, <3>4, <3>5
  <2>2. CASE ~(i < n /\ e[i + 1] \notin U)
    <3>1. ToTile(U, e, n, i) = i
      BY <2>2 DEF ToTile
    <3>2. QED
      BY <1>4, <2>2, <3>1
  <2>3. QED
    BY <2>1, <2>2
<1>7. PICK l, r \in Int : l = e[FromTile(U, e, i)] /\ r = TileEnd(e, n, ToTile(U, e, n, i))
  BY <1>5, <1>6
<1>8. r - l = a + (y - x) + b
  BY <1>5, <1>6, <1>7
<1>9. QED
  BY <1>4, <1>5, <1>6, <1>7, <1>8

\* CoKfree makes one free tile of the released one and its free neighbours.
LEMMA FreesReleases ==
  ASSUME TilesFollow, TilesFollow', NEW B, NEW U, NEW u, NEW at, NEW C,
         Frees(B, U, u, at, C)
  PROVE  \E i \in 1 .. Len(Tiles) : Abstract!Release(i)
<1>1. /\ u \in U /\ Starts(B, U, u, at) /\ C = Joined(B, U, u, at)
      /\ Becomes(B, U, C, U \ {u})
  BY DEF Frees
<1>2. /\ Shape(B, U, mem, FMBlist) /\ mem \in [1 .. KHEAP_SIZE -> Cells]
      /\ Heads(B, U) /\ Heads(C, U \ {u})
      /\ B \in SUBSET (1 .. KHEAP_SIZE) /\ U \in SUBSET (1 .. KHEAP_SIZE)
  BY <1>1 DEF Becomes, Shape
<1>3. PICK e, n : Row(B, e, n)
  BY <1>2, HasRow
<1>4. PICK t : t = TilesOf(U, e, n)
  OBVIOUS
<1>5. Tiles = t
  BY <1>2, <1>3, <1>4 DEF TilesFollow
<1>6. ASSUME NEW d, NEW m, Row(C, d, m) PROVE Tiles' = TilesOf(U \ {u}, d, m)
  BY <1>1, <1>6 DEF TilesFollow, Becomes
<1>7. B \in SUBSET Nat /\ C \in SUBSET Nat /\ U \in SUBSET B /\ C \in SUBSET B
  <2>1. B \in SUBSET Nat /\ C \in SUBSET Nat /\ U \in SUBSET B
    BY <1>2, HeadsFacts
  <2>2. QED
    BY <1>1, <2>1 DEF Joined
<1>8. /\ t \in Seq(TileSet) /\ Len(t) = n
      /\ \A j \in 1 .. n : t[j] = [used |-> e[j] \in U, size |-> TileEnd(e, n, j) - e[j]]
  <2>1. TileRow(t, U, e, n)
    BY <1>3, <1>4, <1>7, TilesFacts
  <2>2. QED
    BY <2>1 DEF TileRow
<1>9. n \in Nat /\ \A x \in B : \E j \in 1 .. n : e[j] = x
  BY <1>3 DEF Row
<1>10. PICK i \in 1 .. n : e[i] = u
  BY <1>1, <1>7, <1>9
<1>11. ASSUME NEW j \in 1 .. n PROVE t[j].used <=> e[j] \in U
  <2>1. t[j] = [used |-> e[j] \in U, size |-> TileEnd(e, n, j) - e[j]]
    BY <1>8
  <2>2. PICK b \in BOOLEAN : b <=> (e[j] \in U)
    OBVIOUS
  <2>3. t[j] = [used |-> b, size |-> TileEnd(e, n, j) - e[j]]
    BY <2>1, <2>2
  <2>4. t[j].used = b
    BY <2>3
  <2>5. QED
    BY <2>2, <2>4
<1>12. PICK from, to, d : /\ from = FromTile(U, e, i) /\ to = ToTile(U, e, n, i)
                          /\ d = CutBehind(e, n, from, to)
  OBVIOUS
<1>13. from \in 1 .. n /\ to \in 1 .. n /\ from <= i /\ i <= to /\ from <= to
  BY <1>9, <1>12 DEF FromTile, ToTile
<1>14. /\ at = e[from]
       /\ \A j \in 1 .. n : e[j] \in C <=> ~(from < j /\ j <= to)
  <2>1. JoinedAt(U, e, n, i, at, C)
    BY <1>1, <1>2, <1>3, <1>10, JoinedTiles
  <2>2. QED
    BY <1>12, <2>1 DEF JoinedAt
<1>15. Row(C, d, n - (to - from))
  BY <1>3, <1>7, <1>12, <1>13, <1>14, CutRow
<1>16. e[from] \notin U \ {e[i]}
  BY <1>1, <1>10, <1>14 DEF Starts
<1>17. PICK size : size = TileEnd(e, n, to) - e[from]
  OBVIOUS
<1>18. Tiles' = Splice(t, from, to, <<[used |-> FALSE, size |-> size]>>)
  <2>1. JoinsTiles(B, U, e, n, i, from, to, C, d)
    BY <1>3, <1>7, <1>12, <1>13, <1>15, <1>16 DEF JoinsTiles
  <2>2. PICK s : s = TilesOf(U \ {e[i]}, d, n - (to - from))
    OBVIOUS
  <2>3. s = Splice(t, from, to, <<[used |-> FALSE, size |-> TileEnd(e, n, to) - e[from]]>>)
    BY <1>4, <2>1, <2>2, CutTiles
  <2>4. Tiles' = s
    BY <1>6, <1>10, <1>15, <2>2
  <2>5. QED
    BY <1>17, <2>3, <2>4
<1>19. size = (IF i > 1 /\ e[i - 1] \notin U THEN t[i - 1].size ELSE 0) + t[i].size
                + (IF i < n /\ e[i + 1] \notin U THEN t[i + 1].size ELSE 0)
  BY <1>3, <1>4, <1>7, <1>12, <1>17, JoinedSize
<1>20. /\ i > 1 /\ ~t[i - 1].used <=> i > 1 /\ e[i - 1] \notin U
       /\ i < n /\ ~t[i + 1].used <=> i < n /\ e[i + 1] \notin U
       /\ t[i].used
  <2>1. i > 1 => i - 1 \in 1 .. n
    BY <1>9
  <2>2. i < n => i + 1 \in 1 .. n
    BY <1>9
  <2>3. QED
    BY <1>1, <1>10, <1>11, <2>1, <2>2
<1>21. PICK before, after \in BOOLEAN : /\ before <=> i > 1 /\ ~t[i - 1].used
                                        /\ after <=> i < Len(t) /\ ~t[i + 1].used
  OBVIOUS
<1>22. /\ from = IF before THEN i - 1 ELSE i
       /\ to = IF after THEN i + 1 ELSE i
       /\ size = (IF before THEN t[i - 1].size ELSE 0) + t[i].size
                   + (IF after THEN t[i + 1].size ELSE 0)
  BY <1>8, <1>12, <1>19, <1>20, <1>21 DEF FromTile, ToTile
<1>23. Abstract!Release(i)
  BY <1>5, <1>18, <1>20, <1>21, <1>22
     DEF Splice, Abstract!Release, Abstract!Replaced, Abstract!Free
<1>24. QED
  BY <1>5, <1>8, <1>23

\* CoCreateKheap makes one free tile of all words.
LEMMA TilesInit ==
  ASSUME TilesFollow, HeapInit
  PROVE  Abstract!Init
<1>1. PICK B, U : B = {1} /\ U = {}
  OBVIOUS
<1>2. Shape(B, U, mem, FMBlist) /\ HeapInv
  BY <1>1, HeapStarts
<1>3. mem \in [1 .. KHEAP_SIZE -> Cells]
  BY <1>2 DEF HeapInv
<1>4. B \in SUBSET (1 .. KHEAP_SIZE) /\ U \in SUBSET (1 .. KHEAP_SIZE)
  BY <1>1, HeapAssumption
<1>5. PICK e : e = [i \in 1 .. 1 |-> 1]
  OBVIOUS
<1>6. Row(B, e, 1)
  <2>1. e \in [1 .. 1 -> B] /\ e[1] = 1 /\ \A i \in 1 .. 1 : i = 1
    BY <1>1, <1>5
  <2>2. QED
    BY <1>1, <2>1 DEF Row
<1>7. Tiles = TilesOf(U, e, 1)
  BY <1>2, <1>3, <1>4, <1>6 DEF TilesFollow
<1>8. PICK t : t = TilesOf(U, e, 1)
  OBVIOUS
<1>9. t \in Seq(TileSet) /\ Len(t) = 1 /\ t[1] = [used |-> FALSE, size |-> KHEAP_SIZE]
  <2>1. TileRow(t, U, e, 1)
    BY <1>1, <1>6, <1>8, TilesFacts
  <2>2. /\ t \in Seq(TileSet) /\ Len(t) = 1
        /\ t[1] = [used |-> e[1] \in U, size |-> TileEnd(e, 1, 1) - e[1]]
    BY <2>1 DEF TileRow
  <2>3. (e[1] \in U) = FALSE /\ e[1] = 1 /\ TileEnd(e, 1, 1) - 1 = KHEAP_SIZE
    BY <1>1, <1>5, HeapAssumption DEF TileEnd, End
  <2>4. QED
    BY <2>2, <2>3
<1>10. t = <<[used |-> FALSE, size |-> KHEAP_SIZE]>>
  <2>1. PICK a \in TileSet : a = t[1]
    BY <1>9
  <2>2. t = <<a>>
    BY <1>9, <2>1
  <2>3. QED
    BY <1>9, <2>1, <2>2
<1>11. QED
  BY <1>7, <1>8, <1>10 DEF Abstract!Init, Abstract!Free

LEMMA TilesNext ==
  ASSUME TilesFollow, TilesFollow', HeapInv, [HeapNext]_heapVars
  PROVE  [Abstract!Next]_Tiles
<1>1. ASSUME NEW n \in Requests, CoKmalloc(n) PROVE Abstract!Next
  <2>1. PICK B, U, f, C : Grants(B, U, f, Words(n), C)
    BY <1>1, CoKmallocGrants
  <2>2. n \in Nat /\ n > 0
    BY <1>1, HeapAssumption DEF CoKmalloc
  <2>3. Words(n) \in Nat /\ Words(n) >= 3
    BY <2>2, WordsFacts
  <2>4. Abstract!Allocate(Words(n))
    BY <2>1, <2>3, GrantsAllocates
  <2>5. n \in Requests \ {0}
    BY <2>2
  <2>6. QED
    BY <2>4, <2>5 DEF Abstract!Next
<1>2. ASSUME UNCHANGED heapVars PROVE UNCHANGED Tiles
  BY <1>2 DEF heapVars, Tiles, BlockWalk, Walk, Word
<1>3. ASSUME NEW n \in Requests, CoKmallocFails(n) PROVE UNCHANGED Tiles
  BY <1>2, <1>3 DEF CoKmallocFails
<1>4. ASSUME NEW b \in live, CoKfree(b) PROVE Abstract!Next
  <2>1. PICK B, U, at, C : Frees(B, U, b.at, at, C)
    BY <1>4, CoKfreeFrees
  <2>2. \E i \in 1 .. Len(Tiles) : Abstract!Release(i)
    BY <2>1, FreesReleases
  <2>3. QED
    BY <2>2 DEF Abstract!Next
<1>5. QED
  BY <1>1, <1>2, <1>3, <1>4 DEF HeapNext

\* The heap is a first-fit heap: CoKmalloc takes the first free block that is
\* large enough and leaves the rest free, CoKfree makes one free block of the
\* released one and its free neighbours, and nothing leaks (kernelHeap.c).
THEOREM HeapImplements == HeapSpec => ImplementsFirstFit
<1>1. TilesFollow
  BY TilesDoFollow
<1>2. TilesFollow /\ HeapInit => Abstract!Init
  BY TilesInit
<1>3. TilesFollow /\ TilesFollow' /\ HeapInv /\ [HeapNext]_heapVars => [Abstract!Next]_Tiles
  BY TilesNext
<1>4. QED
  BY <1>1, <1>2, <1>3, HeapInvariant, PTL DEF HeapSpec, ImplementsFirstFit, Abstract!Spec
=============================================================================
