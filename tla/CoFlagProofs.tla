---------------------------- MODULE CoFlagProofs ----------------------------
(***************************************************************************)
(* For every number of tasks and flags and every application: the waiting  *)
(* list of the flags and the tasks that wait agree, although sets,         *)
(* deletions and time-outs race.  For every application that keeps the     *)
(* rules of Tidy nobody is left asleep on flags that are set.              *)
(***************************************************************************)
EXTENDS CoFlag, SequenceTheorems, DataFacts

TasksOf(list) == {list[n].task : n \in 1 .. Len(list)}

\* The list by itself: one node for each task whose pnode says so, and only
\* these have a time-out running.
Links(s) ==
  /\ s \in FlagBlocks /\ s.auto \subseteq s.active /\ s.wild = FALSE
  /\ \A m, n \in 1 .. Len(s.list) : s.list[m].task = s.list[n].task => m = n
  /\ \A t \in Tasks :
       /\ t \in TasksOf(s.list) <=> s.pnode[t] = "node"
       /\ s.delay[t] => t \in TasksOf(s.list)

\* The function a control point belongs to.
OpOf(label) ==
  CASE label = "user" -> "none"
    [] label = "accepted" -> "CoAcceptFlags"
    [] label \in {"blocked", "consume"} -> "CoWaitForFlags"
    [] label \in {"load", "store", "walk"} -> "CoSetFlag"
    [] label = "clear" -> "CoClearFlag"
    [] OTHER -> label

\* The list and the calls: who has a pnode is blocked in the wait its node
\* asks for, and one that is no longer linked learns why.
Callers(s, p, c, w) ==
  /\ \A t \in Tasks :
       /\ c[t].op = OpOf(p[t])
       /\ s.pnode[t] # "null" => p[t] = "blocked"
       /\ s.delay[t] => c[t].timed
       /\ p[t] = "blocked" /\ s.pnode[t] # "node" =>
            (s.pnode[t] = "null" <=> w[t] = "timeout")
  /\ \A n \in 1 .. Len(s.list) : s.list[n].flags \subseteq c[s.list[n].task].flags

IInv == TypeOK /\ Links(fcb) /\ Callers(fcb, pc, call, why)

-----------------------------------------------------------------------------
(* Unlinking.                                                              *)

\* What the walk over the first n nodes has kept: exactly the nodes of the
\* other tasks, each task once.
Keeps(q, list, ts, n) ==
  /\ q \in Seq(Nodes)
  /\ \A m \in 1 .. Len(q) :
       \E j \in 1 .. n : q[m] = list[j] /\ list[j].task \notin ts
  /\ \A j \in 1 .. n :
       list[j].task \notin ts => \E m \in 1 .. Len(q) : q[m] = list[j]
  /\ \A l, m \in 1 .. Len(q) : q[l].task = q[m].task => l = m

LEMMA KeepsNext ==
  ASSUME NEW list \in Seq(Nodes), NEW ts, NEW n \in 0 .. Len(list) - 1,
         \A l, m \in 1 .. Len(list) : list[l].task = list[m].task => l = m,
         NEW q, Keeps(q, list, ts, n)
  PROVE  Keeps(IF list[n + 1].task \in ts THEN q ELSE Append(q, list[n + 1]),
               list, ts, n + 1)
<1>1. /\ Len(list) \in Nat /\ n + 1 \in 1 .. Len(list) /\ n \in Nat
      /\ \A j \in 1 .. n + 1 : j \in 1 .. n \/ j = n + 1
      /\ \A j \in 1 .. n : j \in 1 .. n + 1 /\ j \in 1 .. Len(list) /\ j # n + 1
  OBVIOUS
<1>2. CASE list[n + 1].task \in ts
  <2>1. Keeps(q, list, ts, n + 1)
    BY <1>1, <1>2 DEF Keeps
  <2>2. QED
    BY <1>2, <2>1
<1>3. CASE list[n + 1].task \notin ts
  <2> DEFINE x == list[n + 1]
             r == Append(q, x)
  <2>1. x \in Nodes /\ q \in Seq(Nodes)
    BY <1>1 DEF Keeps
  <2> HIDE DEF x
  <2>2. /\ r \in Seq(Nodes) /\ Len(r) = Len(q) + 1 /\ Len(q) \in Nat
        /\ r[Len(q) + 1] = x /\ \A m \in 1 .. Len(q) : r[m] = q[m]
        /\ \A m \in 1 .. Len(q) + 1 : m \in 1 .. Len(q) \/ m = Len(q) + 1
        /\ \A m \in 1 .. Len(q) : m \in 1 .. Len(q) + 1
        /\ Len(q) + 1 \in 1 .. Len(q) + 1
    BY <2>1
  <2> HIDE DEF r
  <2>3. \A m \in 1 .. Len(r) :
          \E j \in 1 .. n + 1 : r[m] = list[j] /\ list[j].task \notin ts
    <3> SUFFICES ASSUME NEW m \in 1 .. Len(q) + 1
                 PROVE  \E j \in 1 .. n + 1 : r[m] = list[j] /\ list[j].task \notin ts
      BY <2>2
    <3>1. CASE m \in 1 .. Len(q)
      <4>1. PICK j \in 1 .. n : q[m] = list[j] /\ list[j].task \notin ts
        BY <3>1 DEF Keeps
      <4>2. j \in 1 .. n + 1 /\ r[m] = list[j]
        BY <1>1, <2>2, <3>1, <4>1
      <4>3. QED
        BY <4>1, <4>2
    <3>2. CASE m = Len(q) + 1
      <4>1. r[m] = list[n + 1] /\ n + 1 \in 1 .. n + 1
        BY <1>1, <2>2, <3>2 DEF x
      <4>2. QED
        BY <1>3, <4>1
    <3>3. QED
      BY <2>2, <3>1, <3>2
  <2>4. \A j \in 1 .. n + 1 :
          list[j].task \notin ts => \E m \in 1 .. Len(r) : r[m] = list[j]
    BY <1>1, <2>2 DEF Keeps, x
  <2>5. ASSUME NEW m \in 1 .. Len(q) PROVE q[m].task # x.task
    <3>1. PICK j \in 1 .. n : q[m] = list[j]
      BY DEF Keeps
    <3>2. list[j].task # list[n + 1].task
      BY <1>1
    <3>3. QED
      BY <3>1, <3>2 DEF x
  <2>6. ASSUME NEW l \in 1 .. Len(r), NEW m \in 1 .. Len(r), r[l].task = r[m].task
        PROVE  l = m
    <3>1. /\ (l \in 1 .. Len(q) /\ r[l] = q[l]) \/ (l = Len(q) + 1 /\ r[l] = x)
          /\ (m \in 1 .. Len(q) /\ r[m] = q[m]) \/ (m = Len(q) + 1 /\ r[m] = x)
      BY <2>2
    <3>2. \A j, k \in 1 .. Len(q) : q[j].task = q[k].task => j = k
      BY DEF Keeps
    <3>3. QED
      BY <2>5, <2>6, <3>1, <3>2
  <2>7. QED
    BY <1>3, <2>2, <2>3, <2>4, <2>6 DEF Keeps, r, x
<1>4. QED
  BY <1>2, <1>3

\* Unlinking takes away the nodes of these tasks and no others.
LEMMA WithoutKeeps ==
  ASSUME NEW list \in Seq(Nodes), NEW ts,
         \A l, m \in 1 .. Len(list) : list[l].task = list[m].task => l = m
  PROVE  Keeps(Without(list, ts), list, ts, Len(list))
<1> DEFINE n == Len(list)
           S == Seq(Nodes)
           step == [x \in S \X (1 .. n) |->
                      IF list[x[2]].task \in ts THEN x[1]
                      ELSE Append(x[1], list[x[2]])]
           Def(f) == [i \in 0 .. n |->
                        IF i = 0 THEN <<>>
                        ELSE IF list[i].task \in ts THEN f[i - 1]
                        ELSE Append(f[i - 1], list[i])]
           kept == CHOOSE f : f = Def(f)
<1>1. n \in Nat /\ \A i \in 1 .. n : list[i] \in Nodes
  OBVIOUS
<1>2. step \in [S \X (1 .. n) -> S] /\ <<>> \in S
  BY <1>1
<1>3. PICK f \in [0 .. n -> S] : FoldsTo(f, n, <<>>, step)
  <2> HIDE DEF step, n, S
  <2>1. QED
    BY <1>1, <1>2, FoldDefined
<1>4. f = Def(f)
  <2>1. ASSUME NEW i \in 1 .. n
        PROVE  step[<<f[i - 1], i>>] = IF list[i].task \in ts THEN f[i - 1]
                                       ELSE Append(f[i - 1], list[i])
    <3>1. i - 1 \in 0 .. n
      BY <1>1
    <3> HIDE DEF S
    <3>2. <<f[i - 1], i>> \in S \X (1 .. n)
      <4>1. f[i - 1] \in S
        BY <3>1
      <4>2. QED
        BY <4>1
    <3>3. QED
      BY <3>2
  <2> HIDE DEF step
  <2>2. ASSUME NEW i \in 0 .. n
        PROVE  f[i] = IF i = 0 THEN <<>>
                      ELSE IF list[i].task \in ts THEN f[i - 1]
                      ELSE Append(f[i - 1], list[i])
    <3>1. i # 0 => i \in 1 .. n
      BY <1>1
    <3>2. QED
      BY <1>3, <2>1, <3>1 DEF FoldsTo
  <2>3. f = [i \in 0 .. n |-> f[i]]
    OBVIOUS
  <2>4. QED
    BY <2>2, <2>3
<1>5. kept = Def(kept)
  <2> HIDE DEF Def
  <2>1. \E g : g = Def(g)
    BY <1>4
  <2>2. QED
    BY <2>1, Zenon
<1>6. \A i \in 0 .. n : Keeps(kept[i], list, ts, i)
  <2> DEFINE T == {i \in 0 .. n : Keeps(kept[i], list, ts, i)}
  <2> HIDE DEF kept
  <2>1. 0 \in T
    <3>1. kept[0] = <<>>
      BY <1>1, <1>5
    <3>2. Keeps(<<>>, list, ts, 0)
      BY EmptySeq DEF Keeps
    <3>3. QED
      BY <1>1, <3>1, <3>2
  <2>2. ASSUME NEW i \in 0 .. n - 1, i \in T PROVE i + 1 \in T
    <3>1. /\ i + 1 \in 1 .. n /\ i + 1 \in 0 .. n /\ i + 1 # 0 /\ (i + 1) - 1 = i
      BY <1>1
    <3>2. kept[i + 1] = IF list[i + 1].task \in ts THEN kept[i]
                        ELSE Append(kept[i], list[i + 1])
      BY <1>5, <3>1
    <3>3. Keeps(kept[i], list, ts, i)
      BY <2>2
    <3>4. Keeps(kept[i + 1], list, ts, i + 1)
      BY <3>2, <3>3, KeepsNext
    <3>5. QED
      BY <3>1, <3>4
  <2>3. 0 .. n \subseteq T
    <3> HIDE DEF T
    <3>1. QED
      BY <1>1, <2>1, <2>2, IntervalInduction
  <2>4. QED
    BY <2>3
<1>7. Without(list, ts) = kept[n]
  BY DEF Without
<1>8. QED
  <2> HIDE DEF kept
  <2>1. n \in 0 .. n
    BY <1>1
  <2>2. QED
    BY <1>6, <1>7, <2>1

LEMMA TasksWithout ==
  ASSUME NEW list \in Seq(Nodes), NEW ts,
         \A l, m \in 1 .. Len(list) : list[l].task = list[m].task => l = m
  PROVE  TasksOf(Without(list, ts)) = TasksOf(list) \ ts
<1>1. Keeps(Without(list, ts), list, ts, Len(list))
  BY WithoutKeeps
<1> DEFINE w == Without(list, ts)
<1> HIDE DEF w
<1>2. /\ \A m \in 1 .. Len(w) :
           \E j \in 1 .. Len(list) : w[m] = list[j] /\ list[j].task \notin ts
      /\ \A j \in 1 .. Len(list) :
           list[j].task \notin ts => \E m \in 1 .. Len(w) : w[m] = list[j]
  BY <1>1 DEF Keeps, w
<1>3. ASSUME NEW t \in TasksOf(w) PROVE t \in TasksOf(list) \ ts
  <2>1. PICK m \in 1 .. Len(w) : t = w[m].task
    BY DEF TasksOf
  <2>2. PICK j \in 1 .. Len(list) : w[m] = list[j] /\ list[j].task \notin ts
    BY <1>2
  <2>3. QED
    BY <2>1, <2>2 DEF TasksOf
<1>4. ASSUME NEW t \in TasksOf(list) \ ts PROVE t \in TasksOf(w)
  <2>1. PICK j \in 1 .. Len(list) : t = list[j].task
    BY DEF TasksOf
  <2>2. PICK m \in 1 .. Len(w) : w[m] = list[j]
    BY <1>2, <2>1
  <2>3. QED
    BY <2>1, <2>2 DEF TasksOf
<1>5. QED
  BY <1>3, <1>4 DEF w

LEMMA NodeFacts ==
  ASSUME NEW list \in Seq(Nodes), NEW n \in 1 .. Len(list)
  PROVE  /\ list[n] \in Nodes /\ list[n].task \in Tasks
         /\ list[n].flags \in SUBSET Flags /\ list[n].task \in TasksOf(list)
<1>1. list[n] \in Nodes
  OBVIOUS
<1>2. list[n].task \in TasksOf(list)
  BY DEF TasksOf
<1>3. QED
  BY <1>1, <1>2 DEF Nodes

\* Tasks ts are unlinked, their pnode is v, and they have no time-out any more.
Unlinked(s, ts, v) ==
  [s EXCEPT !.list = Without(s.list, ts),
            !.pnode = [t \in Tasks |-> IF t \in ts THEN v ELSE s.pnode[t]],
            !.delay = [t \in Tasks |-> s.delay[t] /\ t \notin ts]]

\* The list without them is still a list.
Shorter(r, s, ts, v) ==
  /\ Links(r)
  /\ r.pnode = [t \in Tasks |-> IF t \in ts THEN v ELSE s.pnode[t]]
  /\ \A t \in Tasks : r.delay[t] => s.delay[t]
  /\ \A m \in 1 .. Len(r.list) :
       \E n \in 1 .. Len(s.list) : r.list[m] = s.list[n]

LEMMA UnlinkedLinks ==
  ASSUME NEW s, Links(s), NEW ts \in SUBSET TasksOf(s.list),
         NEW v \in {"null", "woken"}
  PROVE  Shorter(Unlinked(s, ts, v), s, ts, v)
<1> DEFINE r == Unlinked(s, ts, v)
           w == Without(s.list, ts)
           pnode == [t \in Tasks |-> IF t \in ts THEN v ELSE s.pnode[t]]
           delay == [t \in Tasks |-> s.delay[t] /\ t \notin ts]
<1>1. /\ s \in FlagBlocks /\ s.list \in Seq(Nodes) /\ s.delay \in [Tasks -> BOOLEAN]
      /\ s.pnode \in [Tasks -> {"null", "node", "woken"}]
      /\ \A l, m \in 1 .. Len(s.list) : s.list[l].task = s.list[m].task => l = m
  BY DEF Links, FlagBlocks
<1>2. Keeps(w, s.list, ts, Len(s.list)) /\ TasksOf(w) = TasksOf(s.list) \ ts
  BY <1>1, WithoutKeeps, TasksWithout
<1>3. r = [s EXCEPT !.list = w, !.pnode = pnode, !.delay = delay]
  BY DEF Unlinked
<1>4. /\ pnode \in [Tasks -> {"null", "node", "woken"}]
      /\ delay \in [Tasks -> BOOLEAN] /\ w \in Seq(Nodes)
  BY <1>1, <1>2 DEF Keeps
<1> HIDE DEF r, w
<1>5. r \in FlagBlocks
  <2> HIDE DEF pnode, delay
  <2>1. QED
    BY <1>1, <1>3, <1>4 DEF FlagBlocks
<1>6. /\ r.list = w /\ r.pnode = pnode /\ r.delay = delay /\ r.wild = s.wild
      /\ r.auto = s.auto /\ r.active = s.active
  <2> HIDE DEF pnode, delay
  <2>1. QED
    BY <1>1, <1>3 DEF FlagBlocks
<1>7. ASSUME NEW t \in Tasks
      PROVE  /\ t \in TasksOf(w) <=> pnode[t] = "node"
             /\ delay[t] => t \in TasksOf(w) /\ s.delay[t]
  <2>1. /\ t \in TasksOf(s.list) <=> s.pnode[t] = "node"
        /\ s.delay[t] => t \in TasksOf(s.list)
    BY DEF Links
  <2>2. CASE t \in ts
    BY <1>2, <2>1, <2>2
  <2>3. CASE t \notin ts
    BY <1>2, <2>1, <2>3
  <2>4. QED
    BY <2>2, <2>3
<1> HIDE DEF pnode, delay
<1>8. Links(r)
  BY <1>2, <1>5, <1>6, <1>7 DEF Links, Keeps
<1>9. \A m \in 1 .. Len(w) : \E n \in 1 .. Len(s.list) : w[m] = s.list[n]
  BY <1>2 DEF Keeps
<1>10. QED
  BY <1>6, <1>7, <1>8, <1>9 DEF r, pnode, Shorter

\* RemoveFromLink and TimeDispose do this.
LEMMA UnlinkedBy ==
  ASSUME NEW s, Links(s)
  PROVE  /\ \A ts : RemoveFromLink(s, ts) = Unlinked(s, ts, "woken")
         /\ \A t \in TasksOf(s.list) : TimeDispose(s, t) = Unlinked(s, {t}, "null")
<1>1. s \in FlagBlocks /\ s.wild = FALSE /\ s.delay \in [Tasks -> BOOLEAN]
      /\ s.pnode \in [Tasks -> {"null", "node", "woken"}]
  BY DEF Links, FlagBlocks
<1>2. ASSUME NEW ts PROVE RemoveFromLink(s, ts) = Unlinked(s, ts, "woken")
  BY <1>1 DEF RemoveFromLink, Unlinked, FlagBlocks
<1>3. ASSUME NEW t \in TasksOf(s.list)
      PROVE  TimeDispose(s, t) = Unlinked(s, {t}, "null")
  <2>1. t \in Tasks /\ s.pnode[t] = "node"
    <3>1. s.list \in Seq(Nodes)
      BY <1>1 DEF FlagBlocks
    <3>2. t \in Tasks
      BY <3>1, NodeFacts DEF TasksOf
    <3>3. QED
      BY <3>2 DEF Links
  <2>2. [s.pnode EXCEPT ![t] = "null"]
          = [u \in Tasks |-> IF u \in {t} THEN "null" ELSE s.pnode[u]]
    BY <1>1, <2>1
  <2>3. [s.delay EXCEPT ![t] = FALSE]
          = [u \in Tasks |-> s.delay[u] /\ u \notin {t}]
    BY <1>1, <2>1
  <2>4. (s.wild \/ s.pnode[t] = "woken") = s.wild
    BY <1>1, <2>1
  <2>5. TimeDispose(s, t)
          = [s EXCEPT !.list = Without(s.list, {t}),
                      !.pnode = [s.pnode EXCEPT ![t] = "null"],
                      !.delay = [s.delay EXCEPT ![t] = FALSE],
                      !.wild = s.wild \/ s.pnode[t] = "woken"]
    BY <1>1 DEF TimeDispose, FlagBlocks
  <2>6. QED
    BY <1>1, <2>2, <2>3, <2>4, <2>5 DEF Unlinked, FlagBlocks
<1>4. QED
  BY <1>2, <1>3

-----------------------------------------------------------------------------
(* The calls.                                                              *)

LEMMA CallFacts ==
  ASSUME NEW c \in FlagCalls \cup {NoCall}
  PROVE  /\ c.op # "none" => c \in FlagCalls /\ c.flags \in SUBSET Flags
         /\ c.op \in {"CoSetFlag", "CoClearFlag", "CoDelFlag"} =>
              \E i \in Flags : c.flags = {i}
         /\ c.op = "CoWaitForFlags" => c.type \in Types /\ c.timed \in BOOLEAN
         /\ c \in FlagCalls =>
              c.op \in {"CoSetFlag", "CoClearFlag", "CoDelFlag", "CoCreateFlag",
                        "CoAcceptFlags", "CoWaitForFlags"}
<1> DEFINE Single == {{i} : i \in Flags}
           A == [op : {"CoSetFlag", "CoClearFlag"}, flags : Single]
           B == [op : {"CoDelFlag"}, flags : Single, opt : {"NO_PEND", "ANYWAY"}]
           C == [op : {"CoCreateFlag"}, flags : {{}}, auto : BOOLEAN,
                 initial : BOOLEAN]
           D == [op : {"CoAcceptFlags"}, flags : SUBSET Flags, type : Types]
           E == [op : {"CoWaitForFlags"}, flags : SUBSET Flags, type : Types,
                 timed : BOOLEAN]
<1>1. FlagCalls = UNION {A, B, C, D, E}
  BY DEF FlagCalls
<1>2. CASE c \in A
  BY <1>1, <1>2
<1>3. CASE c \in B
  BY <1>1, <1>3
<1>4. CASE c \in C
  BY <1>1, <1>4
<1>5. CASE c \in D
  BY <1>1, <1>5
<1>6. CASE c \in E
  BY <1>1, <1>6
<1>7. CASE c \notin FlagCalls
  BY <1>7 DEF NoCall
<1>8. QED
  <2> HIDE DEF A, B, C, D, E
  <2>1. QED
    BY <1>1, <1>2, <1>3, <1>4, <1>5, <1>6, <1>7

LEMMA IdFacts ==
  ASSUME IInv, NEW t \in Tasks,
         call[t].op \in {"CoSetFlag", "CoClearFlag", "CoDelFlag"}
  PROVE  Id(t) \in Flags /\ call[t].flags = {Id(t)}
<1>1. call[t] \in FlagCalls \cup {NoCall}
  BY DEF IInv, TypeOK
<1>2. PICK i \in Flags : call[t].flags = {i}
  BY <1>1, CallFacts
<1>3. Id(t) = i
  BY <1>2 DEF Id
<1>4. QED
  BY <1>2, <1>3

LEMMA SleepersAre == Sleepers = TasksOf(fcb.list)
BY DEF Sleepers, TasksOf

-----------------------------------------------------------------------------
(* The steps.                                                              *)

\* A step of a task that neither blocks nor was blocked, and leaves the list.
LEMMA QuietStep ==
  ASSUME IInv, NEW t \in Tasks, pc[t] # "blocked", NEW l \in Labels, l # "blocked",
         pc' = [pc EXCEPT ![t] = l],
         NEW c \in FlagCalls \cup {NoCall}, c.op = OpOf(l),
         call' = [call EXCEPT ![t] = c],
         fcb' \in FlagBlocks, fcb'.auto \subseteq fcb'.active,
         fcb'.list = fcb.list, fcb'.pnode = fcb.pnode, fcb'.delay = fcb.delay,
         fcb'.wild = fcb.wild,
         reg' \in [Tasks -> SUBSET Flags],
         why' = why, load' = load
  PROVE  IInv'
<1>1. /\ pc \in [Tasks -> Labels] /\ call \in [Tasks -> FlagCalls \cup {NoCall}]
      /\ load \in Loads /\ why \in [Tasks -> {"none", "set", "deleted", "timeout"}]
      /\ Links(fcb) /\ Callers(fcb, pc, call, why)
  BY DEF IInv, TypeOK
<1>2. TypeOK'
  BY <1>1 DEF TypeOK
<1>3. Links(fcb')
  BY <1>1 DEF Links
<1>4. fcb.pnode[t] = "null" /\ t \notin TasksOf(fcb.list) /\ ~fcb.delay[t]
  BY <1>1 DEF Callers, Links
<1>5. \A u \in Tasks : pc'[u] = IF u = t THEN l ELSE pc[u]
  BY <1>1
<1>6. \A u \in Tasks : call'[u] = IF u = t THEN c ELSE call[u]
  BY <1>1
<1>7. \A n \in 1 .. Len(fcb.list) :
        fcb.list[n].task # t /\ fcb.list[n].task \in Tasks
  <2>1. fcb.list \in Seq(Nodes)
    BY <1>1 DEF Links, FlagBlocks
  <2>2. QED
    BY <1>4, <2>1, NodeFacts
<1>8. \A n \in 1 .. Len(fcb.list) :
        fcb.list[n].flags \subseteq call'[fcb.list[n].task].flags
  BY <1>1, <1>6, <1>7 DEF Callers
<1>9. ASSUME NEW u \in Tasks
      PROVE  /\ call'[u].op = OpOf(pc'[u])
             /\ fcb'.pnode[u] # "null" => pc'[u] = "blocked"
             /\ fcb'.delay[u] => call'[u].timed
             /\ pc'[u] = "blocked" /\ fcb'.pnode[u] # "node" =>
                  (fcb'.pnode[u] = "null" <=> why'[u] = "timeout")
  <2>1. CASE u = t
    <3>1. pc'[u] = l /\ call'[u] = c
      BY <1>5, <1>6, <2>1
    <3>2. fcb'.pnode[u] = "null" /\ ~fcb'.delay[u]
      BY <1>4, <2>1
    <3>3. QED
      BY <3>1, <3>2
  <2>2. CASE u # t
    <3>1. pc'[u] = pc[u] /\ call'[u] = call[u]
      BY <1>5, <1>6, <2>2
    <3>2. QED
      BY <1>1, <3>1 DEF Callers
  <2>3. QED
    BY <2>1, <2>2
<1>10. Callers(fcb', pc', call', why')
  BY <1>8, <1>9 DEF Callers
<1>11. QED
  BY <1>2, <1>3, <1>10 DEF IInv

\* What the step of a task at a label other than "blocked" starts from.
LEMMA AtFacts ==
  ASSUME IInv, NEW t \in Tasks
  PROVE  /\ fcb \in FlagBlocks /\ fcb.auto \subseteq fcb.active
         /\ fcb.rdy \subseteq Flags /\ fcb.active \subseteq Flags
         /\ fcb.auto \subseteq Flags
         /\ pc \in [Tasks -> Labels] /\ call \in [Tasks -> FlagCalls \cup {NoCall}]
         /\ call[t] \in FlagCalls \cup {NoCall} /\ pc[t] \in Labels
         /\ reg \in [Tasks -> SUBSET Flags]
         /\ load \in Loads /\ call[t].op = OpOf(pc[t])
         /\ (pc[t] # "user" => call[t] \in FlagCalls /\ call[t].flags \subseteq Flags)
<1>1. /\ fcb \in FlagBlocks /\ fcb.auto \subseteq fcb.active
      /\ pc \in [Tasks -> Labels] /\ call \in [Tasks -> FlagCalls \cup {NoCall}]
      /\ reg \in [Tasks -> SUBSET Flags]
      /\ load \in Loads /\ call[t].op = OpOf(pc[t])
  BY DEF IInv, TypeOK, Callers
<1>2. fcb.rdy \subseteq Flags /\ fcb.active \subseteq Flags /\ fcb.auto \subseteq Flags
  BY <1>1 DEF FlagBlocks
<1>3. call[t] \in FlagCalls \cup {NoCall} /\ pc[t] \in Labels
  BY <1>1
<1>4. pc[t] # "user" => call[t].op # "none"
  BY <1>1, <1>3 DEF OpOf, Labels
<1>5. QED
  BY <1>1, <1>2, <1>3, <1>4, CallFacts

\* Changing the flag word leaves the list.
LEMMA WordOnly ==
  ASSUME IInv, NEW rdy \in SUBSET Flags, fcb' = [fcb EXCEPT !.rdy = rdy]
  PROVE  /\ fcb' \in FlagBlocks /\ fcb'.auto \subseteq fcb'.active
         /\ fcb'.list = fcb.list /\ fcb'.pnode = fcb.pnode
         /\ fcb'.delay = fcb.delay /\ fcb'.wild = fcb.wild
<1>1. fcb \in FlagBlocks /\ fcb.auto \subseteq fcb.active
  BY DEF IInv, TypeOK
<1>2. QED
  BY <1>1 DEF FlagBlocks

LEMMA TakeFacts ==
  ASSUME IInv, NEW spring, Take(spring)
  PROVE  /\ fcb' \in FlagBlocks /\ fcb'.auto \subseteq fcb'.active
         /\ fcb'.list = fcb.list /\ fcb'.pnode = fcb.pnode
         /\ fcb'.delay = fcb.delay /\ fcb'.wild = fcb.wild
<1> DEFINE rdy == fcb.rdy \ (spring \cap fcb.auto)
<1>1. fcb \in FlagBlocks
  BY DEF IInv, TypeOK
<1>2. rdy \in SUBSET Flags /\ fcb' = [fcb EXCEPT !.rdy = rdy]
  BY <1>1 DEF Take, FlagBlocks
<1> HIDE DEF rdy
<1>3. QED
  BY <1>2, WordOnly

\* A call that ends.
LEMMA ReturnStep ==
  ASSUME IInv, NEW t \in Tasks, pc[t] # "blocked", Return(t),
         fcb' \in FlagBlocks, fcb'.auto \subseteq fcb'.active,
         fcb'.list = fcb.list, fcb'.pnode = fcb.pnode, fcb'.delay = fcb.delay,
         fcb'.wild = fcb.wild,
         why' = why, load' = load
  PROVE  IInv'
<1>1. NoCall \in FlagCalls \cup {NoCall} /\ NoCall.op = OpOf("user")
      /\ "user" \in Labels /\ "user" # "blocked"
  BY DEF NoCall, OpOf, Labels
<1>2. /\ pc' = [pc EXCEPT ![t] = "user"] /\ call' = [call EXCEPT ![t] = NoCall]
      /\ reg' \in [Tasks -> SUBSET Flags]
  BY AtFacts DEF Return
<1>3. QED
  BY <1>1, <1>2, QuietStep

\* A call that goes on to another control point of its function.
LEMMA GotoStep ==
  ASSUME IInv, NEW t \in Tasks, pc[t] # "blocked", NEW l \in Labels, l # "blocked",
         Goto(t, l), OpOf(l) = OpOf(pc[t]), call' = call,
         fcb' \in FlagBlocks, fcb'.auto \subseteq fcb'.active,
         fcb'.list = fcb.list, fcb'.pnode = fcb.pnode, fcb'.delay = fcb.delay,
         fcb'.wild = fcb.wild,
         reg' \in [Tasks -> SUBSET Flags], why' = why, load' = load
  PROVE  IInv'
<1>1. /\ call[t] \in FlagCalls \cup {NoCall} /\ call[t].op = OpOf(pc[t])
      /\ call \in [Tasks -> FlagCalls \cup {NoCall}]
  BY AtFacts
<1>2. pc' = [pc EXCEPT ![t] = l] /\ call' = [call EXCEPT ![t] = call[t]]
  BY <1>1 DEF Goto
<1>3. call[t].op = OpOf(l)
  BY <1>1
<1> HIDE DEF Goto
<1>4. QED
  BY <1>1, <1>2, <1>3, QuietStep

LEMMA SameWord ==
  ASSUME IInv, fcb' = fcb
  PROVE  /\ fcb' \in FlagBlocks /\ fcb'.auto \subseteq fcb'.active
         /\ fcb'.list = fcb.list /\ fcb'.pnode = fcb.pnode
         /\ fcb'.delay = fcb.delay /\ fcb'.wild = fcb.wild
BY DEF IInv, TypeOK

LEMMA CallStep ==
  ASSUME IInv, NEW t \in Tasks, Call(t), load' = load
  PROVE  IInv'
<1>1. PICK c \in load.calls[t] :
        call' = [call EXCEPT ![t] = c] /\ pc' = [pc EXCEPT ![t] = c.op]
  BY DEF Call, Goto
<1>2. /\ pc[t] = "user" /\ fcb' = fcb /\ reg' = reg /\ why' = why
  BY DEF Call, At
<1>3. c \in FlagCalls
  <2>1. load.calls \in [Tasks -> SUBSET FlagCalls]
    BY AtFacts, LoadAssumption
  <2>2. QED
    BY <2>1
<1>4. c.op \in Labels /\ c.op # "blocked" /\ c.op = OpOf(c.op)
  BY <1>3, CallFacts DEF Labels, OpOf
<1>5. reg' \in [Tasks -> SUBSET Flags]
  BY <1>2, AtFacts
<1>6. QED
  BY <1>1, <1>2, <1>3, <1>4, <1>5, SameWord, QuietStep

LEMMA CreateStep ==
  ASSUME IInv, NEW t \in Tasks, CoCreateFlag(t), load' = load
  PROVE  IInv'
<1> DEFINE free == Flags \ fcb.active
           i == Min(free)
           Bit(b) == IF b THEN {i} ELSE {}
           a == fcb.active \cup {i}
           r == fcb.rdy \cup Bit(call[t].initial)
           u == fcb.auto \cup Bit(call[t].auto)
<1>1. pc[t] = "CoCreateFlag" /\ Return(t) /\ why' = why
  BY DEF CoCreateFlag, At
<1>2. CASE free = {}
  <2>1. fcb' = fcb
    BY <1>2 DEF CoCreateFlag
  <2>2. QED
    BY <1>1, <2>1, AtFacts, SameWord, ReturnStep
<1>3. CASE free # {}
  <2>1. i \in free
    <3>1. free \in SUBSET Nat
      BY LoadAssumption DEF Flags
    <3> HIDE DEF free
    <3>2. QED
      BY <1>3, <3>1, MinNat
  <2>2. fcb' = [fcb EXCEPT !.active = a, !.rdy = r, !.auto = u]
    BY <1>3, AtFacts DEF CoCreateFlag, FlagBlocks
  <2>4. a \in SUBSET Flags /\ r \in SUBSET Flags /\ u \in SUBSET a
    BY <2>1, AtFacts
  <2> HIDE DEF a, r, u
  <2>5. /\ fcb' \in FlagBlocks /\ fcb'.auto \subseteq fcb'.active
    BY <2>2, <2>4, AtFacts DEF FlagBlocks
  <2>6. /\ fcb'.list = fcb.list /\ fcb'.pnode = fcb.pnode
        /\ fcb'.delay = fcb.delay /\ fcb'.wild = fcb.wild
    BY <2>2, AtFacts DEF FlagBlocks
  <2>7. QED
    BY <1>1, <2>5, <2>6, ReturnStep
<1>4. QED
  BY <1>2, <1>3

LEMMA AcceptStep ==
  ASSUME IInv, NEW t \in Tasks, AcceptLook(t) \/ AcceptTake(t), load' = load
  PROVE  IInv'
<1>1. CASE AcceptLook(t)
  <2>1. pc[t] = "CoAcceptFlags" /\ fcb' = fcb /\ why' = why
    BY <1>1 DEF AcceptLook, At
  <2>2. CASE ~Met(call[t], fcb.rdy)
    <3>1. Return(t)
      BY <1>1, <2>2 DEF AcceptLook
    <3>2. QED
      BY <2>1, <3>1, AtFacts, SameWord, ReturnStep
  <2>3. CASE Met(call[t], fcb.rdy)
    <3>1. /\ reg' = [reg EXCEPT ![t] = call[t].flags \cap fcb.rdy]
          /\ Goto(t, "accepted") /\ call' = call
      BY <1>1, <2>3 DEF AcceptLook
    <3>2. reg' \in [Tasks -> SUBSET Flags]
      BY <2>1, <3>1, AtFacts
    <3>3. OpOf("accepted") = OpOf(pc[t]) /\ "accepted" \in Labels
      BY <2>1 DEF OpOf, Labels
    <3>4. QED
      BY <2>1, <3>1, <3>2, <3>3, SameWord, GotoStep
  <2>4. QED
    BY <2>2, <2>3
<1>2. CASE AcceptTake(t)
  <2>1. pc[t] = "accepted" /\ Take(reg[t]) /\ Return(t) /\ why' = why
    BY <1>2 DEF AcceptTake, At
  <2>2. QED
    BY <2>1, TakeFacts, ReturnStep
<1>3. QED
  BY <1>1, <1>2

\* The steps of CoSetFlag and CoClearFlag outside the lock.
LEMMA WordStep ==
  ASSUME IInv, NEW t \in Tasks, load' = load,
         SetTest(t) \/ LoadRdy(t) \/ SetStore(t) \/ ClearStore(t)
  PROVE  IInv'
<1>1. CASE SetTest(t)
  <2>1. pc[t] = "CoSetFlag" /\ fcb' = fcb /\ why' = why
    BY <1>1 DEF SetTest, At
  <2>2. CASE call[t].flags \subseteq fcb.rdy
    <3>1. Return(t)
      BY <1>1, <2>2 DEF SetTest
    <3>2. QED
      BY <2>1, <3>1, AtFacts, SameWord, ReturnStep
  <2>3. CASE ~(call[t].flags \subseteq fcb.rdy)
    <3>1. Goto(t, "load") /\ call' = call /\ reg' = reg
      BY <1>1, <2>3 DEF SetTest
    <3>2. OpOf("load") = OpOf(pc[t]) /\ "load" \in Labels
      BY <2>1 DEF OpOf, Labels
    <3>3. reg' \in [Tasks -> SUBSET Flags]
      BY <2>1, <3>1, AtFacts
    <3>4. QED
      BY <2>1, <3>1, <3>2, <3>3, SameWord, GotoStep
  <2>4. QED
    BY <2>2, <2>3
<1>2. CASE LoadRdy(t)
  <2> DEFINE l == IF pc[t] = "load" THEN "store" ELSE "clear"
  <2>1. /\ pc[t] \in {"load", "CoClearFlag"} /\ Goto(t, l)
        /\ fcb' = fcb /\ why' = why /\ call' = call
        /\ reg' = [reg EXCEPT ![t] = fcb.rdy]
    BY <1>2 DEF LoadRdy, At
  <2>2. OpOf(l) = OpOf(pc[t]) /\ l \in Labels /\ l # "blocked"
    BY <2>1 DEF OpOf, Labels
  <2>3. reg' \in [Tasks -> SUBSET Flags]
    BY <2>1, AtFacts
  <2> HIDE DEF l
  <2>4. QED
    BY <2>1, <2>2, <2>3, SameWord, GotoStep
<1>3. CASE SetStore(t)
  <2> DEFINE rdy == reg[t] \cup call[t].flags
  <2>1. /\ pc[t] = "store" /\ fcb' = [fcb EXCEPT !.rdy = rdy]
        /\ Goto(t, "walk") /\ call' = call /\ reg' = reg /\ why' = why
    BY <1>3 DEF SetStore, At
  <2>2. rdy \in SUBSET Flags
    BY <2>1, AtFacts
  <2>3. reg' \in [Tasks -> SUBSET Flags]
    BY <2>1, AtFacts
  <2>4. OpOf("walk") = OpOf(pc[t]) /\ "walk" \in Labels
    BY <2>1 DEF OpOf, Labels
  <2> HIDE DEF rdy
  <2>5. QED
    BY <2>1, <2>2, <2>3, <2>4, WordOnly, GotoStep
<1>4. CASE ClearStore(t)
  <2> DEFINE rdy == reg[t] \ call[t].flags
  <2>1. /\ pc[t] = "clear" /\ fcb' = [fcb EXCEPT !.rdy = rdy]
        /\ Return(t) /\ why' = why
    BY <1>4 DEF ClearStore, At
  <2>2. rdy \in SUBSET Flags
    <3>1. reg[t] \in SUBSET Flags
      BY AtFacts
    <3>2. QED
      BY <3>1
  <2> HIDE DEF rdy
  <2>3. QED
    BY <2>1, <2>2, WordOnly, ReturnStep
<1>5. QED
  BY <1>1, <1>2, <1>3, <1>4

\* Tasks ts leave the list s that this step finds, and learn why.
LEMMA WakeCallers ==
  ASSUME IInv, NEW s, Links(s), s.pnode = fcb.pnode, s.delay = fcb.delay,
         \A n \in 1 .. Len(s.list) :
           s.list[n].flags \subseteq call[s.list[n].task].flags,
         NEW ts \in SUBSET TasksOf(s.list), NEW v \in {"null", "woken"}, NEW w,
         \A u \in ts : v = "null" <=> w[u] = "timeout",
         \A u \in Tasks \ ts :
           pc[u] = "blocked" /\ fcb.pnode[u] # "node" =>
             (fcb.pnode[u] = "null" <=> w[u] = "timeout")
  PROVE  /\ Links(Unlinked(s, ts, v))
         /\ Callers(Unlinked(s, ts, v), pc, call, w)
<1> DEFINE r == Unlinked(s, ts, v)
<1>0. Shorter(r, s, ts, v)
  BY UnlinkedLinks
<1> HIDE DEF r
<1>1. /\ Links(r)
      /\ r.pnode = [t \in Tasks |-> IF t \in ts THEN v ELSE s.pnode[t]]
      /\ \A t \in Tasks : r.delay[t] => s.delay[t]
      /\ \A m \in 1 .. Len(r.list) :
           \E n \in 1 .. Len(s.list) : r.list[m] = s.list[n]
  BY <1>0 DEF Shorter
<1>2. Callers(fcb, pc, call, why)
  BY DEF IInv
<1>3. \A n \in 1 .. Len(r.list) :
        r.list[n].flags \subseteq call[r.list[n].task].flags
  BY <1>1
<1>4. ASSUME NEW u \in Tasks
      PROVE  /\ call[u].op = OpOf(pc[u])
             /\ r.pnode[u] # "null" => pc[u] = "blocked"
             /\ r.delay[u] => call[u].timed
             /\ pc[u] = "blocked" /\ r.pnode[u] # "node" =>
                  (r.pnode[u] = "null" <=> w[u] = "timeout")
  <2>1. call[u].op = OpOf(pc[u]) /\ (r.delay[u] => call[u].timed)
    BY <1>1, <1>2 DEF Callers
  <2>2. CASE u \in ts
    <3>1. s.pnode[u] = "node"
      BY <2>2 DEF Links
    <3>2. pc[u] = "blocked"
      BY <1>2, <3>1 DEF Callers
    <3>3. r.pnode[u] = v
      BY <1>1, <2>2
    <3>4. QED
      BY <2>1, <2>2, <3>2, <3>3
  <2>3. CASE u \notin ts
    <3>1. r.pnode[u] = fcb.pnode[u]
      BY <1>1, <2>3
    <3>2. fcb.pnode[u] # "null" => pc[u] = "blocked"
      BY <1>2 DEF Callers
    <3>3. QED
      BY <2>1, <2>3, <3>1, <3>2
  <2>4. QED
    BY <2>2, <2>3
<1>5. Callers(r, pc, call, w)
  BY <1>3, <1>4 DEF Callers
<1>6. QED
  BY <1>1, <1>5 DEF r

\* The task that woke them, or that ends its own wait, returns.
LEMMA CallersReturn ==
  ASSUME NEW s, Links(s), NEW w, Callers(s, pc, call, w), NEW t \in Tasks,
         s.pnode[t] = "null", Return(t),
         pc \in [Tasks -> Labels], call \in [Tasks -> FlagCalls \cup {NoCall}]
  PROVE  Callers(s, pc', call', w)
<1>1. /\ pc' = [pc EXCEPT ![t] = "user"] /\ call' = [call EXCEPT ![t] = NoCall]
  BY DEF Return
<1>2. NoCall.op = OpOf("user")
  BY DEF NoCall, OpOf
<1>3. t \notin TasksOf(s.list) /\ ~s.delay[t]
  BY DEF Links
<1>4. ASSUME NEW n \in 1 .. Len(s.list)
      PROVE  s.list[n].flags \subseteq call'[s.list[n].task].flags
  <2>1. s.list \in Seq(Nodes)
    BY DEF Links, FlagBlocks
  <2>2. s.list[n].task # t /\ s.list[n].task \in Tasks
    BY <1>3, <2>1, NodeFacts
  <2>3. call'[s.list[n].task] = call[s.list[n].task]
    BY <1>1, <2>2
  <2>4. QED
    BY <2>3 DEF Callers
<1>5. ASSUME NEW u \in Tasks
      PROVE  /\ call'[u].op = OpOf(pc'[u])
             /\ s.pnode[u] # "null" => pc'[u] = "blocked"
             /\ s.delay[u] => call'[u].timed
             /\ pc'[u] = "blocked" /\ s.pnode[u] # "node" =>
                  (s.pnode[u] = "null" <=> w[u] = "timeout")
  <2>1. CASE u = t
    <3>1. pc'[u] = "user" /\ call'[u] = NoCall
      BY <1>1, <2>1
    <3>2. QED
      BY <1>2, <1>3, <2>1, <3>1
  <2>2. CASE u # t
    <3>1. pc'[u] = pc[u] /\ call'[u] = call[u]
      BY <1>1, <2>2
    <3>2. QED
      BY <3>1 DEF Callers
  <2>3. QED
    BY <2>1, <2>2
<1>6. QED
  BY <1>4, <1>5 DEF Callers

LEMMA ReturnTypes ==
  ASSUME IInv, NEW t \in Tasks, Return(t)
  PROVE  /\ pc' \in [Tasks -> Labels] /\ call' \in [Tasks -> FlagCalls \cup {NoCall}]
         /\ reg' \in [Tasks -> SUBSET Flags]
BY AtFacts DEF Return, Labels

\* The walk of CoSetFlag wakes tasks of the list.
LEMMA WokenWaits ==
  ASSUME NEW s, Links(s), NEW i
  PROVE  Woken(s, i) \in SUBSET TasksOf(s.list)
<1> DEFINE fits == {n \in 1 .. Len(s.list) : Met(s.list[n], s.rdy)}
           hit == IF i \in s.auto /\ fits # {} THEN {Min(fits)} ELSE fits
<1>1. hit \subseteq fits
  <2>1. fits \in SUBSET Nat
    OBVIOUS
  <2> HIDE DEF fits
  <2>2. QED
    BY <2>1, MinNat
<1>2. Woken(s, i) = {s.list[n].task : n \in hit}
  BY DEF Woken
<1>3. hit \subseteq 1 .. Len(s.list)
  BY <1>1
<1> HIDE DEF hit
<1>4. QED
  BY <1>2, <1>3 DEF TasksOf

LEMMA WalkedFacts ==
  ASSUME IInv, NEW s, Links(s), s.pnode = fcb.pnode, s.delay = fcb.delay,
         s.list = fcb.list, NEW i, Walked(s, i)
  PROVE  /\ Links(fcb') /\ Callers(fcb', pc, call, why')
         /\ why' \in [Tasks -> {"none", "set", "deleted", "timeout"}]
         /\ \A t \in Tasks : fcb.pnode[t] = "null" => fcb'.pnode[t] = "null"
<1> DEFINE ts == Woken(s, i)
<1>1. /\ fcb' = RemoveFromLink(s, ts)
      /\ why' = [u \in Tasks |-> IF u \in ts THEN "set" ELSE why[u]]
  BY DEF Walked
<1>2. ts \in SUBSET TasksOf(s.list)
  BY WokenWaits
<1> HIDE DEF ts
<1>3. fcb' = Unlinked(s, ts, "woken")
  BY <1>1, UnlinkedBy
<1>4. why \in [Tasks -> {"none", "set", "deleted", "timeout"}]
      /\ Callers(fcb, pc, call, why)
  BY DEF IInv, TypeOK
<1>5. why' \in [Tasks -> {"none", "set", "deleted", "timeout"}]
  BY <1>1, <1>4
<1>6. ts \subseteq Tasks
  <2>1. s.list \in Seq(Nodes)
    BY DEF Links, FlagBlocks
  <2>2. QED
    BY <1>2, <2>1, NodeFacts DEF TasksOf
<1>7. \A u \in ts : "woken" = "null" <=> why'[u] = "timeout"
  BY <1>1, <1>6
<1>8. \A u \in Tasks \ ts :
        pc[u] = "blocked" /\ fcb.pnode[u] # "node" =>
          (fcb.pnode[u] = "null" <=> why'[u] = "timeout")
  BY <1>1, <1>4 DEF Callers
<1>9. \A n \in 1 .. Len(s.list) :
        s.list[n].flags \subseteq call[s.list[n].task].flags
  BY <1>4 DEF Callers
<1>10. Links(fcb') /\ Callers(fcb', pc, call, why')
  BY <1>2, <1>3, <1>7, <1>8, <1>9, WakeCallers
<1>11. fcb'.pnode = [t \in Tasks |-> IF t \in ts THEN "woken" ELSE s.pnode[t]]
  <2>1. Shorter(fcb', s, ts, "woken")
    BY <1>2, <1>3, UnlinkedLinks
  <2>2. QED
    BY <2>1 DEF Shorter
<1>12. \A t \in Tasks : fcb.pnode[t] = "null" => fcb'.pnode[t] = "null"
  BY <1>2, <1>11 DEF Links
<1>13. QED
  BY <1>5, <1>10, <1>12

LEMMA WalkStep ==
  ASSUME IInv, NEW t \in Tasks, SetWalk(t), load' = load
  PROVE  IInv'
<1>1. pc[t] = "walk" /\ Walked(fcb, Id(t)) /\ Return(t)
  BY DEF SetWalk, At
<1>2. /\ Links(fcb') /\ Callers(fcb', pc, call, why')
      /\ why' \in [Tasks -> {"none", "set", "deleted", "timeout"}]
      /\ \A u \in Tasks : fcb.pnode[u] = "null" => fcb'.pnode[u] = "null"
  BY <1>1, WalkedFacts DEF IInv
<1>3. fcb'.pnode[t] = "null"
  BY <1>1, <1>2 DEF IInv, Callers
<1>4. Callers(fcb', pc', call', why')
  BY <1>1, <1>2, <1>3, AtFacts, CallersReturn
<1>5. TypeOK'
  BY <1>1, <1>2, AtFacts, ReturnTypes DEF TypeOK, Links
<1>6. QED
  BY <1>2, <1>4, <1>5 DEF IInv

LEMMA IsrStep ==
  ASSUME IInv, NEW i \in load.isr, isr_SetFlag(i), load' = load
  PROVE  IInv'
<1> DEFINE rdy == fcb.rdy \cup {i}
           s == [fcb EXCEPT !.rdy = rdy]
<1>1. /\ fcb \in FlagBlocks /\ Links(fcb) /\ load \in Loads
  BY DEF IInv, TypeOK
<1>2. i \in Flags
  BY <1>1, LoadAssumption
<1>3. Walked(s, i) /\ pc' = pc /\ call' = call /\ reg' = reg
  BY <1>1 DEF isr_SetFlag, FlagBlocks
<1>4. rdy \in SUBSET Flags
  BY <1>1, <1>2 DEF FlagBlocks
<1> HIDE DEF rdy
<1>5. /\ s \in FlagBlocks /\ s.pnode = fcb.pnode /\ s.delay = fcb.delay
      /\ s.list = fcb.list /\ s.wild = fcb.wild /\ s.auto = fcb.auto
      /\ s.active = fcb.active
  BY <1>1, <1>4 DEF FlagBlocks
<1> HIDE DEF s
<1>6. Links(s)
  BY <1>1, <1>5 DEF Links
<1>7. /\ Links(fcb') /\ Callers(fcb', pc, call, why')
      /\ why' \in [Tasks -> {"none", "set", "deleted", "timeout"}]
  BY <1>3, <1>5, <1>6, WalkedFacts
<1>8. TypeOK'
  BY <1>3, <1>7 DEF IInv, TypeOK, Links
<1>9. QED
  BY <1>3, <1>7, <1>8 DEF IInv

LEMMA TimeoutStep ==
  ASSUME IInv, NEW t \in Tasks, Timeout(t), load' = load
  PROVE  IInv'
<1>1. /\ fcb.delay[t] /\ fcb' = TimeDispose(fcb, t)
      /\ why' = [why EXCEPT ![t] = "timeout"]
      /\ pc' = pc /\ call' = call /\ reg' = reg
  BY DEF Timeout
<1>2. /\ Links(fcb) /\ Callers(fcb, pc, call, why)
      /\ why \in [Tasks -> {"none", "set", "deleted", "timeout"}]
  BY DEF IInv, TypeOK
<1>3. t \in TasksOf(fcb.list)
  BY <1>1, <1>2 DEF Links
<1>4. fcb' = Unlinked(fcb, {t}, "null")
  BY <1>1, <1>2, <1>3, UnlinkedBy
<1>5. why' \in [Tasks -> {"none", "set", "deleted", "timeout"}]
  BY <1>1, <1>2
<1>6. \A u \in {t} : "null" = "null" <=> why'[u] = "timeout"
  BY <1>1, <1>2
<1>7. \A u \in Tasks \ {t} :
        pc[u] = "blocked" /\ fcb.pnode[u] # "node" =>
          (fcb.pnode[u] = "null" <=> why'[u] = "timeout")
  BY <1>1, <1>2 DEF Callers
<1>8. \A n \in 1 .. Len(fcb.list) :
        fcb.list[n].flags \subseteq call[fcb.list[n].task].flags
  BY <1>2 DEF Callers
<1>9. Links(fcb') /\ Callers(fcb', pc, call, why')
  BY <1>2, <1>3, <1>4, <1>6, <1>7, <1>8, WakeCallers
<1>10. TypeOK'
  BY <1>1, <1>5, <1>9 DEF IInv, TypeOK, Links
<1>11. QED
  BY <1>1, <1>9, <1>10 DEF IInv

\* A task that finds its flags missing joins the end of the list.
LEMMA BlockStep ==
  ASSUME IInv, NEW t \in Tasks, pc[t] = "CoWaitForFlags", Goto(t, "blocked"),
         fcb' = FlagBlock(fcb, t, call[t]), UNCHANGED <<call, reg, why, load>>
  PROVE  IInv'
<1> DEFINE c == call[t]
           node == [task |-> t, flags |-> c.flags, type |-> c.type]
           list == Append(fcb.list, node)
           pnode == [fcb.pnode EXCEPT ![t] = "node"]
           delay == [fcb.delay EXCEPT ![t] = c.timed]
<1>1. /\ fcb \in FlagBlocks /\ Links(fcb) /\ Callers(fcb, pc, call, why)
      /\ fcb.list \in Seq(Nodes) /\ fcb.delay \in [Tasks -> BOOLEAN]
      /\ fcb.pnode \in [Tasks -> {"null", "node", "woken"}]
      /\ pc \in [Tasks -> Labels]
  BY DEF IInv, TypeOK, FlagBlocks
<1>2. node \in Nodes /\ c.timed \in BOOLEAN
  <2>1. c.op = "CoWaitForFlags" /\ c \in FlagCalls \cup {NoCall}
    BY AtFacts DEF OpOf
  <2>2. c.flags \in SUBSET Flags /\ c.type \in Types /\ c.timed \in BOOLEAN
    BY <2>1, CallFacts
  <2> HIDE DEF c
  <2>3. QED
    BY <2>2 DEF Nodes
<1>3. fcb' = [fcb EXCEPT !.list = list, !.pnode = pnode, !.delay = delay]
  BY <1>1 DEF FlagBlock, FlagBlocks
<1>4. fcb.pnode[t] = "null" /\ t \notin TasksOf(fcb.list)
  BY <1>1 DEF Callers, Links
<1>5. /\ list \in Seq(Nodes) /\ Len(list) = Len(fcb.list) + 1
      /\ Len(fcb.list) \in Nat /\ list[Len(fcb.list) + 1] = node
      /\ \A n \in 1 .. Len(fcb.list) : list[n] = fcb.list[n]
  <2> HIDE DEF node
  <2>1. QED
    BY <1>1, <1>2
<1>6. /\ \A n \in 1 .. Len(list) : n \in 1 .. Len(fcb.list) \/ n = Len(fcb.list) + 1
      /\ \A n \in 1 .. Len(fcb.list) : n \in 1 .. Len(list)
      /\ Len(fcb.list) + 1 \in 1 .. Len(list)
  <2> HIDE DEF list
  <2>1. QED
    BY <1>5
<1>7. node.task = t /\ node.flags = c.flags
  OBVIOUS
<1> HIDE DEF list, node
<1>8. TasksOf(list) = TasksOf(fcb.list) \cup {t}
  <2>1. \A n \in 1 .. Len(list) : list[n].task \in TasksOf(fcb.list) \cup {t}
    BY <1>5, <1>6, <1>7 DEF TasksOf
  <2>2. \A n \in 1 .. Len(fcb.list) : fcb.list[n].task \in TasksOf(list)
    BY <1>5, <1>6 DEF TasksOf
  <2>3. t \in TasksOf(list)
    BY <1>5, <1>6, <1>7 DEF TasksOf
  <2>4. QED
    BY <2>1, <2>2, <2>3 DEF TasksOf
<1>9. \A m, n \in 1 .. Len(list) : list[m].task = list[n].task => m = n
  <2>1. \A m \in 1 .. Len(fcb.list) : list[m].task # t
    BY <1>4, <1>5 DEF TasksOf
  <2>2. \A m, n \in 1 .. Len(fcb.list) : list[m].task = list[n].task => m = n
    BY <1>1, <1>5 DEF Links
  <2>3. QED
    BY <1>5, <1>6, <1>7, <2>1, <2>2
<1>10. /\ pnode \in [Tasks -> {"null", "node", "woken"}]
       /\ delay \in [Tasks -> BOOLEAN] /\ pnode[t] = "node"
       /\ delay[t] = c.timed
       /\ \A u \in Tasks \ {t} : pnode[u] = fcb.pnode[u] /\ delay[u] = fcb.delay[u]
  <2> HIDE DEF c
  <2>1. QED
    BY <1>1, <1>2
<1> HIDE DEF pnode, delay
<1>11. /\ fcb' \in FlagBlocks
  BY <1>1, <1>3, <1>5, <1>10 DEF FlagBlocks
<1>12. /\ fcb'.list = list /\ fcb'.pnode = pnode /\ fcb'.delay = delay
       /\ fcb'.wild = fcb.wild /\ fcb'.auto = fcb.auto
       /\ fcb'.active = fcb.active
  BY <1>1, <1>3 DEF FlagBlocks
<1>13. Links(fcb')
  <2>1. \A u \in Tasks : /\ u \in TasksOf(list) <=> pnode[u] = "node"
                         /\ delay[u] => u \in TasksOf(list)
    BY <1>1, <1>8, <1>10 DEF Links
  <2>2. QED
    BY <1>1, <1>9, <1>11, <1>12, <2>1 DEF Links
<1>14. pc' = [pc EXCEPT ![t] = "blocked"] /\ pc' \in [Tasks -> Labels]
  BY <1>1 DEF Goto, Labels
<1>15. ASSUME NEW u \in Tasks
       PROVE  /\ call[u].op = OpOf(pc'[u])
              /\ pnode[u] # "null" => pc'[u] = "blocked"
              /\ delay[u] => call[u].timed
              /\ pc'[u] = "blocked" /\ pnode[u] # "node" =>
                   (pnode[u] = "null" <=> why[u] = "timeout")
  <2>1. CASE u = t
    <3>1. pc'[u] = "blocked" /\ pnode[u] = "node" /\ delay[u] = call[u].timed
      BY <1>1, <1>10, <1>14, <2>1
    <3>2. call[u].op = OpOf("blocked")
      BY <2>1, AtFacts DEF OpOf
    <3>3. QED
      BY <3>1, <3>2
  <2>2. CASE u # t
    <3>1. pc'[u] = pc[u] /\ pnode[u] = fcb.pnode[u] /\ delay[u] = fcb.delay[u]
      BY <1>1, <1>10, <1>14, <2>2
    <3>2. QED
      BY <1>1, <3>1 DEF Callers
  <2>3. QED
    BY <2>1, <2>2
<1>16. ASSUME NEW n \in 1 .. Len(list)
       PROVE  list[n].flags \subseteq call[list[n].task].flags
  <2>1. CASE n \in 1 .. Len(fcb.list)
    BY <1>1, <1>5, <2>1 DEF Callers
  <2>2. CASE n = Len(fcb.list) + 1
    BY <1>5, <1>7, <2>2
  <2>3. QED
    BY <1>6, <2>1, <2>2
<1>17. Callers(fcb', pc', call', why')
  BY <1>12, <1>15, <1>16 DEF Callers
<1>18. TypeOK'
  BY <1>11, <1>12, <1>14 DEF IInv, TypeOK
<1>19. QED
  BY <1>13, <1>17, <1>18 DEF IInv

\* A task that runs again after its wait takes notice of its pnode.
LEMMA ResumeStep ==
  ASSUME IInv, NEW t \in Tasks, WaitResumed(t), load' = load
  PROVE  IInv'
<1> DEFINE pnode == [fcb.pnode EXCEPT ![t] = "null"]
<1>1. /\ fcb \in FlagBlocks /\ Links(fcb) /\ Callers(fcb, pc, call, why)
      /\ fcb.pnode \in [Tasks -> {"null", "node", "woken"}]
      /\ pc \in [Tasks -> Labels] /\ call \in [Tasks -> FlagCalls \cup {NoCall}]
      /\ reg \in [Tasks -> SUBSET Flags]
  BY DEF IInv, TypeOK, FlagBlocks
<1>2. /\ pc[t] = "blocked" /\ t \notin TasksOf(fcb.list)
      /\ why' = why /\ fcb' = [fcb EXCEPT !.pnode[t] = "null"]
      /\ Return(t) \/ (Goto(t, "consume") /\ call' = call /\ reg' = reg)
  BY SleepersAre DEF WaitResumed, At, Runs
<1>3. fcb' = [fcb EXCEPT !.pnode = pnode]
  BY <1>1, <1>2 DEF FlagBlocks
<1>4. /\ pnode \in [Tasks -> {"null", "node", "woken"}] /\ pnode[t] = "null"
      /\ \A u \in Tasks \ {t} : pnode[u] = fcb.pnode[u]
  BY <1>1
<1> HIDE DEF pnode
<1>5. /\ fcb' \in FlagBlocks /\ fcb'.pnode = pnode /\ fcb'.list = fcb.list
      /\ fcb'.delay = fcb.delay /\ fcb'.wild = fcb.wild
      /\ fcb'.auto = fcb.auto /\ fcb'.active = fcb.active
  BY <1>1, <1>3, <1>4 DEF FlagBlocks
<1>6. ~fcb.delay[t]
  BY <1>1, <1>2 DEF Links
<1>7. Links(fcb')
  <2>1. \A u \in Tasks : u \in TasksOf(fcb.list) <=> pnode[u] = "node"
    BY <1>1, <1>2, <1>4 DEF Links
  <2>2. QED
    BY <1>1, <1>5, <2>1 DEF Links
<1>8. \A u \in Tasks \ {t} :
        /\ call[u].op = OpOf(pc[u])
        /\ fcb'.pnode[u] # "null" => pc[u] = "blocked"
        /\ fcb'.delay[u] => call[u].timed
        /\ pc[u] = "blocked" /\ fcb'.pnode[u] # "node" =>
             (fcb'.pnode[u] = "null" <=> why[u] = "timeout")
  BY <1>1, <1>4, <1>5 DEF Callers
<1>9. PICK l \in {"user", "consume"} : pc' = [pc EXCEPT ![t] = l]
  BY <1>2 DEF Return, Goto
<1>10. /\ call' \in [Tasks -> FlagCalls \cup {NoCall}] /\ call'[t].op = OpOf(l)
       /\ \A u \in Tasks \ {t} : call'[u] = call[u]
       /\ reg' \in [Tasks -> SUBSET Flags]
  <2>1. CASE Return(t)
    <3>1. pc'[t] = "user" /\ call' = [call EXCEPT ![t] = NoCall]
          /\ reg' = [reg EXCEPT ![t] = {}]
      BY <1>1, <2>1 DEF Return
    <3>2. l = "user"
      BY <1>1, <1>9, <3>1
    <3>3. NoCall.op = OpOf("user")
      BY DEF NoCall, OpOf
    <3>4. QED
      BY <1>1, <3>1, <3>2, <3>3
  <2>2. CASE Goto(t, "consume") /\ call' = call /\ reg' = reg
    <3>1. pc'[t] = "consume"
      BY <1>1, <2>2 DEF Goto
    <3>2. l = "consume"
      BY <1>1, <1>9, <3>1
    <3>3. call[t].op = OpOf("consume")
      BY <1>2, AtFacts DEF OpOf
    <3>4. QED
      BY <1>1, <2>2, <3>2, <3>3
  <2>3. QED
    BY <1>2, <2>1, <2>2
<1>11. ASSUME NEW u \in Tasks
       PROVE  /\ call'[u].op = OpOf(pc'[u])
              /\ fcb'.pnode[u] # "null" => pc'[u] = "blocked"
              /\ fcb'.delay[u] => call'[u].timed
              /\ pc'[u] = "blocked" /\ fcb'.pnode[u] # "node" =>
                   (fcb'.pnode[u] = "null" <=> why[u] = "timeout")
  <2>1. CASE u = t
    <3>1. pc'[u] = l /\ l # "blocked" /\ fcb'.pnode[u] = "null" /\ ~fcb'.delay[u]
      BY <1>1, <1>4, <1>5, <1>6, <1>9, <2>1
    <3>2. QED
      BY <1>10, <2>1, <3>1
  <2>2. CASE u # t
    <3>1. pc'[u] = pc[u] /\ call'[u] = call[u]
      BY <1>1, <1>9, <1>10, <2>2
    <3>2. QED
      BY <1>8, <2>2, <3>1
  <2>3. QED
    BY <2>1, <2>2
<1>12. ASSUME NEW n \in 1 .. Len(fcb.list)
       PROVE  fcb.list[n].flags \subseteq call'[fcb.list[n].task].flags
  <2>1. fcb.list \in Seq(Nodes)
    BY <1>1 DEF FlagBlocks
  <2>2. fcb.list[n].task \in Tasks \ {t}
    BY <1>2, <2>1, NodeFacts
  <2>3. QED
    BY <1>1, <1>10, <2>2 DEF Callers
<1>13. Callers(fcb', pc', call', why')
  BY <1>2, <1>5, <1>11, <1>12 DEF Callers
<1>14. TypeOK'
  <2>1. pc' \in [Tasks -> Labels]
    BY <1>1, <1>9 DEF Labels
  <2>2. QED
    BY <1>2, <1>5, <1>10, <2>1 DEF IInv, TypeOK
<1>15. QED
  BY <1>7, <1>13, <1>14 DEF IInv

LEMMA WaitStep ==
  ASSUME IInv, NEW t \in Tasks, CoWaitForFlags(t) \/ WaitConsume(t), load' = load
  PROVE  IInv'
<1>1. CASE CoWaitForFlags(t) /\ Met(call[t], fcb.rdy)
  <2>1. /\ pc[t] = "CoWaitForFlags" /\ Take(call[t].flags \cap fcb.rdy)
        /\ Return(t) /\ why' = why
    BY <1>1 DEF CoWaitForFlags, At
  <2>2. QED
    BY <2>1, TakeFacts, ReturnStep
<1>2. CASE CoWaitForFlags(t) /\ ~Met(call[t], fcb.rdy)
  <2>1. /\ pc[t] = "CoWaitForFlags" /\ fcb' = FlagBlock(fcb, t, call[t])
        /\ Goto(t, "blocked") /\ UNCHANGED <<call, reg, why>>
    BY <1>2 DEF CoWaitForFlags, At
  <2>2. QED
    BY <2>1, BlockStep
<1>3. CASE WaitConsume(t)
  <2>1. /\ pc[t] = "consume" /\ Take(call[t].flags \cap fcb.rdy)
        /\ Return(t) /\ why' = why
    BY <1>3 DEF WaitConsume, At
  <2>2. QED
    BY <2>1, TakeFacts, ReturnStep
<1>4. QED
  BY <1>1, <1>2, <1>3

\* Deleting a flag leaves every node its task, and the list a list.
Stripped(s, i) ==
  LET less == [n \in 1 .. Len(s.list) |-> [s.list[n] EXCEPT !.flags = @ \ {i}]]
  IN  [s EXCEPT !.list = less, !.active = @ \ {i}, !.rdy = @ \ {i},
                !.auto = @ \ {i}]

LEMMA StrippedLinks ==
  ASSUME NEW s, Links(s), NEW i
  PROVE  /\ Links(Stripped(s, i)) /\ Stripped(s, i).pnode = s.pnode
         /\ Stripped(s, i).delay = s.delay
         /\ Len(Stripped(s, i).list) = Len(s.list)
         /\ \A n \in 1 .. Len(s.list) :
              /\ Stripped(s, i).list[n].task = s.list[n].task
              /\ Stripped(s, i).list[n].flags = s.list[n].flags \ {i}
         /\ TasksOf(Stripped(s, i).list) = TasksOf(s.list)
<1> DEFINE less == [n \in 1 .. Len(s.list) |->
                      [s.list[n] EXCEPT !.flags = s.list[n].flags \ {i}]]
           a == s.active \ {i}
           r == s.rdy \ {i}
           u == s.auto \ {i}
           q == Stripped(s, i)
<1>1. /\ s \in FlagBlocks /\ s.list \in Seq(Nodes) /\ Len(s.list) \in Nat
      /\ s.active \in SUBSET Flags /\ s.rdy \in SUBSET Flags
      /\ s.auto \in SUBSET Flags /\ s.auto \subseteq s.active
      /\ \A n \in 1 .. Len(s.list) : s.list[n] \in Nodes
  BY DEF Links, FlagBlocks
<1>2. q = [s EXCEPT !.list = less, !.active = a, !.rdy = r, !.auto = u]
  BY <1>1 DEF Stripped, FlagBlocks
<1>3. a \in SUBSET Flags /\ r \in SUBSET Flags /\ u \in SUBSET Flags
      /\ u \subseteq a
  BY <1>1
<1>4. \A n \in 1 .. Len(s.list) :
        /\ less[n] \in Nodes /\ less[n].task = s.list[n].task
        /\ less[n].flags = s.list[n].flags \ {i}
  BY <1>1 DEF Nodes
<1>5. less \in Seq(Nodes) /\ Len(less) = Len(s.list)
  <2>1. less \in [1 .. Len(s.list) -> Nodes]
    BY <1>4
  <2> HIDE DEF less
  <2>2. QED
    BY <1>1, <2>1
<1> HIDE DEF less, a, r, u, q
<1>6. TasksOf(less) = TasksOf(s.list)
  BY <1>4, <1>5 DEF TasksOf
<1>7. q \in FlagBlocks
  BY <1>1, <1>2, <1>3, <1>5 DEF FlagBlocks
<1>8. /\ q.list = less /\ q.active = a /\ q.auto = u /\ q.pnode = s.pnode
      /\ q.delay = s.delay /\ q.wild = s.wild
  BY <1>1, <1>2 DEF FlagBlocks
<1>9. Links(q)
  BY <1>3, <1>4, <1>5, <1>6, <1>7, <1>8 DEF Links
<1>10. QED
  BY <1>4, <1>5, <1>6, <1>8, <1>9 DEF q

LEMMA DelStep ==
  ASSUME IInv, NEW t \in Tasks, CoDelFlag(t), load' = load
  PROVE  IInv'
<1> DEFINE i == Id(t)
           refused == /\ call[t].opt = "NO_PEND"
                      /\ \E n \in 1 .. Len(fcb.list) : i \in fcb.list[n].flags
           asks == {n \in 1 .. Len(fcb.list) : i \in fcb.list[n].flags}
           stay == {n \in asks : fcb.list[n].type = "ALL" /\ fcb.list[n].flags # {i}}
           freed == {fcb.list[n].task : n \in asks \ stay}
           s == Stripped(fcb, i)
<1>1. pc[t] = "CoDelFlag" /\ Return(t)
  BY DEF CoDelFlag, At
<1>2. CASE refused
  <2>1. fcb' = fcb /\ why' = why
    BY <1>2 DEF CoDelFlag
  <2>2. QED
    BY <1>1, <2>1, AtFacts, SameWord, ReturnStep
<1>3. CASE ~refused
  <2>1. /\ fcb' = Deleted(fcb, i)
        /\ why' = [u \in Tasks |->
                     IF Promised(u, fcb'.pnode) /\ i \in call[u].flags
                     THEN "deleted" ELSE why[u]]
    BY <1>3 DEF CoDelFlag
  <2>2. Deleted(fcb, i) = RemoveFromLink(s, freed)
    BY DEF Deleted, Stripped
  <2>3. i \in Flags
    <3>1. call[t].op = "CoDelFlag"
      BY <1>1, AtFacts DEF OpOf
    <3>2. QED
      BY <3>1, IdFacts
  <2>4. freed \in SUBSET TasksOf(fcb.list)
    BY DEF TasksOf
  <2>5. \A u \in freed :
          \E n \in 1 .. Len(fcb.list) : fcb.list[n].task = u /\ i \in fcb.list[n].flags
    OBVIOUS
  <2> HIDE DEF i, freed
  <2>6. /\ Links(fcb) /\ Callers(fcb, pc, call, why)
        /\ why \in [Tasks -> {"none", "set", "deleted", "timeout"}]
        /\ fcb.list \in Seq(Nodes)
    BY DEF IInv, TypeOK, FlagBlocks
  <2>7. /\ Links(s) /\ s.pnode = fcb.pnode /\ s.delay = fcb.delay
        /\ Len(s.list) = Len(fcb.list) /\ TasksOf(s.list) = TasksOf(fcb.list)
        /\ \A n \in 1 .. Len(fcb.list) :
             /\ s.list[n].task = fcb.list[n].task
             /\ s.list[n].flags = fcb.list[n].flags \ {i}
    BY <2>6, StrippedLinks
  <2> HIDE DEF s
  <2>8. fcb' = Unlinked(s, freed, "woken")
    BY <2>1, <2>2, <2>7, UnlinkedBy
  <2>9. \A n \in 1 .. Len(s.list) :
          s.list[n].flags \subseteq call[s.list[n].task].flags
    <3> SUFFICES ASSUME NEW n \in 1 .. Len(fcb.list)
                 PROVE  s.list[n].flags \subseteq call[s.list[n].task].flags
      BY <2>7
    <3>1. fcb.list[n].flags \subseteq call[fcb.list[n].task].flags
      BY <2>6 DEF Callers
    <3>2. QED
      BY <2>7, <3>1
  <2>10. fcb'.pnode = [u \in Tasks |-> IF u \in freed THEN "woken" ELSE fcb.pnode[u]]
    <3>1. Shorter(Unlinked(s, freed, "woken"), s, freed, "woken")
      BY <2>4, <2>7, UnlinkedLinks
    <3>2. Shorter(fcb', s, freed, "woken")
      BY <2>8, <3>1
    <3>3. QED
      BY <2>7, <3>2 DEF Shorter
  <2>11. ASSUME NEW u \in freed
         PROVE  u \in Tasks /\ fcb.pnode[u] = "node" /\ why'[u] = "deleted"
    <3>1. PICK n \in 1 .. Len(fcb.list) :
            fcb.list[n].task = u /\ i \in fcb.list[n].flags
      BY <2>5
    <3>2. u \in Tasks /\ u \in TasksOf(fcb.list)
      BY <2>6, <3>1, NodeFacts
    <3>3. fcb.pnode[u] = "node" /\ pc[u] = "blocked"
      BY <2>6, <3>2 DEF Links, Callers
    <3>4. i \in call[u].flags
      BY <2>6, <3>1 DEF Callers
    <3>5. Promised(u, fcb'.pnode)
      BY <2>10, <3>2, <3>3 DEF Promised
    <3>6. QED
      BY <2>1, <3>2, <3>3, <3>4, <3>5
  <2>12. \A u \in freed : "woken" = "null" <=> why'[u] = "timeout"
    BY <2>11
  <2>13. ASSUME NEW u \in Tasks \ freed, pc[u] = "blocked", fcb.pnode[u] # "node"
         PROVE  fcb.pnode[u] = "null" <=> why'[u] = "timeout"
    <3>1. fcb'.pnode[u] = fcb.pnode[u]
      BY <2>10
    <3>2. fcb.pnode[u] = "null" <=> why[u] = "timeout"
      BY <2>6, <2>13 DEF Callers
    <3>3. CASE fcb.pnode[u] = "null"
      <4>1. ~Promised(u, fcb'.pnode)
        BY <2>13, <3>1, <3>3 DEF Promised
      <4>2. why'[u] = why[u]
        BY <2>1, <4>1
      <4>3. QED
        BY <3>2, <4>2
    <3>4. CASE fcb.pnode[u] # "null"
      <4>1. why'[u] = "deleted" \/ why'[u] = why[u]
        BY <2>1
      <4>2. QED
        BY <3>2, <3>4, <4>1
    <3>5. QED
      BY <3>3, <3>4
  <2>14. Links(fcb') /\ Callers(fcb', pc, call, why')
    <3> DEFINE w == why'
    <3>1. /\ \A u \in freed : "woken" = "null" <=> w[u] = "timeout"
          /\ \A u \in Tasks \ freed :
               pc[u] = "blocked" /\ fcb.pnode[u] # "node" =>
                 (fcb.pnode[u] = "null" <=> w[u] = "timeout")
      BY <2>12, <2>13
    <3>2. freed \in SUBSET TasksOf(s.list)
      BY <2>4, <2>7
    <3> HIDE DEF w
    <3>3. /\ Links(Unlinked(s, freed, "woken"))
          /\ Callers(Unlinked(s, freed, "woken"), pc, call, w)
      BY <2>7, <2>9, <3>1, <3>2, WakeCallers
    <3>4. QED
      BY <2>8, <3>3 DEF w
  <2>15. fcb'.pnode[t] = "null"
    <3>1. fcb.pnode[t] = "null"
      BY <1>1, <2>6 DEF Callers
    <3>2. t \notin freed
      BY <2>11, <3>1
    <3>3. QED
      BY <2>10, <3>1, <3>2
  <2>16. Callers(fcb', pc', call', why')
    BY <1>1, <2>14, <2>15, AtFacts, CallersReturn
  <2>17. TypeOK'
    <3>1. why' \in [Tasks -> {"none", "set", "deleted", "timeout"}]
      BY <2>1, <2>6
    <3>2. QED
      BY <1>1, <2>14, <3>1, AtFacts, ReturnTypes DEF TypeOK, Links
  <2>18. QED
    BY <2>14, <2>16, <2>17 DEF IInv
<1>4. QED
  BY <1>2, <1>3

-----------------------------------------------------------------------------
(* The theorems.                                                           *)

LEMMA InitIInv == Init => IInv
<1> SUFFICES ASSUME Init PROVE IInv
  OBVIOUS
<1>1. /\ load \in Loads /\ load.active \subseteq Flags
      /\ load.auto \subseteq load.active
  BY LoadAssumption DEF Init
<1>2. /\ fcb \in FlagBlocks /\ fcb.auto \subseteq fcb.active /\ fcb.list = <<>>
      /\ Len(fcb.list) = 0 /\ fcb.wild = FALSE
      /\ fcb.pnode = [t \in Tasks |-> "null"] /\ fcb.delay = [t \in Tasks |-> FALSE]
  BY <1>1, EmptySeq DEF Init, FlagBlocks
<1>3. /\ pc = [t \in Tasks |-> "user"] /\ call = [t \in Tasks |-> NoCall]
      /\ pc \in [Tasks -> Labels] /\ call \in [Tasks -> FlagCalls \cup {NoCall}]
      /\ reg \in [Tasks -> SUBSET Flags]
      /\ why \in [Tasks -> {"none", "set", "deleted", "timeout"}]
  BY DEF Init, Labels
<1>4. TypeOK
  BY <1>1, <1>2, <1>3 DEF TypeOK
<1>5. TasksOf(fcb.list) = {}
  BY <1>2 DEF TasksOf
<1>6. Links(fcb)
  BY <1>2, <1>5 DEF Links
<1>7. NoCall.op = OpOf("user")
  BY DEF NoCall, OpOf
<1>8. Callers(fcb, pc, call, why)
  BY <1>2, <1>3, <1>7 DEF Callers
<1>9. QED
  BY <1>4, <1>6, <1>8 DEF IInv

LEMMA NextIInv == IInv /\ [Next]_vars => IInv'
<1> SUFFICES ASSUME IInv, [Next]_vars PROVE IInv'
  OBVIOUS
<1>1. ASSUME NEW t \in Tasks, Step(t), load' = load PROVE IInv'
  <2>1. CASE Call(t)
    BY <1>1, <2>1, CallStep
  <2>2. CASE CoCreateFlag(t)
    BY <1>1, <2>2, CreateStep
  <2>3. CASE CoDelFlag(t)
    BY <1>1, <2>3, DelStep
  <2>4. CASE AcceptLook(t) \/ AcceptTake(t)
    BY <1>1, <2>4, AcceptStep
  <2>5. CASE CoWaitForFlags(t) \/ WaitConsume(t)
    BY <1>1, <2>5, WaitStep
  <2>6. CASE WaitResumed(t)
    BY <1>1, <2>6, ResumeStep
  <2>7. CASE SetTest(t) \/ LoadRdy(t) \/ SetStore(t) \/ ClearStore(t)
    BY <1>1, <2>7, WordStep
  <2>8. CASE SetWalk(t)
    BY <1>1, <2>8, WalkStep
  <2>9. QED
    BY <1>1, <2>1, <2>2, <2>3, <2>4, <2>5, <2>6, <2>7, <2>8 DEF Step
<1>2. ASSUME NEW t \in Tasks, Timeout(t), load' = load PROVE IInv'
  BY <1>2, TimeoutStep
<1>3. ASSUME NEW i \in load.isr, isr_SetFlag(i), load' = load PROVE IInv'
  BY <1>3, IsrStep
<1>4. CASE UNCHANGED vars
  <2>1. fcb' = fcb /\ pc' = pc /\ call' = call /\ reg' = reg /\ load' = load
        /\ why' = why
    BY <1>4 DEF vars
  <2>2. QED
    BY <2>1 DEF IInv, TypeOK
<1>5. QED
  BY <1>1, <1>2, <1>3, <1>4 DEF Next

\* The inductive invariant: the waiting list, the pnode and time-out of every
\* task and the call it is in fit together in every reachable state.
THEOREM FlagInvariant == Spec => []IInv
BY InitIInv, NextIInv, PTL DEF Spec

\* For any tasks, flags and calls, with sets from tasks and interrupts,
\* deletions and time-outs in any order: a task is in the waiting list of
\* flag.c, once, exactly while its pnode points there; no time-out runs for a
\* task that has left it; and a task woken from a timed wait finds a null
\* pnode exactly if it was the time-out that ended its wait.
THEOREM FlagLists == Spec => []ListAgrees
<1>1. IInv => ListAgrees
  <2> SUFFICES ASSUME IInv PROVE ListAgrees
    OBVIOUS
  <2>1. TypeOK /\ Links(fcb) /\ Callers(fcb, pc, call, why)
    BY DEF IInv
  <2>2. \A t \in Tasks :
          /\ t \in Sleepers <=> fcb.pnode[t] = "node"
          /\ fcb.delay[t] => t \in Sleepers
    BY <2>1, SleepersAre DEF Links
  <2>3. \A t \in Tasks :
          /\ fcb.delay[t] => call[t].timed
          /\ pc[t] = "blocked" /\ t \notin Sleepers =>
               (fcb.pnode[t] = "null" <=> why[t] = "timeout")
    BY <2>1, <2>2 DEF Callers
  <2>4. QED
    BY <2>1, <2>2, <2>3 DEF ListAgrees, Links
<1>2. QED
  BY <1>1, FlagInvariant, PTL

-----------------------------------------------------------------------------
(* The flag word.                                                          *)
(*                                                                         *)
(* CoSetFlag and CoClearFlag load the flag word and store it without a     *)
(* lock, so what a task knows of the word holds for applications that keep *)
(* a rule.                                                                 *)

Writers(l) ==
  {t \in Tasks : \E c \in l.calls[t] : c.op \in {"CoSetFlag", "CoClearFlag"}}

\* Nothing comes between the load and the store of a task that sets or clears
\* flags: it is more urgent than every other task that uses flags, and no
\* interrupt sets them.
WritesAlone(l) ==
  /\ \A t \in Writers(l), u \in Tasks :
       u # t /\ l.calls[u] # {} => l.prio[t] < l.prio[u]
  /\ Writers(l) = {} \/ l.isr = {}

MayBeAuto(l, i) ==
  \/ i \in l.auto
  \/ \E t \in Tasks : \E c \in l.calls[t] : c.op = "CoCreateFlag" /\ c.auto

Writing == {"CoSetFlag", "load", "store", "walk", "CoClearFlag", "clear"}

\* What a task at p with call c and word r may rely on.
Relies(p, c, r, s) ==
  /\ p \in Writing => c.flags \subseteq s.active
  /\ p \in {"load", "store"} => c.flags \cap s.rdy = {}
  /\ p \in {"store", "clear"} => r = s.rdy

WordInv ==
  /\ fcb.rdy \subseteq fcb.active /\ \A i \in fcb.auto : MayBeAuto(load, i)
  /\ \A t \in Tasks :
       /\ pc[t] # "user" => call[t] \in load.calls[t]
       /\ Relies(pc[t], call[t], reg[t], fcb)

CInv == IInv /\ WordInv

\* While a task sets or clears a flag no other task takes a step.
LEMMA WriterFirst ==
  ASSUME CInv, WritesAlone(load), NEW t \in Tasks, Runs(t), load.calls[t] # {},
         NEW u \in Tasks, u # t
  PROVE  pc[u] \notin Writing
<1> SUFFICES ASSUME pc[u] \in Writing PROVE FALSE
  OBVIOUS
<1>1. call[u] \in load.calls[u] /\ call[u].op = OpOf(pc[u])
  BY AtFacts DEF CInv, WordInv, Writing
<1>2. u \in Writers(load)
  <2>1. call[u].op \in {"CoSetFlag", "CoClearFlag"}
    BY <1>1 DEF OpOf, Writing
  <2>2. QED
    BY <1>1, <2>1 DEF Writers
<1>3. load.prio[u] < load.prio[t]
  BY <1>2 DEF WritesAlone
<1>4. u \notin Sleepers
  <2>1. Links(fcb) /\ Callers(fcb, pc, call, why)
    BY DEF CInv, IInv
  <2>2. pc[u] # "blocked"
    BY DEF Writing
  <2>3. QED
    BY <2>1, <2>2, SleepersAre DEF Links, Callers
<1>5. Ready(u)
  BY <1>4 DEF Ready, Writing
<1>6. load.prio[t] <= load.prio[u]
  BY <1>5 DEF Runs
<1>7. load.prio[t] \in Nat /\ load.prio[u] \in Nat
  <2>1. load.prio \in [Tasks -> Nat]
    BY AtFacts, LoadAssumption DEF CInv
  <2>2. QED
    BY <2>1
<1>8. QED
  BY <1>3, <1>6, <1>7

LEMMA RunnerCalls ==
  ASSUME CInv, NEW t \in Tasks, pc[t] # "user"
  PROVE  load.calls[t] # {} /\ call[t] \in load.calls[t]
BY DEF CInv, WordInv

\* A step of task t to the point p of call c, with word r.
Moves(t, p, c, r) ==
  /\ pc' = [pc EXCEPT ![t] = p] /\ call' = [call EXCEPT ![t] = c]
  /\ reg' = [reg EXCEPT ![t] = r]

\* It keeps the invariant if it keeps the words.
LEMMA MoveStep ==
  ASSUME CInv, IInv', WritesAlone(load), load' = load, NEW t \in Tasks, Runs(t),
         load.calls[t] # {}, NEW p, NEW c, NEW r, Moves(t, p, c, r),
         p # "user" => c \in load.calls[t], Relies(p, c, r, fcb'),
         fcb'.rdy \subseteq fcb'.active,
         \A i \in fcb'.auto : MayBeAuto(load, i)
  PROVE  CInv'
<1>1. /\ pc \in [Tasks -> Labels] /\ call \in [Tasks -> FlagCalls \cup {NoCall}]
      /\ reg \in [Tasks -> SUBSET Flags]
  BY DEF CInv, IInv, TypeOK
<1>2. pc'[t] = p /\ call'[t] = c /\ reg'[t] = r
  BY <1>1 DEF Moves
<1>3. ASSUME NEW u \in Tasks, u # t
      PROVE  /\ pc'[u] # "user" => call'[u] \in load.calls[u]
             /\ Relies(pc'[u], call'[u], reg'[u], fcb')
  <2>1. pc'[u] = pc[u] /\ call'[u] = call[u] /\ reg'[u] = reg[u]
    BY <1>1, <1>3 DEF Moves
  <2>2. pc[u] \notin Writing
    BY <1>3, WriterFirst
  <2>3. /\ pc[u] # "user" => call[u] \in load.calls[u]
        /\ Relies(pc[u], call[u], reg[u], fcb)
    BY DEF CInv, WordInv
  <2>4. Relies(pc[u], call[u], reg[u], fcb')
    BY <1>3, <2>2, <2>3 DEF Relies, Writing
  <2>5. QED
    BY <2>1, <2>3, <2>4
<1>4. \A u \in Tasks : /\ pc'[u] # "user" => call'[u] \in load.calls[u]
                       /\ Relies(pc'[u], call'[u], reg'[u], fcb')
  BY <1>2, <1>3
<1>5. WordInv'
  BY <1>4 DEF WordInv
<1>6. QED
  BY <1>5 DEF CInv

\* A step that leaves the flag words.
LEMMA SameStep ==
  ASSUME CInv, IInv', WritesAlone(load), load' = load, NEW t \in Tasks, Runs(t),
         load.calls[t] # {}, NEW p, NEW c, NEW r, Moves(t, p, c, r),
         p # "user" => c \in load.calls[t], Relies(p, c, r, fcb),
         fcb'.rdy = fcb.rdy, fcb'.active = fcb.active, fcb'.auto = fcb.auto
  PROVE  CInv'
<1>1. Relies(p, c, r, fcb')
  BY DEF Relies
<1>2. fcb'.rdy \subseteq fcb'.active /\ \A i \in fcb'.auto : MayBeAuto(load, i)
  BY DEF CInv, WordInv
<1>3. QED
  BY <1>1, <1>2, MoveStep

\* The end of a call.
LEMMA ReturnMoves ==
  ASSUME NEW t, Return(t), NEW s
  PROVE  Moves(t, "user", NoCall, {}) /\ Relies("user", NoCall, {}, s)
BY DEF Return, Moves, Relies, Writing

\* The words after unlinking.
LEMMA UnlinkWords ==
  ASSUME NEW s, Links(s), NEW ts
  PROVE  /\ RemoveFromLink(s, ts).rdy = s.rdy /\ RemoveFromLink(s, ts).auto = s.auto
         /\ RemoveFromLink(s, ts).active = s.active
BY DEF Links, RemoveFromLink, FlagBlocks

LEMMA CallWords ==
  ASSUME CInv, IInv', WritesAlone(load), load' = load, NEW t \in Tasks, Call(t)
  PROVE  CInv'
<1>1. PICK c \in load.calls[t] :
        /\ c.flags \subseteq fcb.active /\ call' = [call EXCEPT ![t] = c]
        /\ pc' = [pc EXCEPT ![t] = c.op]
  BY DEF Call, Goto
<1>2. Runs(t) /\ fcb' = fcb /\ reg' = reg
  BY DEF Call, At
<1>3. c \in FlagCalls /\ c \in FlagCalls \cup {NoCall}
  <2>1. load.calls \in [Tasks -> SUBSET FlagCalls]
    BY AtFacts, LoadAssumption DEF CInv
  <2>2. QED
    BY <2>1
<1>4. c.op \notin {"load", "store", "clear"}
  BY <1>3, CallFacts
<1>5. Relies(c.op, c, reg[t], fcb)
  BY <1>1, <1>4 DEF Relies
<1>6. Moves(t, c.op, c, reg[t])
  <2>1. reg \in [Tasks -> SUBSET Flags]
    BY DEF CInv, IInv, TypeOK
  <2>2. QED
    BY <1>1, <1>2, <2>1 DEF Moves
<1>7. QED
  BY <1>1, <1>2, <1>5, <1>6, SameStep

\* A call that goes on to point p and keeps its word.
LEMMA GotoMoves ==
  ASSUME CInv, NEW t \in Tasks, NEW p, Goto(t, p), call' = call, reg' = reg
  PROVE  Moves(t, p, call[t], reg[t])
BY DEF CInv, IInv, TypeOK, Goto, Moves

LEMMA LookWords ==
  ASSUME CInv, IInv', WritesAlone(load), load' = load, NEW t \in Tasks,
         AcceptLook(t) \/ SetTest(t) \/ LoadRdy(t)
  PROVE  CInv'
<1>1. Runs(t) /\ fcb' = fcb /\ pc[t] # "user"
  BY DEF AcceptLook, SetTest, LoadRdy, At
<1>2. load.calls[t] # {} /\ call[t] \in load.calls[t]
  BY <1>1, RunnerCalls
<1>3. /\ call \in [Tasks -> FlagCalls \cup {NoCall}] /\ reg \in [Tasks -> SUBSET Flags]
      /\ Relies(pc[t], call[t], reg[t], fcb)
  BY DEF CInv, IInv, TypeOK, WordInv
<1>4. CASE Return(t)
  BY <1>1, <1>2, <1>4, ReturnMoves, SameStep
<1>5. CASE AcceptLook(t) /\ ~Return(t)
  <2>1. /\ reg' = [reg EXCEPT ![t] = call[t].flags \cap fcb.rdy]
        /\ Goto(t, "accepted") /\ call' = call
    BY <1>5 DEF AcceptLook
  <2>2. Moves(t, "accepted", call[t], call[t].flags \cap fcb.rdy)
    BY <1>3, <2>1 DEF Moves, Goto
  <2>3. Relies("accepted", call[t], call[t].flags \cap fcb.rdy, fcb)
    BY DEF Relies, Writing
  <2>4. QED
    BY <1>1, <1>2, <2>2, <2>3, SameStep
<1>6. CASE SetTest(t) /\ ~Return(t)
  <2>1. /\ ~(call[t].flags \subseteq fcb.rdy) /\ pc[t] = "CoSetFlag"
        /\ Goto(t, "load") /\ call' = call /\ reg' = reg
    BY <1>6 DEF SetTest, At
  <2>2. Moves(t, "load", call[t], reg[t])
    BY <2>1, GotoMoves
  <2>3. call[t].flags = {Id(t)}
    BY <2>1, AtFacts, IdFacts DEF CInv, OpOf
  <2>4. Relies("load", call[t], reg[t], fcb)
    BY <1>3, <2>1, <2>3 DEF Relies, Writing
  <2>5. QED
    BY <1>1, <1>2, <2>2, <2>4, SameStep
<1>7. CASE LoadRdy(t)
  <2> DEFINE p == IF pc[t] = "load" THEN "store" ELSE "clear"
  <2>1. /\ pc[t] \in {"load", "CoClearFlag"} /\ Goto(t, p) /\ call' = call
        /\ reg' = [reg EXCEPT ![t] = fcb.rdy]
    BY <1>7 DEF LoadRdy, At
  <2>2. Moves(t, p, call[t], fcb.rdy)
    BY <1>3, <2>1 DEF Moves, Goto
  <2>3. Relies(p, call[t], fcb.rdy, fcb)
    BY <1>3, <2>1 DEF Relies, Writing
  <2>4. p # "user"
    OBVIOUS
  <2> HIDE DEF p
  <2>5. QED
    BY <1>1, <1>2, <2>2, <2>3, SameStep
<1>8. QED
  BY <1>4, <1>5, <1>6, <1>7

LEMMA ListWords ==
  ASSUME CInv, IInv', WritesAlone(load), load' = load, NEW t \in Tasks,
         \/ CoWaitForFlags(t) /\ ~Met(call[t], fcb.rdy)
         \/ WaitResumed(t)
         \/ SetWalk(t)
  PROVE  CInv'
<1>1. Runs(t) /\ pc[t] # "user"
  BY DEF CoWaitForFlags, WaitResumed, SetWalk, At
<1>2. load.calls[t] # {} /\ call[t] \in load.calls[t]
  BY <1>1, RunnerCalls
<1>3. fcb \in FlagBlocks /\ Links(fcb)
  BY DEF CInv, IInv, TypeOK
<1>4. fcb'.rdy = fcb.rdy /\ fcb'.active = fcb.active /\ fcb'.auto = fcb.auto
  <2>1. CASE CoWaitForFlags(t) /\ ~Met(call[t], fcb.rdy)
    BY <1>3, <2>1 DEF CoWaitForFlags, FlagBlock, FlagBlocks
  <2>2. CASE WaitResumed(t)
    BY <1>3, <2>2 DEF WaitResumed, FlagBlocks
  <2>3. CASE SetWalk(t)
    BY <1>3, <2>3, UnlinkWords DEF SetWalk, Walked
  <2>4. QED
    BY <2>1, <2>2, <2>3
<1>5. CASE Return(t)
  BY <1>1, <1>2, <1>4, <1>5, ReturnMoves, SameStep
<1>6. CASE ~Return(t)
  <2>1. \E p \in {"blocked", "consume"} : Goto(t, p) /\ call' = call /\ reg' = reg
    BY <1>6 DEF CoWaitForFlags, WaitResumed, SetWalk
  <2>2. PICK p \in {"blocked", "consume"} : Goto(t, p) /\ call' = call /\ reg' = reg
    BY <2>1
  <2>3. Moves(t, p, call[t], reg[t]) /\ Relies(p, call[t], reg[t], fcb)
    BY <2>2, GotoMoves DEF Relies, Writing
  <2>4. QED
    BY <1>1, <1>2, <1>4, <2>3, SameStep
<1>7. QED
  BY <1>5, <1>6

\* Taking flags.
LEMMA TakerWords ==
  ASSUME CInv, IInv', WritesAlone(load), load' = load, NEW t \in Tasks,
         \/ CoWaitForFlags(t) /\ Met(call[t], fcb.rdy)
         \/ WaitConsume(t)
         \/ AcceptTake(t)
  PROVE  CInv'
<1>1. Runs(t) /\ Return(t) /\ pc[t] # "user"
  BY DEF CoWaitForFlags, WaitConsume, AcceptTake, At
<1>2. load.calls[t] # {}
  BY <1>1, RunnerCalls
<1>3. /\ fcb \in FlagBlocks /\ fcb.rdy \subseteq fcb.active
      /\ \A i \in fcb.auto : MayBeAuto(load, i)
  BY DEF CInv, IInv, TypeOK, WordInv
<1>4. PICK spring : Take(spring)
  BY DEF CoWaitForFlags, WaitConsume, AcceptTake
<1>5. /\ fcb'.rdy \subseteq fcb.rdy /\ fcb'.active = fcb.active
      /\ fcb'.auto = fcb.auto
  BY <1>3, <1>4 DEF Take, FlagBlocks
<1>6. Moves(t, "user", NoCall, {}) /\ Relies("user", NoCall, {}, fcb')
  BY <1>1, ReturnMoves
<1>7. QED
  BY <1>1, <1>2, <1>3, <1>5, <1>6, MoveStep

LEMMA StoreWords ==
  ASSUME CInv, IInv', WritesAlone(load), load' = load, NEW t \in Tasks,
         SetStore(t) \/ ClearStore(t)
  PROVE  CInv'
<1>1. Runs(t) /\ pc[t] \in {"store", "clear"}
  BY DEF SetStore, ClearStore, At
<1>2. load.calls[t] # {} /\ call[t] \in load.calls[t]
  BY <1>1, RunnerCalls
<1>3. /\ fcb \in FlagBlocks /\ fcb.rdy \subseteq fcb.active
      /\ \A j \in fcb.auto : MayBeAuto(load, j)
  BY DEF CInv, IInv, TypeOK, WordInv
<1>4. call[t].flags \subseteq fcb.active /\ reg[t] = fcb.rdy
  BY <1>1 DEF CInv, WordInv, Relies, Writing
<1>5. CASE SetStore(t)
  <2>1. /\ fcb' = [fcb EXCEPT !.rdy = reg[t] \cup call[t].flags]
        /\ Goto(t, "walk") /\ call' = call /\ reg' = reg
    BY <1>5 DEF SetStore
  <2>2. /\ fcb'.rdy = fcb.rdy \cup call[t].flags /\ fcb'.active = fcb.active
        /\ fcb'.auto = fcb.auto
    BY <1>3, <1>4, <2>1 DEF FlagBlocks
  <2>3. fcb'.rdy \subseteq fcb'.active
    BY <1>3, <1>4, <2>2
  <2>4. Moves(t, "walk", call[t], reg[t])
    BY <2>1, GotoMoves
  <2>5. Relies("walk", call[t], reg[t], fcb')
    BY <1>4, <2>2 DEF Relies
  <2>6. QED
    BY <1>1, <1>2, <1>3, <2>2, <2>3, <2>4, <2>5, MoveStep
<1>6. CASE ClearStore(t)
  <2>1. fcb' = [fcb EXCEPT !.rdy = reg[t] \ call[t].flags] /\ Return(t)
    BY <1>6 DEF ClearStore
  <2>2. /\ fcb'.rdy \subseteq fcb.rdy /\ fcb'.active = fcb.active
        /\ fcb'.auto = fcb.auto
    BY <1>3, <1>4, <2>1 DEF FlagBlocks
  <2>3. Moves(t, "user", NoCall, {}) /\ Relies("user", NoCall, {}, fcb')
    BY <2>1, ReturnMoves
  <2>4. QED
    BY <1>1, <1>2, <1>3, <2>2, <2>3, MoveStep
<1>7. QED
  BY <1>5, <1>6

LEMMA CreateWords ==
  ASSUME CInv, IInv', WritesAlone(load), load' = load, NEW t \in Tasks, CoCreateFlag(t)
  PROVE  CInv'
<1> DEFINE free == Flags \ fcb.active
           i == Min(free)
           c == call[t]
           Bit(b) == IF b THEN {i} ELSE {}
<1>1. Runs(t) /\ pc[t] = "CoCreateFlag" /\ Return(t)
  BY DEF CoCreateFlag, At
<1>2. load.calls[t] # {} /\ call[t] \in load.calls[t] /\ c.op = "CoCreateFlag"
  BY <1>1, RunnerCalls, AtFacts DEF CInv, OpOf
<1>3. Moves(t, "user", NoCall, {}) /\ \A s : Relies("user", NoCall, {}, s)
  BY <1>1, ReturnMoves
<1>4. CASE free = {}
  <2>1. fcb' = fcb
    BY <1>4 DEF CoCreateFlag
  <2>2. QED
    BY <1>1, <1>2, <1>3, <2>1, SameStep
<1>5. CASE free # {}
  <2>1. i \in free
    <3>1. free \in SUBSET Nat
      BY LoadAssumption DEF Flags
    <3> HIDE DEF free
    <3>2. QED
      BY <1>5, <3>1, MinNat
  <2>2. /\ fcb \in FlagBlocks /\ fcb.rdy \subseteq fcb.active
        /\ \A j \in fcb.auto : MayBeAuto(load, j)
    BY DEF CInv, IInv, TypeOK, WordInv
  <2>3. /\ fcb'.active = fcb.active \cup {i}
        /\ fcb'.rdy = fcb.rdy \cup Bit(c.initial)
        /\ fcb'.auto = fcb.auto \cup Bit(c.auto)
    <3>1. fcb' = [fcb EXCEPT !.active = @ \cup {i}, !.rdy = @ \cup Bit(c.initial),
                             !.auto = @ \cup Bit(c.auto)]
      BY <1>5 DEF CoCreateFlag
    <3> HIDE DEF Bit, i, c
    <3>2. QED
      BY <2>2, <3>1 DEF FlagBlocks
  <2> HIDE DEF i, c
  <2>4. fcb'.rdy \subseteq fcb'.active
    BY <2>2, <2>3
  <2>5. \A j \in fcb'.auto : MayBeAuto(load, j)
    <3>1. c.auto => \A j : MayBeAuto(load, j)
      BY <1>2 DEF MayBeAuto, c
    <3>2. QED
      BY <2>2, <2>3, <3>1
  <2>6. QED
    BY <1>1, <1>2, <1>3, <2>4, <2>5, MoveStep
<1>6. QED
  BY <1>4, <1>5

LEMMA DelWords ==
  ASSUME CInv, IInv', WritesAlone(load), load' = load, NEW t \in Tasks, CoDelFlag(t)
  PROVE  CInv'
<1> DEFINE i == Id(t)
           refused == /\ call[t].opt = "NO_PEND"
                      /\ \E n \in 1 .. Len(fcb.list) : i \in fcb.list[n].flags
           asks == {n \in 1 .. Len(fcb.list) : i \in fcb.list[n].flags}
           stay == {n \in asks : fcb.list[n].type = "ALL" /\ fcb.list[n].flags # {i}}
           freed == {fcb.list[n].task : n \in asks \ stay}
<1>1. Runs(t) /\ pc[t] = "CoDelFlag" /\ Return(t)
  BY DEF CoDelFlag, At
<1>2. load.calls[t] # {} /\ call[t] \in load.calls[t] /\ call[t].op = "CoDelFlag"
  BY <1>1, RunnerCalls, AtFacts DEF CInv, OpOf
<1>3. Moves(t, "user", NoCall, {}) /\ \A s : Relies("user", NoCall, {}, s)
  BY <1>1, ReturnMoves
<1>4. CASE refused
  <2>1. fcb' = fcb
    BY <1>4 DEF CoDelFlag
  <2>2. QED
    BY <1>1, <1>2, <1>3, <2>1, SameStep
<1>5. CASE ~refused
  <2>1. fcb' = Deleted(fcb, i)
    BY <1>5 DEF CoDelFlag
  <2>2. Deleted(fcb, i) = RemoveFromLink(Stripped(fcb, i), freed)
    BY DEF Deleted, Stripped
  <2>3. i \in Flags
    BY <1>2, IdFacts DEF CInv
  <2> HIDE DEF i, freed
  <2>4. /\ fcb \in FlagBlocks /\ fcb.rdy \subseteq fcb.active /\ Links(fcb)
        /\ \A j \in fcb.auto : MayBeAuto(load, j)
    BY DEF CInv, IInv, TypeOK, WordInv
  <2>5. Links(Stripped(fcb, i))
    BY <2>4, StrippedLinks
  <2>6. /\ Stripped(fcb, i).rdy = fcb.rdy \ {i}
        /\ Stripped(fcb, i).active = fcb.active \ {i}
        /\ Stripped(fcb, i).auto = fcb.auto \ {i}
    BY <2>4 DEF Stripped, FlagBlocks
  <2>7. /\ fcb'.rdy = fcb.rdy \ {i} /\ fcb'.active = fcb.active \ {i}
        /\ fcb'.auto = fcb.auto \ {i}
    BY <2>1, <2>2, <2>5, <2>6, UnlinkWords
  <2>8. fcb'.rdy \subseteq fcb'.active /\ \A j \in fcb'.auto : MayBeAuto(load, j)
    BY <2>4, <2>7
  <2>9. QED
    BY <1>1, <1>2, <1>3, <2>8, MoveStep
<1>6. QED
  BY <1>4, <1>5

\* A step of no task: the words a task relies on stay, or no task writes.
LEMMA TickWords ==
  ASSUME CInv, IInv', WritesAlone(load), load' = load, NEW t \in Tasks, Timeout(t)
  PROVE  CInv'
<1>1. /\ pc' = pc /\ call' = call /\ reg' = reg
      /\ fcb' = TimeDispose(fcb, t) /\ fcb \in FlagBlocks
  BY DEF Timeout, CInv, IInv, TypeOK
<1>2. fcb'.rdy = fcb.rdy /\ fcb'.active = fcb.active /\ fcb'.auto = fcb.auto
  BY <1>1 DEF TimeDispose, FlagBlocks
<1>3. WordInv'
  BY <1>1, <1>2 DEF CInv, WordInv, Relies
<1>4. QED
  BY <1>3 DEF CInv

LEMMA IsrWords ==
  ASSUME CInv, IInv', WritesAlone(load), load' = load, NEW i \in load.isr, isr_SetFlag(i)
  PROVE  CInv'
<1> DEFINE s == [fcb EXCEPT !.rdy = fcb.rdy \cup {i}]
<1>1. /\ pc' = pc /\ call' = call /\ reg' = reg /\ i \in fcb.active
      /\ fcb' = RemoveFromLink(s, Woken(s, i))
  BY DEF isr_SetFlag, Walked
<1>2. /\ fcb \in FlagBlocks /\ fcb.active \subseteq Flags
      /\ fcb.rdy \subseteq fcb.active
  BY DEF CInv, IInv, TypeOK, WordInv, FlagBlocks
<1>3. /\ s \in FlagBlocks /\ s.rdy = fcb.rdy \cup {i} /\ s.active = fcb.active
      /\ s.auto = fcb.auto
  <2>1. fcb.rdy \cup {i} \in SUBSET Flags
    BY <1>1, <1>2
  <2>2. QED
    BY <1>2, <2>1 DEF FlagBlocks
<1> HIDE DEF s
<1>4. /\ fcb'.rdy = fcb.rdy \cup {i} /\ fcb'.active = fcb.active
      /\ fcb'.auto = fcb.auto
  BY <1>1, <1>3 DEF RemoveFromLink, FlagBlocks
<1>5. ASSUME NEW u \in Tasks
      PROVE  Relies(pc[u], call[u], reg[u], fcb')
  <2>1. /\ pc[u] # "user" => call[u] \in load.calls[u]
        /\ Relies(pc[u], call[u], reg[u], fcb) /\ call[u].op = OpOf(pc[u])
    BY AtFacts DEF CInv, WordInv
  <2>2. pc[u] \notin Writing
    <3>1. Writers(load) = {}
      BY DEF WritesAlone
    <3>2. pc[u] \in Writing => call[u].op \in {"CoSetFlag", "CoClearFlag"}
      BY <2>1 DEF OpOf, Writing
    <3>3. QED
      BY <2>1, <3>1, <3>2 DEF Writers, Writing
  <2>3. QED
    BY <1>4, <2>1, <2>2 DEF Relies, Writing
<1>6. fcb'.rdy \subseteq fcb'.active /\ \A j \in fcb'.auto : MayBeAuto(load, j)
  BY <1>1, <1>2, <1>4 DEF CInv, WordInv
<1>7. WordInv'
  BY <1>1, <1>5, <1>6 DEF CInv, WordInv
<1>8. QED
  BY <1>7 DEF CInv

LEMMA InitWords == Init => CInv
<1> SUFFICES ASSUME Init PROVE CInv
  OBVIOUS
<1>1. IInv
  BY InitIInv
<1>2. /\ fcb.rdy = {} /\ fcb.auto = load.auto
      /\ pc = [t \in Tasks |-> "user"]
  BY <1>1, AtFacts DEF Init, IInv, TypeOK, FlagBlocks
<1>3. \A i \in fcb.auto : MayBeAuto(load, i)
  BY <1>2 DEF MayBeAuto
<1>4. \A t \in Tasks : pc[t] = "user" /\ Relies(pc[t], call[t], reg[t], fcb)
  BY <1>2 DEF Relies, Writing
<1>5. QED
  BY <1>1, <1>2, <1>3, <1>4 DEF CInv, WordInv

LEMMA NextWords == CInv /\ WritesAlone(load) /\ [Next]_vars => CInv'
<1> SUFFICES ASSUME CInv, WritesAlone(load), [Next]_vars PROVE CInv'
  OBVIOUS
<1>0. IInv'
  BY NextIInv DEF CInv
<1>1. ASSUME NEW t \in Tasks, Step(t), load' = load PROVE CInv'
  <2>1. CASE Call(t)
    BY <1>0, <1>1, <2>1, CallWords
  <2>2. CASE CoCreateFlag(t)
    BY <1>0, <1>1, <2>2, CreateWords
  <2>3. CASE CoDelFlag(t)
    BY <1>0, <1>1, <2>3, DelWords
  <2>4. CASE AcceptLook(t) \/ SetTest(t) \/ LoadRdy(t)
    BY <1>0, <1>1, <2>4, LookWords
  <2>5. CASE \/ CoWaitForFlags(t) /\ ~Met(call[t], fcb.rdy)
             \/ WaitResumed(t)
             \/ SetWalk(t)
    BY <1>0, <1>1, <2>5, ListWords
  <2>6. CASE \/ CoWaitForFlags(t) /\ Met(call[t], fcb.rdy)
             \/ WaitConsume(t)
             \/ AcceptTake(t)
    BY <1>0, <1>1, <2>6, TakerWords
  <2>7. CASE SetStore(t) \/ ClearStore(t)
    BY <1>0, <1>1, <2>7, StoreWords
  <2>8. QED
    BY <1>1, <2>1, <2>2, <2>3, <2>4, <2>5, <2>6, <2>7 DEF Step
<1>2. ASSUME NEW t \in Tasks, Timeout(t), load' = load PROVE CInv'
  BY <1>0, <1>2, TickWords
<1>3. ASSUME NEW i \in load.isr, isr_SetFlag(i), load' = load PROVE CInv'
  BY <1>0, <1>3, IsrWords
<1>4. CASE UNCHANGED vars
  <2>1. fcb' = fcb /\ pc' = pc /\ call' = call /\ reg' = reg /\ load' = load
    BY <1>4 DEF vars
  <2>2. QED
    BY <1>0, <2>1 DEF CInv, WordInv
<1>5. QED
  BY <1>1, <1>2, <1>3, <1>4 DEF Next

LEMMA SameLoad == [Next]_vars => load' = load
BY DEF Next, vars

-----------------------------------------------------------------------------
(* Nobody is stranded.                                                     *)
(*                                                                         *)
(* The walk for an auto-reset flag stops at the first waiter that it       *)
(* wakes, a deletion takes a flag away from the waiters for several and    *)
(* wakes none of them, and a flag that is created set wakes nobody: this   *)
(* is a promise to applications that keep two more rules.                  *)

\* A flag that may be auto-reset is waited for by one task.
WaitsAlone(l) ==
  \A t \in Tasks : \A c \in l.calls[t] :
    c.op = "CoWaitForFlags" =>
      \A u \in Tasks \ {t} : \A d \in l.calls[u] :
        d.op = "CoWaitForFlags" =>
          \A i \in c.flags \cap d.flags : ~MayBeAuto(l, i)

MayBeDeleted(l, i) ==
  \E t \in Tasks : \E c \in l.calls[t] : c.op = "CoDelFlag" /\ i \in c.flags

\* A flag that may be deleted is waited for by itself, and not where flags
\* are created set.
WaitsSafely(l) ==
  \A t \in Tasks : \A c \in l.calls[t] :
    c.op = "CoWaitForFlags" =>
      \A i \in c.flags :
        MayBeDeleted(l, i) =>
          /\ c.flags = {i}
          /\ \A u \in Tasks : \A d \in l.calls[u] :
               d.op = "CoCreateFlag" => ~d.initial

Tidy(l) == WritesAlone(l) /\ WaitsAlone(l) /\ WaitsSafely(l)

\* A node asks for what its task called for.
Faithful(list, c) ==
  \A n \in 1 .. Len(list) :
    /\ list[n].flags = c[list[n].task].flags
    /\ list[n].type = c[list[n].task].type

\* The flags a task waits for or is about to wait for exist, unless deleted.
Exist(c, s) ==
  c.op = "CoWaitForFlags" =>
    \A i \in c.flags : i \in s.active \/ MayBeDeleted(load, i)

\* Only a set whose walk is to come leaves a waiter whose flags are set.
NoneMissed(s, p, c) ==
  \A n \in 1 .. Len(s.list) :
    Met(s.list[n], s.rdy) =>
      \E t \in Tasks : p[t] = "walk" /\ ~Met(s.list[n], s.rdy \ c[t].flags)

WaitInv ==
  /\ Faithful(fcb.list, call)
  /\ \A t \in Tasks : Exist(call[t], fcb)
  /\ NoneMissed(fcb, pc, call)

TInv == CInv /\ WaitInv

\* A waiter that is met by fewer flags is met by more.
LEMMA MetMore ==
  ASSUME NEW n, NEW a, NEW b, a \subseteq b, Met(n, a)
  PROVE  Met(n, b)
BY DEF Met

\* While a task runs that is not about to walk the list, no waiter is met.
LEMMA NoneMet ==
  ASSUME TInv, Tidy(load), NEW t \in Tasks, Runs(t), load.calls[t] # {},
         pc[t] # "walk", NEW n \in 1 .. Len(fcb.list)
  PROVE  ~Met(fcb.list[n], fcb.rdy)
<1> SUFFICES ASSUME Met(fcb.list[n], fcb.rdy) PROVE FALSE
  OBVIOUS
<1>1. PICK u \in Tasks : pc[u] = "walk"
  BY DEF TInv, WaitInv, NoneMissed
<1>2. u # t
  BY <1>1
<1>3. pc[u] \notin Writing
  BY <1>2, WriterFirst DEF TInv, Tidy
<1>4. QED
  BY <1>1, <1>3 DEF Writing

\* The task that runs is not in the list.
LEMMA RunnerOut ==
  ASSUME TInv, NEW t \in Tasks, Runs(t), NEW n \in 1 .. Len(fcb.list)
  PROVE  fcb.list[n].task # t /\ fcb.list[n].task \in Tasks
<1>1. fcb.list \in Seq(Nodes) /\ t \notin TasksOf(fcb.list)
  BY SleepersAre DEF TInv, CInv, IInv, TypeOK, FlagBlocks, Runs
<1>2. QED
  BY <1>1, NodeFacts

\* A step of task t keeps the invariant if nodes are only dropped or its own
\* is added.
LEMMA NodeStep ==
  ASSUME TInv, CInv', load' = load, NEW t \in Tasks, Runs(t),
         NEW p, NEW c, NEW r, Moves(t, p, c, r),
         \A m \in 1 .. Len(fcb'.list) :
           \/ \E n \in 1 .. Len(fcb.list) : fcb'.list[m] = fcb.list[n]
           \/ fcb'.list[m] = [task |-> t, flags |-> c.flags, type |-> c.type],
         \A m \in 1 .. Len(fcb'.list) :
           \/ ~Met(fcb'.list[m], fcb'.rdy)
           \/ p = "walk" /\ ~Met(fcb'.list[m], fcb'.rdy \ c.flags),
         Exist(c, fcb'), \A u \in Tasks \ {t} : Exist(call[u], fcb')
  PROVE  TInv'
<1>1. pc \in [Tasks -> Labels] /\ call \in [Tasks -> FlagCalls \cup {NoCall}]
  BY DEF TInv, CInv, IInv, TypeOK
<1>2. /\ pc'[t] = p /\ call'[t] = c
      /\ \A u \in Tasks \ {t} : call'[u] = call[u]
  BY <1>1 DEF Moves
<1>3. ASSUME NEW m \in 1 .. Len(fcb'.list)
      PROVE  /\ fcb'.list[m].flags = call'[fcb'.list[m].task].flags
             /\ fcb'.list[m].type = call'[fcb'.list[m].task].type
  <2>1. CASE \E n \in 1 .. Len(fcb.list) : fcb'.list[m] = fcb.list[n]
    <3>1. PICK n \in 1 .. Len(fcb.list) : fcb'.list[m] = fcb.list[n]
      BY <2>1
    <3>2. fcb.list[n].task \in Tasks \ {t}
      BY RunnerOut
    <3>3. /\ fcb.list[n].flags = call[fcb.list[n].task].flags
          /\ fcb.list[n].type = call[fcb.list[n].task].type
      BY DEF TInv, WaitInv, Faithful
    <3>4. QED
      BY <1>2, <3>1, <3>2, <3>3
  <2>2. CASE fcb'.list[m] = [task |-> t, flags |-> c.flags, type |-> c.type]
    BY <1>2, <2>2
  <2>3. QED
    BY <2>1, <2>2
<1>4. Faithful(fcb'.list, call')
  BY <1>3 DEF Faithful
<1>5. NoneMissed(fcb', pc', call')
  BY <1>2 DEF NoneMissed
<1>6. ASSUME NEW u \in Tasks PROVE Exist(call'[u], fcb')
  BY <1>2
<1>7. WaitInv'
  <2>1. \A u \in Tasks : Exist(call[u], fcb)'
    BY <1>6 DEF Exist
  <2>2. QED
    BY <1>4, <1>5, <2>1 DEF WaitInv
<1>8. QED
  BY <1>7 DEF TInv

\* A step that leaves the list and sets no flag.
LEMMA QuietWaits ==
  ASSUME TInv, CInv', Tidy(load), load' = load, NEW t \in Tasks, Runs(t),
         load.calls[t] # {}, pc[t] # "walk",
         NEW p, NEW c, NEW r, Moves(t, p, c, r), Exist(c, fcb),
         fcb'.list = fcb.list, fcb'.active = fcb.active,
         fcb'.rdy \subseteq fcb.rdy
  PROVE  TInv'
<1>1. \A m \in 1 .. Len(fcb.list) : ~Met(fcb.list[m], fcb'.rdy)
  BY NoneMet, MetMore
<1>2. Exist(c, fcb') /\ \A u \in Tasks \ {t} : Exist(call[u], fcb')
  BY DEF TInv, WaitInv, Exist
<1>3. QED
  BY <1>1, <1>2, NodeStep

LEMMA ReturnExists == \A s : Exist(NoCall, s)
BY DEF Exist, NoCall

LEMMA CallWaits ==
  ASSUME TInv, CInv', Tidy(load), load' = load, NEW t \in Tasks, Call(t)
  PROVE  TInv'
<1>1. PICK c \in load.calls[t] :
        /\ c.flags \subseteq fcb.active /\ call' = [call EXCEPT ![t] = c]
        /\ pc' = [pc EXCEPT ![t] = c.op]
  BY DEF Call, Goto
<1>2. Runs(t) /\ pc[t] = "user" /\ fcb' = fcb /\ reg' = reg
  BY DEF Call, At
<1>3. Moves(t, c.op, c, reg[t])
  <2>1. reg \in [Tasks -> SUBSET Flags]
    BY DEF TInv, CInv, IInv, TypeOK
  <2>2. QED
    BY <1>1, <1>2, <2>1 DEF Moves
<1>4. Exist(c, fcb)
  BY <1>1 DEF Exist
<1>5. QED
  BY <1>1, <1>2, <1>3, <1>4, QuietWaits

LEMMA LookWaits ==
  ASSUME TInv, CInv', Tidy(load), load' = load, NEW t \in Tasks,
         AcceptLook(t) \/ SetTest(t) \/ LoadRdy(t)
  PROVE  TInv'
<1>1. /\ Runs(t) /\ fcb' = fcb
      /\ pc[t] \in {"CoAcceptFlags", "CoSetFlag", "load", "CoClearFlag"}
  BY DEF AcceptLook, SetTest, LoadRdy, At
<1>2. load.calls[t] # {} /\ pc \in [Tasks -> Labels]
  <2>1. pc[t] # "user"
    BY <1>1
  <2>2. QED
    BY <2>1, RunnerCalls DEF TInv, CInv, IInv, TypeOK
<1>3. /\ call \in [Tasks -> FlagCalls \cup {NoCall}] /\ reg \in [Tasks -> SUBSET Flags]
      /\ Exist(call[t], fcb)
  BY DEF TInv, CInv, IInv, TypeOK, WaitInv
<1>4. CASE Return(t)
  BY <1>1, <1>2, <1>4, ReturnMoves, ReturnExists, QuietWaits
<1>5. CASE ~Return(t)
  <2>1. \E p \in {"accepted", "load", "store", "clear"} : \E r :
          /\ Goto(t, p) /\ call' = call /\ reg' = [reg EXCEPT ![t] = r]
    <3>1. CASE AcceptLook(t)
      BY <1>5, <3>1 DEF AcceptLook
    <3>2. CASE SetTest(t)
      <4>1. Goto(t, "load") /\ call' = call /\ reg' = [reg EXCEPT ![t] = reg[t]]
        BY <1>3, <1>5, <3>2 DEF SetTest
      <4>2. QED
        BY <4>1
    <3>3. CASE LoadRdy(t)
      <4>1. Goto(t, "store") \/ Goto(t, "clear")
        BY <3>3 DEF LoadRdy
      <4>2. call' = call /\ reg' = [reg EXCEPT ![t] = fcb.rdy]
        BY <3>3 DEF LoadRdy
      <4> HIDE DEF Goto
      <4>3. QED
        BY <4>1, <4>2
    <3>4. QED
      BY <3>1, <3>2, <3>3
  <2> PICK p \in {"accepted", "load", "store", "clear"} : \E r :
          /\ Goto(t, p) /\ call' = call /\ reg' = [reg EXCEPT ![t] = r]
    BY <2>1
  <2>2. PICK r : Goto(t, p) /\ call' = call /\ reg' = [reg EXCEPT ![t] = r]
    OBVIOUS
  <2>3. Moves(t, p, call[t], r)
    BY <1>3, <2>2 DEF Moves, Goto
  <2>4. QED
    BY <1>1, <1>2, <1>3, <2>3, QuietWaits
<1>6. QED
  BY <1>4, <1>5

LEMMA ResumeWaits ==
  ASSUME TInv, CInv', Tidy(load), load' = load, NEW t \in Tasks, WaitResumed(t)
  PROVE  TInv'
<1>1. /\ Runs(t) /\ pc[t] = "blocked"
      /\ fcb' = [fcb EXCEPT !.pnode[t] = "null"]
  BY DEF WaitResumed, At
<1>2. load.calls[t] # {} /\ fcb \in FlagBlocks /\ Exist(call[t], fcb)
  BY <1>1, RunnerCalls DEF TInv, CInv, IInv, TypeOK, WaitInv
<1>3. /\ fcb'.list = fcb.list /\ fcb'.active = fcb.active
      /\ fcb'.rdy = fcb.rdy
  BY <1>1, <1>2 DEF FlagBlocks
<1>4. CASE Return(t)
  BY <1>1, <1>2, <1>3, <1>4, ReturnMoves, ReturnExists, QuietWaits
<1>5. CASE ~Return(t)
  <2>1. Goto(t, "consume") /\ call' = call /\ reg' = reg
    BY <1>5 DEF WaitResumed
  <2>2. Moves(t, "consume", call[t], reg[t])
    BY <2>1, GotoMoves DEF TInv
  <2>3. QED
    BY <1>1, <1>2, <1>3, <2>2, QuietWaits
<1>6. QED
  BY <1>4, <1>5

LEMMA TakerWaits ==
  ASSUME TInv, CInv', Tidy(load), load' = load, NEW t \in Tasks,
         \/ CoWaitForFlags(t) /\ Met(call[t], fcb.rdy)
         \/ WaitConsume(t)
         \/ AcceptTake(t)
         \/ ClearStore(t)
  PROVE  TInv'
<1>1. /\ Runs(t) /\ Return(t)
      /\ pc[t] \in {"CoWaitForFlags", "consume", "accepted", "clear"}
  BY DEF CoWaitForFlags, WaitConsume, AcceptTake, ClearStore, At
<1>2. /\ Relies(pc[t], call[t], reg[t], fcb) /\ fcb \in FlagBlocks /\ CInv
      /\ pc[t] # "user" /\ pc[t] # "walk"
  BY <1>1 DEF TInv, CInv, WordInv, IInv, TypeOK
<1>3. load.calls[t] # {}
  BY <1>2, RunnerCalls
<1>4. PICK spring : fcb' = [fcb EXCEPT !.rdy = @ \ spring]
  <2>1. CASE ~ClearStore(t)
    BY <2>1 DEF CoWaitForFlags, WaitConsume, AcceptTake, Take
  <2>2. CASE ClearStore(t)
    <3>1. fcb' = [fcb EXCEPT !.rdy = reg[t] \ call[t].flags] /\ pc[t] = "clear"
      BY <2>2 DEF ClearStore, At
    <3>2. reg[t] = fcb.rdy
      BY <1>2, <3>1 DEF Relies
    <3>3. QED
      BY <3>1, <3>2
  <2>3. QED
    BY <2>1, <2>2
<1>5. /\ fcb'.rdy \subseteq fcb.rdy /\ fcb'.active = fcb.active
      /\ fcb'.list = fcb.list
  BY <1>2, <1>4 DEF FlagBlocks
<1>6. Moves(t, "user", NoCall, {}) /\ Exist(NoCall, fcb)
  BY <1>1, ReturnMoves, ReturnExists
<1>7. QED
  BY <1>1, <1>2, <1>3, <1>5, <1>6, QuietWaits

\* What unlinking leaves.
LEMMA LeftOver ==
  ASSUME NEW s, Links(s), NEW ts \in SUBSET TasksOf(s.list)
  PROVE  LET r == RemoveFromLink(s, ts)
         IN  /\ \A m \in 1 .. Len(r.list) :
                  /\ \E n \in 1 .. Len(s.list) : r.list[m] = s.list[n]
                  /\ r.list[m].task \notin ts
             /\ r.rdy = s.rdy /\ r.active = s.active /\ r.auto = s.auto
<1> DEFINE r == RemoveFromLink(s, ts)
<1>1. r = Unlinked(s, ts, "woken")
  BY UnlinkedBy
<1>2. Shorter(r, s, ts, "woken")
  BY <1>1, UnlinkedLinks
<1>3. r.list = Without(s.list, ts)
  BY DEF RemoveFromLink, Links, FlagBlocks
<1>4. TasksOf(r.list) = TasksOf(s.list) \ ts
  BY <1>3, TasksWithout DEF Links, FlagBlocks
<1>5. r.rdy = s.rdy /\ r.active = s.active /\ r.auto = s.auto
  BY UnlinkWords
<1> HIDE DEF r
<1>6. \A m \in 1 .. Len(r.list) : r.list[m].task \notin ts
  BY <1>4 DEF TasksOf
<1>7. QED
  BY <1>2, <1>5, <1>6 DEF Shorter, r

\* The walk wakes every waiter whose flags are set: if the flag is auto-reset
\* there is only one.
LEMMA WalkWakes ==
  ASSUME TInv, Tidy(load), NEW s, Links(s), s.list = fcb.list, s.auto = fcb.auto,
         NEW i, \A n \in 1 .. Len(s.list) :
                  Met(s.list[n], s.rdy) => ~Met(s.list[n], s.rdy \ {i}),
         NEW n \in 1 .. Len(s.list), Met(s.list[n], s.rdy)
  PROVE  s.list[n].task \in Woken(s, i)
<1> DEFINE fits == {k \in 1 .. Len(s.list) : Met(s.list[k], s.rdy)}
           hit == IF i \in s.auto /\ fits # {} THEN {Min(fits)} ELSE fits
<1>1. Woken(s, i) = {s.list[k].task : k \in hit}
  BY DEF Woken
<1>2. n \in fits
  OBVIOUS
<1>3. CASE i \notin s.auto
  BY <1>1, <1>2, <1>3
<1>4. CASE i \in s.auto
  <2> DEFINE k == Min(fits)
  <2>1. k \in fits
    <3>1. fits \in SUBSET Nat /\ fits # {}
      BY <1>2
    <3> HIDE DEF fits
    <3>2. QED
      BY <3>1, MinNat
  <2>2. s.list[k].task \in Woken(s, i)
    BY <1>1, <1>2, <1>4
  <2> HIDE DEF k, fits, hit
  <2>3. k \in 1 .. Len(s.list) /\ Met(s.list[k], s.rdy)
    BY <2>1 DEF fits
  <2>4. i \in s.list[k].flags /\ i \in s.list[n].flags
    BY <2>3 DEF Met
  <2> DEFINE u == s.list[k].task
             v == s.list[n].task
  <2>5. /\ u \in Tasks /\ v \in Tasks /\ s.list[k].flags = call[u].flags
        /\ s.list[n].flags = call[v].flags
        /\ u \in TasksOf(fcb.list) /\ v \in TasksOf(fcb.list)
    <3>1. fcb.list \in Seq(Nodes)
      BY DEF TInv, CInv, IInv, TypeOK, FlagBlocks
    <3>2. u \in Tasks /\ v \in Tasks /\ u \in TasksOf(fcb.list) /\ v \in TasksOf(fcb.list)
      BY <2>3, <3>1, NodeFacts
    <3>3. QED
      BY <2>3, <3>2 DEF TInv, WaitInv, Faithful
  <2> HIDE DEF u, v
  <2>6. /\ pc[u] = "blocked" /\ pc[v] = "blocked"
        /\ call[u].op = "CoWaitForFlags" /\ call[v].op = "CoWaitForFlags"
    <3>1. Links(fcb) /\ Callers(fcb, pc, call, why)
      BY DEF TInv, CInv, IInv
    <3>2. pc[u] = "blocked" /\ pc[v] = "blocked"
      BY <2>5, <3>1 DEF Links, Callers
    <3>3. QED
      BY <2>5, <3>1, <3>2 DEF Callers, OpOf
  <2>7. call[u] \in load.calls[u] /\ call[v] \in load.calls[v] /\ MayBeAuto(load, i)
    BY <1>4, <2>5, <2>6 DEF TInv, CInv, WordInv
  <2>8. u = v
    BY <2>4, <2>5, <2>6, <2>7 DEF Tidy, WaitsAlone
  <2>9. QED
    BY <2>2, <2>8 DEF u, v
<1>5. QED
  BY <1>3, <1>4

\* What the walk after setting i leaves.
LEMMA WalkLeaves ==
  ASSUME TInv, Tidy(load), NEW s, Links(s), s.list = fcb.list, s.auto = fcb.auto,
         s.active = fcb.active, NEW i, Walked(s, i),
         \A n \in 1 .. Len(s.list) :
           Met(s.list[n], s.rdy) => ~Met(s.list[n], s.rdy \ {i})
  PROVE  /\ \A m \in 1 .. Len(fcb'.list) :
              /\ \E n \in 1 .. Len(fcb.list) : fcb'.list[m] = fcb.list[n]
              /\ ~Met(fcb'.list[m], fcb'.rdy)
         /\ \A u \in Tasks : Exist(call[u], fcb')
<1> DEFINE ts == Woken(s, i)
<1>1. fcb' = RemoveFromLink(s, ts)
  BY DEF Walked
<1>2. ts \in SUBSET TasksOf(s.list)
  BY WokenWaits
<1>3. \A n \in 1 .. Len(s.list) : Met(s.list[n], s.rdy) => s.list[n].task \in ts
  BY WalkWakes
<1> HIDE DEF ts
<1>4. /\ \A m \in 1 .. Len(fcb'.list) :
           /\ \E n \in 1 .. Len(s.list) : fcb'.list[m] = s.list[n]
           /\ fcb'.list[m].task \notin ts
      /\ fcb'.rdy = s.rdy /\ fcb'.active = s.active
  BY <1>1, <1>2, LeftOver
<1>5. \A m \in 1 .. Len(fcb'.list) : ~Met(fcb'.list[m], fcb'.rdy)
  BY <1>3, <1>4
<1>6. ASSUME NEW u \in Tasks PROVE Exist(call[u], fcb')
  BY <1>4 DEF TInv, WaitInv, Exist
<1>7. QED
  BY <1>4, <1>5, <1>6

LEMMA BlockWaits ==
  ASSUME TInv, CInv', Tidy(load), load' = load, NEW t \in Tasks,
         CoWaitForFlags(t), ~Met(call[t], fcb.rdy)
  PROVE  TInv'
<1>1. /\ Runs(t) /\ pc[t] = "CoWaitForFlags" /\ fcb' = FlagBlock(fcb, t, call[t])
      /\ Goto(t, "blocked") /\ call' = call /\ reg' = reg
  BY DEF CoWaitForFlags, At
<1>2. /\ fcb \in FlagBlocks /\ fcb.list \in Seq(Nodes) /\ load.calls[t] # {}
      /\ CInv
  BY <1>1, RunnerCalls DEF TInv, CInv, IInv, TypeOK, FlagBlocks
<1> DEFINE x == [task |-> t, flags |-> call[t].flags, type |-> call[t].type]
<1>3. /\ fcb'.list = Append(fcb.list, x) /\ fcb'.rdy = fcb.rdy
      /\ fcb'.active = fcb.active
  BY <1>1, <1>2 DEF FlagBlock, FlagBlocks
<1>4. ASSUME NEW m \in 1 .. Len(fcb'.list)
      PROVE  \/ m \in 1 .. Len(fcb.list) /\ fcb'.list[m] = fcb.list[m]
             \/ fcb'.list[m] = x
  <2> HIDE DEF x
  <2>1. QED
    BY <1>2, <1>3, AppendProperties
<1>5. ~Met(x, fcb.rdy)
  BY DEF Met
<1>6. \A m \in 1 .. Len(fcb'.list) : ~Met(fcb'.list[m], fcb'.rdy)
  <2> HIDE DEF x
  <2>1. \A n \in 1 .. Len(fcb.list) : ~Met(fcb.list[n], fcb.rdy)
    BY <1>1, <1>2, NoneMet
  <2>2. QED
    BY <1>3, <1>4, <1>5, <2>1
<1>7. Moves(t, "blocked", call[t], reg[t])
  BY <1>1, <1>2, GotoMoves
<1>8. \A u \in Tasks : Exist(call[u], fcb')
  BY <1>3 DEF TInv, WaitInv, Exist
<1>9. \A m \in 1 .. Len(fcb'.list) :
        \/ \E n \in 1 .. Len(fcb.list) : fcb'.list[m] = fcb.list[n]
        \/ fcb'.list[m] = [task |-> t, flags |-> call[t].flags,
                           type |-> call[t].type]
  BY <1>4
<1>10. QED
  BY <1>1, <1>6, <1>7, <1>8, <1>9, NodeStep

LEMMA StoreWaits ==
  ASSUME TInv, CInv', Tidy(load), load' = load, NEW t \in Tasks, SetStore(t)
  PROVE  TInv'
<1>1. /\ Runs(t) /\ pc[t] = "store" /\ call' = call /\ reg' = reg
      /\ fcb' = [fcb EXCEPT !.rdy = reg[t] \cup call[t].flags] /\ Goto(t, "walk")
  BY DEF SetStore, At
<1>2. /\ fcb \in FlagBlocks /\ load.calls[t] # {} /\ CInv
      /\ reg[t] = fcb.rdy /\ call[t].flags \cap fcb.rdy = {}
  BY <1>1, RunnerCalls DEF TInv, CInv, IInv, TypeOK, WordInv, Relies
<1>3. /\ fcb'.list = fcb.list /\ fcb'.rdy = fcb.rdy \cup call[t].flags
      /\ fcb'.active = fcb.active /\ fcb'.rdy \ call[t].flags = fcb.rdy
  BY <1>1, <1>2 DEF FlagBlocks
<1>4. \A m \in 1 .. Len(fcb'.list) : ~Met(fcb'.list[m], fcb'.rdy \ call[t].flags)
  BY <1>1, <1>2, <1>3, NoneMet
<1>5. Moves(t, "walk", call[t], reg[t])
  BY <1>1, <1>2, GotoMoves
<1>6. \A u \in Tasks : Exist(call[u], fcb')
  BY <1>3 DEF TInv, WaitInv, Exist
<1>7. QED
  BY <1>1, <1>3, <1>4, <1>5, <1>6, NodeStep

LEMMA WalkWaits ==
  ASSUME TInv, CInv', Tidy(load), load' = load, NEW t \in Tasks, SetWalk(t)
  PROVE  TInv'
<1>1. Runs(t) /\ pc[t] = "walk" /\ Walked(fcb, Id(t)) /\ Return(t)
  BY DEF SetWalk, At
<1>2. /\ Links(fcb) /\ load.calls[t] # {} /\ CInv
      /\ call[t].flags = {Id(t)}
  <2>1. call[t].op = "CoSetFlag"
    BY <1>1, AtFacts DEF TInv, CInv, OpOf
  <2>2. call[t].flags = {Id(t)}
    BY <2>1, IdFacts DEF TInv, CInv
  <2>3. QED
    BY <1>1, <2>2, RunnerCalls DEF TInv, CInv, IInv, TypeOK, WordInv
<1>3. ASSUME NEW n \in 1 .. Len(fcb.list), Met(fcb.list[n], fcb.rdy)
      PROVE  ~Met(fcb.list[n], fcb.rdy \ {Id(t)})
  <2>1. PICK u \in Tasks : pc[u] = "walk" /\ ~Met(fcb.list[n], fcb.rdy \ call[u].flags)
    BY <1>3 DEF TInv, WaitInv, NoneMissed
  <2>2. u = t
    <3>1. pc[u] \in Writing
      BY <2>1 DEF Writing
    <3>2. QED
      BY <1>1, <1>2, <3>1, WriterFirst DEF Tidy
  <2>3. QED
    BY <1>2, <2>1, <2>2
<1>4. /\ \A m \in 1 .. Len(fcb'.list) :
           /\ \E n \in 1 .. Len(fcb.list) : fcb'.list[m] = fcb.list[n]
           /\ ~Met(fcb'.list[m], fcb'.rdy)
      /\ \A u \in Tasks : Exist(call[u], fcb')
  BY <1>1, <1>2, <1>3, WalkLeaves
<1>5. Moves(t, "user", NoCall, {}) /\ Exist(NoCall, fcb')
  BY <1>1, ReturnMoves, ReturnExists
<1>6. QED
  BY <1>1, <1>4, <1>5, NodeStep

\* A node belongs to a task that is blocked in a call of the application.
LEMMA NodeCall ==
  ASSUME TInv, NEW n \in 1 .. Len(fcb.list)
  PROVE  LET u == fcb.list[n].task
         IN  /\ u \in Tasks /\ pc[u] = "blocked" /\ call[u] \in load.calls[u]
             /\ call[u].op = "CoWaitForFlags" /\ Exist(call[u], fcb)
             /\ fcb.list[n].flags = call[u].flags /\ fcb.list[n].type = call[u].type
<1> DEFINE u == fcb.list[n].task
<1>1. fcb.list \in Seq(Nodes) /\ Links(fcb) /\ Callers(fcb, pc, call, why)
  BY DEF TInv, CInv, IInv, TypeOK, FlagBlocks
<1>2. u \in Tasks /\ u \in TasksOf(fcb.list)
  BY <1>1, NodeFacts
<1>3. fcb.list[n].flags = call[u].flags /\ fcb.list[n].type = call[u].type
  BY DEF TInv, WaitInv, Faithful
<1> HIDE DEF u
<1>4. pc[u] = "blocked"
  BY <1>1, <1>2 DEF Links, Callers
<1>5. call[u].op = "CoWaitForFlags"
  BY <1>1, <1>2, <1>4 DEF Callers, OpOf
<1>6. call[u] \in load.calls[u] /\ Exist(call[u], fcb)
  BY <1>2, <1>4 DEF TInv, CInv, WordInv, WaitInv
<1>7. QED
  BY <1>2, <1>3, <1>4, <1>5, <1>6 DEF u

LEMMA CreateWaits ==
  ASSUME TInv, CInv', Tidy(load), load' = load, NEW t \in Tasks, CoCreateFlag(t)
  PROVE  TInv'
<1> DEFINE free == Flags \ fcb.active
           i == Min(free)
           Bit(b) == IF b THEN {i} ELSE {}
<1>1. Runs(t) /\ pc[t] = "CoCreateFlag" /\ Return(t)
  BY DEF CoCreateFlag, At
<1>2. /\ load.calls[t] # {} /\ call[t] \in load.calls[t] /\ CInv
      /\ call[t].op = "CoCreateFlag" /\ fcb \in FlagBlocks
  BY <1>1, RunnerCalls, AtFacts DEF TInv, CInv, OpOf
<1>3. Moves(t, "user", NoCall, {}) /\ \A s : Exist(NoCall, s)
  BY <1>1, ReturnMoves, ReturnExists
<1>4. CASE free = {}
  <2>1. fcb' = fcb
    BY <1>4 DEF CoCreateFlag
  <2>2. QED
    BY <1>1, <1>2, <1>3, <2>1, QuietWaits
<1>5. CASE free # {}
  <2>1. i \in free
    <3>1. free \in SUBSET Nat
      BY LoadAssumption DEF Flags
    <3> HIDE DEF free
    <3>2. QED
      BY <1>5, <3>1, MinNat
  <2>2. /\ fcb'.active = fcb.active \cup {i} /\ fcb'.list = fcb.list
        /\ fcb'.rdy = fcb.rdy \cup Bit(call[t].initial)
    BY <1>2, <1>5 DEF CoCreateFlag, FlagBlocks
  <2>3. i \notin fcb.active
    BY <2>1
  <2> HIDE DEF i
  <2>4. ASSUME NEW n \in 1 .. Len(fcb.list) PROVE ~Met(fcb.list[n], fcb'.rdy)
    <3> DEFINE u == fcb.list[n].task
    <3>1. /\ u \in Tasks /\ call[u] \in load.calls[u]
          /\ call[u].op = "CoWaitForFlags" /\ Exist(call[u], fcb)
          /\ fcb.list[n].flags = call[u].flags
      BY NodeCall
    <3> HIDE DEF u
    <3>2. ~Met(fcb.list[n], fcb.rdy)
      BY <1>1, <1>2, NoneMet
    <3>3. i \in call[u].flags => MayBeDeleted(load, i)
      BY <2>3, <3>1 DEF Exist
    <3>4. call[t].initial => i \notin call[u].flags
      BY <1>2, <3>1, <3>3 DEF Tidy, WaitsSafely
    <3>5. fcb.list[n].flags \cap fcb'.rdy = fcb.list[n].flags \cap fcb.rdy
      BY <2>2, <3>1, <3>4
    <3>6. QED
      BY <3>2, <3>5 DEF Met
  <2>5. \A u \in Tasks : Exist(call[u], fcb')
    BY <2>2 DEF TInv, WaitInv, Exist
  <2>6. QED
    BY <1>1, <1>3, <2>2, <2>4, <2>5, NodeStep
<1>6. QED
  BY <1>4, <1>5

LEMMA DelWaits ==
  ASSUME TInv, CInv', Tidy(load), load' = load, NEW t \in Tasks, CoDelFlag(t)
  PROVE  TInv'
<1> DEFINE i == Id(t)
           refused == /\ call[t].opt = "NO_PEND"
                      /\ \E n \in 1 .. Len(fcb.list) : i \in fcb.list[n].flags
           asks == {n \in 1 .. Len(fcb.list) : i \in fcb.list[n].flags}
           stay == {n \in asks : fcb.list[n].type = "ALL" /\ fcb.list[n].flags # {i}}
           freed == {fcb.list[n].task : n \in asks \ stay}
<1>1. Runs(t) /\ pc[t] = "CoDelFlag" /\ Return(t)
  BY DEF CoDelFlag, At
<1>2. /\ load.calls[t] # {} /\ call[t] \in load.calls[t] /\ CInv
      /\ call[t].op = "CoDelFlag" /\ Links(fcb)
      /\ fcb \in FlagBlocks
  BY <1>1, RunnerCalls, AtFacts DEF TInv, CInv, IInv, OpOf
<1>3. Moves(t, "user", NoCall, {}) /\ \A s : Exist(NoCall, s)
  BY <1>1, ReturnMoves, ReturnExists
<1>4. CASE refused
  <2>1. fcb' = fcb
    BY <1>4 DEF CoDelFlag
  <2>2. QED
    BY <1>1, <1>2, <1>3, <2>1, QuietWaits
<1>5. CASE ~refused
  <2>1. fcb' = Deleted(fcb, i)
    BY <1>5 DEF CoDelFlag
  <2>2. Deleted(fcb, i) = RemoveFromLink(Stripped(fcb, i), freed)
    BY DEF Deleted, Stripped
  <2>3. call[t].flags = {i}
    BY <1>2, IdFacts DEF TInv, CInv
  <2>4. MayBeDeleted(load, i)
    BY <1>2, <2>3 DEF MayBeDeleted
  <2>5. ASSUME NEW n \in 1 .. Len(fcb.list), i \in fcb.list[n].flags
        PROVE  fcb.list[n].task \in freed
    <3>1. fcb.list[n].flags = {i}
      BY <2>4, <2>5, NodeCall DEF Tidy, WaitsSafely
    <3>2. n \in asks \ stay
      BY <2>5, <3>1
    <3>3. QED
      BY <3>2
  <2>6. freed \in SUBSET TasksOf(fcb.list)
    BY DEF TasksOf
  <2> DEFINE s == Stripped(fcb, i)
  <2>7. /\ Links(s) /\ Len(s.list) = Len(fcb.list)
        /\ \A n \in 1 .. Len(fcb.list) :
             /\ s.list[n].task = fcb.list[n].task
             /\ s.list[n].flags = fcb.list[n].flags \ {i}
        /\ TasksOf(s.list) = TasksOf(fcb.list)
    BY <1>2, StrippedLinks
  <2>8. s.rdy = fcb.rdy \ {i} /\ s.active = fcb.active \ {i}
    BY <1>2 DEF Stripped, FlagBlocks
  <2>9. ASSUME NEW n \in 1 .. Len(fcb.list), i \notin fcb.list[n].flags
        PROVE  s.list[n] = fcb.list[n]
    <3>1. fcb.list[n] \in Nodes
      BY <1>2, NodeFacts DEF FlagBlocks
    <3>2. s.list = [m \in 1 .. Len(fcb.list) |->
                      [fcb.list[m] EXCEPT !.flags = fcb.list[m].flags \ {i}]]
      BY <1>2 DEF Stripped, FlagBlocks
    <3>3. s.list[n] = [fcb.list[n] EXCEPT !.flags = fcb.list[n].flags \ {i}]
      BY <3>2
    <3>4. fcb.list[n].flags \ {i} = fcb.list[n].flags
      BY <2>9
    <3> HIDE DEF i, s
    <3>5. QED
      BY <3>1, <3>3, <3>4 DEF Nodes
  <2> HIDE DEF i, freed, s
  <2>10. /\ \A m \in 1 .. Len(fcb'.list) :
              /\ \E n \in 1 .. Len(s.list) : fcb'.list[m] = s.list[n]
              /\ fcb'.list[m].task \notin freed
         /\ fcb'.rdy = s.rdy /\ fcb'.active = s.active
    <3>1. fcb' = RemoveFromLink(s, freed)
      BY <2>1, <2>2 DEF s
    <3>2. QED
      BY <2>6, <2>7, <3>1, LeftOver
  <2>11. ASSUME NEW m \in 1 .. Len(fcb'.list)
         PROVE  \E n \in 1 .. Len(fcb.list) : fcb'.list[m] = fcb.list[n]
    <3>1. PICK n \in 1 .. Len(fcb.list) : fcb'.list[m] = s.list[n]
      BY <2>7, <2>10
    <3>2. i \notin fcb.list[n].flags
      BY <2>5, <2>7, <2>10, <3>1
    <3>3. QED
      BY <2>9, <3>1, <3>2
  <2>12. \A m \in 1 .. Len(fcb'.list) : ~Met(fcb'.list[m], fcb'.rdy)
    <3>1. \A n \in 1 .. Len(fcb.list) : ~Met(fcb.list[n], fcb.rdy)
      BY <1>1, <1>2, NoneMet
    <3>2. fcb'.rdy \subseteq fcb.rdy
      BY <2>8, <2>10
    <3>3. QED
      BY <2>11, <3>1, <3>2, MetMore
  <2>13. \A u \in Tasks : Exist(call[u], fcb')
    BY <2>4, <2>8, <2>10 DEF TInv, WaitInv, Exist
  <2>14. QED
    BY <1>1, <1>3, <2>11, <2>12, <2>13, NodeStep
<1>6. QED
  BY <1>4, <1>5

\* A step of no task: nodes are only dropped and none of them is met.
LEMMA StillStep ==
  ASSUME TInv, CInv', load' = load, pc' = pc, call' = call,
         \A m \in 1 .. Len(fcb'.list) :
           /\ \E n \in 1 .. Len(fcb.list) : fcb'.list[m] = fcb.list[n]
           /\ \/ ~Met(fcb'.list[m], fcb'.rdy)
              \/ fcb'.rdy = fcb.rdy,
         \A u \in Tasks : Exist(call[u], fcb')
  PROVE  TInv'
<1>1. Faithful(fcb'.list, call)
  BY DEF TInv, WaitInv, Faithful
<1>2. NoneMissed(fcb', pc, call)
  BY DEF TInv, WaitInv, NoneMissed
<1>3. \A u \in Tasks : Exist(call[u], fcb)'
  BY DEF Exist
<1>4. WaitInv'
  BY <1>1, <1>2, <1>3 DEF WaitInv
<1>5. QED
  BY <1>4 DEF TInv

LEMMA TickWaits ==
  ASSUME TInv, CInv', Tidy(load), load' = load, NEW t \in Tasks, Timeout(t)
  PROVE  TInv'
<1>1. /\ pc' = pc /\ call' = call /\ fcb' = TimeDispose(fcb, t) /\ fcb.delay[t]
  BY DEF Timeout
<1>2. fcb \in FlagBlocks /\ Links(fcb)
  BY DEF TInv, CInv, IInv, TypeOK
<1>3. t \in TasksOf(fcb.list)
  BY <1>1, <1>2 DEF Links
<1>4. Shorter(fcb', fcb, {t}, "null")
  <2>1. fcb' = Unlinked(fcb, {t}, "null")
    BY <1>1, <1>2, <1>3, UnlinkedBy
  <2>2. {t} \in SUBSET TasksOf(fcb.list)
    BY <1>3
  <2>3. QED
    BY <1>2, <2>1, <2>2, UnlinkedLinks
<1>5. fcb'.rdy = fcb.rdy /\ fcb'.active = fcb.active
  BY <1>1, <1>2 DEF TimeDispose, FlagBlocks
<1>6. \A m \in 1 .. Len(fcb'.list) :
        \E n \in 1 .. Len(fcb.list) : fcb'.list[m] = fcb.list[n]
  BY <1>4 DEF Shorter
<1>7. ASSUME NEW u \in Tasks PROVE Exist(call[u], fcb')
  BY <1>5 DEF TInv, WaitInv, Exist
<1>8. QED
  BY <1>1, <1>5, <1>6, <1>7, StillStep

LEMMA IsrWaits ==
  ASSUME TInv, CInv', Tidy(load), load' = load, NEW i \in load.isr, isr_SetFlag(i)
  PROVE  TInv'
<1> DEFINE s == [fcb EXCEPT !.rdy = fcb.rdy \cup {i}]
<1>1. /\ pc' = pc /\ call' = call /\ i \in fcb.active /\ i \notin fcb.rdy
      /\ Walked(s, i)
  BY DEF isr_SetFlag
<1>2. /\ fcb \in FlagBlocks /\ Links(fcb) /\ fcb.rdy \subseteq fcb.active
      /\ fcb.active \subseteq Flags
  BY DEF TInv, CInv, IInv, TypeOK, WordInv, FlagBlocks
<1>3. /\ s \in FlagBlocks /\ s.rdy = fcb.rdy \cup {i} /\ s.active = fcb.active
      /\ s.auto = fcb.auto /\ s.list = fcb.list /\ s.pnode = fcb.pnode
      /\ s.delay = fcb.delay /\ s.wild = fcb.wild
  BY <1>1, <1>2 DEF FlagBlocks
<1> HIDE DEF s
<1>4. Links(s)
  BY <1>2, <1>3 DEF Links
<1>5. ASSUME NEW n \in 1 .. Len(fcb.list) PROVE ~Met(fcb.list[n], fcb.rdy)
  <2> SUFFICES ASSUME Met(fcb.list[n], fcb.rdy) PROVE FALSE
    OBVIOUS
  <2>1. PICK u \in Tasks : pc[u] = "walk"
    BY DEF TInv, WaitInv, NoneMissed
  <2>2. call[u].op = "CoSetFlag" /\ call[u] \in load.calls[u]
    BY <2>1, AtFacts, RunnerCalls DEF TInv, CInv, OpOf
  <2>3. u \in Writers(load)
    BY <2>2 DEF Writers
  <2>4. QED
    BY <2>3 DEF Tidy, WritesAlone
<1>6. s.rdy \ {i} = fcb.rdy
  BY <1>1, <1>2, <1>3
<1>7. \A n \in 1 .. Len(s.list) : ~Met(s.list[n], s.rdy \ {i})
  BY <1>3, <1>5, <1>6
<1>8. /\ \A m \in 1 .. Len(fcb'.list) :
           /\ \E n \in 1 .. Len(fcb.list) : fcb'.list[m] = fcb.list[n]
           /\ ~Met(fcb'.list[m], fcb'.rdy)
      /\ \A u \in Tasks : Exist(call[u], fcb')
  BY <1>1, <1>3, <1>4, <1>7, WalkLeaves
<1>9. QED
  BY <1>1, <1>8, StillStep

LEMMA InitWaits == Init => TInv
<1> SUFFICES ASSUME Init PROVE TInv
  OBVIOUS
<1>1. CInv
  BY InitWords
<1>2. fcb.list = <<>> /\ call = [t \in Tasks |-> NoCall]
  BY DEF Init
<1>3. Len(fcb.list) = 0
  BY <1>2
<1>4. \A t \in Tasks : call[t].op = "none"
  BY <1>2 DEF NoCall
<1>5. Faithful(fcb.list, call) /\ NoneMissed(fcb, pc, call)
  BY <1>3 DEF Faithful, NoneMissed
<1>6. QED
  BY <1>1, <1>4, <1>5 DEF TInv, WaitInv, Exist

LEMMA NextWaits == TInv /\ Tidy(load) /\ [Next]_vars => TInv'
<1> SUFFICES ASSUME TInv, Tidy(load), [Next]_vars PROVE TInv'
  OBVIOUS
<1>0. CInv'
  BY NextWords DEF TInv, Tidy
<1>1. ASSUME NEW t \in Tasks, Step(t), load' = load PROVE TInv'
  <2>1. CASE Call(t)
    BY <1>0, <1>1, <2>1, CallWaits
  <2>2. CASE CoCreateFlag(t)
    BY <1>0, <1>1, <2>2, CreateWaits
  <2>3. CASE CoDelFlag(t)
    BY <1>0, <1>1, <2>3, DelWaits
  <2>4. CASE AcceptLook(t) \/ SetTest(t) \/ LoadRdy(t)
    BY <1>0, <1>1, <2>4, LookWaits
  <2>5. CASE CoWaitForFlags(t) /\ ~Met(call[t], fcb.rdy)
    BY <1>0, <1>1, <2>5, BlockWaits
  <2>6. CASE \/ CoWaitForFlags(t) /\ Met(call[t], fcb.rdy)
             \/ WaitConsume(t)
             \/ AcceptTake(t)
             \/ ClearStore(t)
    BY <1>0, <1>1, <2>6, TakerWaits
  <2>7. CASE WaitResumed(t)
    BY <1>0, <1>1, <2>7, ResumeWaits
  <2>8. CASE SetStore(t)
    BY <1>0, <1>1, <2>8, StoreWaits
  <2>9. CASE SetWalk(t)
    BY <1>0, <1>1, <2>9, WalkWaits
  <2>10. QED
    BY <1>1, <2>1, <2>2, <2>3, <2>4, <2>5, <2>6, <2>7, <2>8, <2>9 DEF Step
<1>2. ASSUME NEW t \in Tasks, Timeout(t), load' = load PROVE TInv'
  BY <1>0, <1>2, TickWaits
<1>3. ASSUME NEW i \in load.isr, isr_SetFlag(i), load' = load PROVE TInv'
  BY <1>0, <1>3, IsrWaits
<1>4. CASE UNCHANGED vars
  <2>1. fcb' = fcb /\ pc' = pc /\ call' = call /\ load' = load
    BY <1>4 DEF vars
  <2>2. QED
    BY <1>0, <2>1 DEF TInv, WaitInv, Exist
<1>5. QED
  BY <1>1, <1>2, <1>3, <1>4 DEF Next

LEMMA WaitsKept ==
  /\ Init => (Tidy(load) => TInv)
  /\ (Tidy(load) => TInv) /\ [Next]_vars => (Tidy(load) => TInv)'
BY InitWaits, NextWaits, SameLoad

\* For any tasks, flags and calls that keep the rules: once no task is on its
\* way through a flag function, no task sleeps on flags that are set, which
\* CoSetFlag would never wake.  The walk for an auto-reset flag stops at the
\* first waiter that it wakes, and no other was met.
THEOREM FlagWakes == Spec => [](Tidy(load) => NobodyStranded)
<1>1. (Tidy(load) => TInv) => (Tidy(load) => NobodyStranded)
  <2> SUFFICES ASSUME TInv, \A t \in Tasks : ~Ready(t),
                      NEW n \in 1 .. Len(fcb.list), Met(fcb.list[n], fcb.rdy)
               PROVE  FALSE
    BY DEF NobodyStranded
  <2>1. PICK u \in Tasks : pc[u] = "walk"
    BY DEF TInv, WaitInv, NoneMissed
  <2>2. u \notin TasksOf(fcb.list)
    BY <2>1 DEF TInv, CInv, IInv, Links, Callers
  <2>3. Ready(u)
    BY <2>1, <2>2, SleepersAre DEF Ready
  <2>4. QED
    BY <2>3
<1>2. QED
  BY <1>1, WaitsKept, PTL DEF Spec

=============================================================================
