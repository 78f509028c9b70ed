--------------------------- MODULE CoTimerProofs ---------------------------
(***************************************************************************)
(* For every number of timers and every set of counts: as long as the      *)
(* caller keeps the rules of MayStart, MaySet and MayEnd, and at most one  *)
(* tick falls into a locked section, the list of CoTimer holds exactly the *)
(* running timers, no counter falls below zero and no timer fires before   *)
(* its time.                                                               *)
(*                                                                         *)
(* The counters are relative and, within an insertion or a removal, half   *)
(* written.  The invariant therefore speaks of deadlines: some function D  *)
(* from timers to times of which the counters, completed by the writes     *)
(* that are still to come, are the differences along the list.  A tick     *)
(* moves the deadlines, a link or an unlink keeps those of the other       *)
(* timers.                                                                 *)
(***************************************************************************)
EXTENDS CoTimer, DataFacts


\* The caller keeps the rules, and a locked section is shorter than a tick.
Disciplined == TimerAssumption /\ Careful /\ TicksPerLock <= 1

-----------------------------------------------------------------------------
(* The inductive invariant.                                                *)

\* The steps of a call under the scheduler lock, those of an insertion, and
\* the functions that take a timer out.
Locking == {"unlink", "give", "find", "link", "count", "correct", "unlock",
            "dispose", "clear", "served", "open"}
Inserting == {"find", "link", "count", "correct"}
Ending == {"stop", "del"}

\* The types, a periodic timer's reload value, and nothing fired early.
Typed ==
  /\ TmrIDVessel \subseteq Timers
  /\ tmrType \in [Timers -> {"ONE_SHOT", "PERIODIC"}]
  /\ tmrState \in [Timers -> {"RUNNING", "STOPPED"}]
  /\ tmrCnt \in [Timers -> 0 .. Max(Counts)]
  /\ tmrReload \in [Timers -> 0 .. Max(Counts)]
  /\ TimerReq \in BOOLEAN /\ IsrReq \in BOOLEAN /\ disposing \in BOOLEAN
  /\ lock \in {"none", "caller", "other", "tick"}
  /\ left \in [Timers -> Nat] /\ early = FALSE
  /\ ticks \in 0 .. TicksPerLock /\ id \in Timers /\ cur \in Timers
  /\ \A t \in TmrIDVessel : tmrType[t] = "PERIODIC" => tmrReload[t] > 0

\* What the step of the call says of the lock and of the function.
Flow ==
  /\ pc \in Locking \cup {"idle", "insert", "remove", "stopped", "release"}
  /\ lock = "caller" <=> pc \in Locking
  /\ pc # "idle" => id \in TmrIDVessel /\ op \in Ending \cup {"start"}
  /\ disposing => pc \in Inserting \cup {"dispose"}
  /\ pc = "dispose" => disposing
  /\ pc = "insert" => op = "start"
  /\ pc \in Inserting /\ ~disposing => op = "start" /\ cur = id
  /\ pc \in {"remove", "unlink", "give", "release"} => op \in Ending
  /\ pc = "stopped" => op = "stop"

\* A timer that runs, and one the call in progress has in its hands.
Running(t) == t \in TmrIDVessel /\ tmrState[t] = "RUNNING"

Detached(t) ==
  \/ t = id /\ pc = "insert"
  \/ t = cur /\ pc \in {"find", "link"}
  \/ t = id /\ op \in Ending /\ pc \in (Locking \ {"unlink"}) \cup {"stopped", "release"}

\* The list holds the running timers that are in nobody's hands.
Members ==
  /\ \A t \in Timers : t \in ToSet(TmrList) <=> Running(t) /\ ~Detached(t)
  /\ pc = "insert" => Running(id)
  /\ pc \in {"find", "link"} => Running(cur) /\ (op \in Ending => cur # id)
  /\ pc \in {"remove", "unlink"} => Running(id) /\ tmrType[id] = "PERIODIC"

\* D gives every linked timer a deadline.  The list is in the order of the
\* deadlines, and a counter of E is the time from one deadline to the next.
Ahead(list, D, i) == IF i = 0 THEN 0 ELSE D[list[i]]

\* The list has no timer twice, and E and D agree about every place of it.
Spaced(list, E, D) ==
  /\ list \in Seq(Timers)
  /\ \A i, j \in 1 .. Len(list) : list[i] = list[j] => i = j
  /\ \A i \in 1 .. Len(list) :
       E[list[i]] = Ahead(list, D, i) - Ahead(list, D, i - 1)
  /\ \A i, j \in 1 .. Len(list) : i <= j => D[list[i]] <= D[list[j]]
  /\ \A i \in 1 .. Len(list) : D[list[i]] <= Max(Counts)

\* The counters as the writes still to be done will leave them.
Effective ==
  IF pc = "count"
  THEN [tmrCnt EXCEPT ![cur] = tmrCnt[place.before] + place.delta,
                      ![place.before] = -place.delta]
  ELSE IF pc = "correct" THEN GiveTicks(tmrCnt, place.before, -tmrCnt[cur])
  ELSE IF pc = "give" THEN GiveTicks(tmrCnt, gives.to, gives.n)
  ELSE tmrCnt

\* The place found for cur gives it a deadline between its neighbours' that is
\* not before its time.  A tick since then may have used up the first wait.
Placed(D) ==
  IF place.before = None
  THEN /\ place.delta \in Nat
       /\ left[cur] <= Ahead(TmrList, D, Len(TmrList)) + place.delta
       /\ Ahead(TmrList, D, Len(TmrList)) + place.delta <= Max(Counts)
  ELSE \E i \in 1 .. Len(TmrList) :
         /\ place.before = TmrList[i] /\ place.delta \in Int /\ place.delta < 0
         /\ Ahead(TmrList, D, i - 1) <= D[TmrList[i]] + place.delta
         /\ left[cur] <= D[TmrList[i]] + place.delta
         /\ i = 1 => D[TmrList[i]] + place.delta >= 1 - ticks

\* cur is linked just before the timer whose counter is still to be corrected.
Between ==
  /\ place.delta \in Int /\ place.delta < 0
  /\ \E i \in 2 .. Len(TmrList) :
       TmrList[i - 1] = cur /\ TmrList[i] = place.before

\* No linked timer's deadline comes before the ticks it has to wait.
Timed(D) ==
  /\ Spaced(TmrList, Effective, D)
  /\ \A i \in 1 .. Len(TmrList) : left[TmrList[i]] <= D[TmrList[i]]
  /\ pc = "link" => Placed(D)

\* What the pending step of the call relies on.
Waiting ==
  /\ pc = "insert" => left[id] <= tmrCnt[id] /\ tmrCnt[id] >= 1
  /\ pc = "find" => left[cur] <= tmrCnt[cur] /\ tmrCnt[cur] >= 1
  /\ pc \in {"count", "correct"} => Between
  /\ pc = "give" => gives.n \in Nat /\ (gives.to = None \/ gives.to \in ToSet(TmrList))

\* Some deadlines explain every counter of the list.
IInv ==
  /\ Disciplined /\ Typed /\ Flow /\ Members /\ Waiting
  /\ \E D \in [Timers -> Nat] : Timed(D)

-----------------------------------------------------------------------------
(* The list as a value.                                                    *)

\* What the assumption says of the counts and of the timers.
LEMMA CountFacts ==
  ASSUME TimerAssumption
  PROVE  /\ Max(Counts) \in Nat
         /\ \A n \in Counts : n \in Nat /\ n <= Max(Counts)
         /\ None \notin Timers /\ None \in Nat /\ Timers \subseteq Nat /\ 0 \in Timers
<1>1. PICK m \in Counts : \A n \in Counts : n <= m
  BY DEF TimerAssumption
<1>2. Counts \subseteq Nat
  BY DEF TimerAssumption
<1>3. \A y \in Counts : m >= y
  BY <1>1, <1>2
<1>4. Max(Counts) \in Counts /\ \A y \in Counts : Max(Counts) >= y
  BY <1>3 DEF Max
<1>5. None \notin Timers /\ None \in Nat /\ Timers \subseteq Nat /\ 0 \in Timers
  BY DEF TimerAssumption, None, Timers
<1>6. QED
  BY <1>2, <1>4, <1>5

\* What a list with these deadlines has: typed deadlines and counters.
LEMMA SpacedFacts ==
  ASSUME TimerAssumption, NEW list, NEW E, NEW D \in [Timers -> Nat],
         Spaced(list, E, D)
  PROVE  /\ list \in Seq(Timers) /\ Len(list) \in Nat
         /\ \A i \in 1 .. Len(list) : list[i] \in Timers /\ D[list[i]] \in Nat
         /\ \A i \in 0 .. Len(list) : Ahead(list, D, i) \in Nat
         /\ \A i \in 1 .. Len(list) : Ahead(list, D, i - 1) <= D[list[i]]
         /\ \A i \in 1 .. Len(list) : E[list[i]] \in 0 .. Max(Counts)
<1>1. list \in Seq(Timers) /\ Len(list) \in Nat
  BY DEF Spaced
<1>2. \A i \in 1 .. Len(list) : list[i] \in Timers
  BY <1>1
<1>3. \A i \in 1 .. Len(list) : D[list[i]] \in Nat
  BY <1>2
<1>4. \A i \in 0 .. Len(list) : Ahead(list, D, i) \in Nat
  BY <1>1, <1>3 DEF Ahead
<1>5. ASSUME NEW i \in 1 .. Len(list) PROVE Ahead(list, D, i - 1) <= D[list[i]]
  <2>1. CASE i = 1
    BY <1>3, <2>1 DEF Ahead
  <2>2. CASE i # 1
    <3>1. i - 1 \in 1 .. Len(list) /\ i - 1 <= i /\ i - 1 # 0
      BY <1>1, <2>2
    <3>2. D[list[i - 1]] <= D[list[i]]
      BY <3>1 DEF Spaced
    <3>3. QED
      BY <3>1, <3>2 DEF Ahead
  <2>3. QED
    BY <2>1, <2>2
<1>6. ASSUME NEW i \in 1 .. Len(list) PROVE E[list[i]] \in 0 .. Max(Counts)
  <2>1. E[list[i]] = Ahead(list, D, i) - Ahead(list, D, i - 1)
    BY DEF Spaced
  <2>2. Ahead(list, D, i) = D[list[i]] /\ D[list[i]] <= Max(Counts)
    BY <1>1 DEF Ahead, Spaced
  <2>3. Ahead(list, D, i - 1) \in Nat /\ Ahead(list, D, i - 1) <= D[list[i]]
    <3>1. i - 1 \in 0 .. Len(list)
      BY <1>1
    <3>2. QED
      BY <1>4, <1>5, <3>1
  <2>4. Max(Counts) \in Nat /\ D[list[i]] \in Nat
    BY <1>3, CountFacts
  <2>5. QED
    BY <2>1, <2>2, <2>3, <2>4
<1>7. QED
  BY <1>1, <1>2, <1>3, <1>4, <1>5, <1>6

\* The counters up to position i add up to the deadline there.
LEMMA SumIs ==
  ASSUME TimerAssumption, NEW list, NEW E, NEW D \in [Timers -> Nat],
         Spaced(list, E, D), NEW k \in 0 .. Len(list)
  PROVE  Sum(list, E, k) = Ahead(list, D, k)
<1> DEFINE n == Len(list)
           Def(f) == [i \in 0 .. n |-> IF i = 0 THEN 0 ELSE f[i - 1] + E[list[i]]]
           sum == CHOOSE f : f = Def(f)
           g == [i \in 0 .. n |-> Ahead(list, D, i)]
<1>1. n \in Nat /\ \A i \in 0 .. n : Ahead(list, D, i) \in Nat
  BY SpacedFacts
<1>2. ASSUME NEW i \in 1 .. n
      PROVE  /\ Ahead(list, D, i) = Ahead(list, D, i - 1) + E[list[i]]
             /\ i \in 0 .. n /\ i - 1 \in 0 .. n
  <2>1. E[list[i]] = Ahead(list, D, i) - Ahead(list, D, i - 1)
    BY DEF Spaced
  <2>2. i \in 0 .. n /\ i - 1 \in 0 .. n
    BY <1>1
  <2>3. Ahead(list, D, i) \in Nat /\ Ahead(list, D, i - 1) \in Nat
    BY <1>1, <2>2
  <2>4. QED
    BY <2>1, <2>2, <2>3
<1>3. Ahead(list, D, 0) = 0
  BY DEF Ahead
<1> HIDE DEF n
<1>4. g = Def(g)
  <2>1. ASSUME NEW i \in 0 .. n
        PROVE  g[i] = IF i = 0 THEN 0 ELSE g[i - 1] + E[list[i]]
    <3>1. CASE i = 0
      BY <1>3, <3>1
    <3>2. CASE i # 0
      <4>1. i \in 1 .. n
        BY <1>1, <3>2
      <4>2. i - 1 \in 0 .. n /\ g[i] = Ahead(list, D, i) /\ g[i - 1] = Ahead(list, D, i - 1)
        BY <1>2, <4>1
      <4>3. QED
        BY <1>2, <3>2, <4>1, <4>2
    <3>3. QED
      BY <3>1, <3>2
  <2>2. QED
    BY <2>1
<1>5. sum = Def(sum)
  <2> HIDE DEF Def, g
  <2>1. \E f : f = Def(f)
    BY <1>4
  <2>2. QED
    BY <2>1, Zenon
<1> HIDE DEF sum
<1>6. \A i \in 0 .. n : sum[i] = Ahead(list, D, i)
  <2> DEFINE T == {i \in 0 .. n : sum[i] = Ahead(list, D, i)}
  <2>1. 0 \in T
    BY <1>1, <1>3, <1>5
  <2>2. ASSUME NEW i \in 0 .. n - 1, i \in T PROVE i + 1 \in T
    <3>1. i + 1 \in 1 .. n /\ i + 1 \in 0 .. n /\ i + 1 # 0 /\ (i + 1) - 1 = i
      BY <1>1
    <3>2. sum[i + 1] = sum[i] + E[list[i + 1]]
      BY <1>5, <3>1
    <3>3. Ahead(list, D, i + 1) = Ahead(list, D, i) + E[list[i + 1]]
      BY <1>2, <3>1
    <3>4. QED
      BY <2>2, <3>1, <3>2, <3>3
  <2>3. 0 .. n \subseteq T
    <3> HIDE DEF T
    <3>1. QED
      BY <1>1, <2>1, <2>2, IntervalInduction
  <2>4. QED
    BY <2>3
<1>7. Sum(list, E, k) = sum[k]
  BY DEF Sum, sum, n
<1>8. QED
  BY <1>6, <1>7 DEF n

\* A timer of an injective list is found where it is.
LEMMA PositionIs ==
  ASSUME NEW list \in Seq(Timers), NEW i \in 1 .. Len(list),
         \A j \in 1 .. Len(list) : list[j] = list[i] => j = i
  PROVE  Position(list, list[i]) = i
<1> DEFINE at == {j \in 1 .. Len(list) : list[j] = list[i]}
<1>1. at = {i} /\ at # {}
  OBVIOUS
<1>2. Min({i}) = i
  BY DEF Min
<1>3. Position(list, list[i]) = IF at # {} THEN Min(at) ELSE 0
  BY DEF Position, SelectInSeq
<1>4. QED
  BY <1>1, <1>2, <1>3

\* The place that InsertTmrList finds for a timer of n ticks.
LEMMA FindPlaced ==
  ASSUME TimerAssumption, NEW list, NEW E, NEW D \in [Timers -> Nat],
         Spaced(list, E, D), NEW n \in Nat, NEW p, p = FindPlace(list, E, n)
  PROVE  \/ /\ p.before = None /\ p.delta \in Nat
            /\ Ahead(list, D, Len(list)) + p.delta = n
         \/ \E i \in 1 .. Len(list) :
              /\ p.before = list[i] /\ p.delta \in Int /\ p.delta < 0
              /\ D[list[i]] + p.delta = n /\ Ahead(list, D, i - 1) <= n
<1> DEFINE later == {i \in 1 .. Len(list) : n - Sum(list, E, i) < 0}
           at == IF later = {} THEN Len(list) ELSE Min(later)
<1>1. /\ Len(list) \in Nat
      /\ \A i \in 0 .. Len(list) : Ahead(list, D, i) \in Nat
      /\ \A i \in 0 .. Len(list) : Sum(list, E, i) = Ahead(list, D, i)
  BY SpacedFacts, SumIs
<1>2. /\ p.before = IF later = {} THEN None ELSE list[at]
      /\ p.delta = n - Sum(list, E, at)
  BY DEF FindPlace
<1>3. CASE later = {}
  <2>1. p.before = None /\ p.delta = n - Ahead(list, D, Len(list))
    <3>1. Len(list) \in 0 .. Len(list)
      BY <1>1
    <3>2. QED
      BY <1>1, <1>2, <1>3, <3>1
  <2>2. Ahead(list, D, Len(list)) <= n
    <3>1. CASE Len(list) = 0
      BY <3>1 DEF Ahead
    <3>2. CASE Len(list) # 0
      <4>1. Len(list) \in 1 .. Len(list) /\ Len(list) \in 0 .. Len(list)
        BY <1>1, <3>2
      <4>2. ~(n - Sum(list, E, Len(list)) < 0)
        BY <1>3, <4>1
      <4>3. QED
        BY <1>1, <4>1, <4>2
    <3>3. QED
      BY <3>1, <3>2
  <2>3. Ahead(list, D, Len(list)) \in Nat
    BY <1>1
  <2>4. QED
    BY <2>1, <2>2, <2>3
<1>4. CASE later # {}
  <2>1. Min(later) \in later /\ \A j \in later : Min(later) <= j
    <3>1. later \in SUBSET Nat
      BY <1>1
    <3> HIDE DEF later
    <3>2. QED
      BY <1>4, <3>1, MinNat
  <2>2. PICK i \in 1 .. Len(list) : i = Min(later) /\ n - Sum(list, E, i) < 0
    BY <2>1
  <2>3. i \in 0 .. Len(list) /\ i - 1 \in 0 .. Len(list) /\ i # 0
    BY <1>1
  <2>4. p.before = list[i] /\ p.delta = n - Ahead(list, D, i)
    BY <1>1, <1>2, <1>4, <2>2, <2>3
  <2>5. Ahead(list, D, i) = D[list[i]]
    BY <2>3 DEF Ahead
  <2>6. Ahead(list, D, i - 1) <= n
    <3>1. CASE i = 1
      BY <3>1 DEF Ahead
    <3>2. CASE i # 1
      <4>1. i - 1 \in 1 .. Len(list) /\ ~(i <= i - 1)
        BY <1>1, <3>2
      <4>2. i - 1 \notin later
        BY <2>1, <2>2, <4>1
      <4>3. ~(n - Sum(list, E, i - 1) < 0)
        BY <4>1, <4>2
      <4>4. QED
        BY <1>1, <2>3, <4>3
    <3>3. QED
      BY <3>1, <3>2
  <2>7. D[list[i]] \in Nat /\ n - D[list[i]] < 0
    BY <1>1, <2>2, <2>3, <2>5
  <2>8. QED
    BY <2>4, <2>5, <2>6, <2>7
<1>5. QED
  BY <1>3, <1>4

\* Only the counters and the deadlines of linked timers matter.
LEMMA SpacedAlike ==
  ASSUME NEW list, NEW E, NEW D, Spaced(list, E, D), NEW F, NEW G,
         \A i \in 1 .. Len(list) : F[list[i]] = E[list[i]] /\ G[list[i]] = D[list[i]]
  PROVE  Spaced(list, F, G)
<1>1. list \in Seq(Timers) /\ Len(list) \in Nat
  BY DEF Spaced
<1>2. ASSUME NEW i \in 0 .. Len(list) PROVE Ahead(list, G, i) = Ahead(list, D, i)
  BY <1>1 DEF Ahead
<1>3. ASSUME NEW i \in 1 .. Len(list)
      PROVE  F[list[i]] = Ahead(list, G, i) - Ahead(list, G, i - 1)
  <2>1. i \in 0 .. Len(list) /\ i - 1 \in 0 .. Len(list)
    BY <1>1
  <2>2. E[list[i]] = Ahead(list, D, i) - Ahead(list, D, i - 1)
    BY DEF Spaced
  <2>3. QED
    BY <1>2, <2>1, <2>2
<1>4. QED
  BY <1>1, <1>3 DEF Spaced

\* A timer t is linked before the timer at position at, |delta| ticks earlier.
LinksAt(list, E, D, t, at, delta, d) ==
  /\ E \in [Timers -> Int] /\ D \in [Timers -> Nat] /\ Spaced(list, E, D)
  /\ t \in Timers /\ \A i \in 1 .. Len(list) : list[i] # t
  /\ at \in 1 .. Len(list) /\ delta \in Int /\ delta < 0
  /\ d \in Nat /\ d = D[list[at]] + delta /\ Ahead(list, D, at - 1) <= d

\* Its deadline then lies between its neighbours'.
LEMMA LinkAt ==
  ASSUME TimerAssumption, NEW list, NEW E, NEW D, NEW t, NEW at, NEW delta, NEW d,
         LinksAt(list, E, D, t, at, delta, d)
  PROVE  /\ PutBefore(Linked(list, t, list[at]), list, at, t)
         /\ Spaced(Linked(list, t, list[at]),
                   [E EXCEPT ![t] = E[list[at]] + delta, ![list[at]] = -delta],
                   [D EXCEPT ![t] = d])
<1> DEFINE n == Len(list)
           b == list[at]
           r == Linked(list, t, b)
           F == [E EXCEPT ![t] = E[b] + delta, ![b] = -delta]
           G == [D EXCEPT ![t] = d]
<1>1. /\ list \in Seq(Timers) /\ n \in Nat
      /\ \A i \in 1 .. n : list[i] \in Timers /\ D[list[i]] \in Nat
      /\ \A i \in 0 .. n : Ahead(list, D, i) \in Nat
  BY SpacedFacts DEF LinksAt
<1>2. /\ \A i, j \in 1 .. n : list[i] = list[j] => i = j
      /\ \A i \in 1 .. n : E[list[i]] = Ahead(list, D, i) - Ahead(list, D, i - 1)
      /\ \A i, j \in 1 .. n : i <= j => D[list[i]] <= D[list[j]]
      /\ \A i \in 1 .. n : D[list[i]] <= Max(Counts)
  BY DEF Spaced, LinksAt
<1>3. at \in 1 .. n /\ at \in Nat /\ n \in Nat /\ at >= 1 /\ at <= n
  BY <1>1 DEF LinksAt
<1>4. t \in Timers /\ b \in Timers /\ b # t /\ \A i \in 1 .. n : list[i] # t
  BY <1>1, <1>3 DEF LinksAt
<1>5. E \in [Timers -> Int] /\ D \in [Timers -> Nat] /\ Ahead(list, D, at - 1) <= d
  BY DEF LinksAt
<1>6. delta \in Int /\ d \in Nat /\ D[b] \in Nat /\ d = D[b] + delta /\ d <= D[b]
  <2>1. delta \in Int /\ d \in Nat /\ d = D[b] + delta /\ delta < 0
    BY DEF LinksAt
  <2>2. D[b] \in Nat
    BY <1>1, <1>3
  <2> HIDE DEF b
  <2>3. QED
    BY <2>1, <2>2
<1>7. r \in Seq(Timers) /\ PutBefore(r, list, at, t) /\ Len(r) = n + 1
  <2>1. Position(list, b) = at
    BY <1>1, <1>2, <1>3, PositionIs
  <2>2. b # None
    BY <1>4, CountFacts
  <2>3. r = InsertAt(list, at, t)
    BY <2>1, <2>2 DEF Linked
  <2>4. at \in 1 .. n + 1
    BY <1>3
  <2> HIDE DEF r, n, b
  <2>5. r \in Seq(Timers) /\ PutBefore(r, list, at, t)
    BY <1>1, <1>4, <2>3, <2>4, InsertAtFacts DEF n
  <2>6. QED
    BY <2>5 DEF PutBefore, n
<1>8. /\ F[t] = E[b] + delta /\ F[b] = -delta
      /\ \A u \in Timers : u # t /\ u # b => F[u] = E[u]
      /\ G[t] = d /\ \A u \in Timers : u # t => G[u] = D[u]
  BY <1>4, <1>5
<1> HIDE DEF r, F, G, n, b
<1>9. ASSUME NEW i \in 1 .. n + 1
      PROVE  /\ i < at => i \in 1 .. n /\ r[i] = list[i] /\ G[r[i]] = D[list[i]]
             /\ i = at => r[i] = t /\ G[r[i]] = d
             /\ i > at => i - 1 \in 1 .. n /\ r[i] = list[i - 1] /\ G[r[i]] = D[list[i - 1]]
  <2>1. r[i] = IF i < at THEN list[i] ELSE IF i = at THEN t ELSE list[i - 1]
    BY <1>7 DEF PutBefore, n
  <2>2. CASE i < at
    <3>1. i \in 1 .. n /\ r[i] = list[i] /\ i # at /\ ~(i > at)
      BY <1>3, <2>1, <2>2
    <3>2. list[i] \in Timers /\ list[i] # t
      BY <1>1, <1>4, <3>1
    <3>3. QED
      BY <1>8, <3>1, <3>2
  <2>3. CASE i = at
    BY <1>3, <1>8, <2>1, <2>3
  <2>4. CASE i > at
    <3>1. i - 1 \in 1 .. n /\ r[i] = list[i - 1] /\ i # at /\ ~(i < at)
      BY <1>3, <2>1, <2>4
    <3>2. list[i - 1] \in Timers /\ list[i - 1] # t
      BY <1>1, <1>4, <3>1
    <3>3. QED
      BY <1>8, <3>1, <3>2
  <2>5. QED
    BY <1>3, <2>2, <2>3, <2>4
<1>10. b = list[at] /\ b \in Timers
  BY <1>4 DEF b
<1>11. /\ \A i \in 1 .. n : i < at => D[list[i]] <= d
       /\ \A i \in 1 .. n : i >= at => d <= D[list[i]]
  <2>1. ASSUME NEW i \in 1 .. n, i < at PROVE D[list[i]] <= d
    <3>1. at - 1 \in 1 .. n /\ i <= at - 1 /\ at - 1 # 0
      BY <1>3, <2>1
    <3>2. PICK x \in Nat, y \in Nat : x = D[list[i]] /\ y = D[list[at - 1]]
      BY <1>1, <3>1
    <3>3. x <= y
      BY <1>2, <3>1, <3>2
    <3>4. y <= d
      BY <1>5, <3>1, <3>2 DEF Ahead
    <3>5. QED
      BY <1>6, <3>2, <3>3, <3>4
  <2>2. ASSUME NEW i \in 1 .. n, i >= at PROVE d <= D[list[i]]
    <3>1. PICK x \in Nat : x = D[list[i]]
      BY <1>1
    <3>2. D[b] <= x
      BY <1>2, <1>3, <1>10, <2>2, <3>1
    <3>3. QED
      BY <1>6, <3>1, <3>2
  <2>3. QED
    BY <2>1, <2>2
<1>12. ASSUME NEW i \in 1 .. n + 1, NEW j \in 1 .. n + 1
       PROVE  /\ r[i] = r[j] => i = j
              /\ i <= j => G[r[i]] <= G[r[j]]
  <2>1. CASE i < at
    <3>1. CASE j < at
      BY <1>2, <1>9, <2>1, <3>1
    <3>2. CASE j = at
      BY <1>3, <1>4, <1>9, <1>11, <2>1, <3>2
    <3>3. CASE j > at
      <4>1. i \in 1 .. n /\ j - 1 \in 1 .. n /\ i <= j - 1 /\ i # j - 1
        BY <1>9, <1>3, <2>1, <3>3
      <4>2. QED
        BY <1>2, <1>9, <2>1, <3>3, <4>1
    <3>4. QED
      BY <1>3, <3>1, <3>2, <3>3
  <2>2. CASE i = at
    <3>1. CASE j < at
      <4>1. j \in 1 .. n /\ ~(i <= j) /\ r[j] = list[j]
        BY <1>9, <1>3, <2>2, <3>1
      <4>2. list[j] # t
        BY <1>4, <4>1
      <4>3. QED
        BY <1>9, <2>2, <4>1, <4>2
    <3>2. CASE j = at
      BY <1>6, <1>9, <2>2, <3>2
    <3>3. CASE j > at
      <4>1. j - 1 \in 1 .. n /\ j - 1 >= at
        BY <1>9, <1>3, <3>3
      <4>2. d <= D[list[j - 1]] /\ list[j - 1] # t
        BY <1>4, <1>11, <4>1
      <4>3. QED
        BY <1>9, <2>2, <3>3, <4>2
    <3>4. QED
      BY <1>3, <3>1, <3>2, <3>3
  <2>3. CASE i > at
    <3>1. CASE j < at
      <4>1. j \in 1 .. n /\ i - 1 \in 1 .. n /\ ~(i <= j) /\ j # i - 1
        BY <1>9, <1>3, <2>3, <3>1
      <4>2. QED
        BY <1>2, <1>9, <2>3, <3>1, <4>1
    <3>2. CASE j = at
      <4>1. i - 1 \in 1 .. n /\ ~(i <= j)
        BY <1>9, <1>3, <2>3, <3>2
      <4>2. QED
        BY <1>4, <1>9, <2>3, <3>2, <4>1
    <3>3. CASE j > at
      <4>1. /\ j - 1 \in 1 .. n /\ i - 1 \in 1 .. n /\ (i - 1 = j - 1 => i = j)
            /\ (i <= j => i - 1 <= j - 1)
        BY <1>9, <1>3, <2>3, <3>3
      <4>2. QED
        BY <1>2, <1>9, <2>3, <3>3, <4>1
    <3>4. QED
      BY <1>3, <3>1, <3>2, <3>3
  <2>4. QED
    BY <1>3, <2>1, <2>2, <2>3
<1>13. ASSUME NEW i \in 1 .. n + 1
       PROVE  F[r[i]] = Ahead(r, G, i) - Ahead(r, G, i - 1)
  <2>1. Ahead(r, G, i) = G[r[i]]
    BY DEF Ahead
  <2>2. CASE i < at
    <3>1. i \in 1 .. n /\ r[i] = list[i] /\ G[r[i]] = D[list[i]]
      BY <1>9, <2>2
    <3>2. Ahead(r, G, i - 1) = Ahead(list, D, i - 1)
      <4>1. CASE i = 1
        BY <4>1 DEF Ahead
      <4>2. CASE i # 1
        <5>1. i - 1 \in 1 .. n + 1 /\ i - 1 < at /\ i - 1 # 0
          BY <1>3, <2>2, <4>2
        <5>2. QED
          BY <1>9, <5>1 DEF Ahead
      <4>3. QED
        BY <4>1, <4>2
    <3>3. list[i] # t /\ list[i] # b /\ list[i] \in Timers
      <4>1. i # at
        BY <1>3, <2>2
      <4>2. QED
        BY <1>1, <1>2, <1>3, <1>4, <1>10, <3>1, <4>1
    <3>4. F[r[i]] = E[list[i]]
      BY <1>8, <3>1, <3>3
    <3>5. E[list[i]] = D[list[i]] - Ahead(list, D, i - 1)
      BY <1>2, <3>1 DEF Ahead
    <3>6. QED
      BY <2>1, <3>1, <3>2, <3>4, <3>5
  <2>3. CASE i = at
    <3>1. Ahead(r, G, i - 1) = Ahead(list, D, at - 1)
      <4>1. CASE i = 1
        BY <2>3, <4>1 DEF Ahead
      <4>2. CASE i # 1
        <5>1. i - 1 \in 1 .. n + 1 /\ i - 1 < at /\ i - 1 # 0
          BY <1>3, <2>3, <4>2
        <5>2. QED
          BY <1>9, <2>3, <5>1 DEF Ahead
      <4>3. QED
        BY <4>1, <4>2
    <3>2. F[r[i]] = E[b] + delta /\ G[r[i]] = d
      BY <1>8, <1>9, <2>3
    <3>3. E[b] = D[b] - Ahead(list, D, at - 1)
      BY <1>2, <1>3, <1>10 DEF Ahead
    <3>4. Ahead(list, D, at - 1) \in Nat
      <4>1. at - 1 \in 0 .. n
        BY <1>3
      <4>2. QED
        BY <1>1, <4>1 DEF n
    <3>5. QED
      BY <1>6, <2>1, <3>1, <3>2, <3>3, <3>4
  <2>4. CASE i > at
    <3>1. i - 1 \in 1 .. n /\ r[i] = list[i - 1] /\ G[r[i]] = D[list[i - 1]] /\ i - 1 # 0
      BY <1>9, <1>3, <2>4
    <3>2. i - 1 \in 1 .. n + 1
      BY <1>3, <3>1
    <3>3. CASE i = at + 1
      <4>1. i - 1 = at
        BY <1>3, <3>3
      <4>2. Ahead(r, G, i - 1) = d
        BY <1>9, <3>1, <3>2, <4>1 DEF Ahead
      <4>3. F[r[i]] = -delta /\ G[r[i]] = D[b]
        BY <1>8, <1>10, <3>1, <4>1
      <4>4. QED
        BY <1>6, <2>1, <4>2, <4>3
    <3>4. CASE i # at + 1
      <4>0. i \in Nat /\ i > at /\ i # at + 1
        BY <1>3, <2>4, <3>4
      <4>1. i - 1 > at /\ i - 1 # at /\ i - 2 \in 1 .. n /\ (i - 1) - 1 = i - 2 /\ i - 2 # 0
        <5>1. at >= 1 /\ i <= n + 1
          BY <1>3
        <5>2. QED
          BY <1>3, <4>0, <5>1
      <4>2. Ahead(r, G, i - 1) = D[list[i - 2]]
        BY <1>9, <3>1, <3>2, <4>1 DEF Ahead
      <4>3. list[i - 1] # t /\ list[i - 1] # b /\ list[i - 1] \in Timers
        BY <1>1, <1>2, <1>3, <1>4, <1>10, <3>1, <4>1
      <4>4. F[r[i]] = E[list[i - 1]]
        BY <1>8, <3>1, <4>3
      <4>5. E[list[i - 1]] = D[list[i - 1]] - D[list[i - 2]]
        BY <1>2, <3>1, <4>1 DEF Ahead
      <4>6. QED
        BY <2>1, <3>1, <4>2, <4>4, <4>5
    <3>5. QED
      BY <3>3, <3>4
  <2>5. QED
    BY <1>3, <2>2, <2>3, <2>4
<1>14. ASSUME NEW i \in 1 .. n + 1 PROVE G[r[i]] <= Max(Counts)
  <2>1. Max(Counts) \in Nat /\ D[b] <= Max(Counts)
    BY <1>2, <1>3, <1>10, CountFacts
  <2>2. CASE i < at
    BY <1>2, <1>9, <2>2
  <2>3. CASE i = at
    <3>1. G[r[i]] = d
      BY <1>9, <2>3
    <3>2. QED
      BY <1>6, <2>1, <3>1
  <2>4. CASE i > at
    <3>1. PICK k \in 1 .. n : G[r[i]] = D[list[k]]
      BY <1>9, <2>4
    <3>2. QED
      BY <1>2, <3>1
  <2>5. i < at \/ i = at \/ i > at
    BY <1>3
  <2>6. QED
    BY <2>2, <2>3, <2>4, <2>5
<1>15. Spaced(r, F, G)
  BY <1>7, <1>12, <1>13, <1>14 DEF Spaced, n
<1>16. QED
  BY <1>7, <1>15 DEF r, F, G, b

\* The same for the list, counters and deadlines as InsertTmrList has them at hand: a timer
\* linked before list[at] leaves every counter the distance between two deadlines.
LEMMA LinkSpaced ==
  ASSUME TimerAssumption, NEW list, NEW E \in [Timers -> Int],
         NEW D \in [Timers -> Nat], Spaced(list, E, D),
         NEW t \in Timers, \A i \in 1 .. Len(list) : list[i] # t,
         NEW at \in 1 .. Len(list), NEW delta \in Int, delta < 0,
         NEW d \in Nat, d = D[list[at]] + delta, Ahead(list, D, at - 1) <= d
  PROVE  /\ PutBefore(Linked(list, t, list[at]), list, at, t)
         /\ Spaced(Linked(list, t, list[at]),
                   [E EXCEPT ![t] = E[list[at]] + delta, ![list[at]] = -delta],
                   [D EXCEPT ![t] = d])
<1>1. LinksAt(list, E, D, t, at, delta, d)
  BY DEF LinksAt
<1>2. QED
  BY <1>1, LinkAt

\* A timer is linked at the end, delta ticks after the last.
LEMMA AppendSpaced ==
  ASSUME TimerAssumption, NEW list, NEW E \in [Timers -> Int],
         NEW D \in [Timers -> Nat], Spaced(list, E, D),
         NEW t \in Timers, \A i \in 1 .. Len(list) : list[i] # t,
         NEW delta \in Nat, NEW d \in Nat,
         d = Ahead(list, D, Len(list)) + delta, d <= Max(Counts)
  PROVE  Spaced(Linked(list, t, None), [E EXCEPT ![t] = delta], [D EXCEPT ![t] = d])
<1> DEFINE n == Len(list)
           r == Append(list, t)
           F == [E EXCEPT ![t] = delta]
           G == [D EXCEPT ![t] = d]
<1>1. /\ list \in Seq(Timers) /\ n \in Nat
      /\ \A i \in 1 .. n : list[i] \in Timers /\ D[list[i]] \in Nat
      /\ \A i \in 0 .. n : Ahead(list, D, i) \in Nat
  BY SpacedFacts
<1>2. /\ \A i, j \in 1 .. n : list[i] = list[j] => i = j
      /\ \A i \in 1 .. n : E[list[i]] = Ahead(list, D, i) - Ahead(list, D, i - 1)
      /\ \A i, j \in 1 .. n : i <= j => D[list[i]] <= D[list[j]]
      /\ \A i \in 1 .. n : D[list[i]] <= Max(Counts)
  BY DEF Spaced
<1>3. r \in Seq(Timers) /\ Len(r) = n + 1 /\ r[n + 1] = t
      /\ \A i \in 1 .. n : r[i] = list[i]
  BY <1>1
<1>4. /\ F[t] = delta /\ \A u \in Timers : u # t => F[u] = E[u]
      /\ G[t] = d /\ \A u \in Timers : u # t => G[u] = D[u]
  OBVIOUS
<1> HIDE DEF r, F, G, n
<1>5. \A i \in 1 .. n : list[i] # t /\ F[r[i]] = E[list[i]] /\ G[r[i]] = D[list[i]]
  BY <1>1, <1>3, <1>4 DEF n
<1>6. \A i \in 1 .. n : D[list[i]] <= d
  <2>1. ASSUME NEW i \in 1 .. n PROVE D[list[i]] <= d
    <3>1. n \in 1 .. n /\ i <= n /\ n # 0
      BY <1>1
    <3>2. D[list[i]] <= D[list[n]] /\ D[list[n]] = Ahead(list, D, n)
      BY <1>2, <3>1 DEF Ahead
    <3>3. D[list[i]] \in Nat /\ D[list[n]] \in Nat
      BY <1>1, <3>1 DEF n
    <3>4. QED
      BY <3>2, <3>3 DEF n
  <2>2. QED
    BY <2>1
<1>7. ASSUME NEW i \in 1 .. n + 1, NEW j \in 1 .. n + 1
      PROVE  /\ r[i] = r[j] => i = j
             /\ i <= j => G[r[i]] <= G[r[j]]
  <2>1. (i \in 1 .. n \/ i = n + 1) /\ (j \in 1 .. n \/ j = n + 1) /\ ~(n + 1 \in 1 .. n)
    BY <1>1
  <2>2. CASE i \in 1 .. n /\ j \in 1 .. n
    <3>1. r[i] = list[i] /\ r[j] = list[j] /\ G[r[i]] = D[list[i]] /\ G[r[j]] = D[list[j]]
      BY <1>3, <1>5, <2>2
    <3>2. QED
      BY <1>2, <2>2, <3>1
  <2>3. CASE i \in 1 .. n /\ j = n + 1
    BY <1>3, <1>4, <1>5, <1>6, <2>3
  <2>4. CASE i = n + 1 /\ j \in 1 .. n
    <3>1. ~(i <= j)
      BY <1>1, <2>4
    <3>2. QED
      BY <1>3, <1>5, <2>4, <3>1
  <2>5. CASE i = n + 1 /\ j = n + 1
    BY <1>3, <1>4, <2>5
  <2>6. QED
    BY <2>1, <2>2, <2>3, <2>4, <2>5
<1>8. ASSUME NEW i \in 0 .. n PROVE Ahead(r, G, i) = Ahead(list, D, i)
  BY <1>1, <1>5 DEF Ahead
<1>9. ASSUME NEW i \in 1 .. n + 1
      PROVE  F[r[i]] = Ahead(r, G, i) - Ahead(r, G, i - 1)
  <2>1. CASE i \in 1 .. n
    <3>1. i \in 0 .. n /\ i - 1 \in 0 .. n
      BY <1>1, <2>1
    <3>2. QED
      BY <1>2, <1>5, <1>8, <2>1, <3>1
  <2>2. CASE i = n + 1
    <3>1. n \in 0 .. n /\ i - 1 = n /\ i # 0
      BY <1>1, <2>2
    <3>2. Ahead(r, G, i - 1) = Ahead(list, D, n) /\ Ahead(r, G, i) = d
      <4>1. Ahead(r, G, i) = d
        BY <1>3, <1>4, <2>2, <3>1 DEF Ahead
      <4>2. QED
        BY <1>8, <3>1, <4>1
    <3>3. Ahead(list, D, n) \in Nat
      BY <1>1, <3>1
    <3>4. QED
      BY <1>3, <1>4, <2>2, <3>2, <3>3 DEF n
  <2>3. QED
    BY <1>1, <2>1, <2>2
<1>10. ASSUME NEW i \in 1 .. n + 1 PROVE G[r[i]] <= Max(Counts)
  <2>1. CASE i \in 1 .. n
    BY <1>2, <1>5, <2>1
  <2>2. CASE i = n + 1
    BY <1>3, <1>4, <2>2
  <2>3. QED
    BY <1>1, <2>1, <2>2
<1>11. Spaced(r, F, G)
  BY <1>3, <1>7, <1>9, <1>10 DEF Spaced
<1>12. QED
  BY <1>11 DEF Linked, r, F, G

\* The timer at position at is unlinked, and its ticks go to its successor.
LEMMA UnlinkSpaced ==
  ASSUME TimerAssumption, NEW list, NEW E \in [Timers -> Int],
         NEW D \in [Timers -> Nat], Spaced(list, E, D), NEW at \in 1 .. Len(list)
  PROVE  /\ Spaced(Unlinked(list, list[at]),
                   GiveTicks(E, Successor(list, list[at]), E[list[at]]), D)
         /\ ToSet(Unlinked(list, list[at])) = ToSet(list) \ {list[at]}
         /\ \/ Successor(list, list[at]) = None
            \/ Successor(list, list[at]) \in ToSet(Unlinked(list, list[at]))
<1> DEFINE n == Len(list)
           t == list[at]
           r == Unlinked(list, t)
           to == Successor(list, t)
           F == GiveTicks(E, to, E[t])
<1>1. /\ list \in Seq(Timers) /\ n \in Nat
      /\ \A i \in 1 .. n : list[i] \in Timers /\ D[list[i]] \in Nat
      /\ \A i \in 0 .. n : Ahead(list, D, i) \in Nat
  BY SpacedFacts
<1>2. /\ \A i, j \in 1 .. n : list[i] = list[j] => i = j
      /\ \A i \in 1 .. n : E[list[i]] = Ahead(list, D, i) - Ahead(list, D, i - 1)
      /\ \A i, j \in 1 .. n : i <= j => D[list[i]] <= D[list[j]]
      /\ \A i \in 1 .. n : D[list[i]] <= Max(Counts)
  BY DEF Spaced
<1>3. Position(list, t) = at
  BY <1>1, <1>2, PositionIs
<1>4. /\ r \in Seq(Timers) /\ Len(r) = n - 1
      /\ \A i \in 1 .. n - 1 : r[i] = IF i < at THEN list[i] ELSE list[i + 1]
  <2>1. t \in ToSet(list)
    BY <1>1 DEF ToSet
  <2>2. r = RemoveAt(list, at)
    BY <1>3, <2>1 DEF Unlinked
  <2> HIDE DEF r, t, n
  <2>3. QED
    BY <1>1, <2>2, RemoveAtFacts DEF n
<1>5. to = IF at \in 1 .. n - 1 THEN list[at + 1] ELSE None
  BY <1>3 DEF Successor
<1>6. at \in 1 .. n /\ at \in Nat /\ at >= 1 /\ at <= n /\ t \in Timers /\ E[t] \in Int
  BY <1>1
<1> HIDE DEF n, r, F, to
<1>7. ASSUME NEW i \in 1 .. n - 1
      PROVE  /\ i < at => i \in 1 .. n /\ r[i] = list[i]
             /\ i >= at => i + 1 \in 1 .. n /\ r[i] = list[i + 1]
  <2>1. i \in 1 .. n /\ i + 1 \in 1 .. n /\ (i >= at => ~(i < at))
    BY <1>1, <1>6
  <2>2. QED
    BY <1>4, <2>1
<1>8. ASSUME NEW i \in 1 .. n - 1, NEW j \in 1 .. n - 1
      PROVE  /\ r[i] = r[j] => i = j
             /\ i <= j => D[r[i]] <= D[r[j]]
  <2>1. PICK k \in 1 .. n : r[i] = list[k] /\ k = IF i < at THEN i ELSE i + 1
    BY <1>6, <1>7
  <2>2. PICK l \in 1 .. n : r[j] = list[l] /\ l = IF j < at THEN j ELSE j + 1
    BY <1>6, <1>7
  <2>3. (k = l => i = j) /\ (i <= j => k <= l)
    <3>1. i \in Nat /\ j \in Nat /\ at \in Nat
      BY <1>6
    <3>2. /\ k = (IF i < at THEN i ELSE i + 1)
          /\ l = (IF j < at THEN j ELSE j + 1)
      BY <2>1, <2>2
    <3>3. QED
      BY <3>1, <3>2
  <2>4. QED
    BY <1>2, <2>1, <2>2, <2>3
<1>9. ASSUME NEW i \in 1 .. n - 1
      PROVE  F[r[i]] = Ahead(r, D, i) - Ahead(r, D, i - 1)
  <2>1. Ahead(r, D, i) = D[r[i]] /\ i \in Nat /\ i >= 1 /\ i # 0
    BY DEF Ahead
  <2>2. CASE i < at
    <3>1. i \in 1 .. n /\ r[i] = list[i] /\ list[i] \in Timers
      BY <1>1, <1>7, <2>2
    <3>2. Ahead(r, D, i - 1) = Ahead(list, D, i - 1)
      <4>1. CASE i = 1
        BY <4>1 DEF Ahead
      <4>2. CASE i # 1
        <5>1. i - 1 \in 1 .. n - 1 /\ i - 1 < at /\ i - 1 # 0
          BY <1>1, <1>6, <2>1, <2>2, <4>2
        <5>2. QED
          BY <1>7, <5>1 DEF Ahead
      <4>3. QED
        BY <4>1, <4>2
    <3>3. F[list[i]] = E[list[i]]
      <4>1. at \in 1 .. n - 1 => at + 1 \in 1 .. n /\ i # at + 1
        BY <1>1, <1>6, <2>2
      <4>2. list[i] # to \/ to = None
        BY <1>2, <1>5, <3>1, <4>1
      <4>3. QED
        BY <3>1, <4>2 DEF F, GiveTicks
    <3>4. E[list[i]] = D[list[i]] - Ahead(list, D, i - 1)
      BY <1>2, <2>1, <3>1 DEF Ahead
    <3>5. QED
      BY <2>1, <3>1, <3>2, <3>3, <3>4
  <2>3. CASE i = at
    <3>1. i + 1 \in 1 .. n /\ r[i] = list[i + 1] /\ list[i + 1] \in Timers
      <4>1. i >= at
        BY <2>1, <2>3
      <4>2. QED
        BY <1>1, <1>7, <4>1
    <3>2. to = list[i + 1] /\ to # None
      BY <1>5, <2>3, <3>1, CountFacts
    <3>3. F[r[i]] = E[list[i + 1]] + E[list[i]]
      BY <2>3, <3>1, <3>2 DEF F, GiveTicks
    <3>4. Ahead(r, D, i - 1) = Ahead(list, D, i - 1)
      <4>1. CASE i = 1
        BY <4>1 DEF Ahead
      <4>2. CASE i # 1
        <5>1. i - 1 \in 1 .. n - 1 /\ i - 1 < at /\ i - 1 # 0
          BY <1>1, <1>6, <2>1, <2>3, <4>2
        <5>2. QED
          BY <1>7, <5>1 DEF Ahead
      <4>3. QED
        BY <4>1, <4>2
    <3>5. E[list[i]] = D[list[i]] - Ahead(list, D, i - 1)
      BY <1>2, <1>6, <2>1, <2>3 DEF Ahead
    <3>6. E[list[i + 1]] = D[list[i + 1]] - D[list[i]]
      <4>1. (i + 1) - 1 = i /\ i + 1 # 0
        BY <2>1
      <4>2. QED
        BY <1>2, <2>1, <3>1, <4>1 DEF Ahead
    <3>7. D[list[i]] \in Nat /\ D[list[i + 1]] \in Nat /\ Ahead(list, D, i - 1) \in Nat
      <4>1. i \in 1 .. n /\ i - 1 \in 0 .. n
        BY <1>1, <1>6, <2>1, <2>3
      <4>2. QED
        BY <1>1, <3>1, <4>1
    <3>8. QED
      BY <2>1, <3>1, <3>3, <3>4, <3>5, <3>6, <3>7
  <2>4. CASE i > at
    <3>1. i + 1 \in 1 .. n /\ r[i] = list[i + 1] /\ list[i + 1] \in Timers
      <4>1. i >= at
        BY <1>6, <2>1, <2>4
      <4>2. QED
        BY <1>1, <1>7, <4>1
    <3>2. Ahead(r, D, i - 1) = D[list[i]]
      <4>1. i - 1 \in 1 .. n - 1 /\ i - 1 >= at /\ i - 1 # 0 /\ (i - 1) + 1 = i
        BY <1>1, <1>6, <2>1, <2>4
      <4>2. QED
        BY <1>7, <4>1 DEF Ahead
    <3>3. F[list[i + 1]] = E[list[i + 1]]
      <4>1. at \in 1 .. n - 1 => at + 1 \in 1 .. n /\ i + 1 # at + 1
        BY <1>1, <1>6, <2>1, <2>4
      <4>2. list[i + 1] # to \/ to = None
        BY <1>2, <1>5, <3>1, <4>1
      <4>3. QED
        BY <3>1, <4>2 DEF F, GiveTicks
    <3>4. E[list[i + 1]] = D[list[i + 1]] - D[list[i]]
      <4>1. (i + 1) - 1 = i /\ i + 1 # 0
        BY <2>1
      <4>2. QED
        BY <1>2, <2>1, <3>1, <4>1 DEF Ahead
    <3>5. QED
      BY <2>1, <3>1, <3>2, <3>3, <3>4
  <2>5. i < at \/ i = at \/ i > at
    BY <1>6, <2>1
  <2>6. QED
    BY <2>2, <2>3, <2>4, <2>5
<1>10. ASSUME NEW i \in 1 .. n - 1 PROVE D[r[i]] <= Max(Counts)
  BY <1>2, <1>6, <1>7
<1>11. Spaced(r, F, D)
  BY <1>4, <1>8, <1>9, <1>10 DEF Spaced
<1>12. ToSet(r) = ToSet(list) \ {t}
  <2>1. ASSUME NEW u \in ToSet(r) PROVE u \in ToSet(list) /\ u # t
    <3>1. PICK i \in 1 .. n - 1 : u = r[i]
      BY <1>4 DEF ToSet
    <3>2. PICK k \in 1 .. n : u = list[k] /\ k # at
      <4>1. i < at => i \in 1 .. n /\ u = list[i] /\ i # at
        BY <1>6, <1>7, <3>1
      <4>2. i >= at => i + 1 \in 1 .. n /\ u = list[i + 1] /\ i + 1 # at
        BY <1>6, <1>7, <3>1
      <4>3. i < at \/ i >= at
        BY <1>6
      <4>4. QED
        BY <4>1, <4>2, <4>3
    <3>3. u \in ToSet(list)
      <4>1. k \in 1 .. Len(list) /\ list[k] = u
        BY <3>2 DEF n
      <4>2. QED
        BY ONLY <4>1 DEF ToSet
    <3>4. u # t
      BY <1>2, <1>6, <3>2
    <3>5. QED
      BY <3>3, <3>4
  <2>2. ASSUME NEW u \in ToSet(list), u # t PROVE u \in ToSet(r)
    <3>1. PICK k \in 1 .. n : u = list[k]
      BY <1>1 DEF ToSet, n
    <3>2. CASE k < at
      <4>1. k \in 1 .. n - 1
        BY <1>1, <1>6, <3>2
      <4>2. QED
        BY <1>4, <1>7, <3>1, <3>2, <4>1 DEF ToSet
    <3>3. CASE k > at
      <4>1. k - 1 \in 1 .. n - 1 /\ k - 1 >= at /\ (k - 1) + 1 = k
        BY <1>1, <1>6, <3>3
      <4>2. PICK m \in 1 .. n - 1 : m = k - 1
        BY <4>1
      <4>3. u = r[m] /\ m \in 1 .. Len(r)
        BY <1>4, <1>7, <3>1, <4>1, <4>2
      <4>4. QED
        BY <1>4, <4>3 DEF ToSet
    <3>4. k # at
      BY <2>2, <3>1
    <3>5. k < at \/ k = at \/ k > at
      BY <1>6
    <3>6. QED
      BY <3>2, <3>3, <3>4, <3>5
  <2> HIDE DEF t
  <2>3. QED
    BY <2>1, <2>2
<1>13. to = None \/ to \in ToSet(r)
  <2>1. CASE at \in 1 .. n - 1
    <3>1. at + 1 \in 1 .. n /\ at + 1 # at
      BY <1>1, <1>6, <2>1
    <3>2. to = list[at + 1] /\ to \in ToSet(list)
      BY <1>1, <1>5, <2>1, <3>1 DEF ToSet, n
    <3>3. to # t
      BY <1>2, <1>6, <3>1, <3>2
    <3>4. QED
      BY <1>12, <3>2, <3>3
  <2>2. QED
    BY <1>5, <2>1
<1>14. QED
  BY <1>11, <1>12, <1>13 DEF r, F, to

\* The first timer, with a counter of 0, is taken from the list.
LEMMA TailSpaced ==
  ASSUME TimerAssumption, NEW list, NEW E, NEW D \in [Timers -> Nat],
         Spaced(list, E, D), list # <<>>, E[Head(list)] = 0
  PROVE  /\ Spaced(Tail(list), E, D) /\ D[Head(list)] = 0
         /\ Head(list) \in Timers /\ Head(list) \in ToSet(list)
         /\ ToSet(Tail(list)) = ToSet(list) \ {Head(list)}
         /\ \A i \in 1 .. Len(Tail(list)) : Tail(list)[i] # Head(list)
<1> DEFINE n == Len(list)
           r == Tail(list)
<1>1. /\ list \in Seq(Timers) /\ n \in Nat
      /\ \A i \in 1 .. n : list[i] \in Timers /\ D[list[i]] \in Nat
  BY SpacedFacts
<1>2. /\ \A i, j \in 1 .. n : list[i] = list[j] => i = j
      /\ \A i \in 1 .. n : E[list[i]] = Ahead(list, D, i) - Ahead(list, D, i - 1)
      /\ \A i, j \in 1 .. n : i <= j => D[list[i]] <= D[list[j]]
      /\ \A i \in 1 .. n : D[list[i]] <= Max(Counts)
  BY DEF Spaced
<1>3. /\ r \in Seq(Timers) /\ Len(r) = n - 1 /\ Head(list) = list[1]
      /\ \A i \in 1 .. n - 1 : r[i] = list[i + 1]
  <2>1. n # 0
    BY <1>1
  <2>2. QED
    BY <1>1, <2>1
<1>4. n >= 1 /\ 1 \in 1 .. n
  <2>1. n # 0
    BY <1>1
  <2>2. QED
    BY <1>1, <2>1
<1> HIDE DEF n, r
<1>5. D[list[1]] = 0
  <2>1. E[list[1]] = D[list[1]] - 0
    BY <1>2, <1>4 DEF Ahead
  <2>2. QED
    BY <1>1, <1>3, <1>4, <2>1
<1>6. \A i \in 1 .. n - 1 : i + 1 \in 1 .. n /\ i + 1 # 1 /\ (i + 1) - 1 = i /\ i # 0 /\ i + 1 # 0
  BY <1>1
<1>7. ASSUME NEW i \in 1 .. n - 1 PROVE E[r[i]] = Ahead(r, D, i) - Ahead(r, D, i - 1)
  <2>1. E[r[i]] = D[list[i + 1]] - D[list[i]]
    BY <1>2, <1>3, <1>6 DEF Ahead
  <2>2. Ahead(r, D, i) = D[list[i + 1]]
    BY <1>3, <1>6 DEF Ahead
  <2>3. Ahead(r, D, i - 1) = D[list[i]]
    <3>1. CASE i = 1
      BY <1>5, <3>1 DEF Ahead
    <3>2. CASE i # 1
      <4>1. i - 1 \in 1 .. n - 1 /\ i - 1 # 0 /\ (i - 1) + 1 = i
        BY <1>1, <3>2
      <4>2. QED
        BY <1>3, <4>1 DEF Ahead
    <3>3. QED
      BY <3>1, <3>2
  <2>4. QED
    BY <2>1, <2>2, <2>3
<1>8. ASSUME NEW i \in 1 .. n - 1, NEW j \in 1 .. n - 1
      PROVE  /\ r[i] = r[j] => i = j
             /\ i <= j => D[r[i]] <= D[r[j]]
  <2>1. (i + 1 = j + 1 => i = j) /\ (i <= j => i + 1 <= j + 1)
    OBVIOUS
  <2>2. PICK k \in 1 .. n, l \in 1 .. n :
          k = i + 1 /\ l = j + 1 /\ r[i] = list[k] /\ r[j] = list[l]
    BY <1>3, <1>6
  <2>3. QED
    BY <1>2, <2>1, <2>2
<1>9. ASSUME NEW i \in 1 .. n - 1 PROVE D[r[i]] <= Max(Counts)
  BY <1>2, <1>3, <1>6
<1>10. Spaced(r, E, D)
  BY <1>3, <1>7, <1>8, <1>9 DEF Spaced
<1>11. ASSUME NEW i \in 1 .. n - 1 PROVE r[i] # list[1]
  BY <1>2, <1>3, <1>4, <1>6
<1>12. ToSet(r) = ToSet(list) \ {list[1]}
  <2>1. ASSUME NEW u \in ToSet(r) PROVE u \in ToSet(list) /\ u # list[1]
    <3>1. PICK i \in 1 .. n - 1 : u = r[i]
      BY <1>3 DEF ToSet
    <3>2. PICK k \in 1 .. n : u = list[k]
      BY <1>3, <1>6, <3>1
    <3>3. u \in ToSet(list)
      <4>1. k \in 1 .. Len(list) /\ list[k] = u
        BY <3>2 DEF n
      <4>2. QED
        BY ONLY <4>1 DEF ToSet
    <3>4. QED
      BY <1>11, <3>1, <3>3
  <2>2. ASSUME NEW u \in ToSet(list), u # list[1] PROVE u \in ToSet(r)
    <3>1. PICK k \in 1 .. n : u = list[k]
      BY <1>1 DEF ToSet, n
    <3>2. k # 1
      BY <2>2, <3>1
    <3>3. k - 1 \in 1 .. n - 1 /\ (k - 1) + 1 = k
      BY <1>1, <3>2
    <3>4. u = r[k - 1]
      BY <1>3, <3>1, <3>3
    <3>5. QED
      BY <1>3, <3>3, <3>4 DEF ToSet
  <2>3. QED
    BY <2>1, <2>2
<1>13. list[1] \in ToSet(list) /\ list[1] \in Timers
  BY <1>1, <1>4 DEF ToSet, n
<1>14. QED
  BY <1>3, <1>5, <1>10, <1>11, <1>12, <1>13 DEF r

\* The elements of a sequence.
LEMMA ToSetFacts ==
  ASSUME NEW S, NEW q \in Seq(S)
  PROVE  /\ \A x : x \in ToSet(q) <=> \E i \in 1 .. Len(q) : q[i] = x
         /\ \A i \in 1 .. Len(q) : q[i] \in ToSet(q)
         /\ ToSet(q) \subseteq S
BY DEF ToSet

\* Linking a timer adds it, and nothing else.
LEMMA LinkedSet ==
  ASSUME NEW S, NEW q \in Seq(S), NEW r \in Seq(S), NEW at \in 1 .. Len(q) + 1,
         NEW t, PutBefore(r, q, at, t)
  PROVE  ToSet(r) = ToSet(q) \cup {t}
<1> DEFINE n == Len(q)
<1>1. n \in Nat /\ at \in Nat /\ at >= 1 /\ at <= n + 1
  OBVIOUS
<1>2. /\ Len(r) = n + 1
      /\ \A i \in 1 .. n + 1 :
           r[i] = IF i < at THEN q[i] ELSE IF i = at THEN t ELSE q[i - 1]
  BY DEF PutBefore
<1>3. ASSUME NEW x \in ToSet(r) PROVE x \in ToSet(q) \cup {t}
  <2>1. PICK i \in 1 .. n + 1 : x = r[i]
    BY <1>2, ToSetFacts
  <2>2. CASE i < at
    <3>1. i \in 1 .. n /\ x = q[i]
      BY <1>1, <1>2, <2>1, <2>2
    <3>2. QED
      BY <3>1, ToSetFacts
  <2>3. CASE i = at
    BY <1>2, <2>1, <2>3
  <2>4. CASE i > at
    <3>1. PICK k \in 1 .. n : k = i - 1
      BY <1>1, <2>4
    <3>2. x = q[k]
      BY <1>1, <1>2, <2>1, <2>4, <3>1
    <3>3. QED
      BY <3>2, ToSetFacts
  <2>5. QED
    BY <1>1, <2>2, <2>3, <2>4
<1>4. ASSUME NEW x \in ToSet(q) PROVE x \in ToSet(r)
  <2>1. PICK k \in 1 .. n : x = q[k]
    BY ToSetFacts
  <2>2. CASE k < at
    <3>1. k \in 1 .. n + 1 /\ x = r[k]
      BY <1>1, <1>2, <2>1, <2>2
    <3>2. QED
      BY <1>2, <3>1, ToSetFacts
  <2>3. CASE k >= at
    <3>1. PICK i \in 1 .. n + 1 : i = k + 1 /\ ~(i < at) /\ i # at /\ i - 1 = k
      BY <1>1, <2>3
    <3>2. x = r[i]
      BY <1>2, <2>1, <3>1
    <3>3. QED
      BY <1>2, <3>2, ToSetFacts
  <2>4. QED
    BY <1>1, <2>2, <2>3
<1>5. t \in ToSet(r)
  <2>1. at \in 1 .. n + 1 /\ ~(at < at) /\ r[at] = t
    BY <1>1, <1>2
  <2>2. QED
    BY <1>2, <2>1, ToSetFacts
<1>6. QED
  BY <1>3, <1>4, <1>5

\* Appending a timer adds it, and nothing else.
LEMMA AppendSet ==
  ASSUME NEW S, NEW q \in Seq(S), NEW t \in S
  PROVE  ToSet(Append(q, t)) = ToSet(q) \cup {t}
<1> DEFINE r == Append(q, t)
<1>1. /\ r \in Seq(S) /\ Len(r) = Len(q) + 1 /\ r[Len(q) + 1] = t
      /\ \A i \in 1 .. Len(q) : r[i] = q[i]
  OBVIOUS
<1>2. Len(q) \in Nat /\ \A i \in 1 .. Len(q) + 1 : i \in 1 .. Len(q) \/ i = Len(q) + 1
  OBVIOUS
<1>3. \A i \in 1 .. Len(q) : i \in 1 .. Len(q) + 1
  BY <1>2
<1>4. Len(q) + 1 \in 1 .. Len(q) + 1
  BY <1>2
<1> HIDE DEF r
<1>5. \A x : x \in ToSet(r) <=> \E i \in 1 .. Len(q) + 1 : r[i] = x
  BY <1>1, ToSetFacts
<1>6. \A x : x \in ToSet(q) <=> \E i \in 1 .. Len(q) : q[i] = x
  BY ToSetFacts
<1>7. \A x : x \in ToSet(r) <=> (x \in ToSet(q) \/ x = t)
  BY <1>1, <1>2, <1>3, <1>4, <1>5, <1>6
<1>8. QED
  BY <1>7 DEF r

\* The counters of linked timers are in range because the deadlines are.
LEMMA CountsTyped ==
  ASSUME TimerAssumption, NEW list, NEW E \in [Timers -> Int],
         NEW D \in [Timers -> Nat], Spaced(list, E, D),
         \A u \in Timers : u \in ToSet(list) \/ E[u] \in 0 .. Max(Counts)
  PROVE  E \in [Timers -> 0 .. Max(Counts)]
<1>1. ASSUME NEW u \in Timers, u \in ToSet(list) PROVE E[u] \in 0 .. Max(Counts)
  <2>1. PICK i \in 1 .. Len(list) : list[i] = u
    BY <1>1, SpacedFacts, ToSetFacts
  <2>2. QED
    BY <2>1, SpacedFacts
<1>2. \A u \in Timers : E[u] \in 0 .. Max(Counts)
  BY <1>1
<1>3. QED
  BY <1>2

\* The counter a timer gets at its place.
AtPlace(E, t, p) ==
  [E EXCEPT ![t] = IF p.before = None THEN p.delta ELSE E[p.before] + p.delta]

\* The counters once its successor's is corrected.
Corrected(F, t, p) == GiveTicks(F, p.before, -F[t])

\* A periodic timer is linked again in one step.
Relinks(list, E, D, t, n, p, F, G) ==
  /\ E \in [Timers -> 0 .. Max(Counts)] /\ D \in [Timers -> Nat] /\ Spaced(list, E, D)
  /\ t \in Timers /\ t \notin ToSet(list) /\ n \in 0 .. Max(Counts)
  /\ p = FindPlace(list, E, n) /\ F = AtPlace(E, t, p) /\ G = [D EXCEPT ![t] = n]

\* A timer that is linked with its correct counter, and its successor with
\* what is left, makes a list that is spaced again.
LEMMA RelinkSpaced ==
  ASSUME TimerAssumption, NEW list, NEW E, NEW D, NEW t, NEW n, NEW p, NEW F, NEW G,
         Relinks(list, E, D, t, n, p, F, G)
  PROVE  /\ Spaced(Linked(list, t, p.before), Corrected(F, t, p), G)
         /\ Corrected(F, t, p) \in [Timers -> 0 .. Max(Counts)]
         /\ ToSet(Linked(list, t, p.before)) = ToSet(list) \cup {t}
<1> DEFINE r == Linked(list, t, p.before)
           H == Corrected(F, t, p)
<1> USE DEF Relinks
<1>1. Max(Counts) \in Nat /\ n \in Nat /\ n <= Max(Counts) /\ E \in [Timers -> Int]
  BY CountFacts
<1>2. list \in Seq(Timers) /\ \A i \in 1 .. Len(list) : list[i] \in Timers /\ list[i] # t
  <2>1. list \in Seq(Timers)
    BY DEF Spaced
  <2>2. QED
    BY <2>1, ToSetFacts
<1>3. G \in [Timers -> Nat]
  BY <1>1
<1>4. ASSUME Spaced(r, H, G), H \in [Timers -> Int],
             \A u \in Timers : u \in ToSet(list) \/ u = t \/ H[u] = E[u],
             ToSet(r) = ToSet(list) \cup {t}
      PROVE  H \in [Timers -> 0 .. Max(Counts)]
  <2>1. \A u \in Timers : u \in ToSet(r) \/ H[u] \in 0 .. Max(Counts)
    BY <1>4
  <2> HIDE DEF H, r
  <2>2. QED
    BY <1>3, <1>4, <2>1, CountsTyped
<1>5. CASE p.before = None /\ p.delta \in Nat /\ Ahead(list, D, Len(list)) + p.delta = n
  <2>1. H = [E EXCEPT ![t] = p.delta]
    BY <1>5 DEF GiveTicks, AtPlace, Corrected
  <2>2. r = Append(list, t) /\ r = Linked(list, t, None)
    BY <1>5 DEF Linked
  <2>3. Spaced(r, H, G)
    <3> HIDE DEF H, r
    <3>1. Spaced(Linked(list, t, None), [E EXCEPT ![t] = p.delta], [D EXCEPT ![t] = n])
      BY <1>1, <1>2, <1>5, AppendSpaced
    <3>2. QED
      BY <2>1, <2>2, <3>1
  <2>4. ToSet(r) = ToSet(list) \cup {t}
    <3>1. ToSet(Append(list, t)) = ToSet(list) \cup {t}
      BY <1>2, AppendSet
    <3> HIDE DEF r
    <3>2. QED
      BY <2>2, <3>1
  <2>5. H \in [Timers -> Int] /\ \A u \in Timers : u = t \/ H[u] = E[u]
    <3> HIDE DEF H
    <3>1. QED
      BY <1>1, <1>5, <2>1
  <2> HIDE DEF H, r
  <2>6. QED
    BY <1>4, <2>3, <2>4, <2>5 DEF H, r
<1>6. CASE \E i \in 1 .. Len(list) :
             /\ p.before = list[i] /\ p.delta \in Int /\ p.delta < 0
             /\ D[list[i]] + p.delta = n /\ Ahead(list, D, i - 1) <= n
  <2>1. PICK i \in 1 .. Len(list) :
             /\ p.before = list[i] /\ p.delta \in Int /\ p.delta < 0
             /\ D[list[i]] + p.delta = n /\ Ahead(list, D, i - 1) <= n
    BY <1>6
  <2> DEFINE b == list[i]
             K == [E EXCEPT ![t] = E[b] + p.delta, ![b] = -p.delta]
  <2>2. b \in Timers /\ b # t /\ b # None /\ E[b] \in Int
    BY <1>1, <1>2, CountFacts
  <2>3. /\ PutBefore(Linked(list, t, list[i]), list, i, t)
        /\ Spaced(Linked(list, t, list[i]), K, G)
    <3>1. p.delta \in Int /\ p.delta < 0 /\ n = D[list[i]] + p.delta
      BY <2>1
    <3>2. QED
      BY <1>1, <1>2, <2>1, <3>1, LinkSpaced
  <2>4. r = Linked(list, t, list[i])
    BY <2>1
  <2>5. H = K
    <3>1. F = [E EXCEPT ![t] = E[b] + p.delta]
      BY <2>1, <2>2 DEF AtPlace
    <3>2. H = [F EXCEPT ![b] = @ + (-F[t])]
      BY <2>1, <2>2 DEF GiveTicks, Corrected
    <3>3. F \in [Timers -> Int] /\ F[t] = E[b] + p.delta /\ F[b] = E[b]
      BY <1>1, <2>1, <2>2, <3>1
    <3>4. F[b] + (-F[t]) = -p.delta
      <4>1. PICK x \in Int, y \in Int :
              x = E[b] /\ y = p.delta /\ F[b] = x /\ F[t] = x + y
        BY <1>1, <2>1, <2>2, <3>3
      <4>2. x + (-(x + y)) = -y
        OBVIOUS
      <4>3. QED
        BY <4>1, <4>2
    <3> HIDE DEF b, H
    <3>5. H = [F EXCEPT ![b] = -p.delta]
      BY <3>2, <3>4
    <3>6. QED
      BY <3>1, <3>5
  <2>6. ToSet(r) = ToSet(list) \cup {t}
    <3>1. r \in Seq(Timers)
      BY <2>3, <2>4 DEF Spaced
    <3>2. i \in 1 .. Len(list) + 1
      BY <1>2
    <3> HIDE DEF r
    <3>3. QED
      BY <1>2, <2>3, <2>4, <3>1, <3>2, LinkedSet
  <2>7. H \in [Timers -> Int] /\ \A u \in Timers : u = b \/ u = t \/ H[u] = E[u]
    <3>1. K \in [Timers -> Int] /\ \A u \in Timers : u = b \/ u = t \/ K[u] = E[u]
      <4>1. PICK x \in Int, y \in Int : x = E[b] + p.delta /\ y = -p.delta
        BY <2>1, <2>2
      <4>2. K = [E EXCEPT ![t] = x, ![b] = y]
        BY <4>1
      <4> HIDE DEF K, b
      <4>3. QED
        BY <1>1, <2>2, <4>2
    <3> HIDE DEF H, K, b
    <3>2. QED
      BY <2>5, <3>1
  <2>8. b \in ToSet(list)
    BY <1>2, ToSetFacts
  <2>9. Spaced(r, H, G)
    <3> HIDE DEF H, r, K
    <3>1. QED
      BY <2>3, <2>4, <2>5
  <2> HIDE DEF H, r, b
  <2>10. QED
    BY <1>4, <2>6, <2>7, <2>8, <2>9 DEF H, r
<1>7. \/ /\ p.before = None /\ p.delta \in Nat
         /\ Ahead(list, D, Len(list)) + p.delta = n
      \/ \E i \in 1 .. Len(list) :
           /\ p.before = list[i] /\ p.delta \in Int /\ p.delta < 0
           /\ D[list[i]] + p.delta = n /\ Ahead(list, D, i - 1) <= n
  BY <1>1, FindPlaced
<1> HIDE DEF r, H
<1>8. QED
  BY <1>5, <1>6, <1>7 DEF r, H

\* The deadlines after a tick that counted.
Earlier(list, D) == [t \in Timers |-> IF t \in ToSet(list) THEN D[t] - 1 ELSE D[t]]

\* Counting down the head brings every deadline one tick nearer.
LEMMA TickSpaced ==
  ASSUME TimerAssumption, NEW list, NEW E \in [Timers -> Int],
         NEW D \in [Timers -> Nat], Spaced(list, E, D),
         list # <<>>, E[Head(list)] >= 1
  PROVE  /\ Earlier(list, D) \in [Timers -> Nat]
         /\ Spaced(list, [E EXCEPT ![Head(list)] = @ - 1], Earlier(list, D))
         /\ \A i \in 1 .. Len(list) : Earlier(list, D)[list[i]] = D[list[i]] - 1
<1> DEFINE n == Len(list)
           G == Earlier(list, D)
           F == [E EXCEPT ![Head(list)] = @ - 1]
<1>1. /\ list \in Seq(Timers) /\ n \in Nat
      /\ \A i \in 1 .. n : list[i] \in Timers /\ D[list[i]] \in Nat
      /\ \A i \in 0 .. n : Ahead(list, D, i) \in Nat
  BY SpacedFacts
<1>2. /\ \A i, j \in 1 .. n : list[i] = list[j] => i = j
      /\ \A i \in 1 .. n : E[list[i]] = Ahead(list, D, i) - Ahead(list, D, i - 1)
      /\ \A i, j \in 1 .. n : i <= j => D[list[i]] <= D[list[j]]
      /\ \A i \in 1 .. n : D[list[i]] <= Max(Counts)
  BY DEF Spaced
<1>3. n >= 1 /\ 1 \in 1 .. n /\ Head(list) = list[1]
  <2>1. n # 0
    BY <1>1
  <2>2. QED
    BY <1>1, <2>1
<1>4. D[list[1]] >= 1
  <2>1. E[list[1]] = D[list[1]] - 0
    BY <1>2, <1>3 DEF Ahead
  <2>2. QED
    BY <1>1, <1>3, <2>1
<1> HIDE DEF n
<1>5. \A i \in 1 .. n : D[list[i]] >= 1
  <2>1. ASSUME NEW i \in 1 .. n PROVE D[list[i]] >= 1
    <3>1. D[list[1]] <= D[list[i]]
      BY <1>2, <1>3
    <3>2. QED
      BY <1>1, <1>3, <1>4, <3>1
  <2>2. QED
    BY <2>1
<1>6. \A i \in 1 .. n : G[list[i]] = D[list[i]] - 1
  BY <1>1, ToSetFacts DEF Earlier, n
<1>7. G \in [Timers -> Nat]
  <2>1. ASSUME NEW t \in Timers PROVE G[t] \in Nat
    <3>1. CASE t \in ToSet(list)
      <4>1. PICK i \in 1 .. n : list[i] = t
        BY <1>1, <3>1, ToSetFacts DEF n
      <4>2. PICK x \in Nat : x = D[list[i]] /\ G[t] = x - 1
        BY <1>1, <1>6, <4>1
      <4>3. x >= 1
        BY <1>5, <4>1, <4>2
      <4>4. QED
        BY <4>2, <4>3
    <3>2. CASE t \notin ToSet(list)
      BY <3>2 DEF Earlier
    <3>3. QED
      BY <3>1, <3>2
  <2>2. QED
    BY <2>1 DEF Earlier
<1> HIDE DEF G
<1>8. ASSUME NEW i \in 1 .. n PROVE F[list[i]] = Ahead(list, G, i) - Ahead(list, G, i - 1)
  <2>1. Ahead(list, G, i) = D[list[i]] - 1 /\ Ahead(list, D, i) = D[list[i]]
    BY <1>6 DEF Ahead
  <2>2. CASE i = 1
    <3>1. F[list[1]] = E[list[1]] - 1
      BY <1>1, <1>3
    <3>2. Ahead(list, G, i - 1) = 0 /\ Ahead(list, D, i - 1) = 0
      BY <2>2 DEF Ahead
    <3>3. QED
      BY <1>1, <1>2, <2>1, <2>2, <3>1, <3>2
  <2>3. CASE i # 1
    <3>1. i - 1 \in 1 .. n /\ i - 1 # 0
      BY <1>1, <2>3
    <3>2. F[list[i]] = E[list[i]]
      BY <1>1, <1>2, <1>3, <2>3
    <3>3. Ahead(list, G, i - 1) = D[list[i - 1]] - 1 /\ Ahead(list, D, i - 1) = D[list[i - 1]]
      BY <1>6, <3>1 DEF Ahead
    <3>4. E[list[i]] = D[list[i]] - D[list[i - 1]]
      BY <1>2, <2>1, <3>3
    <3>5. D[list[i]] \in Nat /\ D[list[i - 1]] \in Nat
      BY <1>1, <3>1
    <3>6. PICK a \in Nat, c \in Nat : a = D[list[i]] /\ c = D[list[i - 1]]
      BY <3>5
    <3>7. F[list[i]] = a - c
      BY <3>2, <3>4, <3>6
    <3>8. Ahead(list, G, i) = a - 1 /\ Ahead(list, G, i - 1) = c - 1
      BY <2>1, <3>3, <3>6
    <3> HIDE DEF F
    <3>9. QED
      BY <3>7, <3>8
  <2>4. QED
    BY <2>2, <2>3
<1>9. ASSUME NEW i \in 1 .. n, NEW j \in 1 .. n, i <= j PROVE G[list[i]] <= G[list[j]]
  <2>1. D[list[i]] <= D[list[j]] /\ D[list[i]] \in Nat /\ D[list[j]] \in Nat
    BY <1>1, <1>2, <1>9
  <2>2. QED
    BY <1>6, <2>1
<1>10. ASSUME NEW i \in 1 .. n PROVE G[list[i]] <= Max(Counts)
  <2>1. Max(Counts) \in Nat /\ D[list[i]] \in Nat /\ D[list[i]] <= Max(Counts)
    BY <1>1, <1>2, CountFacts
  <2>2. QED
    BY <1>6, <2>1
<1>11. Spaced(list, F, G)
  BY <1>1, <1>2, <1>8, <1>9, <1>10 DEF Spaced, n
<1>12. QED
  BY <1>6, <1>7, <1>11 DEF G, n

\* A tick that counts the first timer just linked, before the counter of its
\* successor is corrected, reaches that timer only.
LEMMA HeadSpaced ==
  ASSUME TimerAssumption, NEW list, NEW E \in [Timers -> Int],
         NEW D \in [Timers -> Nat], Spaced(list, E, D),
         Len(list) >= 2, E[list[1]] >= 1
  PROVE  /\ [D EXCEPT ![list[1]] = @ - 1] \in [Timers -> Nat]
         /\ Spaced(list, [E EXCEPT ![list[1]] = @ - 1, ![list[2]] = @ + 1],
                   [D EXCEPT ![list[1]] = @ - 1])
<1> DEFINE n == Len(list)
           G == [D EXCEPT ![list[1]] = @ - 1]
           F == [E EXCEPT ![list[1]] = @ - 1, ![list[2]] = @ + 1]
<1>1. /\ list \in Seq(Timers) /\ n \in Nat /\ n >= 2
      /\ \A i \in 1 .. n : list[i] \in Timers /\ D[list[i]] \in Nat
  BY SpacedFacts
<1>2. /\ \A i, j \in 1 .. n : list[i] = list[j] => i = j
      /\ \A i \in 1 .. n : E[list[i]] = Ahead(list, D, i) - Ahead(list, D, i - 1)
      /\ \A i, j \in 1 .. n : i <= j => D[list[i]] <= D[list[j]]
      /\ \A i \in 1 .. n : D[list[i]] <= Max(Counts)
  BY DEF Spaced
<1>3. 1 \in 1 .. n /\ 2 \in 1 .. n /\ list[1] \in Timers /\ list[2] \in Timers
      /\ list[1] # list[2]
  <2>1. 1 \in 1 .. n /\ 2 \in 1 .. n
    BY <1>1
  <2>2. QED
    BY <1>1, <1>2, <2>1
<1>4. E[list[1]] = D[list[1]] /\ D[list[1]] >= 1 /\ D[list[1]] \in Nat
  <2>1. E[list[1]] = D[list[1]] - 0
    BY <1>2, <1>3 DEF Ahead
  <2>2. QED
    BY <1>1, <1>3, <2>1
<1>5. /\ F[list[1]] = E[list[1]] - 1 /\ F[list[2]] = E[list[2]] + 1
      /\ \A u \in Timers : u # list[1] /\ u # list[2] => F[u] = E[u]
      /\ G[list[1]] = D[list[1]] - 1 /\ \A u \in Timers : u # list[1] => G[u] = D[u]
  BY <1>3
<1>6. G \in [Timers -> Nat]
  BY <1>3, <1>4
<1> HIDE DEF n, F, G
<1>7. ASSUME NEW i \in 1 .. n, i # 1 PROVE G[list[i]] = D[list[i]]
  BY <1>1, <1>2, <1>3, <1>5, <1>7
<1>8. ASSUME NEW i \in 1 .. n PROVE F[list[i]] = Ahead(list, G, i) - Ahead(list, G, i - 1)
  <2>1. CASE i = 1
    BY <1>4, <1>5, <2>1 DEF Ahead
  <2>2. CASE i = 2
    <3>1. E[list[2]] = D[list[2]] - D[list[1]]
      BY <1>2, <1>3 DEF Ahead
    <3>2. Ahead(list, G, i) = D[list[2]] /\ Ahead(list, G, i - 1) = D[list[1]] - 1
      BY <1>5, <1>7, <2>2 DEF Ahead
    <3>3. D[list[2]] \in Nat
      BY <1>1, <1>3
    <3>4. QED
      BY <1>4, <1>5, <2>2, <3>1, <3>2, <3>3
  <2>3. CASE i # 1 /\ i # 2
    <3>1. i - 1 \in 1 .. n /\ i - 1 # 0 /\ i - 1 # 1
      BY <1>1, <2>3
    <3>2. F[list[i]] = E[list[i]]
      BY <1>1, <1>2, <1>3, <1>5, <2>3
    <3>3. Ahead(list, G, i) = Ahead(list, D, i) /\ Ahead(list, G, i - 1) = Ahead(list, D, i - 1)
      BY <1>7, <2>3, <3>1 DEF Ahead
    <3>4. QED
      BY <1>2, <3>2, <3>3
  <2>4. QED
    BY <2>1, <2>2, <2>3
<1>9. ASSUME NEW i \in 1 .. n, NEW j \in 1 .. n, i <= j PROVE G[list[i]] <= G[list[j]]
  <2>1. D[list[i]] <= D[list[j]] /\ D[list[i]] \in Nat /\ D[list[j]] \in Nat
    BY <1>1, <1>2, <1>9
  <2>2. CASE j = 1
    <3>1. i = 1
      BY <1>9, <2>2
    <3>2. QED
      BY <1>4, <1>5, <2>2, <3>1
  <2>3. CASE j # 1
    <3>1. G[list[j]] = D[list[j]]
      BY <1>7, <2>3
    <3>2. CASE i = 1
      BY <1>5, <2>1, <3>1, <3>2
    <3>3. CASE i # 1
      BY <1>7, <2>1, <3>1, <3>3
    <3>4. QED
      BY <3>2, <3>3
  <2>4. QED
    BY <2>2, <2>3
<1>10. ASSUME NEW i \in 1 .. n PROVE G[list[i]] <= Max(Counts)
  <2>1. Max(Counts) \in Nat /\ D[list[i]] \in Nat /\ D[list[i]] <= Max(Counts)
    BY <1>1, <1>2, CountFacts
  <2>2. CASE i = 1
    BY <1>5, <2>1, <2>2
  <2>3. CASE i # 1
    BY <1>7, <2>1, <2>3
  <2>4. QED
    BY <2>2, <2>3
<1>11. Spaced(list, F, G)
  BY <1>1, <1>2, <1>8, <1>9, <1>10 DEF Spaced, n
<1>12. QED
  BY <1>6, <1>11 DEF G, F

-----------------------------------------------------------------------------
(* The invariant: what every step needs to know.                           *)

\* Where no counter is half written the list has its counters.
Settled == pc \notin {"link", "count", "correct", "give"}

\* Then the deadlines are those of the counters in memory.
LEMMA SettledTimed ==
  ASSUME NEW D, Settled, Timed(D)
  PROVE  Spaced(TmrList, tmrCnt, D)
BY DEF Settled, Timed, Effective

\* Nothing that is linked changes.
LEMMA QuietTimed ==
  ASSUME NEW D, Settled, Settled', Timed(D), TmrList' = TmrList,
         \A i \in 1 .. Len(TmrList) :
           tmrCnt'[TmrList[i]] = tmrCnt[TmrList[i]] /\ left'[TmrList[i]] = left[TmrList[i]]
  PROVE  Timed(D)'
<1>1. Spaced(TmrList, tmrCnt, D)
  BY SettledTimed
<1>2. Spaced(TmrList, tmrCnt', D)
  BY <1>1, SpacedAlike
<1>3. Effective' = tmrCnt' /\ pc' # "link"
  BY DEF Settled, Effective
<1>4. \A i \in 1 .. Len(TmrList) : left[TmrList[i]] <= D[TmrList[i]]
  BY DEF Timed
<1>5. QED
  BY <1>2, <1>3, <1>4 DEF Timed

\* Neither does anything else.
LEMMA StillTimed ==
  ASSUME Settled, Settled', IInv, UNCHANGED <<TmrList, tmrCnt, left>>
  PROVE  (\E D \in [Timers -> Nat] : Timed(D))'
<1>1. PICK D \in [Timers -> Nat] : Timed(D)
  BY DEF IInv
<1>2. Timed(D)'
  BY <1>1, QuietTimed
<1>3. QED
  BY <1>2

\* The list as a sequence and as a set.
LEMMA ListFacts ==
  ASSUME IInv
  PROVE  /\ TmrList \in Seq(Timers)
         /\ \A t : t \in ToSet(TmrList) <=> \E i \in 1 .. Len(TmrList) : TmrList[i] = t
         /\ \A i \in 1 .. Len(TmrList) : TmrList[i] \in ToSet(TmrList)
         /\ ToSet(TmrList) \subseteq Timers
<1>1. TmrList \in Seq(Timers)
  BY DEF IInv, Timed, Spaced
<1>2. QED
  BY <1>1, ToSetFacts

\* The hypotheses are about constants.
LEMMA DisciplineStays ==
  ASSUME IInv PROVE Disciplined' /\ Disciplined /\ TimerAssumption
BY DEF IInv, Disciplined, TimerAssumption

-----------------------------------------------------------------------------
(* The other task, and the steps of a call that leave the list alone.      *)

\* The tick has fired what expired.
LEMMA TmrDisposedInv ==
  ASSUME IInv, TmrDisposed PROVE IInv'
<1> USE DEF TmrDisposed, timer, call
<1>1. Typed'
  BY DEF IInv, Typed
<1>2. Flow' /\ Settled /\ Settled'
  BY DEF IInv, Flow, Settled, Locking
<1>3. Members'
  BY DEF IInv, Members, Running, Detached
<1>4. Waiting'
  BY <1>2 DEF IInv, Waiting, Settled
<1>5. (\E D \in [Timers -> Nat] : Timed(D))'
  BY <1>2, StillTimed
<1>6. QED
  BY <1>1, <1>2, <1>3, <1>4, <1>5, DisciplineStays DEF IInv

\* Another task locks ...
LEMMA OtherLockInv ==
  ASSUME IInv, OtherLock PROVE IInv'
<1> USE DEF OtherLock, timer, call
<1>1. Typed'
  BY DEF IInv, Typed, Disciplined, TimerAssumption
<1>2. Flow' /\ Settled /\ Settled'
  BY DEF IInv, Flow, Settled, Locking
<1>3. Members'
  BY DEF IInv, Members, Running, Detached
<1>4. Waiting'
  BY <1>2 DEF IInv, Waiting, Settled
<1>5. (\E D \in [Timers -> Nat] : Timed(D))'
  BY <1>2, StillTimed
<1>6. QED
  BY <1>1, <1>2, <1>3, <1>4, <1>5, DisciplineStays DEF IInv

\* ... and unlocks.
LEMMA OtherUnlockInv ==
  ASSUME IInv, OtherUnlock PROVE IInv'
<1> USE DEF OtherUnlock, timer, call
<1>1. Typed'
  BY DEF IInv, Typed, Disciplined, TimerAssumption
<1>2. Flow' /\ Settled /\ Settled'
  BY DEF IInv, Flow, Settled, Locking
<1>3. Members'
  BY DEF IInv, Members, Running, Detached
<1>4. Waiting'
  BY <1>2 DEF IInv, Waiting, Settled
<1>5. (\E D \in [Timers -> Nat] : Timed(D))'
  BY <1>2, StillTimed
<1>6. QED
  BY <1>1, <1>2, <1>3, <1>4, <1>5, DisciplineStays DEF IInv

\* The caller locks, to insert or to remove.
LEMMA LockInv ==
  ASSUME IInv, Lock("insert", "find") \/ Lock("remove", "unlink") PROVE IInv'
<1> USE DEF Lock, Step, Quiet
<1>1. Typed'
  BY DEF IInv, Typed, Disciplined, TimerAssumption
<1>2. Flow' /\ Settled /\ Settled'
  BY DEF IInv, Flow, Settled, Locking, Inserting, Ending
<1>3. Members'
  BY DEF IInv, Typed, Members, Running, Detached, Flow, Ending, Locking
<1>4. Waiting'
  BY <1>2 DEF IInv, Waiting, Settled
<1>5. (\E D \in [Timers -> Nat] : Timed(D))'
  BY <1>2, StillTimed
<1>6. QED
  BY <1>1, <1>2, <1>3, <1>4, <1>5, DisciplineStays DEF IInv

\* The caller begins to unlock.
LEMMA UnlockInv ==
  ASSUME IInv, Unlock PROVE IInv'
<1> USE DEF Unlock, Step, Quiet, Locked
<1>1. Typed'
  BY DEF IInv, Typed
<1>2. Flow' /\ Settled /\ Settled'
  BY DEF IInv, Flow, Settled, Locking, Inserting, Ending
<1>3. Members'
  BY DEF IInv, Members, Running, Detached, Locking
<1>4. Waiting'
  BY <1>2 DEF IInv, Waiting, Settled
<1>5. (\E D \in [Timers -> Nat] : Timed(D))'
  BY <1>2, StillTimed
<1>6. QED
  BY <1>1, <1>2, <1>3, <1>4, <1>5, DisciplineStays DEF IInv

\* No more timers are to be fired.
LEMMA DisposeDoneInv ==
  ASSUME IInv, DisposeDone PROVE IInv'
<1> USE DEF DisposeDone, Step, Quiet, Locked
<1>1. Typed'
  BY DEF IInv, Typed
<1>2. Flow' /\ Settled /\ Settled'
  BY DEF IInv, Flow, Settled, Locking, Inserting, Ending
<1>3. Members'
  BY DEF IInv, Members, Running, Detached, Locking
<1>4. Waiting'
  BY <1>2 DEF IInv, Waiting, Settled
<1>5. (\E D \in [Timers -> Nat] : Timed(D))'
  BY <1>2, StillTimed
<1>6. QED
  BY <1>1, <1>2, <1>3, <1>4, <1>5, DisciplineStays DEF IInv

\* The service requests are cleared.
LEMMA ClearInv ==
  ASSUME IInv, ClearTimerReq \/ ClearIsrReq PROVE IInv'
<1> USE DEF ClearTimerReq, ClearIsrReq, Step, Locked
<1>1. Typed'
  BY DEF IInv, Typed
<1>2. Flow' /\ Settled /\ Settled'
  BY DEF IInv, Flow, Settled, Locking, Inserting, Ending
<1>3. Members'
  BY DEF IInv, Members, Running, Detached, Locking
<1>4. Waiting'
  BY <1>2 DEF IInv, Waiting, Settled
<1>5. (\E D \in [Timers -> Nat] : Timed(D))'
  BY <1>2, StillTimed
<1>6. QED
  BY <1>1, <1>2, <1>3, <1>4, <1>5, DisciplineStays DEF IInv

\* The lock is given up: the call goes on or ends.
LEMMA OpenInv ==
  ASSUME IInv, Open PROVE IInv'
<1> USE DEF Open, Step, Quiet
<1>1. Typed'
  BY DEF IInv, Typed, Disciplined, TimerAssumption
<1>2. Flow' /\ Settled /\ Settled'
  BY DEF IInv, Flow, Settled, Locking, Inserting, Ending
<1>3. Members'
  BY DEF IInv, Members, Running, Detached, Flow, Locking, Ending
<1>4. Waiting'
  BY <1>2 DEF IInv, Waiting, Settled, Flow, Ending
<1>5. (\E D \in [Timers -> Nat] : Timed(D))'
  BY <1>2, StillTimed
<1>6. QED
  BY <1>1, <1>2, <1>3, <1>4, <1>5, DisciplineStays DEF IInv

\* CoStopTmr ends.
LEMMA StoppedInv ==
  ASSUME IInv, Stopped PROVE IInv'
<1> USE DEF Stopped, Step, Locked
<1>1. Typed'
  BY DEF IInv, Typed
<1>2. Flow' /\ Settled /\ Settled'
  BY DEF IInv, Flow, Settled, Locking, Inserting, Ending
<1>3. Members'
  BY DEF IInv, Typed, Members, Running, Detached, Flow, Locking, Ending
<1>4. Waiting'
  BY <1>2 DEF IInv, Waiting, Settled
<1>5. (\E D \in [Timers -> Nat] : Timed(D))'
  BY <1>2, StillTimed
<1>6. QED
  BY <1>1, <1>2, <1>3, <1>4, <1>5, DisciplineStays DEF IInv

\* CoDelTmr ends.
LEMMA ReleaseInv ==
  ASSUME IInv, Release PROVE IInv'
<1> USE DEF Release, Step, Quiet
<1>1. Typed'
  BY DEF IInv, Typed
<1>2. Flow' /\ Settled /\ Settled'
  BY DEF IInv, Flow, Settled, Locking, Inserting, Ending
<1>3. Members'
  BY DEF IInv, Typed, Members, Running, Detached, Flow, Locking, Ending
<1>4. Waiting'
  BY <1>2 DEF IInv, Waiting, Settled
<1>5. (\E D \in [Timers -> Nat] : Timed(D))'
  BY <1>2, StillTimed
<1>6. QED
  BY <1>1, <1>2, <1>3, <1>4, <1>5, DisciplineStays DEF IInv

-----------------------------------------------------------------------------
(* The calls.                                                              *)

\* A new timer is in use, stopped, and not linked.
LEMMA CreateInv ==
  ASSUME IInv, NEW type \in {"ONE_SHOT", "PERIODIC"}, NEW n \in Counts,
         NEW reload \in Counts, CoCreateTmr(type, n, reload)
  PROVE  IInv'
<1> DEFINE t == Min(Timers \ TmrIDVessel)
<1>1. t \in Timers /\ t \notin TmrIDVessel
  <2> DEFINE free == Timers \ TmrIDVessel
  <2>1. free \in SUBSET Nat /\ free # {}
    BY CountFacts, DisciplineStays DEF CoCreateTmr, IInv, Typed
  <2>2. Min(free) \in free
    <3> HIDE DEF free
    <3>1. QED
      BY <2>1, MinNat
  <2>3. QED
    BY <2>2
<1>2. n \in 0 .. Max(Counts) /\ reload \in 0 .. Max(Counts)
  BY CountFacts, DisciplineStays
<1>3. /\ pc = "idle" /\ lock = "none" /\ pc' = "idle" /\ op' = "create" /\ id' = t
      /\ TmrIDVessel' = TmrIDVessel \cup {t}
      /\ tmrType' = [tmrType EXCEPT ![t] = type]
      /\ tmrState' = [tmrState EXCEPT ![t] = "STOPPED"]
      /\ tmrCnt' = [tmrCnt EXCEPT ![t] = n]
      /\ tmrReload' = [tmrReload EXCEPT ![t] = reload]
      /\ type = "PERIODIC" => reload > 0
      /\ UNCHANGED <<left, TmrList, TimerReq, IsrReq, lock, cur, place, disposing,
                     gives, early, ticks>>
  BY DEF CoCreateTmr, Calls, Idle, Fits
<1> HIDE DEF t
<1>4. Typed'
  BY <1>1, <1>2, <1>3 DEF IInv, Typed
<1>5. Flow' /\ Settled /\ Settled'
  BY <1>3 DEF IInv, Flow, Settled, Locking, Inserting, Ending
<1>6. Members'
  BY <1>1, <1>3 DEF IInv, Typed, Members, Running, Detached, Locking
<1>7. Waiting'
  BY <1>3 DEF Waiting
<1>8. (\E D \in [Timers -> Nat] : Timed(D))'
  <2>1. PICK D \in [Timers -> Nat] : Timed(D)
    BY DEF IInv
  <2>2. t \notin ToSet(TmrList)
    BY <1>1 DEF IInv, Members, Running
  <2>3. \A i \in 1 .. Len(TmrList) : TmrList[i] \in Timers /\ TmrList[i] # t
    BY <2>2, ListFacts
  <2>4. tmrCnt \in [Timers -> 0 .. Max(Counts)]
    BY DEF IInv, Typed
  <2>5. \A i \in 1 .. Len(TmrList) : tmrCnt'[TmrList[i]] = tmrCnt[TmrList[i]]
    BY <1>3, <2>3, <2>4
  <2>6. Timed(D)'
    BY <1>3, <1>5, <2>1, <2>5, QuietTimed
  <2>7. QED
    BY <2>6
<1>9. QED
  BY <1>4, <1>5, <1>6, <1>7, <1>8, DisciplineStays DEF IInv

\* A started timer is in the hands of the call, with its ticks to wait.
LEMMA StartInv ==
  ASSUME IInv, NEW t \in Timers, CoStartTmr(t) PROVE IInv'
<1>1. tmrCnt \in [Timers -> 0 .. Max(Counts)] /\ Careful
      /\ tmrState \in [Timers -> {"RUNNING", "STOPPED"}] /\ left \in [Timers -> Nat]
  BY DEF IInv, Typed, Disciplined
<1>2. tmrCnt[t] \in Nat /\ tmrCnt[t] >= 1
  <2>1. tmrCnt[t] > 0 /\ tmrCnt[t] \in 0 .. Max(Counts)
    BY <1>1 DEF CoStartTmr, MayStart
  <2>2. QED
    BY <2>1, CountFacts, DisciplineStays
<1>3. /\ pc = "idle" /\ lock = "none" /\ t \in TmrIDVessel /\ tmrState[t] = "STOPPED"
      /\ tmrState' = [tmrState EXCEPT ![t] = "RUNNING"]
      /\ left' = [left EXCEPT ![t] = tmrCnt[t]]
      /\ pc' = "insert" /\ op' = "start" /\ id' = t
      /\ UNCHANGED <<TmrIDVessel, tmrType, tmrCnt, tmrReload, TmrList, TimerReq, IsrReq,
                     lock, cur, place, disposing, gives, early, ticks>>
  <2>1. tmrCnt[t] # 0
    BY <1>2
  <2>2. QED
    BY <2>1 DEF CoStartTmr, Calls, Idle
<1>4. Typed'
  BY <1>1, <1>2, <1>3 DEF IInv, Typed
<1>5. Flow' /\ Settled /\ Settled'
  BY <1>3 DEF IInv, Flow, Settled, Locking, Inserting, Ending
<1>6. t \notin ToSet(TmrList)
  BY <1>3 DEF IInv, Members, Running
<1>7. Members'
  BY <1>1, <1>3, <1>6 DEF IInv, Typed, Members, Running, Detached, Locking, Ending
<1>8. Waiting'
  <2>1. left'[t] <= tmrCnt[t]
    BY <1>1, <1>2, <1>3
  <2>2. QED
    BY <1>2, <1>3, <2>1 DEF Waiting
<1>9. (\E D \in [Timers -> Nat] : Timed(D))'
  <2>1. PICK D \in [Timers -> Nat] : Timed(D)
    BY DEF IInv
  <2>2. \A i \in 1 .. Len(TmrList) : TmrList[i] \in Timers /\ TmrList[i] # t
    BY <1>6, ListFacts
  <2>3. \A i \in 1 .. Len(TmrList) : left'[TmrList[i]] = left[TmrList[i]]
    BY <1>1, <1>3, <2>2
  <2>4. Timed(D)'
    BY <1>3, <1>5, <2>1, <2>3, QuietTimed
  <2>5. QED
    BY <2>4
<1>10. QED
  BY <1>4, <1>5, <1>7, <1>8, <1>9, DisciplineStays DEF IInv

\* Only a periodic or a stopped timer is ended by a careful caller.
LEMMA EndInv ==
  ASSUME IInv, NEW t \in Timers, CoStopTmr(t) \/ CoDelTmr(t) PROVE IInv'
<1>1. /\ pc = "idle" /\ lock = "none" /\ t \in TmrIDVessel /\ id' = t
      /\ op' \in Ending /\ pc' \in {"remove", "release"} /\ (op' = "stop" => pc' = "remove")
      /\ pc' = "remove" => tmrState[t] = "RUNNING" /\ tmrType[t] = "PERIODIC"
      /\ pc' = "release" => tmrState[t] # "RUNNING"
      /\ UNCHANGED <<TmrIDVessel, tmrType, tmrState, tmrCnt, tmrReload, TmrList, TimerReq,
                     IsrReq, lock, cur, place, disposing, gives, left, early, ticks>>
  BY DEF CoStopTmr, CoDelTmr, Calls, Idle, MayEnd, IInv, Disciplined, Ending
<1>2. Typed'
  BY <1>1 DEF IInv, Typed
<1>3. Flow' /\ Settled /\ Settled'
  BY <1>1 DEF IInv, Flow, Settled, Locking, Inserting, Ending
<1>4. Members'
  BY <1>1 DEF IInv, Typed, Members, Running, Detached, Locking, Ending
<1>5. Waiting'
  BY <1>1 DEF Waiting
<1>6. (\E D \in [Timers -> Nat] : Timed(D))'
  BY <1>1, <1>3, StillTimed
<1>7. QED
  BY <1>2, <1>3, <1>4, <1>5, <1>6, DisciplineStays DEF IInv

\* Only a stopped timer is set by a careful caller.
LEMMA SetInv ==
  ASSUME IInv, NEW t \in Timers, NEW n \in Counts, NEW reload \in Counts,
         CoSetTmrCnt(t, n, reload)
  PROVE  IInv'
<1>1. n \in 0 .. Max(Counts) /\ reload \in 0 .. Max(Counts)
  BY CountFacts, DisciplineStays
<1>2. tmrState[t] = "STOPPED"
  BY DEF IInv, Disciplined, CoSetTmrCnt, MaySet
<1>3. /\ pc = "idle" /\ lock = "none" /\ t \in TmrIDVessel
      /\ pc' = "idle" /\ op' = "set" /\ id' = t
      /\ tmrCnt' = [tmrCnt EXCEPT ![t] = n]
      /\ tmrReload' = [tmrReload EXCEPT ![t] = reload]
      /\ tmrType[t] = "PERIODIC" => reload > 0
      /\ UNCHANGED <<TmrIDVessel, tmrType, tmrState, TmrList, TimerReq, IsrReq,
                     lock, cur, place, disposing, gives, early, ticks>>
  BY <1>2 DEF CoSetTmrCnt, Calls, Idle, Fits
<1>4. left' = left
  BY <1>2 DEF CoSetTmrCnt, IInv, Typed
<1>5. Typed'
  BY <1>1, <1>3, <1>4 DEF IInv, Typed
<1>6. Flow' /\ Settled /\ Settled'
  BY <1>3 DEF IInv, Flow, Settled, Locking, Inserting, Ending
<1>7. Members'
  BY <1>3 DEF IInv, Typed, Members, Running, Detached, Locking
<1>8. Waiting'
  BY <1>3 DEF Waiting
<1>9. (\E D \in [Timers -> Nat] : Timed(D))'
  <2>1. PICK D \in [Timers -> Nat] : Timed(D)
    BY DEF IInv
  <2>2. t \notin ToSet(TmrList)
    BY <1>2 DEF IInv, Members, Running
  <2>3. \A i \in 1 .. Len(TmrList) : TmrList[i] \in Timers /\ TmrList[i] # t
    BY <2>2, ListFacts
  <2>4. tmrCnt \in [Timers -> 0 .. Max(Counts)]
    BY DEF IInv, Typed
  <2>5. \A i \in 1 .. Len(TmrList) : tmrCnt'[TmrList[i]] = tmrCnt[TmrList[i]]
    BY <1>3, <2>3, <2>4
  <2>6. Timed(D)'
    BY <1>3, <1>4, <1>6, <2>1, <2>5, QuietTimed
  <2>7. QED
    BY <2>6
<1>10. QED
  BY <1>5, <1>6, <1>7, <1>8, <1>9, DisciplineStays DEF IInv

-----------------------------------------------------------------------------
(* RemoveTmrList and InsertTmrList.                                        *)

\* What Timed says of a linked timer.
LEMMA LeftOf ==
  ASSUME IInv, NEW D, Timed(D), NEW t \in ToSet(TmrList)
  PROVE  left[t] <= D[t]
BY ListFacts DEF Timed

\* Enough for the deadlines of a list that may have changed.
LEMMA TimedNow ==
  ASSUME NEW G, NEW E, Spaced(TmrList', E, G), E = Effective',
         \A t \in ToSet(TmrList') : left'[t] <= G[t], pc' # "link"
  PROVE  Timed(G)'
<1>1. TmrList' \in Seq(Timers)
  BY DEF Spaced
<1>2. \A i \in 1 .. Len(TmrList') : TmrList'[i] \in ToSet(TmrList')
  BY <1>1, ToSetFacts
<1>3. QED
  BY <1>2 DEF Timed

\* Unlinking: the ticks of the timer are pending for its successor.
LEMMA UnlinkInv ==
  ASSUME IInv, RemoveUnlink PROVE IInv'
<1> USE DEF RemoveUnlink, Step, Quiet, Locked
<1>1. Typed'
  BY DEF IInv, Typed
<1>2. Flow' /\ Settled
  BY DEF IInv, Flow, Settled, Locking, Inserting, Ending
<1>3. PICK D \in [Timers -> Nat] : Timed(D)
  BY DEF IInv
<1>4. id \in ToSet(TmrList) /\ id \in Timers
  BY DEF IInv, Typed, Members, Detached, Locking
<1>5. PICK at \in 1 .. Len(TmrList) : TmrList[at] = id
  BY <1>4, ListFacts
<1>6. tmrCnt \in [Timers -> Int] /\ tmrCnt[id] \in Nat
  <2>1. tmrCnt \in [Timers -> 0 .. Max(Counts)]
    BY DEF IInv, Typed
  <2>2. QED
    BY <1>4, <2>1
<1> DEFINE r == Unlinked(TmrList, id)
           to == Successor(TmrList, id)
<1>7. /\ Spaced(r, GiveTicks(tmrCnt, to, tmrCnt[id]), D)
      /\ ToSet(r) = ToSet(TmrList) \ {id}
      /\ to = None \/ to \in ToSet(r)
  <2>1. Spaced(TmrList, tmrCnt, D)
    BY <1>2, <1>3, SettledTimed
  <2>2. QED
    BY <1>5, <1>6, <2>1, DisciplineStays, UnlinkSpaced
<1>8. /\ TmrList' = r /\ gives'.to = to /\ gives'.n = tmrCnt[id]
      /\ pc = "unlink" /\ pc' = "give"
  OBVIOUS
<1> HIDE DEF r, to
<1>9. Members'
  <2>1. op \in Ending /\ pc # "insert" /\ pc # "find"
    BY <1>8 DEF IInv, Flow
  <2>2. \A t \in Timers : Detached(t)' <=> t = id
    BY <1>8, <2>1 DEF Detached, Locking
  <2>3. \A t \in Timers : ~Detached(t)
    BY <1>8 DEF Detached, Locking
  <2>4. \A t \in Timers : Running(t)' <=> Running(t)
    BY DEF Running
  <2>5. \A t \in Timers : t \in ToSet(TmrList) <=> Running(t)
    BY <2>3 DEF IInv, Members
  <2>6. QED
    BY <1>7, <1>8, <2>2, <2>4, <2>5 DEF Members
<1>10. Waiting'
  BY <1>6, <1>7, <1>8 DEF Waiting
<1>11. Timed(D)'
  <2>1. Effective' = GiveTicks(tmrCnt, to, tmrCnt[id])
    BY <1>8 DEF Effective
  <2>2. \A t \in ToSet(TmrList') : left'[t] <= D[t]
    BY <1>3, <1>7, <1>8, LeftOf
  <2>3. QED
    BY <1>7, <1>8, <2>1, <2>2, TimedNow
<1>12. QED
  BY <1>1, <1>2, <1>3, <1>9, <1>10, <1>11, DisciplineStays DEF IInv

\* They are given.
LEMMA GiveInv ==
  ASSUME IInv, RemoveGive PROVE IInv'
<1> USE DEF RemoveGive, Step, Quiet, Locked
<1>1. PICK D \in [Timers -> Nat] : Timed(D)
  BY DEF IInv
<1>2. tmrCnt' = Effective /\ Effective' = tmrCnt' /\ pc' = "unlock" /\ pc = "give"
  BY DEF Effective
<1>3. tmrCnt \in [Timers -> Int] /\ tmrCnt \in [Timers -> 0 .. Max(Counts)]
  <2>1. tmrCnt \in [Timers -> 0 .. Max(Counts)]
    BY DEF IInv, Typed
  <2>2. QED
    BY <2>1
<1>4. Spaced(TmrList, tmrCnt', D)
  BY <1>1, <1>2 DEF Timed
<1>5. gives.n \in Nat /\ (gives.to = None \/ gives.to \in ToSet(TmrList))
  BY <1>2 DEF IInv, Waiting
<1>6. /\ tmrCnt' \in [Timers -> Int]
      /\ \A u \in Timers : u \in ToSet(TmrList) \/ tmrCnt'[u] = tmrCnt[u]
  <2>1. tmrCnt' = GiveTicks(tmrCnt, gives.to, gives.n)
    OBVIOUS
  <2>2. CASE gives.to = None
    BY <1>3, <2>1, <2>2 DEF GiveTicks
  <2>3. CASE gives.to # None
    <3>1. gives.to \in Timers /\ tmrCnt[gives.to] \in Int
      BY <1>3, <1>5, <2>3, ListFacts
    <3>2. tmrCnt' = [tmrCnt EXCEPT ![gives.to] = tmrCnt[gives.to] + gives.n]
      BY <2>1, <2>3 DEF GiveTicks
    <3>3. QED
      BY <1>3, <1>5, <2>3, <3>1, <3>2
  <2>4. QED
    BY <2>2, <2>3
<1>7. tmrCnt' \in [Timers -> 0 .. Max(Counts)]
  <2>1. \A u \in Timers : u \in ToSet(TmrList) \/ tmrCnt'[u] \in 0 .. Max(Counts)
    BY <1>3, <1>6
  <2>2. QED
    BY <1>1, <1>4, <1>6, <2>1, CountsTyped, DisciplineStays
<1>8. Typed'
  BY <1>7 DEF IInv, Typed
<1>9. Flow'
  BY DEF IInv, Flow, Locking, Inserting, Ending
<1>10. Members'
  BY DEF IInv, Members, Running, Detached, Locking
<1>11. Waiting'
  BY <1>2 DEF Waiting
<1>12. Timed(D)'
  <2>1. TmrList' = TmrList /\ left' = left
    OBVIOUS
  <2>2. \A t \in ToSet(TmrList') : left'[t] <= D[t]
    BY <1>1, <2>1, LeftOf
  <2>3. Spaced(TmrList', tmrCnt', D)
    BY <1>4, <2>1
  <2>4. QED
    BY <1>2, <2>2, <2>3, TimedNow
<1>13. QED
  BY <1>1, <1>8, <1>9, <1>10, <1>11, <1>12, DisciplineStays DEF IInv

\* The place found before the link fits the deadlines.
LEMMA FindInv ==
  ASSUME IInv, InsertFind PROVE IInv'
<1> USE DEF InsertFind, Step, Quiet, Locked
<1>1. Typed'
  BY DEF IInv, Typed
<1>2. Flow' /\ Settled
  BY DEF IInv, Flow, Settled, Locking, Inserting, Ending
<1>3. Members'
  BY DEF IInv, Members, Running, Detached, Locking, Ending
<1>4. Waiting'
  BY DEF Waiting
<1>5. PICK D \in [Timers -> Nat] : Timed(D)
  BY DEF IInv
<1>6. Spaced(TmrList, tmrCnt, D)
  BY <1>2, <1>5, SettledTimed
<1>7. /\ left[cur] <= tmrCnt[cur] /\ tmrCnt[cur] >= 1 /\ left[cur] \in Nat
      /\ tmrCnt[cur] \in Nat /\ tmrCnt[cur] <= Max(Counts)
  <2>1. left[cur] <= tmrCnt[cur] /\ tmrCnt[cur] >= 1
    BY DEF IInv, Waiting
  <2>2. cur \in Timers /\ left \in [Timers -> Nat] /\ tmrCnt \in [Timers -> 0 .. Max(Counts)]
    BY DEF IInv, Typed
  <2>3. QED
    BY <2>1, <2>2, CountFacts, DisciplineStays
<1> DEFINE p == FindPlace(TmrList, tmrCnt, tmrCnt[cur])
<1>8. \/ /\ p.before = None /\ p.delta \in Nat
         /\ Ahead(TmrList, D, Len(TmrList)) + p.delta = tmrCnt[cur]
      \/ \E i \in 1 .. Len(TmrList) :
           /\ p.before = TmrList[i] /\ p.delta \in Int /\ p.delta < 0
           /\ D[TmrList[i]] + p.delta = tmrCnt[cur]
           /\ Ahead(TmrList, D, i - 1) <= tmrCnt[cur]
  <2> HIDE DEF p
  <2>1. p = FindPlace(TmrList, tmrCnt, tmrCnt[cur])
    BY DEF p
  <2>2. PICK c \in Nat : c = tmrCnt[cur]
    BY <1>7
  <2>3. p = FindPlace(TmrList, tmrCnt, c) /\ TimerAssumption
    BY <2>1, <2>2, DisciplineStays
  <2>4. \/ /\ p.before = None /\ p.delta \in Nat
           /\ Ahead(TmrList, D, Len(TmrList)) + p.delta = c
        \/ \E i \in 1 .. Len(TmrList) :
             /\ p.before = TmrList[i] /\ p.delta \in Int /\ p.delta < 0
             /\ D[TmrList[i]] + p.delta = c
             /\ Ahead(TmrList, D, i - 1) <= c
    BY <1>6, <2>3, FindPlaced
  <2>5. QED
    BY <2>2, <2>4
<1>9. /\ place' = p /\ TmrList' = TmrList /\ left' = left /\ cur' = cur /\ ticks' = ticks
      /\ pc' = "link" /\ tmrCnt' = tmrCnt
  OBVIOUS
<1>10. ticks \in Nat
  <2>1. ticks \in 0 .. TicksPerLock /\ TicksPerLock \in Nat
    BY DEF IInv, Typed, Disciplined, TimerAssumption
  <2>2. QED
    BY <2>1
<1>11. \A i \in 1 .. Len(TmrList) : TmrList[i] # None
  BY ListFacts, CountFacts, DisciplineStays
<1> HIDE DEF p
<1>12. Placed(D)'
  <2>1. CASE p.before = None
    <3>1. p.delta \in Nat /\ Ahead(TmrList, D, Len(TmrList)) + p.delta = tmrCnt[cur]
      BY <1>8, <1>11, <2>1
    <3>2. QED
      BY <1>7, <1>9, <2>1, <3>1 DEF Placed
  <2>2. CASE p.before # None
    <3>1. PICK i \in 1 .. Len(TmrList) :
           /\ p.before = TmrList[i] /\ p.delta \in Int /\ p.delta < 0
           /\ D[TmrList[i]] + p.delta = tmrCnt[cur]
           /\ Ahead(TmrList, D, i - 1) <= tmrCnt[cur]
      BY <1>8, <2>2
    <3>2. D[TmrList[i]] + p.delta >= 1 - ticks
      BY <1>7, <1>10, <3>1
    <3>3. /\ Ahead(TmrList, D, i - 1) <= D[TmrList[i]] + p.delta
          /\ left[cur] <= D[TmrList[i]] + p.delta
      BY <1>7, <3>1
    <3>4. QED
      BY <1>9, <2>2, <3>1, <3>2, <3>3 DEF Placed
  <2>3. QED
    BY <2>1, <2>2
<1>13. Timed(D)'
  <2>1. Effective' = tmrCnt
    BY <1>9 DEF Effective
  <2>2. \A i \in 1 .. Len(TmrList) : left[TmrList[i]] <= D[TmrList[i]]
    BY <1>5 DEF Timed
  <2>3. QED
    BY <1>6, <1>9, <1>12, <2>1, <2>2 DEF Timed
<1>14. QED
  BY <1>1, <1>2, <1>3, <1>4, <1>5, <1>13, DisciplineStays DEF IInv

\* Linking gives the timer a deadline of its own.
LEMMA LinkInv ==
  ASSUME IInv, InsertLink PROVE IInv'
<1> USE DEF Step, Quiet, Locked
<1>1. PICK D \in [Timers -> Nat] : Timed(D)
  BY DEF IInv
<1>2. /\ pc = "link" /\ lock' = lock /\ cur' = cur /\ id' = id /\ op' = op
      /\ place' = place /\ left' = left /\ disposing' = disposing /\ ticks' = ticks
      /\ TmrIDVessel' = TmrIDVessel /\ tmrState' = tmrState
      /\ TmrList' = Linked(TmrList, cur, place.before)
      /\ pc' = IF place.before = None THEN Inserted ELSE "count"
      /\ tmrCnt' = IF place.before = None THEN [tmrCnt EXCEPT ![cur] = place.delta]
                   ELSE tmrCnt
  BY DEF InsertLink
<1>3. /\ Spaced(TmrList, tmrCnt, D) /\ Placed(D)
      /\ TmrList \in Seq(Timers) /\ Len(TmrList) \in Nat
      /\ \A i \in 0 .. Len(TmrList) : Ahead(TmrList, D, i) \in Nat
      /\ \A i \in 1 .. Len(TmrList) : D[TmrList[i]] \in Nat /\ TmrList[i] \in Timers
  <2>1. Spaced(TmrList, tmrCnt, D) /\ Placed(D)
    BY <1>1, <1>2 DEF Timed, Effective
  <2>2. QED
    BY <1>1, <2>1, SpacedFacts, DisciplineStays
<1>4. cur \in Timers /\ cur \notin ToSet(TmrList)
  BY <1>2 DEF IInv, Typed, Members, Detached
<1>5. \A i \in 1 .. Len(TmrList) : TmrList[i] # cur
  BY <1>4, ListFacts
<1>6. /\ tmrCnt \in [Timers -> 0 .. Max(Counts)] /\ tmrCnt \in [Timers -> Int]
      /\ left[cur] \in Nat /\ Max(Counts) \in Nat
  <2>1. tmrCnt \in [Timers -> 0 .. Max(Counts)] /\ left \in [Timers -> Nat]
    BY DEF IInv, Typed
  <2>2. QED
    BY <1>4, <2>1, CountFacts, DisciplineStays
<1>7. Flow'
  BY DEF IInv, Flow, InsertLink, Inserted, Locking, Inserting, Ending
<1>8. pc' \in {"dispose", "unlock", "count"}
  BY <1>2 DEF Inserted
<1>9. ASSUME ToSet(TmrList') = ToSet(TmrList) \cup {cur} PROVE Members'
  <2>1. Running(cur) /\ (op \in Ending => cur # id) /\ op = op'
    BY <1>2 DEF IInv, Members
  <2>2. \A t \in Timers : Running(t)' <=> Running(t)
    BY <1>2 DEF Running
  <2>3. \A t \in Timers : t # cur => (Detached(t)' <=> Detached(t))
    BY <1>2, <1>8 DEF Detached, Locking
  <2>4. \A t \in Timers : t = cur => ~Detached(t)'
    BY <1>2, <1>8, <2>1 DEF Detached, Locking
  <2>5. \A t \in Timers : t \in ToSet(TmrList) <=> Running(t) /\ ~Detached(t)
    BY DEF IInv, Members
  <2>6. \A t \in Timers : t \in ToSet(TmrList') <=> Running(t)' /\ ~Detached(t)'
    BY <1>4, <1>9, <2>1, <2>2, <2>3, <2>4, <2>5
  <2>7. QED
    BY <1>8, <2>6 DEF Members
<1>10. ASSUME tmrCnt' \in [Timers -> 0 .. Max(Counts)] PROVE Typed'
  BY <1>10 DEF IInv, Typed, InsertLink
<1>11. CASE place.before = None
  <2> DEFINE d == Ahead(TmrList, D, Len(TmrList)) + place.delta
             G == [D EXCEPT ![cur] = d]
  <2>1. place.delta \in Nat /\ left[cur] <= d /\ d <= Max(Counts)
    BY <1>3, <1>11 DEF Placed
  <2>2. Ahead(TmrList, D, Len(TmrList)) \in Nat
    BY <1>3
  <2>3. d \in Nat /\ place.delta \in 0 .. Max(Counts)
    BY <1>6, <2>1, <2>2
  <2>4. TmrList' = Linked(TmrList, cur, None) /\ TmrList' = Append(TmrList, cur)
        /\ tmrCnt' = [tmrCnt EXCEPT ![cur] = place.delta] /\ pc' \in {"dispose", "unlock"}
    BY <1>2, <1>11 DEF Linked, Inserted
  <2>5. G \in [Timers -> Nat] /\ G[cur] = d /\ \A t \in Timers : t # cur => G[t] = D[t]
    BY <1>1, <1>4, <2>3
  <2>6. Spaced(TmrList', tmrCnt', G)
    <3>1. Spaced(Linked(TmrList, cur, None), [tmrCnt EXCEPT ![cur] = place.delta], G)
      BY <1>1, <1>3, <1>4, <1>5, <1>6, <2>1, <2>3, AppendSpaced, DisciplineStays
    <3> HIDE DEF G
    <3>2. QED
      BY <2>4, <3>1
  <2>7. ToSet(TmrList') = ToSet(TmrList) \cup {cur}
    <3>1. ToSet(Append(TmrList, cur)) = ToSet(TmrList) \cup {cur}
      BY <1>3, <1>4, AppendSet
    <3>2. QED
      BY <2>4, <3>1
  <2> HIDE DEF d, G
  <2>8. Members'
    BY <1>9, <2>7
  <2>9. Typed'
    <3>1. tmrCnt' \in [Timers -> 0 .. Max(Counts)]
      BY <1>6, <2>3, <2>4
    <3>2. QED
      BY <1>10, <3>1
  <2>10. Waiting'
    BY <2>4 DEF Waiting
  <2>11. PICK C \in [Timers -> Nat] : C = G
    BY <2>5
  <2>12. Timed(C)'
    <3>1. Effective' = tmrCnt'
      BY <2>4 DEF Effective
    <3>2. ASSUME NEW t \in ToSet(TmrList') PROVE left'[t] <= G[t]
      <4>1. CASE t = cur
        BY <1>2, <2>1, <2>5, <4>1
      <4>2. CASE t # cur
        <5>1. t \in ToSet(TmrList) /\ t \in Timers
          BY <2>7, <4>2, ListFacts
        <5>2. QED
          BY <1>1, <1>2, <2>5, <4>2, <5>1, LeftOf
      <4>3. QED
        BY <4>1, <4>2
    <3>3. pc' # "link"
      BY <2>4
    <3>4. QED
      BY <2>6, <2>11, <3>1, <3>2, <3>3, TimedNow
  <2>13. (\E X \in [Timers -> Nat] : Timed(X))'
    BY <2>12
  <2>14. QED
    BY <1>7, <2>8, <2>9, <2>10, <2>13, DisciplineStays DEF IInv
<1>12. CASE place.before # None
  <2>1. PICK i \in 1 .. Len(TmrList) :
         /\ place.before = TmrList[i] /\ place.delta \in Int /\ place.delta < 0
         /\ Ahead(TmrList, D, i - 1) <= D[TmrList[i]] + place.delta
         /\ left[cur] <= D[TmrList[i]] + place.delta
    BY <1>3, <1>12 DEF Placed
  <2> DEFINE d == D[TmrList[i]] + place.delta
             G == [D EXCEPT ![cur] = d]
             E == [tmrCnt EXCEPT ![cur] = tmrCnt[TmrList[i]] + place.delta,
                                 ![TmrList[i]] = -place.delta]
  <2>2. d \in Nat
    <3>1. i - 1 \in 0 .. Len(TmrList)
      BY <1>3
    <3>2. Ahead(TmrList, D, i - 1) \in Nat /\ D[TmrList[i]] \in Nat
      BY <1>3, <3>1
    <3>3. QED
      BY <2>1, <3>2
  <2>3. TmrList' = Linked(TmrList, cur, TmrList[i]) /\ tmrCnt' = tmrCnt /\ pc' = "count"
    BY <1>2, <1>12, <2>1
  <2>4. G \in [Timers -> Nat] /\ G[cur] = d /\ \A t \in Timers : t # cur => G[t] = D[t]
    BY <1>1, <1>4, <2>2
  <2>5. PutBefore(TmrList', TmrList, i, cur) /\ Spaced(TmrList', E, G)
    <3>1. place.delta \in Int /\ place.delta < 0 /\ Ahead(TmrList, D, i - 1) <= d
      BY <2>1
    <3>2. /\ PutBefore(Linked(TmrList, cur, TmrList[i]), TmrList, i, cur)
          /\ Spaced(Linked(TmrList, cur, TmrList[i]), E, G)
      BY <1>1, <1>3, <1>4, <1>5, <1>6, <2>2, <3>1, LinkSpaced, DisciplineStays
    <3> HIDE DEF E, G
    <3>3. QED
      BY <2>3, <3>2
  <2>6. TmrList' \in Seq(Timers) /\ i \in 1 .. Len(TmrList) + 1
    BY <1>3, <2>5 DEF Spaced
  <2>7. ToSet(TmrList') = ToSet(TmrList) \cup {cur}
    BY <1>3, <2>5, <2>6, LinkedSet
  <2>8. Effective' = E
    BY <1>2, <2>1, <2>3 DEF Effective
  <2> HIDE DEF d, G, E
  <2>9. Members'
    BY <1>9, <2>7
  <2>10. Typed'
    BY <1>6, <1>10, <2>3
  <2>11. Waiting'
    <3>1. PICK j \in 2 .. Len(TmrList') : j = i + 1
      BY <1>3, <2>5 DEF PutBefore
    <3>2. j - 1 = i /\ i \in 1 .. Len(TmrList) + 1 /\ j \in 1 .. Len(TmrList) + 1
          /\ ~(i < i) /\ ~(j < i) /\ j # i
      BY <1>3, <3>1
    <3>3. TmrList'[j - 1] = cur /\ TmrList'[j] = TmrList[i]
      BY <2>5, <3>1, <3>2 DEF PutBefore
    <3>4. Between'
      BY <1>2, <2>1, <3>3 DEF Between
    <3>5. QED
      BY <2>3, <3>4 DEF Waiting
  <2>12. PICK C \in [Timers -> Nat] : C = G
    BY <2>4
  <2>13. Timed(C)'
    <3>1. ASSUME NEW t \in ToSet(TmrList') PROVE left'[t] <= G[t]
      <4>1. CASE t = cur
        BY <1>2, <2>1, <2>4, <4>1 DEF d
      <4>2. CASE t # cur
        <5>1. t \in ToSet(TmrList) /\ t \in Timers
          BY <2>7, <4>2, ListFacts
        <5>2. QED
          BY <1>1, <1>2, <2>4, <4>2, <5>1, LeftOf
      <4>3. QED
        BY <4>1, <4>2
    <3>2. pc' # "link"
      BY <2>3
    <3>3. QED
      BY <2>5, <2>8, <2>12, <3>1, <3>2, TimedNow
  <2>14. (\E X \in [Timers -> Nat] : Timed(X))'
    BY <2>13
  <2>15. QED
    BY <1>7, <2>9, <2>10, <2>11, <2>14, DisciplineStays DEF IInv
<1>13. QED
  BY <1>11, <1>12

\* The timer being linked and its successor, where the counters are half written.
LEMMA BetweenFacts ==
  ASSUME IInv, pc \in {"count", "correct"}, NEW D \in [Timers -> Nat], Timed(D)
  PROVE  /\ place.delta \in Int /\ place.delta < 0
         /\ cur \in ToSet(TmrList) /\ place.before \in ToSet(TmrList)
         /\ cur \in Timers /\ place.before \in Timers /\ cur # place.before
         /\ place.before # None
         /\ tmrCnt \in [Timers -> Int] /\ tmrCnt \in [Timers -> 0 .. Max(Counts)]
         /\ tmrCnt[cur] \in Nat /\ tmrCnt[place.before] \in Nat
         /\ Effective \in [Timers -> Int]
         /\ \E i \in 2 .. Len(TmrList) :
              TmrList[i - 1] = cur /\ TmrList[i] = place.before
<1>1. Between
  BY DEF IInv, Waiting
<1>2. PICK i \in 2 .. Len(TmrList) : TmrList[i - 1] = cur /\ TmrList[i] = place.before
  BY <1>1 DEF Between
<1>3. TmrList \in Seq(Timers) /\ Len(TmrList) \in Nat
  BY ListFacts
<1>4. i - 1 \in 1 .. Len(TmrList) /\ i \in 1 .. Len(TmrList) /\ i - 1 # i
  BY <1>3
<1>5. cur \in ToSet(TmrList) /\ place.before \in ToSet(TmrList)
  BY <1>2, <1>4, ListFacts
<1>6. cur # place.before
  BY <1>2, <1>4 DEF Timed, Spaced
<1>7. cur \in Timers /\ place.before \in Timers /\ place.before # None
  BY <1>5, ListFacts, CountFacts, DisciplineStays
<1>8. tmrCnt \in [Timers -> 0 .. Max(Counts)]
  BY DEF IInv, Typed
<1>9. tmrCnt \in [Timers -> Int] /\ tmrCnt[cur] \in Nat /\ tmrCnt[place.before] \in Nat
  BY <1>7, <1>8
<1>10. place.delta \in Int /\ place.delta < 0
  BY <1>1 DEF Between
<1>11. Effective \in [Timers -> Int]
  <2>1. CASE pc = "count"
    BY <1>7, <1>9, <1>10, <2>1 DEF Effective
  <2>2. CASE pc = "correct"
    <3>1. Effective = [tmrCnt EXCEPT ![place.before] = tmrCnt[place.before] + -tmrCnt[cur]]
      BY <1>7, <2>2 DEF Effective, GiveTicks
    <3>2. QED
      BY <1>7, <1>9, <3>1
  <2>3. QED
    BY <2>1, <2>2
<1>12. QED
  BY <1>2, <1>5, <1>6, <1>7, <1>8, <1>9, <1>10, <1>11

\* The counter of the linked timer is written ...
LEMMA CountInv ==
  ASSUME IInv, InsertCount PROVE IInv'
<1> USE DEF Step, Quiet, Locked
<1>1. PICK D \in [Timers -> Nat] : Timed(D)
  BY DEF IInv
<1>2. /\ pc = "count" /\ pc' = "correct" /\ TmrList' = TmrList /\ left' = left
      /\ cur' = cur /\ place' = place
      /\ tmrCnt' = [tmrCnt EXCEPT ![cur] = tmrCnt[place.before] + place.delta]
  BY DEF InsertCount
<1>3. /\ place.delta \in Int /\ cur \in ToSet(TmrList)
      /\ cur \in Timers /\ place.before \in Timers /\ cur # place.before
      /\ place.before # None
      /\ tmrCnt \in [Timers -> Int] /\ tmrCnt \in [Timers -> 0 .. Max(Counts)]
      /\ tmrCnt[place.before] \in Nat /\ Effective \in [Timers -> Int]
  BY <1>1, <1>2, BetweenFacts
<1>4. Effective = [tmrCnt EXCEPT ![cur] = tmrCnt[place.before] + place.delta,
                                 ![place.before] = -place.delta]
  BY <1>2 DEF Effective
<1>5. Effective' = Effective
  <2>1. Effective' = [tmrCnt' EXCEPT ![place.before] = @ + -tmrCnt'[cur]]
    BY <1>2, <1>3 DEF Effective, GiveTicks
  <2>2. /\ tmrCnt'[place.before] = tmrCnt[place.before]
        /\ tmrCnt'[cur] = tmrCnt[place.before] + place.delta
    BY <1>2, <1>3
  <2>3. tmrCnt'[place.before] + -tmrCnt'[cur] = -place.delta
    BY <1>3, <2>2
  <2>4. Effective' = [tmrCnt' EXCEPT ![place.before] = -place.delta]
    BY <2>1, <2>3
  <2>5. QED
    BY <1>2, <1>4, <2>4
<1>6. Effective[cur] \in 0 .. Max(Counts)
  <2>1. Spaced(TmrList, Effective, D)
    BY <1>1 DEF Timed
  <2>2. PICK i \in 1 .. Len(TmrList) : TmrList[i] = cur
    BY <1>3, ListFacts
  <2>3. QED
    BY <1>1, <2>1, <2>2, SpacedFacts, DisciplineStays
<1>7. Effective[cur] = tmrCnt[place.before] + place.delta
  BY <1>3, <1>4
<1>8. tmrCnt' \in [Timers -> 0 .. Max(Counts)]
  BY <1>2, <1>3, <1>6, <1>7
<1>9. Typed'
  BY <1>8 DEF IInv, Typed, InsertCount
<1>10. Flow'
  BY DEF IInv, Flow, InsertCount, Locking, Inserting, Ending
<1>11. Members'
  BY DEF IInv, Members, Running, Detached, Locking, InsertCount
<1>12. Waiting'
  <2>1. Between
    BY <1>2 DEF IInv, Waiting
  <2>2. Between'
    BY <1>2, <2>1 DEF Between
  <2>3. QED
    BY <1>2, <2>2 DEF Waiting
<1>13. Timed(D)'
  BY <1>1, <1>2, <1>5 DEF Timed
<1>14. QED
  BY <1>1, <1>9, <1>10, <1>11, <1>12, <1>13, DisciplineStays DEF IInv

\* ... and then its successor's.
LEMMA CorrectInv ==
  ASSUME IInv, InsertCorrect PROVE IInv'
<1> USE DEF Step, Quiet, Locked
<1>1. PICK D \in [Timers -> Nat] : Timed(D)
  BY DEF IInv
<1>2. /\ pc = "correct" /\ pc' \in {"dispose", "unlock"} /\ TmrList' = TmrList
      /\ left' = left /\ tmrCnt' = GiveTicks(tmrCnt, place.before, -tmrCnt[cur])
  BY DEF InsertCorrect, Inserted
<1>3. Effective = tmrCnt' /\ Effective' = tmrCnt'
  BY <1>2 DEF Effective
<1>4. /\ place.before \in ToSet(TmrList) /\ place.before # None
      /\ tmrCnt \in [Timers -> 0 .. Max(Counts)] /\ Effective \in [Timers -> Int]
  BY <1>1, <1>2, BetweenFacts
<1>5. tmrCnt' \in [Timers -> 0 .. Max(Counts)]
  <2>1. Spaced(TmrList, tmrCnt', D)
    BY <1>1, <1>3 DEF Timed
  <2>2. \A u \in Timers : u \in ToSet(TmrList) \/ tmrCnt'[u] = tmrCnt[u]
    BY <1>2, <1>4 DEF GiveTicks
  <2>3. \A u \in Timers : u \in ToSet(TmrList) \/ tmrCnt'[u] \in 0 .. Max(Counts)
    BY <1>4, <2>2
  <2>4. QED
    BY <1>1, <1>3, <1>4, <2>1, <2>3, CountsTyped, DisciplineStays
<1>6. Typed'
  BY <1>5 DEF IInv, Typed, InsertCorrect
<1>7. Flow'
  BY DEF IInv, Flow, InsertCorrect, Inserted, Locking, Inserting, Ending
<1>8. Members'
  BY <1>2 DEF IInv, Members, Running, Detached, Locking, InsertCorrect
<1>9. Waiting'
  BY <1>2 DEF Waiting
<1>10. Timed(D)'
  BY <1>1, <1>2, <1>3 DEF Timed
<1>11. QED
  BY <1>1, <1>6, <1>7, <1>8, <1>9, <1>10, DisciplineStays DEF IInv

-----------------------------------------------------------------------------
(* Firing.                                                                 *)

\* The timer that fires has nothing left to wait.
LEMMA ExpiredFacts ==
  ASSUME IInv, Expired(World), Settled, NEW D \in [Timers -> Nat], Timed(D),
         NEW t, t = Head(TmrList)
  PROVE  /\ t \in Timers /\ t \in ToSet(TmrList) /\ Running(t) /\ ~Detached(t)
         /\ t \in TmrIDVessel /\ left[t] = 0 /\ tmrReload[t] \in 0 .. Max(Counts)
         /\ tmrReload[t] \in Nat /\ (tmrType[t] = "PERIODIC" => tmrReload[t] > 0)
         /\ Spaced(Tail(TmrList), tmrCnt, D) /\ Tail(TmrList) \in Seq(Timers)
         /\ ToSet(Tail(TmrList)) = ToSet(TmrList) \ {t}
         /\ \A i \in 1 .. Len(Tail(TmrList)) : Tail(TmrList)[i] # t
<1>1. TmrList # <<>> /\ tmrCnt[Head(TmrList)] = 0
  BY DEF Expired, World
<1>2. Spaced(TmrList, tmrCnt, D)
  BY SettledTimed
<1>3. /\ Spaced(Tail(TmrList), tmrCnt, D) /\ D[t] = 0
      /\ t \in Timers /\ t \in ToSet(TmrList)
      /\ ToSet(Tail(TmrList)) = ToSet(TmrList) \ {t}
      /\ \A i \in 1 .. Len(Tail(TmrList)) : Tail(TmrList)[i] # t
  BY <1>1, <1>2, TailSpaced, DisciplineStays
<1>4. Running(t) /\ ~Detached(t)
  BY <1>3 DEF IInv, Members
<1>5. left[t] = 0
  <2>1. left[t] <= 0
    BY <1>3, LeftOf
  <2>2. left \in [Timers -> Nat]
    BY DEF IInv, Typed
  <2>3. QED
    BY <1>3, <2>1, <2>2
<1>6. t \in TmrIDVessel /\ tmrReload \in [Timers -> 0 .. Max(Counts)]
      /\ (tmrType[t] = "PERIODIC" => tmrReload[t] > 0)
  BY <1>4 DEF Running, IInv, Typed
<1>7. tmrReload[t] \in 0 .. Max(Counts) /\ tmrReload[t] \in Nat
  BY <1>3, <1>6
<1>8. Tail(TmrList) \in Seq(Timers)
  BY <1>3 DEF Spaced
<1>9. QED
  BY <1>3, <1>4, <1>5, <1>6, <1>7, <1>8

\* A timer that fires in the unlock has nothing left to wait.
LEMMA DisposeFireInv ==
  ASSUME IInv, DisposeFire PROVE IInv'
<1>1. PICK D \in [Timers -> Nat] : Timed(D)
  BY DEF IInv
<1>2. PICK t : t = Head(TmrList)
  OBVIOUS
<1>3. /\ Expired(World) /\ pc = "dispose" /\ Settled
      /\ pc' = (IF tmrType[t] = "PERIODIC" /\ tmrReload[t] > 0 THEN "find" ELSE "dispose")
      /\ TmrList' = Tail(TmrList) /\ cur' = t
      /\ tmrCnt' = (IF tmrType[t] = "PERIODIC" THEN [tmrCnt EXCEPT ![t] = tmrReload[t]]
                    ELSE tmrCnt)
      /\ tmrState' = (IF tmrType[t] = "PERIODIC" THEN tmrState
                      ELSE [tmrState EXCEPT ![t] = "STOPPED"])
      /\ left' = [left EXCEPT ![t] = IF tmrType[t] = "PERIODIC" THEN tmrReload[t] ELSE 0]
      /\ early' = (early \/ left[t] > 0)
      /\ UNCHANGED <<TimerReq, IsrReq, place, disposing, gives, TmrIDVessel, lock, ticks,
                     op, id, tmrType, tmrReload>>
  BY <1>2 DEF DisposeFire, Step, Locked, Settled
<1>4. /\ t \in Timers /\ t \in ToSet(TmrList) /\ Running(t) /\ ~Detached(t)
      /\ t \in TmrIDVessel /\ left[t] = 0 /\ tmrReload[t] \in 0 .. Max(Counts)
      /\ tmrReload[t] \in Nat /\ (tmrType[t] = "PERIODIC" => tmrReload[t] > 0)
      /\ Spaced(Tail(TmrList), tmrCnt, D)
      /\ ToSet(Tail(TmrList)) = ToSet(TmrList) \ {t}
      /\ \A i \in 1 .. Len(Tail(TmrList)) : Tail(TmrList)[i] # t
  BY <1>1, <1>2, <1>3, ExpiredFacts
<1>5. /\ tmrCnt \in [Timers -> 0 .. Max(Counts)] /\ left \in [Timers -> Nat]
      /\ tmrState \in [Timers -> {"RUNNING", "STOPPED"}] /\ early = FALSE
  BY DEF IInv, Typed
<1>6. Typed'
  <2>1. ~(0 > 0)
    OBVIOUS
  <2>2. early' = FALSE
    BY <1>3, <1>4, <1>5, <2>1
  <2>3. tmrCnt' \in [Timers -> 0 .. Max(Counts)] /\ left' \in [Timers -> Nat]
        /\ tmrState' \in [Timers -> {"RUNNING", "STOPPED"}]
    BY <1>3, <1>4, <1>5
  <2>4. QED
    BY <1>3, <1>4, <2>2, <2>3 DEF IInv, Typed
<1>7. Flow' /\ Settled' /\ pc' \in {"find", "dispose"} /\ (pc' = "find" <=> tmrType[t] = "PERIODIC")
  BY <1>3, <1>4 DEF IInv, Flow, Settled, Locking, Inserting, Ending
<1>8. Members'
  <2>1. op' \in Ending => t # id'
    BY <1>3, <1>4 DEF Detached, Locking
  <2>2. \A u \in Timers : u # t => (Running(u)' <=> Running(u)) /\ (Detached(u)' <=> Detached(u))
    BY <1>3, <1>5, <1>7 DEF Running, Detached, Locking
  <2>3. \A u \in Timers : u = t => ~(Running(u)' /\ ~Detached(u)')
    BY <1>3, <1>5, <1>7 DEF Running, Detached
  <2>4. \A u \in Timers : u \in ToSet(TmrList) <=> Running(u) /\ ~Detached(u)
    BY DEF IInv, Members
  <2>5. \A u \in Timers : u \in ToSet(TmrList') <=> Running(u)' /\ ~Detached(u)'
    BY <1>3, <1>4, <2>2, <2>3, <2>4
  <2>6. pc' = "find" => Running(cur)'
    BY <1>3, <1>4, <1>7 DEF Running
  <2>7. QED
    BY <1>3, <1>7, <2>1, <2>5, <2>6 DEF Members
<1>9. Waiting'
  <2>1. ASSUME pc' = "find" PROVE left'[t] <= tmrCnt'[t] /\ tmrCnt'[t] >= 1
    <3>1. left'[t] = tmrReload[t] /\ tmrCnt'[t] = tmrReload[t]
      BY <1>3, <1>4, <1>5, <1>7, <2>1
    <3>2. tmrReload[t] > 0
      BY <1>4, <1>7, <2>1
    <3>3. QED
      BY <1>4, <3>1, <3>2
  <2>2. QED
    BY <1>3, <1>7, <2>1 DEF Waiting
<1>10. Timed(D)'
  <2>1. \A u \in Timers : u # t => tmrCnt'[u] = tmrCnt[u] /\ left'[u] = left[u]
    BY <1>3, <1>4, <1>5
  <2>2. Tail(TmrList) \in Seq(Timers)
    BY <1>4 DEF Spaced
  <2>3. \A i \in 1 .. Len(Tail(TmrList)) : Tail(TmrList)[i] \in Timers
    BY <2>2
  <2>4. Spaced(Tail(TmrList), tmrCnt', D)
    BY <1>4, <2>1, <2>3, SpacedAlike
  <2>5. ASSUME NEW u \in ToSet(TmrList') PROVE left'[u] <= D[u]
    <3>1. u \in ToSet(TmrList) /\ u # t /\ u \in Timers
      BY <1>3, <1>4, ListFacts
    <3>2. QED
      BY <1>1, <2>1, <3>1, LeftOf
  <2>6. Effective' = tmrCnt' /\ pc' # "link"
    BY <1>7 DEF Effective
  <2>7. Spaced(TmrList', tmrCnt', D)
    BY <1>3, <2>4
  <2>8. QED
    BY <2>5, <2>6, <2>7, TimedNow
<1>11. QED
  BY <1>1, <1>6, <1>7, <1>8, <1>9, <1>10, DisciplineStays DEF IInv

\* A timer with its reload value, the place it finds, and its counter there.
Reloaded(t) == [tmrCnt EXCEPT ![t] = tmrReload[t]]
PlaceOf(t) == FindPlace(Tail(TmrList), Reloaded(t), tmrReload[t])
CountOf(t) == AtPlace(Reloaded(t), t, PlaceOf(t))

\* What one round of TmrDispose in the tick makes of the state.
LEMMA FireFacts ==
  ASSUME NEW t, t = Head(TmrList), NEW w, w = Fire(World),
         tmrType[t] = "PERIODIC" => tmrReload[t] # 0,
         t \in Timers, tmrCnt \in [Timers -> 0 .. Max(Counts)], left \in [Timers -> Nat],
         tmrState \in [Timers -> {"RUNNING", "STOPPED"}]
  PROVE  /\ w.left = [left EXCEPT ![t] = tmrReload[t]]
         /\ w.early = (early \/ left[t] > 0)
         /\ tmrType[t] # "PERIODIC" =>
              /\ w.list = Tail(TmrList) /\ w.cnt = [tmrCnt EXCEPT ![t] = 0]
              /\ w.state = [tmrState EXCEPT ![t] = "STOPPED"]
         /\ tmrType[t] = "PERIODIC" =>
              /\ w.list = Linked(Tail(TmrList), t, PlaceOf(t).before)
              /\ w.cnt = GiveTicks(CountOf(t), PlaceOf(t).before, -CountOf(t)[t])
              /\ w.state = tmrState
<1> DEFINE E == Reloaded(t)
           out == [World EXCEPT !.list = Tail(@), !.cnt[t] = tmrReload[t],
                                !.left[t] = tmrReload[t],
                                !.early = @ \/ World.left[t] > 0]
           p == PlaceOf(t)
           F == CountOf(t)
<1>1. /\ World.list = TmrList /\ World.cnt = tmrCnt /\ World.state = tmrState
      /\ World.left = left /\ DOMAIN World = {"list", "cnt", "state", "left", "early"}
  BY DEF World
<1>2. World.early = early
  BY Zenon DEF World
<1>3. w = IF tmrType[t] = "PERIODIC" THEN Relinked(out, t)
          ELSE [out EXCEPT !.cnt[t] = 0, !.state[t] = "STOPPED"]
  BY <1>1 DEF Fire
<1>4. /\ out.list = Tail(TmrList) /\ out.cnt = E /\ out.state = tmrState
      /\ out.left = [left EXCEPT ![t] = tmrReload[t]]
      /\ DOMAIN out = {"list", "cnt", "state", "left", "early"}
  BY <1>1 DEF Reloaded
<1>5. out.early = (early \/ left[t] > 0)
  BY <1>1, <1>2
<1> HIDE DEF out
<1>6. CASE tmrType[t] = "PERIODIC"
  <2>1. w = [out EXCEPT !.list = Linked(@, t, p.before), !.cnt = GiveTicks(F, p.before, -F[t])]
    <3>1. w = Relinked(out, t) /\ tmrReload[t] # 0
      BY <1>3, <1>6
    <3>2. QED
      BY <1>4, <3>1 DEF Relinked, PlaceOf, CountOf, AtPlace
  <2> HIDE DEF p, F, E
  <2>2. /\ w.list = Linked(Tail(TmrList), t, p.before) /\ w.cnt = GiveTicks(F, p.before, -F[t])
        /\ w.state = tmrState /\ w.left = [left EXCEPT ![t] = tmrReload[t]]
        /\ w.early = out.early
    BY <1>4, <2>1
  <2>3. QED
    BY <1>5, <1>6, <2>2 DEF p, F
<1>7. CASE tmrType[t] # "PERIODIC"
  <2>1. w = [out EXCEPT !.cnt[t] = 0, !.state[t] = "STOPPED"]
    BY <1>3, <1>7
  <2>2. /\ w.list = Tail(TmrList) /\ w.left = [left EXCEPT ![t] = tmrReload[t]]
        /\ w.early = out.early /\ w.cnt = [E EXCEPT ![t] = 0]
        /\ w.state = [tmrState EXCEPT ![t] = "STOPPED"]
    BY <1>4, <2>1
  <2>3. [E EXCEPT ![t] = 0] = [tmrCnt EXCEPT ![t] = 0]
    BY DEF Reloaded
  <2>4. QED
    BY <1>5, <1>7, <2>2, <2>3
<1>8. QED
  BY <1>6, <1>7

\* Nor has one that fires in the tick; a periodic one is linked again.
LEMMA TmrDisposeInv ==
  ASSUME IInv, TmrDispose PROVE IInv'
<1>1. PICK D \in [Timers -> Nat] : Timed(D)
  BY DEF IInv
<1>2. PICK t : t = Head(TmrList)
  OBVIOUS
<1>3. PICK w : /\ w = Fire(World)
               /\ TmrList' = w.list /\ tmrCnt' = w.cnt /\ tmrState' = w.state
               /\ left' = w.left /\ early' = w.early
  BY DEF TmrDispose, Becomes
<1>4. /\ Expired(World) /\ lock = "tick"
      /\ UNCHANGED <<TmrIDVessel, tmrType, tmrReload, TimerReq, IsrReq, lock, pc, op, id,
                     cur, place, disposing, gives, ticks>>
  BY DEF TmrDispose, call
<1>5. pc \in {"idle", "insert", "remove", "stopped", "release"}
  BY <1>4 DEF IInv, Flow
<1>6. Settled /\ Settled'
  BY <1>4, <1>5 DEF Settled
<1>7. /\ t \in Timers /\ t \in ToSet(TmrList) /\ Running(t) /\ ~Detached(t)
      /\ t \in TmrIDVessel /\ left[t] = 0 /\ tmrReload[t] \in 0 .. Max(Counts)
      /\ tmrReload[t] \in Nat /\ (tmrType[t] = "PERIODIC" => tmrReload[t] > 0)
      /\ Spaced(Tail(TmrList), tmrCnt, D) /\ Tail(TmrList) \in Seq(Timers)
      /\ ToSet(Tail(TmrList)) = ToSet(TmrList) \ {t}
      /\ \A i \in 1 .. Len(Tail(TmrList)) : Tail(TmrList)[i] # t
  BY <1>1, <1>2, <1>4, <1>6, ExpiredFacts
<1>8. /\ tmrCnt \in [Timers -> 0 .. Max(Counts)] /\ left \in [Timers -> Nat]
      /\ tmrState \in [Timers -> {"RUNNING", "STOPPED"}] /\ early = FALSE
      /\ Max(Counts) \in Nat
  BY CountFacts, DisciplineStays DEF IInv, Typed
<1>9. /\ left' = [left EXCEPT ![t] = tmrReload[t]]
      /\ early' = (early \/ left[t] > 0)
      /\ tmrType[t] # "PERIODIC" =>
           /\ TmrList' = Tail(TmrList) /\ tmrCnt' = [tmrCnt EXCEPT ![t] = 0]
           /\ tmrState' = [tmrState EXCEPT ![t] = "STOPPED"]
      /\ tmrType[t] = "PERIODIC" =>
           /\ TmrList' = Linked(Tail(TmrList), t, PlaceOf(t).before)
           /\ tmrCnt' = GiveTicks(CountOf(t), PlaceOf(t).before, -CountOf(t)[t])
           /\ tmrState' = tmrState
  <2>1. tmrType[t] = "PERIODIC" => tmrReload[t] # 0
    BY <1>7
  <2>2. QED
    BY <1>2, <1>3, <1>7, <1>8, <2>1, FireFacts
<1>10. early' = FALSE
  <2>1. ~(0 > 0)
    OBVIOUS
  <2>2. QED
    BY <1>7, <1>8, <1>9, <2>1
<1>11. left' \in [Timers -> Nat] /\ left'[t] = tmrReload[t]
       /\ \A u \in Timers : u # t => left'[u] = left[u]
  BY <1>7, <1>8, <1>9
<1>12. Flow'
  BY <1>4 DEF IInv, Flow
<1>13. \A u \in Timers : Detached(u)' <=> Detached(u)
  BY <1>4 DEF Detached
<1>14. pc = "insert" => t # id
  BY <1>7 DEF Detached
<1>15. \A u \in Timers : u \in ToSet(TmrList) <=> Running(u) /\ ~Detached(u)
  BY DEF IInv, Members
<1>16. /\ id' = id /\ id \in Timers /\ pc' = pc
       /\ pc = "insert" => Running(id) /\ left[id] <= tmrCnt[id] /\ tmrCnt[id] >= 1
       /\ pc = "remove" => Running(id) /\ tmrType[id] = "PERIODIC"
  BY <1>4 DEF IInv, Typed, Members, Waiting
<1>17. CASE tmrType[t] # "PERIODIC"
  <2>1. Typed'
    <3>0. 0 \in 0 .. Max(Counts)
      BY <1>8
    <3>1. /\ tmrCnt' \in [Timers -> 0 .. Max(Counts)]
          /\ tmrState' \in [Timers -> {"RUNNING", "STOPPED"}]
      BY <1>8, <1>9, <1>17, <3>0
    <3>2. QED
      BY <1>4, <1>10, <1>11, <3>1 DEF IInv, Typed
  <2>2. \A u \in Timers : /\ u # t => (Running(u)' <=> Running(u)) /\ tmrCnt'[u] = tmrCnt[u]
                          /\ u = t => ~Running(u)'
    BY <1>4, <1>7, <1>8, <1>9, <1>17 DEF Running
  <2>3. Members'
    <3>1. \A u \in Timers : u \in ToSet(TmrList') <=> Running(u)' /\ ~Detached(u)'
      BY <1>7, <1>9, <1>13, <1>15, <1>17, <2>2
    <3>2. pc = "remove" => t # id
      BY <1>16, <1>17
    <3>3. (pc = "insert" => Running(id)') /\ (pc = "remove" => Running(id)')
      BY <1>4, <1>8, <1>9, <1>14, <1>16, <1>17, <3>2 DEF Running
    <3>4. QED
      BY <1>4, <1>5, <1>16, <3>1, <3>3 DEF Members
  <2>4. Waiting'
    BY <1>4, <1>5, <1>11, <1>14, <1>16, <2>2 DEF Waiting
  <2>5. Timed(D)'
    <3>1. \A i \in 1 .. Len(Tail(TmrList)) : Tail(TmrList)[i] \in Timers
      BY <1>7
    <3>2. Spaced(Tail(TmrList), tmrCnt', D)
      <4>1. Spaced(Tail(TmrList), tmrCnt, D)
        BY <1>7
      <4>2. \A i \in 1 .. Len(Tail(TmrList)) :
              tmrCnt'[Tail(TmrList)[i]] = tmrCnt[Tail(TmrList)[i]]
        BY <1>7, <2>2, <3>1
      <4>3. QED
        BY ONLY <4>1, <4>2, SpacedAlike
    <3>3. ASSUME NEW u \in ToSet(TmrList') PROVE left'[u] <= D[u]
      <4>1. u \in ToSet(TmrList) /\ u # t /\ u \in Timers
        BY <1>7, <1>9, <1>17, ListFacts
      <4>2. QED
        BY <1>1, <1>11, <4>1, LeftOf
    <3>4. Effective' = tmrCnt' /\ pc' # "link"
      BY <1>6 DEF Effective, Settled
    <3>5. Spaced(TmrList', tmrCnt', D)
      BY <1>9, <1>17, <3>2
    <3>6. QED
      BY <3>3, <3>4, <3>5, TimedNow
  <2>6. QED
    BY <1>1, <1>12, <2>1, <2>3, <2>4, <2>5, DisciplineStays DEF IInv
<1>18. CASE tmrType[t] = "PERIODIC"
  <2> DEFINE E == Reloaded(t)
  <2>1. E \in [Timers -> 0 .. Max(Counts)] /\ \A u \in Timers : u # t => E[u] = tmrCnt[u]
    BY <1>7, <1>8 DEF Reloaded
  <2>2. Spaced(Tail(TmrList), E, D)
    <3>1. \A i \in 1 .. Len(Tail(TmrList)) : Tail(TmrList)[i] \in Timers
      BY <1>7
    <3> HIDE DEF E
    <3>2. Spaced(Tail(TmrList), tmrCnt, D)
      BY <1>7
    <3>3. \A i \in 1 .. Len(Tail(TmrList)) : E[Tail(TmrList)[i]] = tmrCnt[Tail(TmrList)[i]]
      BY <1>7, <2>1, <3>1
    <3>4. QED
      BY ONLY <3>2, <3>3, SpacedAlike
  <2>3. PICK G \in [Timers -> Nat] : G = [D EXCEPT ![t] = tmrReload[t]]
    BY <1>1, <1>7
  <2>4. /\ Spaced(TmrList', tmrCnt', G) /\ tmrCnt' \in [Timers -> 0 .. Max(Counts)]
        /\ ToSet(TmrList') = ToSet(Tail(TmrList)) \cup {t}
    <3>1. t \notin ToSet(Tail(TmrList))
      BY <1>7
    <3>2. PICK p, F : p = PlaceOf(t) /\ F = CountOf(t)
      OBVIOUS
    <3>3. /\ p = FindPlace(Tail(TmrList), E, tmrReload[t])
          /\ F = AtPlace(E, t, p)
      BY <3>2 DEF PlaceOf, CountOf
    <3> HIDE DEF E
    <3>4. /\ Spaced(Linked(Tail(TmrList), t, p.before), Corrected(F, t, p), G)
          /\ Corrected(F, t, p) \in [Timers -> 0 .. Max(Counts)]
          /\ ToSet(Linked(Tail(TmrList), t, p.before)) = ToSet(Tail(TmrList)) \cup {t}
      <4>1. TimerAssumption /\ t \in Timers /\ tmrReload[t] \in 0 .. Max(Counts)
        BY <1>7, DisciplineStays
      <4>2. E \in [Timers -> 0 .. Max(Counts)]
        BY <2>1
      <4>3. PICK q : q = Tail(TmrList)
        OBVIOUS
      <4>4. PICK n \in 0 .. Max(Counts) : n = tmrReload[t]
        BY <4>1
      <4>5. /\ Spaced(q, E, D) /\ t \notin ToSet(q) /\ p = FindPlace(q, E, n)
            /\ F = AtPlace(E, t, p) /\ G = [D EXCEPT ![t] = n]
        BY <2>2, <2>3, <3>1, <3>3, <4>3, <4>4
      <4>6. /\ Spaced(Linked(q, t, p.before), Corrected(F, t, p), G)
            /\ Corrected(F, t, p) \in [Timers -> 0 .. Max(Counts)]
            /\ ToSet(Linked(q, t, p.before)) = ToSet(q) \cup {t}
        <5>1. PICK e : e = E
          OBVIOUS
        <5>2. D \in [Timers -> Nat] /\ TimerAssumption /\ t \in Timers
          BY <1>1, <4>1
        <5>3. e \in [Timers -> 0 .. Max(Counts)] /\ Spaced(q, e, D) /\ p = FindPlace(q, e, n)
              /\ F = AtPlace(e, t, p)
          BY <4>2, <4>5, <5>1
        <5>4. t \notin ToSet(q) /\ G = [D EXCEPT ![t] = n] /\ n \in 0 .. Max(Counts)
          BY <4>4, <4>5
        <5>5. Relinks(q, e, D, t, n, p, F, G)
          BY <5>2, <5>3, <5>4 DEF Relinks
        <5>6. QED
          BY <5>2, <5>5, RelinkSpaced
      <4>7. QED
        BY <4>3, <4>4, <4>6
    <3>5. /\ TmrList' = Linked(Tail(TmrList), t, p.before)
          /\ tmrCnt' = Corrected(F, t, p)
      BY <1>9, <1>18, <3>2 DEF Corrected
    <3>6. QED
      BY <2>3, <3>4, <3>5
  <2>5. ToSet(TmrList') = ToSet(TmrList)
    BY <1>7, <2>4
  <2>6. Typed'
    BY <1>4, <1>8, <1>9, <1>10, <1>11, <1>18, <2>4 DEF IInv, Typed
  <2>7. \A u \in Timers : Running(u)' <=> Running(u)
    BY <1>4, <1>9, <1>18 DEF Running
  <2>8. Members'
    <3>1. \A u \in Timers : u \in ToSet(TmrList') <=> Running(u)' /\ ~Detached(u)'
      BY <1>13, <1>15, <2>5, <2>7
    <3>2. (pc = "insert" => Running(id)') /\ (pc = "remove" => Running(id)')
      BY <1>4, <1>9, <1>16, <1>18 DEF Running
    <3>3. QED
      BY <1>4, <1>5, <1>16, <3>1, <3>2 DEF Members
  <2>9. Waiting'
    <3>1. ASSUME pc = "insert" PROVE tmrCnt'[id] = tmrCnt[id]
      <4>1. id \notin ToSet(TmrList) /\ id # t
        BY <1>14, <1>15, <1>16, <3>1 DEF Detached
      <4>2. PICK p, F : p = PlaceOf(t) /\ F = CountOf(t)
        OBVIOUS
      <4>3. /\ F = [E EXCEPT ![t] = IF p.before = None THEN p.delta ELSE E[p.before] + p.delta]
            /\ p = FindPlace(Tail(TmrList), E, tmrReload[t])
        BY <4>2 DEF CountOf, PlaceOf, AtPlace
      <4>4. tmrCnt' = GiveTicks(F, p.before, -F[t])
        BY <1>9, <1>18, <4>2
      <4> HIDE DEF E
      <4>5. p.before = None \/ \E i \in 1 .. Len(Tail(TmrList)) : p.before = Tail(TmrList)[i]
        <5>1. TimerAssumption /\ tmrReload[t] \in Nat
          BY <1>7, DisciplineStays
        <5>2. p = FindPlace(Tail(TmrList), E, tmrReload[t])
          BY <4>3
        <5>3. PICK q : q = Tail(TmrList)
          OBVIOUS
        <5>4. Spaced(q, E, D) /\ p = FindPlace(q, E, tmrReload[t])
          BY <2>2, <5>2, <5>3
        <5>5. p.before = None \/ \E i \in 1 .. Len(q) : p.before = q[i]
          BY <1>1, <5>1, <5>4, FindPlaced
        <5>6. QED
          BY <5>3, <5>5
      <4>6. p.before # id \/ p.before = None
        <5>1. \A i \in 1 .. Len(Tail(TmrList)) : Tail(TmrList)[i] \in ToSet(TmrList)
          BY <1>7, ToSetFacts
        <5>2. QED
          BY <4>1, <4>5, <5>1
      <4>7. F[id] = tmrCnt[id]
        BY <1>16, <2>1, <4>1, <4>3
      <4>8. QED
        BY <4>4, <4>6, <4>7 DEF GiveTicks
    <3>2. QED
      BY <1>4, <1>5, <1>11, <1>14, <1>16, <3>1 DEF Waiting
  <2>10. Timed(G)'
    <3>1. ASSUME NEW u \in ToSet(TmrList') PROVE left'[u] <= G[u]
      <4>1. u \in ToSet(TmrList) /\ u \in Timers
        BY <2>5, ListFacts
      <4>2. CASE u = t
        BY <1>7, <1>11, <2>3, <4>2
      <4>3. CASE u # t
        <5>1. G[u] = D[u] /\ left'[u] = left[u]
          BY <1>11, <2>3, <4>1, <4>3
        <5>2. QED
          BY <1>1, <4>1, <5>1, LeftOf
      <4>4. QED
        BY <4>2, <4>3
    <3>2. Effective' = tmrCnt' /\ pc' # "link"
      BY <1>6 DEF Effective, Settled
    <3>3. QED
      BY <2>4, <3>1, <3>2, TimedNow
  <2>11. (\E X \in [Timers -> Nat] : Timed(X))'
    BY <2>10
  <2>12. QED
    BY <1>12, <2>6, <2>8, <2>9, <2>11, DisciplineStays DEF IInv
<1>19. QED
  BY <1>17, <1>18

-----------------------------------------------------------------------------
(* The tick.                                                               *)

\* A counter after a tick.
Counted(n) == IF n > 0 THEN n - 1 ELSE 0

\* What a tick makes of the state.
LEMMA TickFacts ==
  ASSUME SysTick, tmrCnt \in [Timers -> Nat],
         TmrList # <<>> => Head(TmrList) \in Timers
  PROVE  /\ TmrList' = TmrList /\ tmrState' = tmrState /\ early' = early
         /\ left' = [t \in Timers |-> Counted(left[t])]
         /\ tmrCnt' = IF TmrList = <<>> THEN tmrCnt
                      ELSE [tmrCnt EXCEPT ![Head(TmrList)] = Counted(@)]
<1> DEFINE v == [World EXCEPT !.left = [t \in Timers |-> IF @[t] > 0 THEN @[t] - 1 ELSE 0]]
           h == Head(TmrList)
<1>1. PICK w : /\ w = CountHead(v)
               /\ TmrList' = w.list /\ tmrCnt' = w.cnt /\ tmrState' = w.state
               /\ left' = w.left /\ early' = w.early
  BY DEF SysTick, Becomes
<1>2. /\ World.list = TmrList /\ World.cnt = tmrCnt /\ World.state = tmrState
      /\ World.left = left /\ DOMAIN World = {"list", "cnt", "state", "left", "early"}
  BY DEF World
<1>3. World.early = early
  BY Zenon DEF World
<1>4. /\ v.list = TmrList /\ v.cnt = tmrCnt /\ v.state = tmrState
      /\ v.left = [t \in Timers |-> Counted(left[t])]
      /\ DOMAIN v = {"list", "cnt", "state", "left", "early"} /\ v.early = World.early
  BY <1>2 DEF Counted
<1> HIDE DEF v
<1>5. CASE TmrList = <<>>
  BY <1>1, <1>3, <1>4, <1>5 DEF CountHead
<1>6. CASE TmrList # <<>>
  <2>1. w = [v EXCEPT !.cnt[h] = IF @ > 1 THEN @ - 1 ELSE 0]
    BY <1>1, <1>4, <1>6 DEF CountHead
  <2>2. /\ w.list = v.list /\ w.state = v.state /\ w.left = v.left /\ w.early = v.early
        /\ w.cnt = [v.cnt EXCEPT ![h] = IF @ > 1 THEN @ - 1 ELSE 0]
    BY <1>4, <2>1
  <2>3. tmrCnt[h] \in Nat
    BY <1>6
  <2>4. (IF tmrCnt[h] > 1 THEN tmrCnt[h] - 1 ELSE 0) = Counted(tmrCnt[h])
    BY <2>3 DEF Counted
  <2>5. w.cnt = [tmrCnt EXCEPT ![h] = Counted(tmrCnt[h])]
    BY <1>4, <2>2, <2>4
  <2>6. QED
    BY <1>1, <1>3, <1>4, <1>6, <2>2, <2>5
<1>7. QED
  BY <1>5, <1>6

\* A tick brings no deadline nearer than by one.
LEMMA TickLeft ==
  ASSUME IInv, NEW D \in [Timers -> Nat], Timed(D), NEW G \in [Timers -> Nat],
         left' = [t \in Timers |-> Counted(left[t])],
         \A i \in 1 .. Len(TmrList) : G[TmrList[i]] >= D[TmrList[i]] - 1
  PROVE  \A i \in 1 .. Len(TmrList) : left'[TmrList[i]] <= G[TmrList[i]]
<1> SUFFICES ASSUME NEW i \in 1 .. Len(TmrList) PROVE left'[TmrList[i]] <= G[TmrList[i]]
  OBVIOUS
<1>1. PICK t \in Timers : t = TmrList[i]
  BY ListFacts
<1>2. left[t] <= D[t] /\ G[t] >= D[t] - 1
  BY <1>1 DEF Timed
<1>3. left[t] \in Nat /\ D[t] \in Nat /\ G[t] \in Nat
  BY DEF IInv, Typed
<1>4. left'[t] = Counted(left[t])
  OBVIOUS
<1>5. QED
  BY <1>1, <1>2, <1>3, <1>4 DEF Counted

\* The place found before the tick is good after it.
LEMMA TickPlaced ==
  ASSUME IInv, NEW D \in [Timers -> Nat], Timed(D), NEW G \in [Timers -> Nat],
         pc = "link", TmrList' = TmrList, cur' = cur, place' = place,
         left' = [t \in Timers |-> Counted(left[t])],
         ticks = 0, ticks' = 1,
         \/ \A i \in 1 .. Len(TmrList) : G[TmrList[i]] = D[TmrList[i]]
         \/ \A i \in 1 .. Len(TmrList) : G[TmrList[i]] = D[TmrList[i]] - 1
  PROVE  Placed(G)'
<1> DEFINE n == Len(TmrList)
<1>1. /\ Placed(D) /\ n \in Nat /\ Spaced(TmrList, tmrCnt, D)
      /\ \A i \in 0 .. n : Ahead(TmrList, D, i) \in Nat
      /\ \A i \in 1 .. n : D[TmrList[i]] \in Nat /\ TmrList[i] \in Timers
  <2>1. Placed(D) /\ Spaced(TmrList, tmrCnt, D)
    BY DEF Timed, Effective
  <2>2. QED
    BY <2>1, SpacedFacts, DisciplineStays
<1>2. PICK l \in Nat, m \in Nat : l = left[cur] /\ m = left'[cur] /\ m = Counted(l)
  <2>1. cur \in Timers /\ left \in [Timers -> Nat]
    BY DEF IInv, Typed
  <2>2. left[cur] \in Nat /\ left'[cur] = Counted(left[cur])
    BY <2>1
  <2>3. Counted(left[cur]) \in Nat
    BY <2>2 DEF Counted
  <2>4. QED
    BY <2>2, <2>3
<1>3. m <= l /\ (l = 0 => m = 0) /\ (l > 0 => m = l - 1)
  BY <1>2 DEF Counted
<1>4. \A i \in 1 .. n : G[TmrList[i]] \in Nat
  BY <1>1
<1> HIDE DEF n
<1>5. \A i \in 1 .. n : /\ Ahead(TmrList, G, i) = G[TmrList[i]]
                        /\ Ahead(TmrList, D, i) = D[TmrList[i]]
  BY DEF Ahead
<1>6. Ahead(TmrList, G, 0) = 0 /\ Ahead(TmrList, D, 0) = 0
  BY DEF Ahead
<1>7. Max(Counts) \in Nat
  BY CountFacts, DisciplineStays
<1>8. CASE place.before = None
  <2>1. PICK d \in Nat : d = place.delta
    BY <1>1, <1>8 DEF Placed
  <2>2. l <= Ahead(TmrList, D, n) + d /\ Ahead(TmrList, D, n) + d <= Max(Counts)
    BY <1>1, <1>2, <1>8, <2>1 DEF Placed, n
  <2>3. m <= Ahead(TmrList, G, n) + d /\ Ahead(TmrList, G, n) + d <= Max(Counts)
    <3>1. CASE n = 0
      BY <1>3, <1>6, <2>2, <3>1
    <3>2. CASE n # 0
      <4>1. n \in 1 .. n
        BY <1>1, <3>2
      <4>2. PICK a \in Nat, b \in Nat : a = Ahead(TmrList, D, n) /\ b = Ahead(TmrList, G, n)
        BY <1>1, <1>4, <1>5, <4>1
      <4>3. b = a \/ b = a - 1
        BY <1>5, <4>1, <4>2 DEF n
      <4>4. QED
        BY <1>3, <1>7, <2>2, <4>2, <4>3
    <3>3. QED
      BY <3>1, <3>2
  <2>4. QED
    BY <1>2, <1>8, <2>1, <2>3 DEF Placed, n
<1>9. CASE place.before # None
  <2>1. PICK i \in 1 .. n :
         /\ place.before = TmrList[i] /\ place.delta \in Int /\ place.delta < 0
         /\ Ahead(TmrList, D, i - 1) <= D[TmrList[i]] + place.delta
         /\ left[cur] <= D[TmrList[i]] + place.delta
         /\ i = 1 => D[TmrList[i]] + place.delta >= 1 - ticks
    BY <1>1, <1>9 DEF Placed, n
  <2>2. PICK d \in Int, a \in Nat, b \in Nat :
          d = place.delta /\ a = D[TmrList[i]] /\ b = G[TmrList[i]]
    BY <1>1, <1>4, <2>1
  <2>3. l <= a + d /\ (i = 1 => a + d >= 1)
    BY <1>2, <2>1, <2>2
  <2>4. /\ Ahead(TmrList, G, i - 1) <= b + d /\ m <= b + d
        /\ i = 1 => b + d >= 0
    <3>1. CASE i = 1
      <4>1. b = a \/ b = a - 1
        BY <2>2 DEF n
      <4>2. Ahead(TmrList, G, i - 1) = 0
        BY <1>6, <3>1
      <4>3. l \in Nat /\ m \in Nat /\ l <= a + d /\ a + d >= 1
        BY <1>2, <2>3, <3>1
      <4>4. b + d >= 0 /\ m <= b + d
        <5>1. CASE b = a
          BY <1>3, <2>2, <4>3, <5>1
        <5>2. CASE b = a - 1
          <6>1. b + d >= 0
            BY <2>2, <4>3, <5>2
          <6>2. m = 0 \/ m = l - 1
            BY <1>3, <4>3
          <6>3. QED
            BY <2>2, <4>3, <5>2, <6>1, <6>2
        <5>3. QED
          BY <4>1, <5>1, <5>2
      <4>5. QED
        BY <3>1, <4>2, <4>4
    <3>2. CASE i # 1
      <4>1. i - 1 \in 1 .. n
        BY <1>1, <3>2
      <4>2. PICK e \in Nat, f \in Nat : e = Ahead(TmrList, D, i - 1) /\ f = Ahead(TmrList, G, i - 1)
        BY <1>1, <1>4, <1>5, <4>1
      <4>3. (b = a /\ f = e) \/ (b = a - 1 /\ f = e - 1)
        BY <1>5, <2>2, <4>1, <4>2 DEF n
      <4>4. e <= a + d
        BY <2>1, <2>2, <4>2
      <4>5. f <= b + d
        <5>1. CASE b = a /\ f = e
          BY <4>4, <5>1
        <5>2. a + d >= e => (a - 1) + d >= e - 1
          OBVIOUS
        <5>3. CASE b = a - 1 /\ f = e - 1
          BY <4>4, <5>2, <5>3
        <5>4. QED
          BY <4>3, <5>1, <5>3
      <4>6. m <= b + d
        <5>1. l <= a + d /\ l \in Nat /\ m \in Nat
          BY <1>2, <2>3
        <5>2. CASE b = a
          BY <1>3, <2>2, <5>1, <5>2
        <5>3. CASE b = a - 1 /\ f = e - 1
          <6>1. b + d >= 0
            BY <2>2, <4>2, <4>5
          <6>2. CASE l = 0
            BY <1>3, <2>2, <6>1, <6>2
          <6>3. CASE l > 0
            BY <1>3, <2>2, <5>1, <5>3, <6>3
          <6>4. QED
            BY <5>1, <6>2, <6>3
        <5>4. QED
          BY <4>3, <5>2, <5>3
      <4>7. QED
        BY <3>2, <4>2, <4>5, <4>6
    <3>3. QED
      BY <3>1, <3>2
  <2>5. /\ place'.before = TmrList'[i] /\ place'.delta \in Int /\ place'.delta < 0
        /\ Ahead(TmrList', G, i - 1) <= G[TmrList'[i]] + place'.delta
        /\ left'[cur'] <= G[TmrList'[i]] + place'.delta
        /\ i = 1 => G[TmrList'[i]] + place'.delta >= 1 - ticks'
    BY <1>2, <2>1, <2>2, <2>4
  <2>6. i \in 1 .. Len(TmrList') /\ place'.before # None
    BY <1>9 DEF n
  <2>7. QED
    BY <2>5, <2>6 DEF Placed
<1>10. QED
  BY <1>8, <1>9


\* What a tick makes of the counters the list has when no write is pending:
\* nothing, one less at its head, or, between the two writes that link the
\* head, one tick from the head to its successor.
LEMMA TickEffective ==
  ASSUME IInv, SysTick, NEW D \in [Timers -> Nat], Timed(D), NEW h, h = Head(TmrList)
  PROVE  \/ Effective' = Effective
         \/ /\ TmrList # <<>> /\ Effective \in [Timers -> Int] /\ Effective[h] >= 1
            /\ Effective' = [Effective EXCEPT ![h] = @ - 1]
         \/ /\ pc = "correct" /\ Len(TmrList) >= 2
            /\ Effective \in [Timers -> Int] /\ Effective[TmrList[1]] >= 1
            /\ Effective' = [Effective EXCEPT ![TmrList[1]] = @ - 1, ![TmrList[2]] = @ + 1]
<1>1. pc' = pc /\ cur' = cur /\ place' = place /\ gives' = gives
  BY DEF SysTick, call
<1>2. /\ TmrList \in Seq(Timers) /\ Len(TmrList) \in Nat
      /\ \A i, j \in 1 .. Len(TmrList) : TmrList[i] = TmrList[j] => i = j
      /\ tmrCnt \in [Timers -> 0 .. Max(Counts)] /\ tmrCnt \in [Timers -> Nat]
      /\ None \notin Timers
  <2>1. tmrCnt \in [Timers -> 0 .. Max(Counts)]
    BY DEF IInv, Typed
  <2>2. Max(Counts) \in Nat /\ None \notin Timers
    BY CountFacts, DisciplineStays
  <2>3. QED
    BY <2>1, <2>2 DEF Timed, Spaced
<1>3. TmrList # <<>> => /\ h \in Timers /\ h = TmrList[1] /\ 1 \in 1 .. Len(TmrList)
                        /\ h \in ToSet(TmrList)
  BY <1>2, ListFacts
<1>4. tmrCnt' = IF TmrList = <<>> THEN tmrCnt ELSE [tmrCnt EXCEPT ![h] = Counted(@)]
  BY <1>2, <1>3, TickFacts
<1>5. ASSUME tmrCnt' = tmrCnt PROVE Effective' = Effective
  BY <1>1, <1>5 DEF Effective
<1>6. CASE TmrList = <<>>
  BY <1>4, <1>5, <1>6
<1>7. CASE TmrList # <<>> /\ tmrCnt[h] = 0
  <2>1. [tmrCnt EXCEPT ![h] = Counted(@)] = tmrCnt
    BY <1>2, <1>3, <1>7 DEF Counted
  <2>2. QED
    BY <1>4, <1>5, <1>7, <2>1
<1>8. CASE TmrList # <<>> /\ tmrCnt[h] # 0
  <2>1. PICK c \in Nat : c = tmrCnt[h]
    BY <1>2, <1>3, <1>8
  <2>2. c >= 1 /\ Counted(c) = c - 1
    BY <1>8, <2>1 DEF Counted
  <2>3. tmrCnt' = [tmrCnt EXCEPT ![h] = c - 1]
    BY <1>4, <1>8, <2>1, <2>2
  <2>4. tmrCnt \in [Timers -> Int] /\ h \in Timers
    BY <1>2, <1>3, <1>8
  <2>5. ASSUME pc \in {"count", "correct"}
        PROVE  /\ cur \in Timers /\ place.before \in Timers /\ cur # place.before
               /\ place.delta \in Int /\ place.before # None /\ h # place.before
               /\ Effective \in [Timers -> Int]
               /\ cur = h => Len(TmrList) >= 2 /\ TmrList[1] = cur /\ TmrList[2] = place.before
    <3>1. PICK i \in 2 .. Len(TmrList) : TmrList[i - 1] = cur /\ TmrList[i] = place.before
      BY <2>5, BetweenFacts
    <3>2. i \in 1 .. Len(TmrList) /\ i - 1 \in 1 .. Len(TmrList) /\ i # 1
      <4>1. \A n \in Nat : \A j \in 2 .. n : j \in 1 .. n /\ j - 1 \in 1 .. n /\ j # 1
        OBVIOUS
      <4>2. QED
        BY <1>2, <3>1, <4>1
    <3>3. h # place.before
      BY <1>2, <1>3, <1>8, <3>1, <3>2
    <3>4. cur = h => i = 2
      <4>1. cur = h => i - 1 = 1
        BY <1>2, <1>3, <1>8, <3>1, <3>2
      <4>2. QED
        BY <3>1, <4>1
    <3>5. Len(TmrList) >= 2
      BY <1>2, <3>1
    <3>6. QED
      BY <1>3, <1>8, <2>5, <3>1, <3>3, <3>4, <3>5, BetweenFacts
  <2>6. CASE pc = "count"
    <3>1. Effective = [tmrCnt EXCEPT ![cur] = tmrCnt[place.before] + place.delta,
                                     ![place.before] = -place.delta]
      BY <2>6 DEF Effective
    <3>2. Effective' = [tmrCnt' EXCEPT ![cur] = tmrCnt'[place.before] + place.delta,
                                       ![place.before] = -place.delta]
      BY <1>1, <2>6 DEF Effective
    <3>3. tmrCnt'[place.before] = tmrCnt[place.before]
      BY <2>3, <2>4, <2>5, <2>6
    <3>4. CASE cur = h
      <4>1. Effective' = Effective
        BY <2>3, <2>4, <2>5, <2>6, <3>1, <3>2, <3>3, <3>4
      <4>2. QED
        BY <4>1
    <3>5. CASE cur # h
      <4>1. Effective[h] = c
        BY <2>1, <2>4, <2>5, <2>6, <3>1, <3>5
      <4>2. Effective' = [Effective EXCEPT ![h] = c - 1]
        BY <2>3, <2>4, <2>5, <2>6, <3>1, <3>2, <3>3, <3>5
      <4>3. QED
        BY <1>8, <2>2, <2>5, <2>6, <4>1, <4>2
    <3>6. QED
      BY <3>4, <3>5
  <2>7. CASE pc = "correct"
    <3>1. Effective = [tmrCnt EXCEPT ![place.before] = tmrCnt[place.before] + (-tmrCnt[cur])]
      BY <2>5, <2>7 DEF Effective, GiveTicks
    <3>2. Effective' = [tmrCnt' EXCEPT ![place.before] = tmrCnt'[place.before] + (-tmrCnt'[cur])]
      BY <1>1, <2>5, <2>7 DEF Effective, GiveTicks
    <3>3. tmrCnt'[place.before] = tmrCnt[place.before]
      BY <2>3, <2>4, <2>5, <2>7
    <3>4. Effective[h] = c
      BY <2>1, <2>4, <2>5, <2>7, <3>1
    <3>5. CASE cur = h
      <4>1. tmrCnt'[cur] = c - 1 /\ tmrCnt[cur] = c
        BY <2>1, <2>3, <2>4, <3>5
      <4>2. PICK a \in Int : a = tmrCnt[place.before]
        BY <2>4, <2>5, <2>7
      <4>3. Effective[place.before] = a + (-c)
        BY <2>4, <2>5, <2>7, <3>1, <4>1, <4>2
      <4>4. Effective' = [tmrCnt' EXCEPT ![place.before] = a + (-(c - 1))]
        BY <3>2, <3>3, <4>1, <4>2
      <4>5. a + (-(c - 1)) = (a + (-c)) + 1
        BY <2>1, <4>2
      <4>6. Effective' = [Effective EXCEPT ![h] = c - 1, ![place.before] = (a + (-c)) + 1]
        BY <2>3, <2>4, <2>5, <2>7, <3>1, <4>4, <4>5
      <4>7. [Effective EXCEPT ![TmrList[1]] = @ - 1, ![TmrList[2]] = @ + 1]
            = [Effective EXCEPT ![h] = c - 1, ![place.before] = (a + (-c)) + 1]
        BY <2>5, <2>7, <3>4, <3>5, <4>3
      <4>8. QED
        BY <2>2, <2>5, <2>7, <3>4, <3>5, <4>6, <4>7
    <3>6. CASE cur # h
      <4>1. tmrCnt'[cur] = tmrCnt[cur]
        BY <2>3, <2>4, <2>5, <2>7, <3>6
      <4>2. Effective' = [Effective EXCEPT ![h] = c - 1]
        BY <2>3, <2>4, <2>5, <2>7, <3>1, <3>2, <3>3, <4>1
      <4>3. QED
        BY <1>8, <2>2, <2>5, <2>7, <3>4, <4>2
    <3>7. QED
      BY <3>5, <3>6
  <2>8. CASE pc = "give"
    <3>1. gives.n \in Nat /\ (gives.to = None \/ gives.to \in Timers)
      BY <2>8, ListFacts DEF IInv, Waiting
    <3>2. /\ Effective = GiveTicks(tmrCnt, gives.to, gives.n)
          /\ Effective' = GiveTicks(tmrCnt', gives.to, gives.n)
      BY <1>1, <2>8 DEF Effective
    <3>3. CASE gives.to = None
      BY <1>8, <2>1, <2>2, <2>3, <2>4, <3>2, <3>3 DEF GiveTicks
    <3>4. CASE gives.to \in Timers
      <4>1. PICK g \in Timers, n \in Nat : g = gives.to /\ n = gives.n /\ g # None
        BY <1>2, <3>1, <3>4
      <4>2. /\ Effective = [tmrCnt EXCEPT ![g] = tmrCnt[g] + n]
            /\ Effective' = [tmrCnt' EXCEPT ![g] = tmrCnt'[g] + n]
        BY <3>2, <4>1 DEF GiveTicks
      <4>3. Effective \in [Timers -> Int]
        BY <2>4, <4>1, <4>2
      <4>4. CASE g = h
        <5>1. Effective[h] = c + n /\ Effective = [tmrCnt EXCEPT ![h] = c + n]
          BY <2>1, <2>4, <4>2, <4>4
        <5>2. tmrCnt'[h] = c - 1
          BY <2>3, <2>4
        <5>3. Effective' = [tmrCnt' EXCEPT ![h] = (c - 1) + n]
          BY <4>2, <4>4, <5>2
        <5>4. (c - 1) + n = (c + n) - 1 /\ c + n >= 1
          BY <2>1, <2>2, <4>1
        <5>5. Effective' = [Effective EXCEPT ![h] = (c + n) - 1]
          BY <2>3, <2>4, <5>1, <5>3, <5>4
        <5>6. QED
          BY <1>8, <4>3, <5>1, <5>4, <5>5
      <4>5. CASE g # h
        <5>1. Effective[h] = c
          BY <2>1, <2>4, <4>2, <4>5
        <5>2. tmrCnt'[g] = tmrCnt[g]
          BY <2>3, <2>4, <4>1, <4>5
        <5>3. Effective' = [Effective EXCEPT ![h] = c - 1]
          <6>1. Effective' = [[tmrCnt EXCEPT ![h] = c - 1] EXCEPT ![g] = tmrCnt[g] + n]
            BY <2>3, <4>2, <5>2
          <6>2. QED
            BY <2>4, <4>1, <4>2, <4>5, <6>1
        <5>4. QED
          BY <1>8, <2>2, <4>3, <5>1, <5>3
      <4>6. QED
        BY <4>4, <4>5
    <3>5. QED
      BY <3>1, <3>3, <3>4
  <2>9. CASE pc \notin {"count", "correct", "give"}
    <3>1. Effective = tmrCnt /\ Effective' = tmrCnt'
      BY <1>1, <2>9 DEF Effective
    <3>2. QED
      BY <1>8, <2>1, <2>2, <2>3, <2>4, <3>1
  <2>10. QED
    BY <2>6, <2>7, <2>8, <2>9
<1>9. QED
  BY <1>6, <1>7, <1>8

\* A tick leaves the list with deadlines that no timer's wait exceeds.
LEMMA TickTimed ==
  ASSUME IInv, SysTick, NEW D \in [Timers -> Nat], Timed(D)
  PROVE  (\E G \in [Timers -> Nat] : Timed(G))'
<1> DEFINE n == Len(TmrList)
           h == Head(TmrList)
<1>1. /\ pc' = pc /\ cur' = cur /\ place' = place /\ TmrList' = TmrList
      /\ left' = [t \in Timers |-> Counted(left[t])]
  <2>1. tmrCnt \in [Timers -> 0 .. Max(Counts)] /\ Max(Counts) \in Nat
    BY CountFacts, DisciplineStays DEF IInv, Typed
  <2>2. tmrCnt \in [Timers -> Nat]
    BY <2>1
  <2>3. TmrList # <<>> => Head(TmrList) \in Timers
    BY ListFacts
  <2>4. pc' = pc /\ cur' = cur /\ place' = place
    BY DEF SysTick, call
  <2>5. QED
    BY <2>2, <2>3, <2>4, TickFacts
<1>2. /\ Spaced(TmrList, Effective, D) /\ n \in Nat
      /\ \A i \in 1 .. n : TmrList[i] \in Timers /\ D[TmrList[i]] \in Nat
      /\ \A i, j \in 1 .. n : TmrList[i] = TmrList[j] => i = j
  <2>1. Spaced(TmrList, Effective, D)
    BY DEF Timed
  <2>2. QED
    BY <2>1, SpacedFacts, DisciplineStays DEF Spaced
<1>3. ASSUME NEW G \in [Timers -> Nat], Spaced(TmrList, Effective', G),
             \/ \A i \in 1 .. n : G[TmrList[i]] = D[TmrList[i]]
             \/ \A i \in 1 .. n : G[TmrList[i]] = D[TmrList[i]] - 1
             \/ pc # "link" /\ \A i \in 1 .. n : G[TmrList[i]] >= D[TmrList[i]] - 1
      PROVE  Timed(G)'
  <2>1. \A i \in 1 .. n : G[TmrList[i]] >= D[TmrList[i]] - 1
    <3>1. \A i \in 1 .. n : D[TmrList[i]] >= D[TmrList[i]] - 1
      BY <1>2
    <3>2. \A i \in 1 .. n : D[TmrList[i]] - 1 >= D[TmrList[i]] - 1
      BY <1>2
    <3> HIDE DEF n
    <3>3. QED
      BY <1>3, <3>1, <3>2
  <2>2. \A i \in 1 .. n : left'[TmrList[i]] <= G[TmrList[i]]
    BY <1>1, <2>1, TickLeft
  <2>3. ASSUME pc = "link" PROVE Placed(G)'
    <3>1. lock = "caller"
      BY <2>3 DEF IInv, Flow, Locking
    <3>2. ticks < TicksPerLock /\ ticks' = ticks + 1
      BY <3>1 DEF SysTick
    <3>3. TicksPerLock \in Nat /\ TicksPerLock <= 1 /\ ticks \in 0 .. TicksPerLock
      BY DEF IInv, Disciplined, TimerAssumption, Typed
    <3>4. ticks = 0 /\ ticks' = 1
      BY <3>2, <3>3
    <3>5. QED
      BY <1>1, <1>3, <2>3, <3>4, TickPlaced
  <2>4. Spaced(TmrList', Effective', G)
    BY <1>1, <1>3
  <2>5. \A i \in 1 .. Len(TmrList') : left'[TmrList'[i]] <= G[TmrList'[i]]
    BY <1>1, <2>2
  <2>6. QED
    BY <1>1, <2>3, <2>4, <2>5 DEF Timed
<1>4. CASE Effective' = Effective
  <2>1. Spaced(TmrList, Effective', D)
    BY <1>2, <1>4
  <2>2. Timed(D)'
    BY <1>3, <2>1
  <2>3. QED
    BY <2>2
<1>5. CASE /\ TmrList # <<>> /\ Effective \in [Timers -> Int] /\ Effective[h] >= 1
           /\ Effective' = [Effective EXCEPT ![h] = @ - 1]
  <2>1. /\ Earlier(TmrList, D) \in [Timers -> Nat]
        /\ Spaced(TmrList, [Effective EXCEPT ![h] = @ - 1], Earlier(TmrList, D))
        /\ \A i \in 1 .. n : Earlier(TmrList, D)[TmrList[i]] = D[TmrList[i]] - 1
    BY <1>2, <1>5, TickSpaced, DisciplineStays
  <2>2. PICK G \in [Timers -> Nat] : G = Earlier(TmrList, D)
    BY <2>1
  <2>3. Spaced(TmrList, Effective', G) /\ \A i \in 1 .. n : G[TmrList[i]] = D[TmrList[i]] - 1
    BY <1>5, <2>1, <2>2
  <2>4. Timed(G)'
    BY <1>3, <2>3
  <2>5. QED
    BY <2>4
<1>6. CASE /\ pc = "correct" /\ Len(TmrList) >= 2
           /\ Effective \in [Timers -> Int] /\ Effective[TmrList[1]] >= 1
           /\ Effective' = [Effective EXCEPT ![TmrList[1]] = @ - 1, ![TmrList[2]] = @ + 1]
  <2>1. /\ [D EXCEPT ![TmrList[1]] = @ - 1] \in [Timers -> Nat]
        /\ Spaced(TmrList, [Effective EXCEPT ![TmrList[1]] = @ - 1, ![TmrList[2]] = @ + 1],
                  [D EXCEPT ![TmrList[1]] = @ - 1])
    BY <1>2, <1>6, HeadSpaced, DisciplineStays
  <2>2. PICK G \in [Timers -> Nat] : G = [D EXCEPT ![TmrList[1]] = @ - 1]
    BY <2>1
  <2>3. Spaced(TmrList, Effective', G)
    BY <1>6, <2>1, <2>2
  <2>4. ASSUME NEW i \in 1 .. n PROVE G[TmrList[i]] >= D[TmrList[i]] - 1
    <3>1. PICK d \in Nat : d = D[TmrList[i]]
      BY <1>2
    <3>2. G[TmrList[i]] = d \/ G[TmrList[i]] = d - 1
      BY <1>2, <2>2, <3>1
    <3>3. d >= d - 1 /\ d - 1 >= d - 1
      BY <3>1
    <3>4. QED
      BY <3>1, <3>2, <3>3
  <2>5. pc # "link"
    BY <1>6
  <2>6. Timed(G)'
    BY <1>3, <2>3, <2>4, <2>5
  <2>7. QED
    BY <2>6
<1>7. QED
  BY <1>4, <1>5, <1>6, TickEffective

\* The tick, between any two steps of the call.
LEMMA SysTickInv ==
  ASSUME IInv, SysTick PROVE IInv'
<1>1. PICK D \in [Timers -> Nat] : Timed(D)
  BY DEF IInv
<1>2. /\ pc' = pc /\ op' = op /\ id' = id /\ cur' = cur /\ place' = place
      /\ disposing' = disposing /\ gives' = gives
      /\ TmrIDVessel' = TmrIDVessel /\ tmrType' = tmrType /\ tmrReload' = tmrReload
  BY DEF SysTick, call
<1>3. tmrCnt \in [Timers -> 0 .. Max(Counts)] /\ Max(Counts) \in Nat /\ left \in [Timers -> Nat]
      /\ tmrCnt \in [Timers -> Nat]
  <2>1. tmrCnt \in [Timers -> 0 .. Max(Counts)] /\ Max(Counts) \in Nat /\ left \in [Timers -> Nat]
    BY CountFacts, DisciplineStays DEF IInv, Typed
  <2>2. QED
    BY <2>1
<1>4. /\ TmrList \in Seq(Timers)
      /\ TmrList # <<>> => Head(TmrList) \in Timers /\ Head(TmrList) \in ToSet(TmrList)
  <2>1. TmrList \in Seq(Timers)
    BY ListFacts
  <2>2. TmrList # <<>> => Head(TmrList) = TmrList[1] /\ 1 \in 1 .. Len(TmrList)
    BY <2>1
  <2>3. QED
    BY <2>1, <2>2, ListFacts
<1>5. /\ TmrList' = TmrList /\ tmrState' = tmrState /\ early' = early
      /\ left' = [t \in Timers |-> Counted(left[t])]
      /\ tmrCnt' = IF TmrList = <<>> THEN tmrCnt
                   ELSE [tmrCnt EXCEPT ![Head(TmrList)] = Counted(@)]
  BY <1>3, <1>4, TickFacts
<1>6. \A t \in Timers : /\ left'[t] \in Nat /\ left'[t] <= left[t]
                        /\ t \notin ToSet(TmrList) => tmrCnt'[t] = tmrCnt[t]
  <2>1. \A t \in Timers : Counted(left[t]) \in Nat /\ Counted(left[t]) <= left[t]
    BY <1>3 DEF Counted
  <2>2. QED
    BY <1>3, <1>4, <1>5, <2>1
<1>7. Typed'
  <2>1. left' \in [Timers -> Nat]
    BY <1>5, <1>6
  <2>2. tmrCnt' \in [Timers -> 0 .. Max(Counts)]
    <3>1. ASSUME NEW t \in Timers PROVE Counted(tmrCnt[t]) \in 0 .. Max(Counts)
      <4>1. tmrCnt[t] \in 0 .. Max(Counts)
        BY <1>3
      <4>2. QED
        BY <1>3, <4>1 DEF Counted
    <3>2. QED
      BY <1>3, <1>4, <1>5, <3>1
  <2>3. ticks' \in 0 .. TicksPerLock
    <3>1. TicksPerLock \in Nat /\ ticks \in 0 .. TicksPerLock
      BY DEF IInv, Disciplined, TimerAssumption, Typed
    <3>2. ticks' = 0 \/ (ticks < TicksPerLock /\ ticks' = ticks + 1)
      BY DEF SysTick
    <3>3. QED
      BY <3>1, <3>2
  <2>4. /\ TimerReq' \in BOOLEAN /\ IsrReq' \in BOOLEAN
        /\ lock' \in {"none", "caller", "other", "tick"}
    BY DEF SysTick, IInv, Typed, Expired
  <2>5. QED
    BY <1>2, <1>5, <2>1, <2>2, <2>3, <2>4 DEF IInv, Typed
<1>8. Flow'
  <2>1. lock' = "caller" <=> lock = "caller"
    BY DEF SysTick
  <2>2. QED
    BY <1>2, <2>1 DEF IInv, Flow
<1>9. Members'
  BY <1>2, <1>5 DEF IInv, Members, Running, Detached
<1>10. Waiting'
  <2>1. pc = "insert" => id \in Timers /\ id \notin ToSet(TmrList)
    BY DEF IInv, Typed, Members, Detached
  <2>2. pc = "find" => cur \in Timers /\ cur \notin ToSet(TmrList)
    BY DEF IInv, Typed, Members, Detached
  <2>3. ASSUME NEW t \in Timers, t \notin ToSet(TmrList), left[t] <= tmrCnt[t]
        PROVE  left'[t] <= tmrCnt'[t]
    <3>1. left[t] \in Nat /\ tmrCnt[t] \in Nat
      BY <1>3
    <3>2. QED
      BY <1>6, <2>3, <3>1
  <2>4. pc = "insert" => left'[id] <= tmrCnt'[id] /\ tmrCnt'[id] >= 1
    BY <1>6, <2>1, <2>3 DEF IInv, Waiting
  <2>5. pc = "find" => left'[cur] <= tmrCnt'[cur] /\ tmrCnt'[cur] >= 1
    BY <1>6, <2>2, <2>3 DEF IInv, Waiting
  <2>6. QED
    BY <1>2, <1>5, <2>4, <2>5 DEF IInv, Waiting, Between
<1>11. (\E G \in [Timers -> Nat] : Timed(G))'
  BY <1>1, TickTimed
<1>12. QED
  BY <1>7, <1>8, <1>9, <1>10, <1>11, DisciplineStays DEF IInv
-----------------------------------------------------------------------------
(* The theorems.                                                           *)

\* At the start nothing is linked.
LEMMA InitInv ==
  ASSUME Disciplined, Init PROVE IInv
<1>1. 0 \in Timers /\ Max(Counts) \in Nat /\ TicksPerLock \in Nat
  BY CountFacts DEF Disciplined, TimerAssumption
<1>2. Typed
  BY <1>1 DEF Init, Typed
<1>3. Flow
  <2>1. pc = "idle" /\ lock = "none" /\ ~disposing
    BY Zenon DEF Init
  <2>2. QED
    BY <2>1 DEF Flow, Locking, Inserting
<1>4. ToSet(TmrList) = {}
  BY DEF Init, ToSet
<1>5. Members
  BY <1>4 DEF Init, Members, Running
<1>6. Waiting
  BY DEF Init, Waiting
<1>7. PICK D \in [Timers -> Nat] : D = [t \in Timers |-> 0]
  OBVIOUS
<1>8. Timed(D)
  <2>1. TmrList \in Seq(Timers) /\ Len(TmrList) = 0 /\ pc = "idle"
    BY DEF Init
  <2>2. 1 .. 0 = {}
    OBVIOUS
  <2>3. QED
    BY <2>1, <2>2 DEF Timed, Spaced
<1>9. QED
  BY <1>2, <1>3, <1>5, <1>6, <1>7, <1>8 DEF IInv

\* Every step keeps the invariant.
LEMMA NextInv ==
  ASSUME IInv, Next PROVE IInv'
<1>1. CASE SysTick
  BY <1>1, SysTickInv
<1>2. CASE TmrDispose
  BY <1>2, TmrDisposeInv
<1>3. CASE TmrDisposed
  BY <1>3, TmrDisposedInv
<1>4. CASE OtherLock
  BY <1>4, OtherLockInv
<1>5. CASE OtherUnlock
  BY <1>5, OtherUnlockInv
<1>6. CASE CallStep
  <2>1. CASE Lock("insert", "find") \/ Lock("remove", "unlink")
    BY <2>1, LockInv
  <2>2. CASE RemoveUnlink
    BY <2>2, UnlinkInv
  <2>3. CASE RemoveGive
    BY <2>3, GiveInv
  <2>4. CASE InsertFind
    BY <2>4, FindInv
  <2>5. CASE InsertLink
    BY <2>5, LinkInv
  <2>6. CASE InsertCount
    BY <2>6, CountInv
  <2>7. CASE InsertCorrect
    BY <2>7, CorrectInv
  <2>8. CASE Unlock
    BY <2>8, UnlockInv
  <2>9. CASE DisposeFire
    BY <2>9, DisposeFireInv
  <2>10. CASE DisposeDone
    BY <2>10, DisposeDoneInv
  <2>11. CASE ClearTimerReq \/ ClearIsrReq
    BY <2>11, ClearInv
  <2>12. CASE Open
    BY <2>12, OpenInv
  <2>13. CASE Stopped
    BY <2>13, StoppedInv
  <2>14. CASE Release
    BY <2>14, ReleaseInv
  <2>15. QED
    BY <1>6, <2>1, <2>2, <2>3, <2>4, <2>5, <2>6, <2>7, <2>8, <2>9, <2>10,
       <2>11, <2>12, <2>13, <2>14 DEF CallStep
<1>7. ASSUME NEW type \in {"ONE_SHOT", "PERIODIC"}, NEW n \in Counts, NEW reload \in Counts,
             CoCreateTmr(type, n, reload)
      PROVE  IInv'
  BY <1>7, CreateInv
<1>8. ASSUME NEW t \in Timers, CoStartTmr(t) \/ CoStopTmr(t) \/ CoDelTmr(t)
      PROVE  IInv'
  BY <1>8, StartInv, EndInv
<1>9. ASSUME NEW t \in Timers, NEW n \in Counts, NEW reload \in Counts,
             CoSetTmrCnt(t, n, reload)
      PROVE  IInv'
  BY <1>9, SetInv
<1>10. QED
  BY <1>1, <1>2, <1>3, <1>4, <1>5, <1>6, <1>7, <1>8, <1>9 DEF Next

\* So does a stuttering step.
LEMMA StutterInv ==
  ASSUME IInv, UNCHANGED vars PROVE IInv'
<1> USE DEF vars, timer, call
<1>1. PICK D \in [Timers -> Nat] : Timed(D)
  BY DEF IInv
<1>2. Timed(D)'
  BY <1>1 DEF Timed, Effective, Placed
<1>3. Typed' /\ Flow' /\ Members' /\ Waiting'
  BY DEF IInv, Typed, Flow, Members, Waiting, Running, Detached, Between
<1>4. QED
  BY <1>2, <1>3, DisciplineStays DEF IInv

\* What the invariant says of the list between calls.
LEMMA InvLinked ==
  ASSUME IInv PROVE RunningLinked
<1>1. ToSet(TmrList) \subseteq Timers
  BY ListFacts
<1>2. IsInjective(TmrList)
  <2>1. /\ TmrList \in Seq(Timers)
        /\ \A i, j \in 1 .. Len(TmrList) : TmrList[i] = TmrList[j] => i = j
    BY DEF IInv, Timed, Spaced
  <2>2. QED
    BY <2>1 DEF IsInjective
<1>3. TypeOK
  BY <1>1, <1>2 DEF IInv, Typed, TypeOK
<1>4. ASSUME pc = "idle"
      PROVE  ToSet(TmrList) = {t \in TmrIDVessel : tmrState[t] = "RUNNING"}
  <2>1. \A t \in Timers : ~Detached(t)
    BY <1>4 DEF Detached, Locking
  <2>2. \A t \in Timers : t \in ToSet(TmrList) <=> Running(t)
    BY <2>1 DEF IInv, Members
  <2>3. TmrIDVessel \subseteq Timers
    BY DEF IInv, Typed
  <2>4. QED
    BY <1>1, <2>2, <2>3 DEF Running
<1>5. QED
  BY <1>3, <1>4 DEF RunningLinked

\* The invariant holds throughout, whatever the tick interrupts.
THEOREM TimersInvariant ==
  Disciplined => (Spec => []IInv)
<1> SUFFICES ASSUME Disciplined PROVE Spec => []IInv
  OBVIOUS
<1>1. Init => IInv
  BY InitInv
<1>2. IInv /\ [Next]_vars => IInv'
  BY NextInv, StutterInv
<1>3. QED
  BY <1>1, <1>2, PTL DEF Spec

\* Between calls the list that InsertTmrList and RemoveTmrList keep holds
\* exactly the running timers, and no counter falls below zero, although the
\* tick counts down the head between their writes.
THEOREM TimersLinked ==
  Disciplined => (Spec => []RunningLinked)
<1>1. IInv => RunningLinked
  BY InvLinked
<1>2. QED
  BY <1>1, TimersInvariant, PTL

\* TmrDispose never fires a timer before its time, whatever is linked or
\* unlinked around it.
THEOREM TimersNeverEarly ==
  Disciplined => (Spec => []NeverEarly)
<1>1. IInv => NeverEarly
  BY DEF IInv, Typed, NeverEarly
<1>2. QED
  BY <1>1, TimersInvariant, PTL
=============================================================================
