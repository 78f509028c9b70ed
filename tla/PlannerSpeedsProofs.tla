------------------------ MODULE PlannerSpeedsProofs ------------------------
(***************************************************************************)
(* For every ring size and any lines: the incremental passes of the        *)
(* planner compute the fastest plan, adjacent trapezoids meet, and no line *)
(* is entered or left above its feed rate.                                 *)
(***************************************************************************)
EXTENDS PlannerSpeeds, SequenceTheorems, DataFacts

\* A line keeps to its own limits, and to the feed rate of a line before it.
LineOK(b) ==
  /\ b.move =>
       /\ b.entry <= b.max_entry /\ b.max_entry <= b.nominal
       /\ Minimum <= b.max_entry
       /\ b.nominal_length <=> b.nominal <= Minimum + b.reach
  /\ ~b.move => b.reach = WaitReach

Lines(p) ==
  /\ \A i \in 1 .. Len(p) : LineOK(p[i])
  /\ \A i \in 1 .. Len(p) - 1 :
       p[i].move /\ p[i + 1].move => p[i + 1].max_entry <= p[i].nominal

\* The feed rate the next line is compared with.
Memory(p, v) ==
  /\ v \in Nominals \cup {0}
  /\ p # <<>> /\ p[Len(p)].move => v \in {0, p[Len(p)].nominal}

\* What joins trapezoids: the flag tells which junctions have changed, and
\* the speed of the oldest block never does.
Before(p, l, i) == IF i = 1 THEN l ELSE p[i - 1]

Joined(p, l, at) ==
  /\ \A i \in 1 .. Len(p) : p[i].move /\ Before(p, l, i).move =>
       /\ i = 1 \/ ~p[i].recalculate => p[i].entry = Before(p, l, i).final
       /\ ~p[i].recalculate => p[i].entry = p[i].initial
  /\ at = "idle" =>
       /\ \A i \in 1 .. Len(p) : ~p[i].recalculate
       /\ p # <<>> => p[Len(p)].final = Minimum
  /\ p = <<>> => at = "idle" /\ (l.move => l.final = Minimum)

\* Lines i to the newest, with no wait between or after them.
Run(p, i) == \A k \in i .. Len(p) : p[k].move

\* The entry speed of the block after i; standstill after block n.
After(p, n, i) == IF i = n THEN Minimum ELSE p[i + 1].entry

\* Blocks up to n can be entered from and left to their neighbours.
Feasible(p, n) ==
  \A i \in 1 .. n : Run(p, i) =>
    /\ Minimum <= p[i].entry
    /\ p[i].entry <= After(p, n, i) + p[i].reach
    /\ i < n => p[i + 1].entry <= p[i].entry + p[i].reach

\* Block i can slow down to what follows ...
Slows(p, i) ==
  Minimum <= p[i].entry /\ p[i].entry <= After(p, Len(p), i) + p[i].reach

\* ... and is limited by its junction or by what follows.
Checked(p, i) ==
  p[i].entry = p[i].max_entry \/ p[i].entry = After(p, Len(p), i) + p[i].reach

\* From block i to the limit of block j the plan slows down all the way.
Braking(p, i, j) ==
  /\ \A k \in i .. j - 1 : p[k].entry = p[k + 1].entry + p[k].reach
  /\ \/ p[j].entry = p[j].max_entry
     \/ j = Len(p) /\ p[j].entry = Minimum + p[j].reach

\* No block can be entered faster.
Attained(p) ==
  \A i \in 2 .. Len(p) : Run(p, i - 1) =>
    \/ p[i].entry = p[i - 1].entry + p[i - 1].reach
    \/ \E j \in i .. Len(p) : Braking(p, i, j)

\* The plan between the passes.
Fast(p, at) ==
  CASE at = "reverse" ->
         Feasible(p, Len(p) - 1) /\ (p[Len(p)].move => Slows(p, Len(p)) /\ Checked(p, Len(p)))
    [] at = "forward" ->
         \A i \in 1 .. Len(p) : Run(p, i) => Slows(p, i) /\ (i > 1 => Checked(p, i))
    [] OTHER -> Feasible(p, Len(p)) /\ Attained(p)

IInv ==
  /\ TypeOK /\ Lines(plan) /\ Memory(plan, previous_nominal_speed)
  /\ ~raced => Joined(plan, last, pc) /\ Fast(plan, pc)

-----------------------------------------------------------------------------
(* The passes.                                                             *)

LEMMA Constants ==
  /\ BLOCK_BUFFER_SIZE \in Nat /\ BLOCK_BUFFER_SIZE >= 2
  /\ Minimum \in Nat /\ WaitNominal \in Nat /\ WaitReach \in Nat
  /\ Nominals \subseteq Nat /\ Reaches \subseteq Nat /\ Corners \subseteq Nat
  /\ Minimum <= WaitReach
  /\ \A v \in Nominals : Minimum <= v
  /\ \A v \in Corners : Minimum <= v
BY SizeAssumption, SpeedAssumption

LEMMA BlockFacts ==
  ASSUME NEW b \in Blocks
  PROVE  /\ b.move \in BOOLEAN /\ b.nominal \in Nat /\ b.reach \in Nat
         /\ b.max_entry \in Nat /\ b.entry \in Nat /\ b.nominal_length \in BOOLEAN
         /\ b.recalculate \in BOOLEAN /\ b.initial \in Nat /\ b.final \in Nat
BY DEF Blocks

\* A pass changes entry speeds only, flags what it changes and keeps to the
\* limit of the junction.
Touched(b, r) ==
  /\ r \in Blocks
  /\ r.move = b.move /\ r.nominal = b.nominal /\ r.reach = b.reach
  /\ r.max_entry = b.max_entry /\ r.nominal_length = b.nominal_length
  /\ r.initial = b.initial /\ r.final = b.final
  /\ ~r.recalculate => r.entry = b.entry /\ ~b.recalculate
  /\ b.entry <= b.max_entry => r.entry <= r.max_entry

LEMMA Untouched ==
  ASSUME NEW b \in Blocks PROVE Touched(b, b)
BY BlockFacts DEF Touched

LEMMA Rewritten ==
  ASSUME NEW b \in Blocks, NEW v \in Nat, v <= b.max_entry \/ v <= b.entry
  PROVE  /\ Touched(b, [b EXCEPT !.entry = v, !.recalculate = TRUE])
         /\ [b EXCEPT !.entry = v, !.recalculate = TRUE].entry = v
<1> DEFINE r == [b EXCEPT !.entry = v, !.recalculate = TRUE]
<1>1. /\ r \in Blocks /\ r.move = b.move /\ r.nominal = b.nominal
      /\ r.reach = b.reach /\ r.max_entry = b.max_entry
      /\ r.nominal_length = b.nominal_length /\ r.initial = b.initial
      /\ r.final = b.final /\ r.recalculate = TRUE /\ r.entry = v
  BY DEF Blocks
<1>2. b.entry \in Nat /\ b.max_entry \in Nat
  BY BlockFacts
<1> HIDE DEF r
<1>3. Touched(b, r)
  BY <1>1, <1>2 DEF Touched
<1>4. QED
  BY <1>1, <1>3 DEF r

\* The kernels: entry speeds, with what they are limited by.
ReverseEntry(b, next) ==
  IF b.entry = b.max_entry THEN b.entry
  ELSE IF ~b.nominal_length /\ b.max_entry > next.entry
  THEN Smaller(b.max_entry, next.entry + b.reach)
  ELSE b.max_entry

ForwardEntry(previous, b) ==
  IF ~previous.nominal_length /\ previous.entry + previous.reach < b.entry
  THEN previous.entry + previous.reach ELSE b.entry

LEMMA ReverseKernel ==
  ASSUME NEW b \in Blocks, NEW next \in Blocks
  PROVE  LET r == planner_reverse_pass_kernel(b, next)
         IN  Touched(b, r) /\ r.entry = ReverseEntry(b, next) /\ r \in Blocks
<1> DEFINE v == IF ~b.nominal_length /\ b.max_entry > next.entry
                THEN Smaller(b.max_entry, next.entry + b.reach)
                ELSE b.max_entry
           r == planner_reverse_pass_kernel(b, next)
<1>1. CASE b.entry = b.max_entry
  <2>1. r = b
    BY <1>1 DEF planner_reverse_pass_kernel
  <2>2. QED
    BY <1>1, <2>1, Untouched DEF ReverseEntry
<1>2. CASE b.entry # b.max_entry
  <2>1. r = [b EXCEPT !.entry = v, !.recalculate = TRUE]
    BY <1>2 DEF planner_reverse_pass_kernel, max_allowable_speed
  <2>2. v \in Nat /\ v <= b.max_entry
    BY BlockFacts DEF Smaller
  <2>3. ReverseEntry(b, next) = v
    BY <1>2 DEF ReverseEntry
  <2> HIDE DEF v, r
  <2>4. Touched(b, r) /\ r.entry = v
    BY <2>1, <2>2, Rewritten
  <2>5. QED
    BY <2>3, <2>4 DEF Touched, r
<1>3. QED
  BY <1>1, <1>2

LEMMA ForwardKernel ==
  ASSUME NEW b \in Blocks, NEW previous \in Blocks
  PROVE  LET r == planner_forward_pass_kernel(previous, b)
         IN  Touched(b, r) /\ r.entry = ForwardEntry(previous, b) /\ r \in Blocks
<1> DEFINE v == previous.entry + previous.reach
           r == planner_forward_pass_kernel(previous, b)
<1>1. CASE ~previous.nominal_length /\ v < b.entry
  <2>1. r = [b EXCEPT !.entry = v, !.recalculate = TRUE]
    BY <1>1 DEF planner_forward_pass_kernel, max_allowable_speed
  <2>2. v \in Nat /\ v <= b.entry
    BY <1>1, BlockFacts
  <2>3. ForwardEntry(previous, b) = v
    BY <1>1 DEF ForwardEntry
  <2> HIDE DEF v, r
  <2>4. Touched(b, r) /\ r.entry = v
    BY <2>1, <2>2, Rewritten
  <2>5. QED
    BY <2>3, <2>4 DEF Touched, r
<1>2. CASE ~(~previous.nominal_length /\ v < b.entry)
  <2>1. r = b
    BY <1>2 DEF planner_forward_pass_kernel, max_allowable_speed
  <2>2. QED
    BY <1>2, <2>1, Untouched DEF ForwardEntry
<1>3. QED
  BY <1>1, <1>2

\* A pass upwards: each value is made from the one below.
Climbs(f, p, n, step) ==
  \A i \in 1 .. n : f[i] = IF i = 1 THEN p[1] ELSE step[<<f[i - 1], i>>]

LEMMA ClimbDefined ==
  ASSUME NEW n \in Nat, NEW S, NEW p \in [1 .. n -> S],
         NEW step \in [S \X (1 .. n) -> S]
  PROVE  \E f \in [1 .. n -> S] : Climbs(f, p, n, step)
<1>1. CASE n = 0
  <2>1. p \in [1 .. n -> S] /\ Climbs(p, p, n, step)
    BY <1>1 DEF Climbs
  <2>2. QED
    BY <2>1
<1>2. CASE n # 0
  <2> DEFINE up == [x \in S \X (1 .. n) |-> IF x[2] = 1 THEN p[1] ELSE step[x]]
  <2>1. 1 \in 1 .. n /\ p[1] \in S
    BY <1>2
  <2>2. up \in [S \X (1 .. n) -> S]
    BY <2>1
  <2> HIDE DEF up
  <2>3. PICK g \in [0 .. n -> S] : FoldsTo(g, n, p[1], up)
    BY <2>1, <2>2, FoldDefined
  <2> DEFINE f == [i \in 1 .. n |-> g[i]]
  <2>4. f \in [1 .. n -> S]
    OBVIOUS
  <2>5. ASSUME NEW i \in 1 .. n
        PROVE  f[i] = IF i = 1 THEN p[1] ELSE step[<<f[i - 1], i>>]
    <3>1. g[i] = up[<<g[i - 1], i>>] /\ i - 1 \in 0 .. n /\ g[i - 1] \in S
      BY <2>3 DEF FoldsTo
    <3>2. <<g[i - 1], i>> \in S \X (1 .. n)
      BY <3>1
    <3>3. g[i] = IF i = 1 THEN p[1] ELSE step[<<g[i - 1], i>>]
      BY <3>1, <3>2 DEF up
    <3>4. i # 1 => f[i - 1] = g[i - 1]
      OBVIOUS
    <3>5. QED
      BY <3>3, <3>4
  <2>6. Climbs(f, p, n, step)
    BY <2>5 DEF Climbs
  <2> HIDE DEF f
  <2>7. QED
    BY <2>4, <2>6
<1>3. QED
  BY <1>1, <1>2

\* A pass downwards that leaves both ends alone.
Descends(f, p, n, step) ==
  \A i \in 1 .. n : f[i] = IF i \in {1, n} THEN p[i] ELSE step[<<f[i + 1], i>>]

LEMMA DescentDefined ==
  ASSUME NEW n \in Nat, NEW S, NEW p \in [1 .. n -> S],
         NEW step \in [S \X (1 .. n) -> S]
  PROVE  \E f \in [1 .. n -> S] : Descends(f, p, n, step)
<1>1. CASE n = 0
  <2>1. p \in [1 .. n -> S] /\ Descends(p, p, n, step)
    BY <1>1 DEF Descends
  <2>2. QED
    BY <2>1
<1>2. CASE n # 0
  <2> DEFINE back == [k \in 1 .. n |-> n + 1 - k]
             down == [x \in S \X (1 .. n) |->
                        IF back[x[2]] \in {1, n} THEN p[back[x[2]]]
                        ELSE step[<<x[1], back[x[2]]>>]]
  <2>1. n \in 1 .. n /\ p[n] \in S
    BY <1>2
  <2>2. back \in [1 .. n -> 1 .. n]
    OBVIOUS
  <2>3. down \in [S \X (1 .. n) -> S]
    <3> HIDE DEF back
    <3>1. QED
      BY <2>2
  <2>4. \A i \in 1 .. n : back[i] \in 1 .. n /\ back[back[i]] = i
    OBVIOUS
  <2>5. \A i \in 1 .. n : i # n => back[i + 1] = back[i] - 1
    OBVIOUS
  <2> HIDE DEF down
  <2>6. PICK g \in [0 .. n -> S] : FoldsTo(g, n, p[n], down)
    BY <2>1, <2>3, FoldDefined
  <2> DEFINE f == [i \in 1 .. n |-> g[back[i]]]
  <2>7. f \in [1 .. n -> S]
    OBVIOUS
  <2>8. ASSUME NEW i \in 1 .. n
        PROVE  f[i] = IF i \in {1, n} THEN p[i] ELSE step[<<f[i + 1], i>>]
    <3> DEFINE k == back[i]
               x == g[k - 1]
    <3>1. k \in 1 .. n /\ k - 1 \in 0 .. n /\ back[k] = i
      BY <2>4
    <3> HIDE DEF k, back
    <3>2. x \in S /\ g[k] = down[<<x, k>>]
      BY <2>6, <3>1 DEF FoldsTo
    <3> HIDE DEF x
    <3>3. <<x, k>> \in S \X (1 .. n)
      BY <3>1, <3>2
    <3>4. g[k] = IF i \in {1, n} THEN p[i] ELSE step[<<x, i>>]
      BY <3>1, <3>2, <3>3 DEF down
    <3>5. f[i] = g[k]
      BY DEF k
    <3>6. i # n => f[i + 1] = x
      BY <2>5 DEF k, x
    <3>7. QED
      BY <3>4, <3>5, <3>6
  <2>9. Descends(f, p, n, step)
    BY <2>8 DEF Descends
  <2> HIDE DEF f
  <2>10. QED
    BY <2>7, <2>9
<1>3. QED
  BY <1>1, <1>2

\* What a whole pass does to the blocks.
Pass(p, r) ==
  /\ r \in Seq(Blocks) /\ Len(r) = Len(p)
  /\ \A i \in 1 .. Len(p) : Touched(p[i], r[i])
  /\ 1 <= Len(p) => r[1] = p[1]

LEMMA ReversedIs ==
  ASSUME NEW p \in Seq(Blocks)
  PROVE  /\ Pass(p, Reversed(p))
         /\ \A i \in 1 .. Len(p) :
              Reversed(p)[i].entry =
                IF i \in {1, Len(p)} THEN p[i].entry
                ELSE ReverseEntry(p[i], Reversed(p)[i + 1])
<1> DEFINE n == Len(p)
           step == [x \in Blocks \X (1 .. n) |->
                      planner_reverse_pass_kernel(p[x[2]], x[1])]
           Def(f) == [i \in 1 .. n |->
                        IF i \in {1, n} THEN p[i]
                        ELSE planner_reverse_pass_kernel(p[i], f[i + 1])]
           pass == CHOOSE f : f = Def(f)
           r == Reversed(p)
<1>1. n \in Nat /\ p \in [1 .. n -> Blocks] /\ \A i \in 1 .. n : p[i] \in Blocks
  OBVIOUS
<1>0. \A i \in 1 .. n : /\ i # 1 /\ i # n => i + 1 \in 1 .. n
                        /\ i \in {1, n} <=> i = 1 \/ i = n
  <2> HIDE DEF n
  <2>1. QED
    BY <1>1
<1>2. step \in [Blocks \X (1 .. n) -> Blocks]
  <2>1. \A x \in Blocks \X (1 .. n) : planner_reverse_pass_kernel(p[x[2]], x[1]) \in Blocks
    BY <1>1, ReverseKernel
  <2>2. QED
    BY <2>1
<1>3. PICK f \in [1 .. n -> Blocks] : Descends(f, p, n, step)
  <2> HIDE DEF step, n
  <2>1. QED
    BY <1>1, <1>2, DescentDefined
<1>4. f = Def(f)
  <2>1. ASSUME NEW i \in 1 .. n
        PROVE  f[i] = IF i \in {1, n} THEN p[i]
                      ELSE planner_reverse_pass_kernel(p[i], f[i + 1])
    <3>1. CASE i = 1 \/ i = n
      BY <1>3, <3>1 DEF Descends
    <3>2. CASE i # 1 /\ i # n
      <4>1. f[i] = step[<<f[i + 1], i>>]
        BY <1>3, <3>2 DEF Descends
      <4>2. i + 1 \in 1 .. n
        BY <1>0, <3>2
      <4>3. f[i + 1] \in Blocks
        BY <4>2
      <4>4. QED
        BY <3>2, <4>1, <4>3
    <3>3. QED
      BY <3>1, <3>2
  <2>2. QED
    BY <2>1
<1>5. pass = Def(pass)
  <2> HIDE DEF Def
  <2>1. QED
    BY <1>4
<1>6. r = [i \in 1 .. n |-> pass[i]]
  BY DEF Reversed
<1>7. \A i \in 1 .. n : r[i] = IF i \in {1, n} THEN p[i]
                               ELSE planner_reverse_pass_kernel(p[i], r[i + 1])
  <2>1. \A i \in 1 .. n : pass[i] = IF i \in {1, n} THEN p[i]
                               ELSE planner_reverse_pass_kernel(p[i], pass[i + 1])
    BY <1>5
  <2> HIDE DEF pass
  <2>2. QED
    BY <1>0, <1>6, <2>1
<1> HIDE DEF pass, r, step
<1>8. \A i \in 1 .. n : r[i] \in Blocks
  <2> DEFINE T == {i \in 1 .. n : r[i] \in Blocks}
  <2>1. ASSUME 1 <= n PROVE n \in T
    <3>1. n \in 1 .. n
      BY <1>1, <2>1
    <3>2. QED
      BY <1>1, <1>7, <3>1
  <2>2. ASSUME NEW i \in 1 .. n, i # n, i + 1 \in T PROVE i \in T
    <3>1. CASE i = 1
      BY <1>1, <1>7, <3>1
    <3>2. CASE i # 1
      <4>1. r[i] = planner_reverse_pass_kernel(p[i], r[i + 1])
        BY <1>7, <2>2, <3>2
      <4>2. p[i] \in Blocks /\ r[i + 1] \in Blocks
        BY <1>1, <2>2
      <4>3. planner_reverse_pass_kernel(p[i], r[i + 1]) \in Blocks
        <5> HIDE DEF n, T
        <5>1. QED
          BY <4>2, ReverseKernel
      <4>4. QED
        BY <4>1, <4>3
    <3>3. QED
      BY <3>1, <3>2
  <2>3. 1 .. n \subseteq T
    <3> HIDE DEF T, n
    <3>1. QED
      BY <1>1, <2>1, <2>2, DownInduction
  <2>4. QED
    BY <2>3
<1>9. r \in Seq(Blocks) /\ Len(r) = n
  BY <1>1, <1>6, <1>8
<1>10. ASSUME NEW i \in 1 .. n
       PROVE  /\ Touched(p[i], r[i])
              /\ r[i].entry = IF i \in {1, n} THEN p[i].entry
                              ELSE ReverseEntry(p[i], r[i + 1])
  <2>1. CASE i = 1 \/ i = n
    BY <1>1, <1>7, <2>1, Untouched
  <2>2. CASE i # 1 /\ i # n
    <3>1. r[i + 1] \in Blocks /\ r[i] = planner_reverse_pass_kernel(p[i], r[i + 1])
      <4>1. i + 1 \in 1 .. n
        BY <1>0, <2>2
      <4>2. QED
        BY <1>7, <1>8, <2>2, <4>1
    <3>2. p[i] \in Blocks
      BY <1>1
    <3>3. /\ Touched(p[i], planner_reverse_pass_kernel(p[i], r[i + 1]))
          /\ planner_reverse_pass_kernel(p[i], r[i + 1]).entry
               = ReverseEntry(p[i], r[i + 1])
      <4> HIDE DEF n
      <4>1. QED
        BY <3>1, <3>2, ReverseKernel
    <3>4. QED
      BY <2>2, <3>1, <3>3
  <2>3. QED
    BY <2>1, <2>2
<1>11. 1 <= n => r[1] = p[1]
  <2>1. 1 <= n => 1 \in 1 .. n
    BY <1>1
  <2>2. QED
    BY <1>7, <2>1
<1>12. QED
  BY <1>9, <1>10, <1>11 DEF Pass, r

LEMMA ForwardedIs ==
  ASSUME NEW p \in Seq(Blocks)
  PROVE  /\ Pass(p, Forwarded(p))
         /\ \A i \in 1 .. Len(p) :
              Forwarded(p)[i].entry =
                IF i = 1 THEN p[1].entry
                ELSE ForwardEntry(Forwarded(p)[i - 1], p[i])
<1> DEFINE n == Len(p)
           step == [x \in Blocks \X (1 .. n) |->
                      planner_forward_pass_kernel(x[1], p[x[2]])]
           Def(f) == [i \in 1 .. n |->
                        IF i = 1 THEN p[1]
                        ELSE planner_forward_pass_kernel(f[i - 1], p[i])]
           pass == CHOOSE f : f = Def(f)
           r == Forwarded(p)
<1>1. n \in Nat /\ p \in [1 .. n -> Blocks] /\ \A i \in 1 .. n : p[i] \in Blocks
  OBVIOUS
<1>2. step \in [Blocks \X (1 .. n) -> Blocks]
  <2>1. \A x \in Blocks \X (1 .. n) : planner_forward_pass_kernel(x[1], p[x[2]]) \in Blocks
    BY <1>1, ForwardKernel
  <2>2. QED
    BY <2>1
<1>3. PICK f \in [1 .. n -> Blocks] : Climbs(f, p, n, step)
  <2> HIDE DEF step, n
  <2>1. QED
    BY <1>1, <1>2, ClimbDefined
<1>4. f = Def(f)
  <2>1. ASSUME NEW i \in 1 .. n
        PROVE  f[i] = IF i = 1 THEN p[1]
                      ELSE planner_forward_pass_kernel(f[i - 1], p[i])
    <3>1. CASE i = 1
      BY <1>3, <3>1 DEF Climbs
    <3>2. CASE i # 1
      <4>1. f[i] = step[<<f[i - 1], i>>]
        BY <1>3, <3>2 DEF Climbs
      <4>2. i - 1 \in 1 .. n
        BY <1>1, <3>2
      <4>3. f[i - 1] \in Blocks
        BY <4>2
      <4>4. QED
        BY <3>2, <4>1, <4>3
    <3>3. QED
      BY <3>1, <3>2
  <2>2. QED
    BY <2>1
<1>5. pass = Def(pass)
  <2> HIDE DEF Def
  <2>1. QED
    BY <1>4
<1>6. r = [i \in 1 .. n |-> pass[i]]
  BY DEF Forwarded
<1>7. \A i \in 1 .. n : r[i] = IF i = 1 THEN p[1]
                               ELSE planner_forward_pass_kernel(r[i - 1], p[i])
  <2>1. \A i \in 1 .. n : pass[i] = IF i = 1 THEN p[1]
                               ELSE planner_forward_pass_kernel(pass[i - 1], p[i])
    BY <1>5
  <2> HIDE DEF pass
  <2>2. \A i \in 1 .. n : i # 1 => i - 1 \in 1 .. n
    BY <1>1
  <2>3. QED
    BY <1>6, <2>1, <2>2
<1> HIDE DEF pass, r, step
<1>8. \A i \in 1 .. n : r[i] \in Blocks
  <2> DEFINE T == {k \in 0 .. n : k >= 1 => r[k] \in Blocks}
  <2>1. 0 \in T
    OBVIOUS
  <2>2. ASSUME NEW k \in 0 .. n - 1, k \in T PROVE k + 1 \in T
    <3>1. PICK i \in 1 .. n : i = k + 1
      BY <1>1
    <3>2. r[i] \in Blocks
      <4>1. CASE i = 1
        BY <1>1, <1>7, <4>1
      <4>2. CASE i # 1
        <5>1. k >= 1 /\ i - 1 = k
          BY <1>1, <3>1, <4>2
        <5>2. r[i - 1] \in Blocks
          BY <2>2, <5>1
        <5>3. r[i] = planner_forward_pass_kernel(r[i - 1], p[i])
          BY <1>7, <4>2
        <5>4. QED
          BY <1>1, <5>2, <5>3, ForwardKernel
      <4>3. QED
        BY <4>1, <4>2
    <3>3. QED
      BY <1>1, <3>1, <3>2
  <2>3. 0 .. n \subseteq T
    <3> HIDE DEF T, n
    <3>1. QED
      BY <1>1, <2>1, <2>2, IntervalInduction
  <2>4. QED
    BY <2>3
<1>9. r \in Seq(Blocks) /\ Len(r) = n
  BY <1>1, <1>6, <1>8
<1>10. ASSUME NEW i \in 1 .. n
       PROVE  /\ Touched(p[i], r[i])
              /\ r[i].entry = IF i = 1 THEN p[1].entry
                              ELSE ForwardEntry(r[i - 1], p[i])
  <2>1. CASE i = 1
    BY <1>1, <1>7, <2>1, Untouched
  <2>2. CASE i # 1
    <3>1. r[i - 1] \in Blocks /\ r[i] = planner_forward_pass_kernel(r[i - 1], p[i])
      <4>1. i - 1 \in 1 .. n
        BY <1>1, <2>2
      <4>2. QED
        BY <1>7, <1>8, <2>2, <4>1
    <3>2. QED
      BY <1>1, <2>2, <3>1, ForwardKernel
  <2>3. QED
    BY <2>1, <2>2
<1>11. 1 <= n => r[1] = p[1]
  <2>1. 1 <= n => 1 \in 1 .. n
    BY <1>1
  <2>2. QED
    BY <1>7, <2>1
<1>12. QED
  BY <1>9, <1>10, <1>11 DEF Pass, r

-----------------------------------------------------------------------------
(* What a pass keeps.                                                      *)

LEMMA PassKeeps ==
  ASSUME NEW p \in Seq(Blocks), NEW r, Pass(p, r)
  PROVE  /\ Lines(p) => Lines(r)
         /\ \A v : Memory(p, v) => Memory(r, v)
         /\ \A i \in 1 .. Len(p) : Run(r, i) <=> Run(p, i)
<1>1. /\ r \in Seq(Blocks) /\ Len(r) = Len(p) /\ Len(p) \in Nat
      /\ \A i \in 1 .. Len(p) : Touched(p[i], r[i])
  BY DEF Pass
<1>2. Lines(p) => Lines(r)
  <2> SUFFICES ASSUME Lines(p) PROVE Lines(r)
    OBVIOUS
  <2>1. ASSUME NEW i \in 1 .. Len(r) PROVE LineOK(r[i])
    BY <1>1, <2>1 DEF Lines, LineOK, Touched
  <2>2. ASSUME NEW i \in 1 .. Len(r) - 1, r[i].move, r[i + 1].move
        PROVE  r[i + 1].max_entry <= r[i].nominal
    <3>1. i \in 1 .. Len(p) /\ i + 1 \in 1 .. Len(p) /\ i \in 1 .. Len(p) - 1
      BY <1>1, <2>2
    <3>2. /\ r[i].move = p[i].move /\ r[i + 1].move = p[i + 1].move
          /\ r[i + 1].max_entry = p[i + 1].max_entry /\ r[i].nominal = p[i].nominal
      BY <1>1, <3>1 DEF Touched
    <3>3. QED
      BY <2>2, <3>1, <3>2 DEF Lines
  <2>3. QED
    BY <2>1, <2>2 DEF Lines
<1>3. ASSUME NEW v, Memory(p, v) PROVE Memory(r, v)
  <2>1. CASE r = <<>>
    BY <1>3, <2>1 DEF Memory
  <2>2. CASE r # <<>>
    <3>1. Len(p) \in 1 .. Len(p) /\ p # <<>>
      BY <1>1, <2>2, EmptySeq
    <3>2. r[Len(p)].move = p[Len(p)].move /\ r[Len(p)].nominal = p[Len(p)].nominal
      BY <1>1, <3>1 DEF Touched
    <3>3. QED
      BY <1>1, <1>3, <3>1, <3>2 DEF Memory
  <2>3. QED
    BY <2>1, <2>2
<1>4. ASSUME NEW i \in 1 .. Len(p) PROVE Run(r, i) <=> Run(p, i)
  <2>1. \A k \in i .. Len(p) : r[k].move = p[k].move
    BY <1>1 DEF Touched
  <2>2. QED
    BY <1>1, <2>1 DEF Run
<1>5. QED
  BY <1>2, <1>3, <1>4

\* Neither pass disturbs a junction without flagging it.
LEMMA PassJoined ==
  ASSUME NEW p \in Seq(Blocks), NEW r, Pass(p, r), NEW l, NEW at, NEW to,
         Joined(p, l, at), at # "idle", to # "idle"
  PROVE  Joined(r, l, to)
<1>1. /\ r \in Seq(Blocks) /\ Len(r) = Len(p) /\ Len(p) \in Nat
      /\ \A i \in 1 .. Len(p) : Touched(p[i], r[i])
      /\ 1 <= Len(p) => r[1] = p[1]
  BY DEF Pass
<1>2. p # <<>> /\ r # <<>>
  BY <1>1, EmptySeq DEF Joined
<1>3. ASSUME NEW i \in 1 .. Len(r), r[i].move, Before(r, l, i).move
      PROVE  /\ i = 1 \/ ~r[i].recalculate => r[i].entry = Before(r, l, i).final
             /\ ~r[i].recalculate => r[i].entry = r[i].initial
  <2>1. i \in 1 .. Len(p) /\ Touched(p[i], r[i])
    BY <1>1, <1>3
  <2>2. CASE i = 1
    <3>1. r[i] = p[i] /\ Before(r, l, i) = l /\ Before(p, l, i) = l
      BY <1>1, <2>2 DEF Before
    <3>2. QED
      BY <1>3, <2>1, <2>2, <3>1 DEF Joined
  <2>3. CASE i # 1
    <3>1. i - 1 \in 1 .. Len(p)
      BY <1>1, <2>1, <2>3
    <3>2. /\ Before(r, l, i) = r[i - 1] /\ Before(p, l, i) = p[i - 1]
          /\ Touched(p[i - 1], r[i - 1])
      BY <1>1, <2>3, <3>1 DEF Before
    <3>3. /\ Before(p, l, i).move /\ p[i].move
          /\ Before(r, l, i).final = Before(p, l, i).final
          /\ r[i].initial = p[i].initial
          /\ ~r[i].recalculate => r[i].entry = p[i].entry /\ ~p[i].recalculate
      BY <1>3, <2>1, <3>2 DEF Touched
    <3>4. QED
      BY <2>1, <2>3, <3>3 DEF Joined
  <2>4. QED
    BY <2>2, <2>3
<1>4. QED
  BY <1>2, <1>3 DEF Joined

-----------------------------------------------------------------------------
(* The passes compute the fastest plan.                                    *)

LEMMA RunNext ==
  ASSUME NEW p \in Seq(Blocks), NEW i \in 1 .. Len(p), Run(p, i)
  PROVE  p[i].move /\ (i # Len(p) => i + 1 \in 1 .. Len(p) /\ Run(p, i + 1))
<1>1. Len(p) \in Nat
  OBVIOUS
<1>2. i \in i .. Len(p) /\ \A k \in i + 1 .. Len(p) : k \in i .. Len(p)
  BY <1>1
<1>3. QED
  BY <1>1, <1>2 DEF Run

\* One step of the reverse pass: a block that is skipped needs no change, and
\* no speed falls.
LEMMA ReverseBlock ==
  ASSUME NEW b \in Blocks, NEW x \in Blocks, LineOK(b), b.move,
         Minimum <= x.entry, Minimum <= b.entry, b.entry <= x.entry + b.reach
  PROVE  LET e == ReverseEntry(b, x)
         IN  /\ e \in Nat /\ Minimum <= e /\ e <= x.entry + b.reach /\ b.entry <= e
             /\ e = b.max_entry \/ e = x.entry + b.reach
<1>1. /\ b.entry \in Nat /\ b.max_entry \in Nat /\ b.reach \in Nat
      /\ b.nominal \in Nat /\ x.entry \in Nat /\ Minimum \in Nat
      /\ b.entry <= b.max_entry /\ b.max_entry <= b.nominal /\ Minimum <= b.max_entry
      /\ b.nominal_length => b.nominal <= Minimum + b.reach
  BY BlockFacts, Constants DEF LineOK
<1>2. CASE b.entry = b.max_entry
  BY <1>1, <1>2 DEF ReverseEntry
<1>3. CASE b.entry # b.max_entry
  <2>1. CASE ~b.nominal_length /\ b.max_entry > x.entry
    BY <1>1, <1>3, <2>1 DEF ReverseEntry, Smaller
  <2>2. CASE ~(~b.nominal_length /\ b.max_entry > x.entry)
    <3>1. ReverseEntry(b, x) = b.max_entry
      BY <1>3, <2>2 DEF ReverseEntry
    <3>2. b.max_entry <= x.entry + b.reach
      BY <1>1, <2>2
    <3>3. QED
      BY <1>1, <3>1, <3>2
  <2>3. QED
    BY <2>1, <2>2
<1>4. QED
  BY <1>2, <1>3

LEMMA ReverseFast ==
  ASSUME NEW p \in Seq(Blocks), p # <<>>, Lines(p), Fast(p, "reverse")
  PROVE  Fast(Reversed(p), "forward")
<1> DEFINE n == Len(p)
           r == Reversed(p)
           Done(i) == Run(p, i) => /\ Slows(r, i) /\ (i > 1 => Checked(r, i))
                                   /\ p[i].entry <= r[i].entry
<1>1. /\ n \in Nat /\ n >= 1 /\ \A i \in 1 .. n : p[i] \in Blocks /\ LineOK(p[i])
  BY EmptySeq DEF Lines
<1>2. /\ Pass(p, r)
      /\ \A i \in 1 .. n : r[i].entry = IF i \in {1, n} THEN p[i].entry
                                        ELSE ReverseEntry(p[i], r[i + 1])
  BY ReversedIs
<1> HIDE DEF r
<1>3. /\ r \in Seq(Blocks) /\ Len(r) = n /\ \A i \in 1 .. n : Touched(p[i], r[i])
      /\ \A i \in 1 .. n : r[i] \in Blocks
      /\ \A i \in 1 .. n : Run(r, i) <=> Run(p, i)
  BY <1>2, PassKeeps DEF Pass
<1>4. /\ Feasible(p, n - 1)
      /\ p[n].move => Slows(p, n) /\ Checked(p, n)
  BY DEF Fast
<1> HIDE DEF n
<1>5. Done(n)
  <2>1. n \in 1 .. n /\ n \in {1, n}
    BY <1>1
  <2>2. r[n].entry = p[n].entry /\ r[n].reach = p[n].reach
        /\ r[n].max_entry = p[n].max_entry /\ p[n].entry \in Nat
    BY <1>1, <1>2, <1>3, <2>1, BlockFacts DEF Touched
  <2>3. ASSUME Run(p, n) PROVE p[n].move
    BY <2>1, <2>3, RunNext DEF n
  <2>4. After(p, n, n) = Minimum /\ After(r, n, n) = Minimum
    BY DEF After
  <2>5. QED
    BY <1>3, <1>4, <2>2, <2>3, <2>4 DEF Slows, Checked, n
<1>6. ASSUME NEW i \in 1 .. n, i # n, Done(i + 1) PROVE Done(i)
  <2> SUFFICES ASSUME Run(p, i) PROVE Done(i)
    OBVIOUS
  <2> DEFINE b == p[i]
             x == r[i + 1]
  <2>1. b.move /\ i + 1 \in 1 .. n /\ Run(p, i + 1)
    BY <1>6, RunNext DEF n
  <2>2. Minimum <= x.entry /\ p[i + 1].entry <= x.entry
    BY <1>6, <2>1 DEF Slows
  <2>3. /\ b \in Blocks /\ x \in Blocks /\ LineOK(b) /\ b.reach \in Nat
        /\ b.entry \in Nat /\ x.entry \in Nat /\ p[i + 1].entry \in Nat
        /\ Minimum \in Nat
    BY <1>1, <1>3, <2>1, BlockFacts, Constants
  <2>4. Minimum <= b.entry /\ b.entry <= After(p, n - 1, i) + b.reach
    <3>1. i \in 1 .. n - 1
      BY <1>1, <1>6
    <3>2. QED
      BY <1>4, <3>1 DEF Feasible
  <2>5. After(p, n - 1, i) \in Nat /\ After(p, n - 1, i) <= x.entry
    BY <2>2, <2>3 DEF After
  <2>6. b.entry <= x.entry + b.reach
    <3> HIDE DEF b, x
    <3> DEFINE a == After(p, n - 1, i)
    <3>1. a \in Nat /\ a <= x.entry /\ b.entry <= a + b.reach
      BY <2>4, <2>5
    <3> HIDE DEF a
    <3>2. QED
      BY <2>3, <3>1
  <2>7. /\ r[i].reach = b.reach /\ r[i].max_entry = b.max_entry
        /\ After(r, Len(r), i) = x.entry
    BY <1>3, <1>6 DEF Touched, After
  <2>8. CASE i = 1
    <3>1. r[i].entry = b.entry
      BY <1>2, <2>8
    <3>2. QED
      BY <2>3, <2>4, <2>6, <2>7, <2>8, <3>1 DEF Slows
  <2>9. CASE i # 1
    <3>1. r[i].entry = ReverseEntry(b, x)
      BY <1>2, <1>6, <2>9
    <3> HIDE DEF b, x
    <3>2. /\ Minimum <= r[i].entry /\ r[i].entry <= x.entry + b.reach
          /\ b.entry <= r[i].entry
          /\ r[i].entry = b.max_entry \/ r[i].entry = x.entry + b.reach
      BY <2>1, <2>2, <2>3, <2>4, <2>6, <3>1, ReverseBlock DEF b
    <3>3. QED
      BY <2>7, <3>2 DEF Slows, Checked, b
  <2>10. QED
    BY <2>8, <2>9
<1>7. \A i \in 1 .. n : Done(i)
  <2> HIDE DEF Done
  <2> DEFINE T == {i \in 1 .. n : Done(i)}
  <2>1. n \in T
    BY <1>1, <1>5
  <2>2. \A i \in 1 .. n : i # n /\ i + 1 \in T => i \in T
    BY <1>6
  <2>3. 1 .. n \subseteq T
    <3> HIDE DEF T
    <3>1. QED
      BY <1>1, <2>1, <2>2, DownInduction
  <2>4. QED
    BY <2>3
<1>8. \A i \in 1 .. Len(r) : Run(r, i) => Slows(r, i) /\ (i > 1 => Checked(r, i))
  BY <1>3, <1>7
<1>9. QED
  BY <1>8 DEF Fast, r

\* One step of the forward pass, from block a to block b of a run: the speed
\* can be reached, and what is skipped needs no change.
LEMMA ForwardBlock ==
  ASSUME NEW a \in Blocks, NEW b \in Blocks, LineOK(a), LineOK(b), a.move, b.move,
         b.max_entry <= a.nominal, Minimum <= a.entry
  PROVE  ForwardEntry(a, b) <= a.entry + a.reach
<1>1. /\ a.entry \in Nat /\ a.reach \in Nat /\ a.nominal \in Nat
      /\ b.entry \in Nat /\ b.max_entry \in Nat /\ Minimum \in Nat
      /\ b.entry <= b.max_entry
      /\ a.nominal_length => a.nominal <= Minimum + a.reach
  BY BlockFacts, Constants DEF LineOK
<1>2. CASE ~a.nominal_length /\ a.entry + a.reach < b.entry
  BY <1>1, <1>2 DEF ForwardEntry
<1>3. CASE ~(~a.nominal_length /\ a.entry + a.reach < b.entry)
  <2>1. ForwardEntry(a, b) = b.entry
    BY <1>3 DEF ForwardEntry
  <2>2. b.entry <= a.entry + a.reach
    BY <1>1, <1>3
  <2>3. QED
    BY <2>1, <2>2
<1>4. QED
  BY <1>2, <1>3

LEMMA ForwardFast ==
  ASSUME NEW p \in Seq(Blocks), Lines(p), Fast(p, "forward")
  PROVE  Feasible(Forwarded(p), Len(p)) /\ Attained(Forwarded(p))
<1> DEFINE n == Len(p)
           r == Forwarded(p)
           Low(i) == Run(p, i) => Minimum <= r[i].entry /\ r[i].entry <= p[i].entry
<1>1. /\ n \in Nat /\ \A i \in 1 .. n : p[i] \in Blocks /\ LineOK(p[i])
  BY DEF Lines
<1>2. /\ Pass(p, r)
      /\ \A i \in 1 .. n : r[i].entry = IF i = 1 THEN p[1].entry
                                        ELSE ForwardEntry(r[i - 1], p[i])
  BY ForwardedIs
<1> HIDE DEF r
<1>3. /\ r \in Seq(Blocks) /\ Len(r) = n /\ \A i \in 1 .. n : Touched(p[i], r[i])
      /\ \A i \in 1 .. n : r[i] \in Blocks
      /\ \A i \in 1 .. n : Run(r, i) <=> Run(p, i)
      /\ Lines(r)
  BY <1>2, PassKeeps DEF Pass
<1>4. \A i \in 1 .. n : Run(p, i) => Slows(p, i) /\ (i > 1 => Checked(p, i))
  BY DEF Fast
<1>5. /\ Minimum \in Nat /\ WaitReach \in Nat /\ Minimum <= WaitReach
      /\ \A i \in 1 .. n : /\ p[i].entry \in Nat /\ r[i].entry \in Nat
                           /\ p[i].reach \in Nat /\ r[i].reach = p[i].reach
                           /\ r[i].max_entry = p[i].max_entry
                           /\ r[i].move = p[i].move
  BY <1>1, <1>3, BlockFacts, Constants DEF Touched
<1>6. \A i \in 1 .. n : /\ i # 1 => i - 1 \in 1 .. n /\ i - 1 + 1 = i /\ i - 1 # n
                        /\ i # n => i + 1 \in 1 .. n /\ i + 1 - 1 = i /\ i + 1 # 1
  <2> HIDE DEF n
  <2>1. QED
    BY <1>1
<1>7. \A i \in 1 .. n : /\ Run(p, i) => p[i].move
                        /\ Run(p, i) /\ i # n => Run(p, i + 1)
                        /\ i # 1 /\ Run(p, i) /\ p[i - 1].move => Run(p, i - 1)
  <2>1. ASSUME NEW i \in 1 .. n, i # 1, Run(p, i), p[i - 1].move PROVE Run(p, i - 1)
    <3>1. \A k \in i - 1 .. n : k = i - 1 \/ k \in i .. n
      BY <1>1
    <3>2. QED
      BY <2>1, <3>1 DEF Run
  <2>2. QED
    BY <2>1, RunNext
<1>8. ASSUME NEW i \in 1 .. n, i # 1
      PROVE  /\ r[i].entry = ForwardEntry(r[i - 1], p[i])
             /\ r[i].entry = p[i].entry \/ r[i].entry = r[i - 1].entry + r[i - 1].reach
             /\ r[i].entry <= p[i].entry
  <2>1. r[i].entry = ForwardEntry(r[i - 1], p[i])
    BY <1>2, <1>8
  <2>2. i - 1 \in 1 .. n
    BY <1>6, <1>8
  <2>3. r[i - 1].entry \in Nat /\ r[i - 1].reach \in Nat /\ p[i].entry \in Nat
    BY <1>5, <2>2
  <2>4. QED
    BY <2>1, <2>3 DEF ForwardEntry
<1> HIDE DEF n
\* No speed rises, and none falls below the minimum.
<1>9. \A i \in 1 .. n : Low(i)
  <2> DEFINE T == {i \in 1 .. n : Low(i)}
  <2>1. ASSUME 1 <= n PROVE 1 \in T
    <3>1. 1 \in 1 .. n
      BY <1>1, <2>1
    <3>2. Run(p, 1) => Minimum <= p[1].entry
      BY <1>4, <3>1 DEF Slows
    <3>3. r[1].entry = p[1].entry /\ p[1].entry \in Nat
      BY <1>2, <1>5, <3>1
    <3>4. QED
      BY <3>1, <3>2, <3>3
  <2>2. ASSUME NEW i \in 1 .. n, i # 1, i - 1 \in T PROVE i \in T
    <3> SUFFICES ASSUME Run(p, i) PROVE Minimum <= r[i].entry /\ r[i].entry <= p[i].entry
      OBVIOUS
    <3>1. Minimum <= p[i].entry
      BY <1>4 DEF Slows
    <3>2. /\ i - 1 \in 1 .. n /\ r[i - 1].entry \in Nat /\ r[i - 1].reach \in Nat
          /\ p[i].entry \in Nat /\ r[i].entry \in Nat
      BY <1>5, <1>6, <2>2
    <3>3. Minimum <= r[i - 1].entry + r[i - 1].reach
      <4>1. CASE p[i - 1].move
        <5>1. Minimum <= r[i - 1].entry
          BY <1>7, <2>2, <4>1
        <5>2. QED
          BY <1>5, <3>2, <5>1
      <4>2. CASE ~p[i - 1].move
        <5>1. r[i - 1].reach = WaitReach
          BY <1>1, <1>5, <3>2, <4>2 DEF LineOK
        <5>2. QED
          BY <1>5, <3>2, <5>1
      <4>3. QED
        BY <4>1, <4>2
    <3>4. QED
      BY <1>8, <2>2, <3>1, <3>3
  <2>3. 1 .. n \subseteq T
    <3> HIDE DEF T
    <3>1. QED
      BY <1>1, <2>1, <2>2, UpInduction
  <2>4. QED
    BY <2>3
\* The next block can be reached ...
<1>10. ASSUME NEW i \in 1 .. n, i # n, Run(p, i)
       PROVE  r[i + 1].entry <= r[i].entry + r[i].reach
  <2>1. /\ i + 1 \in 1 .. n /\ i + 1 - 1 = i /\ i + 1 # 1 /\ Run(p, i + 1)
        /\ p[i].move /\ p[i + 1].move /\ r[i].move
    BY <1>5, <1>6, <1>7, <1>10
  <2>2. r[i + 1].entry = ForwardEntry(r[i], p[i + 1])
    BY <1>8, <2>1
  <2>3. LineOK(r[i]) /\ r[i] \in Blocks /\ p[i + 1] \in Blocks /\ LineOK(p[i + 1])
    BY <1>1, <1>3, <2>1 DEF Lines
  <2>4. Minimum <= r[i].entry
    BY <1>9, <1>10
  <2>5. p[i + 1].max_entry <= r[i].nominal
    <3>1. i \in 1 .. n - 1
      BY <1>1, <1>10
    <3>2. r[i].nominal = p[i].nominal
      BY <1>3 DEF Touched
    <3>3. QED
      BY <2>1, <3>1, <3>2 DEF Lines, n
  <2>6. QED
    BY <2>1, <2>2, <2>3, <2>4, <2>5, ForwardBlock
\* ... and it can be slowed down to.
<1>11. ASSUME NEW i \in 1 .. n, Run(p, i)
       PROVE  r[i].entry <= After(r, n, i) + r[i].reach
  <2>1. p[i].entry <= After(p, n, i) + p[i].reach
    BY <1>4, <1>11 DEF Slows, n
  <2>2. r[i].entry <= p[i].entry /\ Minimum <= r[i].entry
    BY <1>9, <1>11
  <2>3. CASE i = n
    BY <1>5, <2>1, <2>2, <2>3 DEF After
  <2>4. CASE i # n
    <3>1. /\ i + 1 \in 1 .. n /\ i + 1 - 1 = i /\ i + 1 # 1
          /\ After(r, n, i) = r[i + 1].entry /\ After(p, n, i) = p[i + 1].entry
      BY <1>6, <2>4 DEF After
    <3>2. /\ r[i + 1].entry \in Nat /\ p[i + 1].entry \in Nat
          /\ r[i].entry \in Nat /\ p[i].entry \in Nat /\ p[i].reach \in Nat
          /\ r[i].reach = p[i].reach
      BY <1>5, <3>1
    <3>3. r[i + 1].entry = p[i + 1].entry \/ r[i + 1].entry = r[i].entry + r[i].reach
      BY <1>8, <3>1
    <3>4. p[i].entry <= p[i + 1].entry + p[i].reach
      BY <2>1, <3>1
    <3>5. r[i].entry <= r[i + 1].entry + r[i].reach
      BY <2>2, <3>2, <3>3, <3>4
    <3>6. QED
      BY <3>1, <3>5
  <2>5. QED
    BY <2>3, <2>4
<1>12. Feasible(r, n)
  <2> SUFFICES ASSUME NEW i \in 1 .. n, Run(r, i)
               PROVE  /\ Minimum <= r[i].entry
                      /\ r[i].entry <= After(r, n, i) + r[i].reach
                      /\ i < n => r[i + 1].entry <= r[i].entry + r[i].reach
    BY DEF Feasible
  <2>1. Run(p, i) /\ (i < n => i # n)
    BY <1>1, <1>3
  <2>2. QED
    BY <1>9, <1>10, <1>11, <2>1
\* A speed the pass keeps is limited by a junction, through braking.
<1> DEFINE Bound(i) == \E j \in i .. n : Braking(r, i, j)
           Kept(i) == Run(p, i) /\ i # 1 /\ r[i].entry = p[i].entry => Bound(i)
<1>13. ASSUME NEW i \in 1 .. n, Run(p, i), i # 1, r[i].entry = p[i].entry,
              i # n => Kept(i + 1)
       PROVE  Bound(i)
  <2>1. Checked(p, i)
    <3>1. i > 1
      BY <1>1, <1>13
    <3>2. QED
      BY <1>4, <1>13, <3>1
  <2>2. CASE p[i].entry = p[i].max_entry
    <3>1. i \in i .. n /\ i .. i - 1 = {}
      BY <1>1
    <3>2. r[i].entry = r[i].max_entry
      BY <1>5, <1>13, <2>2
    <3>3. Braking(r, i, i)
      BY <3>1, <3>2 DEF Braking
    <3>4. QED
      BY <3>1, <3>3
  <2>3. CASE i = n /\ p[i].entry = Minimum + p[i].reach
    <3>1. i \in i .. n /\ i .. i - 1 = {}
      BY <1>1
    <3>2. r[i].entry = Minimum + r[i].reach /\ Len(r) = i
      BY <1>3, <1>5, <1>13, <2>3
    <3>3. Braking(r, i, i)
      BY <3>1, <3>2 DEF Braking
    <3>4. QED
      BY <3>1, <3>3
  <2>4. CASE i # n /\ p[i].entry = p[i + 1].entry + p[i].reach
    <3>1. i + 1 \in 1 .. n /\ i + 1 # 1 /\ Run(p, i + 1)
          /\ After(r, n, i) = r[i + 1].entry
      BY <1>6, <1>7, <1>13, <2>4 DEF After
    <3>2. /\ r[i + 1].entry \in Nat /\ p[i + 1].entry \in Nat
          /\ r[i].entry \in Nat /\ p[i].entry \in Nat /\ p[i].reach \in Nat
          /\ r[i].reach = p[i].reach
      BY <1>5, <3>1
    <3>3. r[i + 1].entry <= p[i + 1].entry
      BY <1>9, <3>1
    <3>4. r[i].entry <= r[i + 1].entry + r[i].reach
      BY <1>11, <1>13, <3>1
    <3>5. r[i + 1].entry = p[i + 1].entry /\ r[i].entry = r[i + 1].entry + r[i].reach
      BY <1>13, <2>4, <3>2, <3>3, <3>4
    <3>6. PICK j \in i + 1 .. n : Braking(r, i + 1, j)
      BY <1>13, <2>4, <3>1, <3>5
    <3>7. j \in i .. n /\ \A k \in i .. j - 1 : k = i \/ k \in i + 1 .. j - 1
      BY <1>1
    <3>8. Braking(r, i, j)
      BY <3>5, <3>6, <3>7 DEF Braking
    <3>9. QED
      BY <3>7, <3>8
  <2>5. QED
    BY <2>1, <2>2, <2>3, <2>4 DEF Checked, After, n
<1>14. \A i \in 1 .. n : Kept(i)
  <2> DEFINE T == {i \in 1 .. n : Kept(i)}
  <2> HIDE DEF Bound
  <2>1. ASSUME 1 <= n PROVE n \in T
    <3>1. n \in 1 .. n
      BY <1>1, <2>1
    <3>2. QED
      BY <1>13, <3>1
  <2>2. ASSUME NEW i \in 1 .. n, i # n, i + 1 \in T PROVE i \in T
    BY <1>13, <2>2
  <2>3. 1 .. n \subseteq T
    <3> HIDE DEF T
    <3>1. QED
      BY <1>1, <2>1, <2>2, DownInduction
  <2>4. QED
    BY <2>3
<1>15. Attained(r)
  <2> SUFFICES ASSUME NEW i \in 2 .. n, Run(r, i - 1)
               PROVE  r[i].entry = r[i - 1].entry + r[i - 1].reach \/ Bound(i)
    BY <1>3 DEF Attained
  <2>1. i \in 1 .. n /\ i # 1 /\ i - 1 \in 1 .. n /\ i - 1 # n /\ i - 1 + 1 = i
    BY <1>1
  <2>2. Run(p, i)
    BY <1>3, <1>7, <2>1
  <2> HIDE DEF Bound
  <2>3. QED
    BY <1>8, <1>14, <2>1, <2>2
<1>16. QED
  BY <1>12, <1>15 DEF r, n

-----------------------------------------------------------------------------
(* The last pass, and blocks that come and go.                             *)

\* The trapezoids do not change what the speeds are computed from.
Same(p, r) ==
  /\ r \in Seq(Blocks) /\ Len(r) = Len(p)
  /\ \A i \in 1 .. Len(p) :
       /\ r[i].move = p[i].move /\ r[i].nominal = p[i].nominal
       /\ r[i].reach = p[i].reach /\ r[i].max_entry = p[i].max_entry
       /\ r[i].nominal_length = p[i].nominal_length /\ r[i].entry = p[i].entry

LEMMA SameKeeps ==
  ASSUME NEW p \in Seq(Blocks), NEW r, Same(p, r)
  PROVE  /\ Lines(p) => Lines(r)
         /\ \A v : Memory(p, v) => Memory(r, v)
         /\ Feasible(p, Len(p)) => Feasible(r, Len(r))
         /\ Attained(p) => Attained(r)
<1>1. r \in Seq(Blocks) /\ Len(r) = Len(p) /\ Len(p) \in Nat
  BY DEF Same
<1>2. Lines(p) => Lines(r)
  <2>1. ASSUME Lines(p), NEW i \in 1 .. Len(r) PROVE LineOK(r[i])
    BY <1>1, <2>1 DEF Lines, LineOK, Same
  <2>2. ASSUME Lines(p), NEW i \in 1 .. Len(r) - 1, r[i].move, r[i + 1].move
        PROVE  r[i + 1].max_entry <= r[i].nominal
    <3>1. i \in 1 .. Len(p) /\ i + 1 \in 1 .. Len(p) /\ i \in 1 .. Len(p) - 1
      BY <1>1, <2>2
    <3>2. QED
      BY <2>2, <3>1 DEF Lines, Same
  <2>3. QED
    BY <2>1, <2>2 DEF Lines
<1>3. ASSUME NEW v, Memory(p, v) PROVE Memory(r, v)
  <2>1. CASE r = <<>>
    BY <1>3, <2>1 DEF Memory
  <2>2. CASE r # <<>>
    <3>1. Len(p) \in 1 .. Len(p) /\ p # <<>>
      BY <1>1, <2>2, EmptySeq
    <3>2. QED
      BY <1>1, <1>3, <3>1 DEF Memory, Same
  <2>3. QED
    BY <2>1, <2>2
<1>4. ASSUME NEW i \in 1 .. Len(p) PROVE Run(r, i) => Run(p, i)
  <2>1. \A k \in i .. Len(p) : k \in 1 .. Len(p)
    BY <1>1
  <2>2. QED
    BY <1>1, <2>1 DEF Run, Same
<1>5. ASSUME Feasible(p, Len(p)) PROVE Feasible(r, Len(r))
  <2> SUFFICES ASSUME NEW i \in 1 .. Len(p), Run(r, i)
               PROVE  /\ Minimum <= r[i].entry
                      /\ r[i].entry <= After(r, Len(p), i) + r[i].reach
                      /\ i < Len(p) => r[i + 1].entry <= r[i].entry + r[i].reach
    BY <1>1 DEF Feasible
  <2>1. i # Len(p) => i + 1 \in 1 .. Len(p)
    BY <1>1
  <2>2. i < Len(p) => i # Len(p)
    BY <1>1
  <2>3. After(r, Len(p), i) = After(p, Len(p), i)
    BY <2>1 DEF After, Same
  <2>4. r[i].entry = p[i].entry /\ r[i].reach = p[i].reach
        /\ (i # Len(p) => r[i + 1].entry = p[i + 1].entry)
    BY <2>1 DEF Same
  <2>5. QED
    BY <1>4, <1>5, <2>2, <2>3, <2>4 DEF Feasible
<1>6. ASSUME Attained(p) PROVE Attained(r)
  <2> SUFFICES ASSUME NEW i \in 2 .. Len(p), Run(r, i - 1)
               PROVE  \/ r[i].entry = r[i - 1].entry + r[i - 1].reach
                      \/ \E j \in i .. Len(p) : Braking(r, i, j)
    BY <1>1 DEF Attained
  <2>1. i \in 1 .. Len(p) /\ i - 1 \in 1 .. Len(p)
    BY <1>1
  <2>2. Run(p, i - 1)
    BY <1>4, <2>1
  <2>3. CASE p[i].entry = p[i - 1].entry + p[i - 1].reach
    BY <2>1, <2>3 DEF Same
  <2>4. ASSUME NEW j \in i .. Len(p), Braking(p, i, j) PROVE Braking(r, i, j)
    <3>1. j \in 1 .. Len(p)
      BY <1>1
    <3>2. ASSUME NEW k \in i .. j - 1 PROVE r[k].entry = r[k + 1].entry + r[k].reach
      <4>1. k \in 1 .. Len(p) /\ k + 1 \in 1 .. Len(p)
        BY <1>1
      <4>2. QED
        BY <2>4, <4>1 DEF Braking, Same
    <3>3. QED
      BY <1>1, <2>4, <3>1, <3>2 DEF Braking, Same
  <2>5. QED
    BY <1>6, <2>2, <2>3, <2>4 DEF Attained
<1>7. QED
  BY <1>2, <1>3, <1>5, <1>6

\* A block of the last pass: computed again, or untouched and not flagged.
Retimed(p, r, i) ==
  \/ /\ r[i].initial = p[i].entry /\ r[i].final = After(p, Len(p), i)
     /\ ~r[i].recalculate
  \/ /\ i # Len(p) /\ r[i] = p[i]
     /\ ~p[i].recalculate /\ ~p[i + 1].recalculate

LEMMA TrapezoidBlock ==
  ASSUME NEW b \in Blocks, NEW v \in Nat
  PROVE  LET r == calculate_trapezoid_for_block(b, v)
         IN  /\ r \in Blocks /\ r.move = b.move /\ r.nominal = b.nominal
             /\ r.reach = b.reach /\ r.max_entry = b.max_entry
             /\ r.nominal_length = b.nominal_length /\ r.entry = b.entry
             /\ r.initial = b.entry /\ r.final = v /\ ~r.recalculate
BY DEF calculate_trapezoid_for_block, Blocks

LEMMA TrapezoidsAre ==
  ASSUME NEW p \in Seq(Blocks), NEW r,
         r = [i \in 1 .. Len(p) |->
                IF i = Len(p) THEN calculate_trapezoid_for_block(p[i], Minimum)
                ELSE IF p[i].recalculate \/ p[i + 1].recalculate
                THEN calculate_trapezoid_for_block(p[i], p[i + 1].entry)
                ELSE p[i]]
  PROVE  Same(p, r) /\ \A i \in 1 .. Len(p) : Retimed(p, r, i)
<1> DEFINE n == Len(p)
           Ok(i) == /\ r[i] \in Blocks /\ r[i].move = p[i].move /\ r[i].nominal = p[i].nominal
                    /\ r[i].reach = p[i].reach /\ r[i].max_entry = p[i].max_entry
                    /\ r[i].nominal_length = p[i].nominal_length /\ r[i].entry = p[i].entry
<1>1. n \in Nat /\ Minimum \in Nat /\ \A i \in 1 .. n : p[i] \in Blocks
  BY Constants
<1>2. ASSUME NEW i \in 1 .. n PROVE Ok(i) /\ Retimed(p, r, i)
  <2>1. i # n => i + 1 \in 1 .. n
    <3> HIDE DEF n
    <3>1. QED
      BY <1>1
  <2>2. After(p, n, i) \in Nat
    BY <1>1, <2>1, BlockFacts DEF After
  <2>3. CASE r[i] = calculate_trapezoid_for_block(p[i], After(p, n, i))
    <3> DEFINE v == After(p, n, i)
               c == calculate_trapezoid_for_block(p[i], v)
    <3>1. p[i] \in Blocks /\ v \in Nat
      BY <1>1, <2>2
    <3> HIDE DEF v
    <3>2. /\ c \in Blocks /\ c.move = p[i].move /\ c.nominal = p[i].nominal
          /\ c.reach = p[i].reach /\ c.max_entry = p[i].max_entry
          /\ c.nominal_length = p[i].nominal_length /\ c.entry = p[i].entry
          /\ c.initial = p[i].entry /\ c.final = v /\ ~c.recalculate
      BY <3>1, TrapezoidBlock
    <3>3. r[i] = c
      BY <2>3 DEF v
    <3> HIDE DEF c
    <3>4. QED
      BY <3>2, <3>3 DEF Retimed, v
  <2>4. CASE i # n /\ r[i] = p[i] /\ ~p[i].recalculate /\ ~p[i + 1].recalculate
    BY <1>1, <2>4 DEF Retimed
  <2>5. QED
    BY <2>3, <2>4 DEF After
<1>3. r \in Seq(Blocks) /\ Len(r) = n
  <2>1. \A i \in 1 .. n : r[i] \in Blocks
    BY <1>2
  <2>2. QED
    BY <1>1, <2>1
<1>4. QED
  BY <1>2, <1>3 DEF Same

\* When every flagged junction is computed again all trapezoids meet.
LEMMA TrapezoidsJoined ==
  ASSUME NEW p \in Seq(Blocks), NEW r, Same(p, r),
         \A i \in 1 .. Len(p) : Retimed(p, r, i),
         NEW l, Joined(p, l, "trapezoids")
  PROVE  Joined(r, l, "idle")
<1> DEFINE n == Len(p)
<1>1. r \in Seq(Blocks) /\ Len(r) = n /\ n \in Nat /\ p # <<>>
  BY DEF Same, Joined
<1>2. n \in 1 .. n /\ r # <<>>
  BY <1>1, EmptySeq
<1>3. \A i \in 1 .. n : ~r[i].recalculate
  BY DEF Retimed
<1>4. r[n].final = Minimum
  BY <1>2 DEF Retimed, After
<1>5. ASSUME NEW i \in 1 .. n, r[i].move, Before(r, l, i).move
      PROVE  r[i].entry = Before(r, l, i).final /\ r[i].entry = r[i].initial
  <2>1. i # 1 => i - 1 \in 1 .. n /\ i - 1 + 1 = i /\ i - 1 # n
    <3> HIDE DEF n
    <3>1. QED
      BY <1>1
  <2>2. p[i].move /\ Before(p, l, i).move /\ r[i].entry = p[i].entry
    BY <1>5, <2>1 DEF Before, Same
  <2>3. /\ i = 1 \/ ~p[i].recalculate => p[i].entry = Before(p, l, i).final
        /\ ~p[i].recalculate => p[i].entry = p[i].initial
    BY <2>2 DEF Joined
  <2>4. r[i].entry = r[i].initial
    BY <2>2, <2>3 DEF Retimed
  <2>5. r[i].entry = Before(r, l, i).final
    <3>1. CASE i = 1
      BY <2>2, <2>3, <3>1 DEF Before
    <3>2. CASE i # 1
      <4>1. Retimed(p, r, i - 1)
        BY <2>1, <3>2
      <4>2. Before(r, l, i) = r[i - 1] /\ Before(p, l, i) = p[i - 1]
            /\ After(p, n, i - 1) = p[i].entry
        BY <2>1, <3>2 DEF Before, After
      <4>3. QED
        BY <2>1, <2>2, <2>3, <3>2, <4>1, <4>2 DEF Retimed
    <3>3. QED
      BY <3>1, <3>2
  <2>6. QED
    BY <2>4, <2>5
<1>6. QED
  BY <1>1, <1>2, <1>3, <1>4, <1>5 DEF Joined

\* A block is published behind the newest.
LEMMA Published ==
  ASSUME NEW p \in Seq(Blocks), NEW b \in Blocks, Lines(p), LineOK(b),
         p # <<>> /\ p[Len(p)].move /\ b.move => b.max_entry <= p[Len(p)].nominal
  PROVE  LET q == Append(p, b)
         IN  /\ q \in Seq(Blocks) /\ Len(q) = Len(p) + 1 /\ q # <<>>
             /\ q[Len(q)] = b /\ Lines(q)
             /\ \A i \in 1 .. Len(p) : q[i] = p[i]
<1> DEFINE q == Append(p, b)
           n == Len(p)
<1>1. /\ q \in Seq(Blocks) /\ Len(q) = n + 1 /\ q[n + 1] = b /\ n \in Nat
      /\ \A i \in 1 .. n : q[i] = p[i]
  OBVIOUS
<1>2. p # <<>> <=> n # 0
  BY EmptySeq
<1> HIDE DEF q, n
<1>3. q # <<>>
  BY <1>1, EmptySeq
<1>4. ASSUME NEW i \in 1 .. n + 1 PROVE LineOK(q[i])
  <2>1. i = n + 1 \/ i \in 1 .. n
    BY <1>1
  <2>2. QED
    BY <1>1, <2>1 DEF Lines, n
<1>5. ASSUME NEW i \in 1 .. n, q[i].move, q[i + 1].move
      PROVE  q[i + 1].max_entry <= q[i].nominal
  <2>1. CASE i = n
    BY <1>1, <1>2, <1>5, <2>1 DEF n
  <2>2. CASE i # n
    <3>1. i + 1 \in 1 .. n /\ i \in 1 .. n - 1
      BY <1>1, <2>2
    <3>2. QED
      BY <1>1, <1>5, <3>1 DEF Lines, n
  <2>3. QED
    BY <2>1, <2>2
<1>6. Lines(q)
  <2>1. Len(q) - 1 = n
    BY <1>1
  <2>2. QED
    BY <1>1, <1>4, <1>5, <2>1 DEF Lines
<1>7. QED
  BY <1>1, <1>3, <1>6 DEF q, n

LEMMA PublishedJoined ==
  ASSUME NEW p \in Seq(Blocks), NEW b \in Blocks, NEW q, NEW l,
         q \in Seq(Blocks), Len(q) = Len(p) + 1, q[Len(q)] = b,
         \A i \in 1 .. Len(p) : q[i] = p[i],
         Joined(p, l, "idle"), b.move => b.recalculate,
         p = <<>> /\ b.move => b.entry = Minimum
  PROVE  Joined(q, l, "reverse")
<1> DEFINE n == Len(p)
<1>1. n \in Nat /\ Len(q) = n + 1 /\ q[n + 1] = b /\ \A i \in 1 .. n : q[i] = p[i]
  OBVIOUS
<1>2. n = 0 => p = <<>>
  BY EmptySeq
<1> HIDE DEF n
<1>3. q # <<>>
  BY <1>1, EmptySeq
<1>4. ASSUME NEW i \in 1 .. n + 1, q[i].move, Before(q, l, i).move
      PROVE  /\ i = 1 \/ ~q[i].recalculate => q[i].entry = Before(q, l, i).final
             /\ ~q[i].recalculate => q[i].entry = q[i].initial
  <2>1. CASE i = n + 1
    <3>1. b.recalculate /\ q[i] = b
      BY <1>1, <1>4, <2>1
    <3>2. CASE i = 1
      <4>1. p = <<>> /\ Before(q, l, i) = l
        BY <1>1, <1>2, <2>1, <3>2 DEF Before
      <4>2. l.final = Minimum
        BY <1>4, <4>1 DEF Joined
      <4>3. QED
        BY <1>4, <3>1, <4>1, <4>2
    <3>3. CASE i # 1
      BY <3>1, <3>3
    <3>4. QED
      BY <3>2, <3>3
  <2>2. CASE i # n + 1
    <3>1. i \in 1 .. n /\ (i # 1 => i - 1 \in 1 .. n)
      BY <1>1, <2>2
    <3>2. Before(q, l, i) = Before(p, l, i) /\ q[i] = p[i]
      BY <1>1, <3>1 DEF Before
    <3>3. QED
      BY <1>4, <3>1, <3>2 DEF Joined, n
  <2>3. QED
    BY <2>1, <2>2
<1>5. QED
  BY <1>1, <1>3, <1>4 DEF Joined

LEMMA PublishedFast ==
  ASSUME NEW p \in Seq(Blocks), NEW b \in Blocks, NEW q,
         q \in Seq(Blocks), Len(q) = Len(p) + 1, q[Len(q)] = b,
         \A i \in 1 .. Len(p) : q[i] = p[i],
         Fast(p, "idle"),
         b.move => /\ Minimum <= b.entry /\ b.entry <= Minimum + b.reach
                   /\ b.entry = b.max_entry \/ b.entry = Minimum + b.reach
  PROVE  Fast(q, "reverse")
<1> DEFINE n == Len(p)
<1>1. n \in Nat /\ Len(q) = n + 1 /\ q[n + 1] = b /\ \A i \in 1 .. n : q[i] = p[i]
  OBVIOUS
<1>2. Feasible(p, n)
  BY DEF Fast
<1>3. Feasible(q, n)
  <2> SUFFICES ASSUME NEW i \in 1 .. n, Run(q, i)
               PROVE  /\ Minimum <= q[i].entry
                      /\ q[i].entry <= After(q, n, i) + q[i].reach
                      /\ i < n => q[i + 1].entry <= q[i].entry + q[i].reach
    BY DEF Feasible
  <2>1. Run(p, i)
    <3>1. \A k \in i .. n : k \in i .. n + 1 /\ k \in 1 .. n
      BY <1>1
    <3>2. QED
      BY <1>1, <3>1 DEF Run
  <2>2. (i # n => i + 1 \in 1 .. n) /\ (i < n => i # n)
    <3> HIDE DEF n
    <3>1. QED
      BY <1>1
  <2>3. q[i] = p[i] /\ (i # n => q[i + 1] = p[i + 1]) /\ After(q, n, i) = After(p, n, i)
    BY <1>1, <2>2 DEF After
  <2>4. QED
    BY <1>2, <2>1, <2>2, <2>3 DEF Feasible
<1>4. b.move => Slows(q, n + 1) /\ Checked(q, n + 1)
  <2>1. After(q, Len(q), n + 1) = Minimum
    BY <1>1 DEF After
  <2>2. QED
    BY <1>1, <2>1 DEF Slows, Checked
<1>5. Len(q) - 1 = n
  BY <1>1
<1>6. QED
  BY <1>1, <1>3, <1>4, <1>5 DEF Fast

\* The stepper takes the oldest block.
LEMMA Discarded ==
  ASSUME NEW p \in Seq(Blocks), p # <<>>, Lines(p)
  PROVE  LET t == Tail(p)
         IN  /\ t \in Seq(Blocks) /\ Len(t) = Len(p) - 1 /\ Len(p) \in Nat /\ Len(p) >= 1
             /\ \A i \in 1 .. Len(t) : i + 1 \in 1 .. Len(p) /\ t[i] = p[i + 1]
             /\ Lines(t) /\ \A v : Memory(p, v) => Memory(t, v)
<1> DEFINE t == Tail(p)
           n == Len(p)
           m == Len(t)
<1>1. /\ t \in Seq(Blocks) /\ m = n - 1 /\ n \in Nat /\ m \in Nat /\ n >= 1
  BY EmptySeq
<1>2. \A i \in 1 .. m : t[i] = p[i + 1]
  BY EmptySeq
<1> HIDE DEF t, n
<1>3. \A i \in 1 .. m : i + 1 \in 1 .. n
  <2> HIDE DEF m
  <2>1. QED
    BY <1>1
<1>4. \A i \in 1 .. m : LineOK(t[i])
  BY <1>2, <1>3 DEF Lines, n
<1>5. ASSUME NEW i \in 1 .. m - 1, t[i].move, t[i + 1].move
      PROVE  t[i + 1].max_entry <= t[i].nominal
  <2>1. i \in 1 .. m /\ i + 1 \in 1 .. m /\ i + 1 \in 1 .. n - 1
    <3> HIDE DEF m
    <3>1. QED
      BY <1>1
  <2>2. t[i] = p[i + 1] /\ t[i + 1] = p[i + 1 + 1]
    BY <1>2, <2>1
  <2>3. QED
    BY <1>5, <2>1, <2>2 DEF Lines, n
<1>6. ASSUME NEW v, Memory(p, v) PROVE Memory(t, v)
  <2>1. CASE t = <<>>
    BY <1>6, <2>1 DEF Memory
  <2>2. CASE t # <<>>
    <3>1. m # 0
      BY <1>1, <2>2, EmptySeq
    <3>2. m \in 1 .. m /\ m + 1 = n
      <4> HIDE DEF m
      <4>1. QED
        BY <1>1, <3>1
    <3>3. t[m] = p[n]
      BY <1>2, <3>2
    <3>4. QED
      BY <1>6, <3>3 DEF Memory, n
  <2>3. QED
    BY <2>1, <2>2
<1>7. Lines(t)
  BY <1>4, <1>5 DEF Lines
<1>8. QED
  BY <1>1, <1>2, <1>3, <1>6, <1>7 DEF t, n

LEMMA DiscardedJoined ==
  ASSUME NEW p \in Seq(Blocks), p # <<>>, NEW t, t \in Seq(Blocks),
         Len(t) = Len(p) - 1,
         \A i \in 1 .. Len(t) : i + 1 \in 1 .. Len(p) /\ t[i] = p[i + 1],
         NEW l, Joined(p, l, "idle"), NEW k, k.move = p[1].move, k.final = p[1].final
  PROVE  Joined(t, k, "idle")
<1> DEFINE n == Len(p)
           m == Len(t)
<1>1. n \in Nat /\ m \in Nat /\ n = m + 1 /\ n \in 1 .. n /\ 1 \in 1 .. n
  BY EmptySeq
<1>2. \A i \in 1 .. n : ~p[i].recalculate
  BY DEF Joined
<1>3. p[n].final = Minimum
  BY DEF Joined
<1>4. ASSUME NEW i \in 1 .. m, t[i].move, Before(t, k, i).move
      PROVE  t[i].entry = Before(t, k, i).final /\ t[i].entry = t[i].initial
  <2>1. i + 1 \in 1 .. n /\ t[i] = p[i + 1]
    OBVIOUS
  <2>2. i + 1 # 1 /\ i + 1 - 1 = i /\ (i # 1 => i - 1 \in 1 .. m /\ i - 1 + 1 = i)
    <3> HIDE DEF m
    <3>1. QED
      BY <1>1
  <2>3. Before(p, l, i + 1) = p[i]
    BY <2>2 DEF Before
  <2>4. Before(t, k, i).move = p[i].move /\ Before(t, k, i).final = p[i].final
    BY <2>2 DEF Before
  <2>5. QED
    BY <1>2, <1>4, <2>1, <2>3, <2>4 DEF Joined
<1>5. ASSUME NEW i \in 1 .. m PROVE ~t[i].recalculate
  BY <1>2
<1>6. t # <<>> => t[m].final = Minimum
  <2>1. t # <<>> => m \in 1 .. m
    BY <1>1, EmptySeq
  <2>2. QED
    BY <1>1, <1>3, <2>1
<1>7. t = <<>> => k.final = Minimum
  <2>1. t = <<>> => n = 1
    BY <1>1
  <2>2. QED
    BY <1>3, <2>1
<1>8. QED
  BY <1>4, <1>5, <1>6, <1>7 DEF Joined

LEMMA DiscardedFast ==
  ASSUME NEW p \in Seq(Blocks), p # <<>>, NEW t, t \in Seq(Blocks),
         Len(t) = Len(p) - 1,
         \A i \in 1 .. Len(t) : i + 1 \in 1 .. Len(p) /\ t[i] = p[i + 1],
         Feasible(p, Len(p)), Attained(p)
  PROVE  Feasible(t, Len(t)) /\ Attained(t)
<1> DEFINE n == Len(p)
           m == Len(t)
<1>1. n \in Nat /\ m \in Nat /\ n = m + 1 /\ \A i \in 1 .. m : t[i] = p[i + 1]
  BY EmptySeq
<1>2. n = Len(p) /\ m = Len(t)
  OBVIOUS
<1> HIDE DEF n, m
<1>3. ASSUME NEW i \in 1 .. m, Run(t, i) PROVE Run(p, i + 1) /\ i + 1 \in 1 .. n
  <2>1. ASSUME NEW k \in i + 1 .. n PROVE p[k].move
    <3>1. k - 1 \in i .. m /\ k - 1 \in 1 .. m /\ k - 1 + 1 = k
      BY <1>1
    <3>2. QED
      BY <1>1, <1>2, <1>3, <3>1 DEF Run
  <2>2. QED
    BY <1>1, <1>2, <2>1 DEF Run
<1>4. Feasible(t, m)
  <2> SUFFICES ASSUME NEW i \in 1 .. m, Run(t, i)
               PROVE  /\ Minimum <= t[i].entry
                      /\ t[i].entry <= After(t, m, i) + t[i].reach
                      /\ i < m => t[i + 1].entry <= t[i].entry + t[i].reach
    BY DEF Feasible
  <2>1. /\ i # m => i + 1 \in 1 .. m /\ i + 1 # n
        /\ i = m => i + 1 = n
        /\ i < m => i + 1 < n /\ i # m
    BY <1>1
  <2>2. After(t, m, i) = After(p, n, i + 1)
    BY <1>1, <2>1 DEF After
  <2>3. t[i] = p[i + 1] /\ (i # m => t[i + 1] = p[i + 1 + 1])
    BY <1>1, <2>1
  <2>4. QED
    BY <1>2, <1>3, <2>1, <2>2, <2>3 DEF Feasible
<1>5. Attained(t)
  <2> SUFFICES ASSUME NEW i \in 2 .. m, Run(t, i - 1)
               PROVE  \/ t[i].entry = t[i - 1].entry + t[i - 1].reach
                      \/ \E j \in i .. m : Braking(t, i, j)
    BY <1>2 DEF Attained
  <2>1. i \in 1 .. m /\ i - 1 \in 1 .. m /\ i - 1 + 1 = i /\ i + 1 \in 2 .. n /\ i + 1 - 1 = i
    BY <1>1
  <2>2. Run(p, i)
    BY <1>3, <2>1
  <2>3. t[i] = p[i + 1] /\ t[i - 1] = p[i]
    BY <1>1, <2>1
  <2>4. \/ p[i + 1].entry = p[i].entry + p[i].reach
        \/ \E j \in i + 1 .. n : Braking(p, i + 1, j)
    BY <1>2, <2>1, <2>2 DEF Attained
  <2>5. ASSUME NEW j \in i + 1 .. n, Braking(p, i + 1, j)
        PROVE  \E h \in i .. m : Braking(t, i, h)
    <3>1. PICK h \in i .. m : h + 1 = j
      <4>1. j - 1 \in i .. m /\ j - 1 + 1 = j
        BY <1>1
      <4>2. QED
        BY <4>1
    <3>2. h \in 1 .. m /\ t[h] = p[j] /\ (j = n => h = m)
      BY <1>1, <3>1
    <3>3. ASSUME NEW k \in i .. h - 1 PROVE t[k].entry = t[k + 1].entry + t[k].reach
      <4>1. k \in 1 .. m /\ k + 1 \in 1 .. m /\ k + 1 \in i + 1 .. j - 1
        BY <1>1, <3>1
      <4>2. t[k] = p[k + 1] /\ t[k + 1] = p[k + 1 + 1]
        BY <1>1, <4>1
      <4>3. QED
        BY <2>5, <4>1, <4>2 DEF Braking
    <3>4. Braking(t, i, h)
      BY <1>2, <2>5, <3>2, <3>3 DEF Braking
    <3>5. QED
      BY <3>4
  <2>6. QED
    BY <2>3, <2>4, <2>5
<1>6. QED
  BY <1>2, <1>4, <1>5

-----------------------------------------------------------------------------
(* The invariant.                                                          *)

LEMMA InitOK ==
  Init => IInv
<1> SUFFICES ASSUME Init PROVE IInv
  OBVIOUS
<1>1. /\ plan = <<>> /\ Len(plan) = 0 /\ plan \in Seq(Blocks)
      /\ last = [move |-> FALSE, final |-> 0] /\ pc = "idle"
      /\ previous_nominal_speed = 0 /\ raced = FALSE
  BY DEF Init
<1>2. free \in Seq(Leftovers) /\ Len(free) = BLOCK_BUFFER_SIZE /\ free # <<>>
  <2>1. free \in Seq(Leftovers) /\ Len(free) = BLOCK_BUFFER_SIZE
    BY Constants DEF Init, Leftovers
  <2>2. QED
    BY <2>1, Constants, EmptySeq
<1>3. TypeOK
  <2>1. last \in [move : BOOLEAN, final : Nat]
    BY <1>1
  <2>2. Len(plan) + Len(free) = BLOCK_BUFFER_SIZE
    BY <1>1, <1>2, Constants
  <2>3. QED
    BY <1>1, <1>2, <2>1, <2>2 DEF TypeOK
<1>4. Lines(plan) /\ Memory(plan, previous_nominal_speed)
  BY <1>1 DEF Lines, Memory
<1>5. Joined(plan, last, pc)
  BY <1>1 DEF Joined
<1>6. Fast(plan, pc)
  BY <1>1 DEF Fast, Feasible, Attained
<1>7. QED
  BY <1>3, <1>4, <1>5, <1>6 DEF IInv

\* What both calls that publish a block rely on.
LEMMA PublishStep ==
  ASSUME IInv, NEW b \in Blocks, Publish(b), LineOK(b),
         plan # <<>> /\ plan[Len(plan)].move /\ b.move
           => b.max_entry <= plan[Len(plan)].nominal,
         previous_nominal_speed' \in Nominals \cup {0},
         b.move => previous_nominal_speed' = b.nominal /\ b.recalculate,
         b.move => /\ Minimum <= b.entry /\ b.entry <= Minimum + b.reach
                   /\ b.entry = b.max_entry \/ b.entry = Minimum + b.reach,
         plan = <<>> /\ b.move => b.entry = Minimum
  PROVE  IInv'
<1> DEFINE q == plan'
<1>1. /\ q = Append(plan, b) /\ pc = "idle" /\ pc' = "reverse" /\ last' = last
      /\ raced' = raced /\ free' = Tail(free) /\ Len(plan) < BLOCK_BUFFER_SIZE - 1
  BY DEF Publish, Room
<1>2. /\ plan \in Seq(Blocks) /\ free \in Seq(Leftovers)
      /\ Len(plan) + Len(free) = BLOCK_BUFFER_SIZE /\ free # <<>>
      /\ Lines(plan) /\ (~raced => Joined(plan, last, "idle") /\ Fast(plan, "idle"))
  BY <1>1 DEF IInv, TypeOK
<1>3. /\ q \in Seq(Blocks) /\ Len(q) = Len(plan) + 1 /\ q # <<>>
      /\ q[Len(q)] = b /\ Lines(q) /\ \A i \in 1 .. Len(plan) : q[i] = plan[i]
  BY <1>1, <1>2, Published
<1> HIDE DEF q
<1>4. TypeOK'
  <2> DEFINE f == free'
             v == previous_nominal_speed'
  <2>1. f \in Seq(Leftovers) /\ Len(f) = Len(free) - 1
    BY <1>1, <1>2, EmptySeq
  <2>2. Len(free) \in Nat /\ Len(plan) \in Nat /\ BLOCK_BUFFER_SIZE \in Nat
    BY <1>2, Constants
  <2> HIDE DEF f
  <2>3. Len(q) + Len(f) = BLOCK_BUFFER_SIZE /\ Len(f) # 0
    <3> DEFINE x == Len(plan)
               y == Len(free)
    <3>1. /\ x \in Nat /\ y \in Nat /\ x + y = BLOCK_BUFFER_SIZE
          /\ x < BLOCK_BUFFER_SIZE - 1 /\ Len(q) = x + 1 /\ Len(f) = y - 1
      BY <1>1, <1>2, <1>3, <2>1, <2>2
    <3> HIDE DEF x, y
    <3>2. QED
      BY <2>2, <3>1
  <2>4. f # <<>>
    BY <2>1, <2>3, EmptySeq
  <2>5. v \in Nat
    BY Constants
  <2>6. QED
    <3>1. /\ last' \in [move : BOOLEAN, final : Nat] /\ raced' \in BOOLEAN
          /\ pc' \in {"idle", "reverse", "forward", "trapezoids"}
      BY <1>1 DEF IInv, TypeOK
    <3>2. QED
      BY <1>3, <2>1, <2>3, <2>4, <2>5, <3>1 DEF TypeOK, f, q
<1>5. Memory(q, previous_nominal_speed')
  BY <1>3 DEF Memory
<1>6. ~raced => Joined(q, last, "reverse") /\ Fast(q, "reverse")
  BY <1>2, <1>3, PublishedJoined, PublishedFast
<1>7. QED
  BY <1>1, <1>3, <1>4, <1>5, <1>6 DEF IInv, q

\* The junction limit of a line: neither feed rate, nor the corner.
LEMMA Junction ==
  ASSUME IInv, NEW nominal \in Nominals, NEW corner \in Corners
  PROVE  LET v == vmax_junction(nominal, corner)
         IN  /\ v \in Nat /\ Minimum <= v /\ v <= nominal
             /\ plan = <<>> => v = Minimum
             /\ plan # <<>> /\ plan[Len(plan)].move => v <= plan[Len(plan)].nominal
<1> DEFINE v == vmax_junction(nominal, corner)
           pre == previous_nominal_speed
           newest == plan[Len(plan)]
<1>1. /\ Minimum \in Nat /\ nominal \in Nat /\ corner \in Nat
      /\ Minimum <= nominal /\ Minimum <= corner
  BY Constants
<1>2. pre \in Nat /\ (pre # 0 => Minimum <= pre)
  BY Constants DEF IInv, Memory
<1>3. plan # <<>> /\ newest.move =>
        /\ newest.nominal \in Nat /\ Minimum <= newest.nominal
        /\ pre = 0 \/ pre = newest.nominal
  <2> SUFFICES ASSUME plan # <<>>, newest.move
               PROVE  /\ newest.nominal \in Nat /\ Minimum <= newest.nominal
                      /\ pre = 0 \/ pre = newest.nominal
    OBVIOUS
  <2>1. plan \in Seq(Blocks) /\ Len(plan) \in 1 .. Len(plan)
    BY EmptySeq DEF IInv, TypeOK
  <2>2. newest \in Blocks /\ LineOK(newest)
    BY <2>1 DEF IInv, Lines
  <2>3. newest.nominal \in Nat /\ newest.max_entry \in Nat
    BY <2>2, BlockFacts
  <2>4. QED
    BY <1>1, <2>2, <2>3 DEF IInv, Memory, LineOK
<1> HIDE DEF pre, newest
<1>4. v = IF plan = <<>> \/ pre = 0 THEN Minimum
          ELSE Smaller(Smaller(pre, nominal), corner)
  BY DEF vmax_junction, pre
<1>5. QED
  BY <1>1, <1>2, <1>3, <1>4 DEF Smaller, newest

LEMMA LineStep ==
  ASSUME IInv, NEW nominal \in Nominals, NEW reach \in Reaches, NEW corner \in Corners,
         plan_buffer_line(nominal, reach, corner)
  PROVE  IInv'
<1> DEFINE v == vmax_junction(nominal, corner)
           a == Minimum + reach
           b == [move |-> TRUE, nominal |-> nominal, reach |-> reach,
                 max_entry |-> v, entry |-> Smaller(v, a),
                 nominal_length |-> nominal <= a,
                 recalculate |-> TRUE, initial |-> 0, final |-> 0]
<1>1. Publish(b) /\ previous_nominal_speed' = nominal
  BY DEF plan_buffer_line, max_allowable_speed
<1>2. Minimum \in Nat /\ nominal \in Nat /\ reach \in Nat
  BY Constants
<1>3. /\ v \in Nat /\ Minimum <= v /\ v <= nominal /\ (plan = <<>> => v = Minimum)
      /\ plan # <<>> /\ plan[Len(plan)].move => v <= plan[Len(plan)].nominal
  BY Junction
<1> HIDE DEF v
<1>4. /\ Smaller(v, a) \in Nat /\ Minimum <= Smaller(v, a) /\ Smaller(v, a) <= v
      /\ Smaller(v, a) <= a /\ (Smaller(v, a) = v \/ Smaller(v, a) = a)
      /\ v = Minimum => Smaller(v, a) = Minimum
  BY <1>2, <1>3 DEF Smaller
<1>5. b \in Blocks
  BY <1>2, <1>3, <1>4 DEF Blocks
<1>6. LineOK(b)
  BY <1>3, <1>4 DEF LineOK
<1>7. QED
  <2>1. /\ b.move /\ b.nominal = nominal /\ b.recalculate /\ b.reach = reach
        /\ b.entry = Smaller(v, a) /\ b.max_entry = v
    OBVIOUS
  <2> HIDE DEF b
  <2>2. QED
    BY <1>1, <1>3, <1>4, <1>5, <1>6, <2>1, PublishStep

LEMMA WaitStep ==
  ASSUME IInv, plan_buffer_wait
  PROVE  IInv'
<1> DEFINE b == [move |-> FALSE, nominal |-> WaitNominal, reach |-> WaitReach,
                 max_entry |-> Head(free).max_entry, entry |-> WaitNominal,
                 nominal_length |-> Head(free).nominal_length,
                 recalculate |-> Head(free).recalculate,
                 initial |-> WaitNominal, final |-> WaitNominal]
<1>1. Publish(b) /\ previous_nominal_speed' = previous_nominal_speed
  BY DEF plan_buffer_wait
<1>2. Head(free) \in Leftovers
  BY EmptySeq DEF IInv, TypeOK
<1>3. b \in Blocks /\ LineOK(b) /\ ~b.move
  BY <1>2, Constants DEF Blocks, Leftovers, LineOK
<1>4. previous_nominal_speed' \in Nominals \cup {0}
  BY <1>1 DEF IInv, Memory
<1> HIDE DEF b
<1>5. QED
  BY <1>1, <1>3, <1>4, PublishStep

LEMMA ResetStep ==
  ASSUME IInv, plan_set_current_position
  PROVE  IInv'
<1>1. TypeOK'
  BY DEF IInv, TypeOK, plan_set_current_position
<1>2. Memory(plan', previous_nominal_speed') /\ Lines(plan')
  BY DEF IInv, Memory, plan_set_current_position
<1>3. ~raced' => Joined(plan', last', pc') /\ Fast(plan', pc')
  BY DEF IInv, plan_set_current_position
<1>4. QED
  BY <1>1, <1>2, <1>3 DEF IInv

\* Either pass over the ring.
LEMMA PassStep ==
  ASSUME IInv, Pass(plan, plan'), pc # "idle", pc' \in {"forward", "trapezoids"},
         UNCHANGED <<free, previous_nominal_speed, last, raced>>,
         ~raced => Fast(plan', pc')
  PROVE  IInv'
<1>1. plan \in Seq(Blocks)
  BY DEF IInv, TypeOK
<1>2. plan' \in Seq(Blocks) /\ Len(plan') = Len(plan)
  BY DEF Pass
<1>3. TypeOK'
  BY <1>2 DEF IInv, TypeOK
<1>4. Lines(plan') /\ Memory(plan', previous_nominal_speed')
  BY <1>1, PassKeeps DEF IInv
<1>5. ~raced => Joined(plan', last, pc')
  BY <1>1, PassJoined DEF IInv
<1>6. QED
  BY <1>3, <1>4, <1>5 DEF IInv

LEMMA ReverseStep ==
  ASSUME IInv, planner_reverse_pass
  PROVE  IInv'
<1>1. plan \in Seq(Blocks) /\ plan' = Reversed(plan) /\ pc = "reverse" /\ pc' = "forward"
  BY DEF IInv, TypeOK, planner_reverse_pass
<1>2. Pass(plan, plan')
  BY <1>1, ReversedIs
<1>3. ~raced => Fast(plan', pc')
  <2>1. ~raced => plan # <<>> /\ Lines(plan) /\ Fast(plan, "reverse")
    BY <1>1 DEF IInv, Joined
  <2>2. QED
    BY <1>1, <2>1, ReverseFast
<1>4. QED
  BY <1>1, <1>2, <1>3, PassStep DEF planner_reverse_pass

LEMMA ForwardStep ==
  ASSUME IInv, planner_forward_pass
  PROVE  IInv'
<1>1. plan \in Seq(Blocks) /\ plan' = Forwarded(plan) /\ pc = "forward" /\ pc' = "trapezoids"
  BY DEF IInv, TypeOK, planner_forward_pass
<1>2. Pass(plan, plan')
  BY <1>1, ForwardedIs
<1>3. ~raced => Fast(plan', pc')
  <2>1. ~raced => Lines(plan) /\ Fast(plan, "forward")
    BY <1>1 DEF IInv
  <2>2. ~raced => Feasible(plan', Len(plan)) /\ Attained(plan')
    BY <1>1, <2>1, ForwardFast
  <2>3. Len(plan') = Len(plan)
    BY <1>2 DEF Pass
  <2>4. QED
    BY <1>1, <2>2, <2>3 DEF Fast
<1>4. QED
  BY <1>1, <1>2, <1>3, PassStep DEF planner_forward_pass

LEMMA TrapezoidsStep ==
  ASSUME IInv, planner_recalculate_trapezoids
  PROVE  IInv'
<1>1. /\ plan \in Seq(Blocks) /\ pc = "trapezoids" /\ pc' = "idle"
      /\ UNCHANGED <<free, previous_nominal_speed, last, raced>>
  BY DEF IInv, TypeOK, planner_recalculate_trapezoids
<1>2. Same(plan, plan') /\ \A i \in 1 .. Len(plan) : Retimed(plan, plan', i)
  <2> DEFINE r == plan'
  <2>1. r = [i \in 1 .. Len(plan) |->
               IF i = Len(plan) THEN calculate_trapezoid_for_block(plan[i], Minimum)
               ELSE IF plan[i].recalculate \/ plan[i + 1].recalculate
               THEN calculate_trapezoid_for_block(plan[i], plan[i + 1].entry)
               ELSE plan[i]]
    BY DEF planner_recalculate_trapezoids
  <2> HIDE DEF r
  <2>2. Same(plan, r) /\ \A i \in 1 .. Len(plan) : Retimed(plan, r, i)
    BY <1>1, <2>1, TrapezoidsAre
  <2>3. QED
    BY <2>2 DEF r
<1>3. TypeOK'
  <2>1. plan' \in Seq(Blocks) /\ Len(plan') = Len(plan)
    BY <1>2 DEF Same
  <2>2. QED
    BY <1>1, <2>1 DEF IInv, TypeOK
<1>4. /\ Lines(plan') /\ Memory(plan', previous_nominal_speed')
      /\ Feasible(plan, Len(plan)) => Feasible(plan', Len(plan'))
      /\ Attained(plan) => Attained(plan')
  BY <1>1, <1>2, SameKeeps DEF IInv
<1>5. ~raced => Joined(plan', last, "idle")
  BY <1>1, <1>2, TrapezoidsJoined DEF IInv
<1>6. ~raced => Fast(plan', "idle")
  <2>1. ~raced => Feasible(plan, Len(plan)) /\ Attained(plan)
    BY <1>1 DEF IInv, Fast
  <2>2. QED
    BY <1>4, <2>1 DEF Fast
<1>7. QED
  BY <1>1, <1>3, <1>4, <1>5, <1>6 DEF IInv

LEMMA DiscardStep ==
  ASSUME IInv, plan_discard_current_block
  PROVE  IInv'
<1> DEFINE h == Head(plan)
           t == plan'
           f == free'
<1>1. /\ plan # <<>> /\ t = Tail(plan) /\ f = Append(free, Leftover(h))
      /\ last' = [move |-> h.move, final |-> h.final]
      /\ raced' = (raced \/ pc # "idle") /\ pc' = pc
      /\ previous_nominal_speed' = previous_nominal_speed
  BY DEF plan_discard_current_block
<1>2. /\ plan \in Seq(Blocks) /\ free \in Seq(Leftovers) /\ Lines(plan)
      /\ Len(plan) + Len(free) = BLOCK_BUFFER_SIZE
      /\ Memory(plan, previous_nominal_speed) /\ raced \in BOOLEAN
      /\ pc \in {"idle", "reverse", "forward", "trapezoids"}
      /\ previous_nominal_speed \in Nat
  BY DEF IInv, TypeOK
<1>3. /\ t \in Seq(Blocks) /\ Len(t) = Len(plan) - 1 /\ Len(plan) \in Nat /\ Len(plan) >= 1
      /\ \A i \in 1 .. Len(t) : i + 1 \in 1 .. Len(plan) /\ t[i] = plan[i + 1]
      /\ Lines(t) /\ Memory(t, previous_nominal_speed)
  BY <1>1, <1>2, Discarded
<1>4. h \in Blocks /\ h = plan[1]
  BY <1>1, <1>2, EmptySeq
<1>5. last' \in [move : BOOLEAN, final : Nat] /\ last'.move = h.move /\ last'.final = h.final
  <2>1. h.move \in BOOLEAN /\ h.final \in Nat
    BY <1>4, BlockFacts
  <2> HIDE DEF h
  <2>2. QED
    BY <1>1, <2>1
<1> HIDE DEF t, f, h
<1>6. TypeOK'
  <2>1. Leftover(h) \in Leftovers
    BY <1>4, BlockFacts DEF Leftover, Leftovers
  <2>2. f \in Seq(Leftovers) /\ Len(f) = Len(free) + 1 /\ Len(free) \in Nat
    BY <1>1, <1>2, <2>1
  <2>3. Len(t) + Len(f) = BLOCK_BUFFER_SIZE /\ Len(f) # 0
    BY <1>2, <1>3, <2>2
  <2>4. f # <<>>
    BY <2>2, <2>3, EmptySeq
  <2>5. QED
    BY <1>1, <1>2, <1>3, <1>5, <2>2, <2>3, <2>4 DEF TypeOK, t, f
<1>7. ASSUME ~raced' PROVE Joined(t, last', pc') /\ Fast(t, pc')
  <2>1. pc = "idle" /\ ~raced /\ Joined(plan, last, "idle")
        /\ Feasible(plan, Len(plan)) /\ Attained(plan)
    BY <1>1, <1>7 DEF IInv, Fast
  <2>2. Joined(t, last', "idle")
    BY <1>1, <1>2, <1>3, <1>4, <1>5, <2>1, DiscardedJoined
  <2>3. Feasible(t, Len(t)) /\ Attained(t)
    BY <1>1, <1>2, <1>3, <2>1, DiscardedFast
  <2>4. QED
    BY <1>1, <2>1, <2>2, <2>3 DEF Fast
<1>8. QED
  BY <1>1, <1>3, <1>6, <1>7 DEF IInv, t

LEMMA NextOK ==
  ASSUME IInv, [Next]_vars
  PROVE  IInv'
<1>1. CASE UNCHANGED vars
  BY <1>1 DEF IInv, vars, TypeOK
<1>2. CASE Next
  BY <1>2, LineStep, WaitStep, ResetStep, ReverseStep, ForwardStep, TrapezoidsStep,
     DiscardStep DEF Next
<1>3. QED
  BY <1>1, <1>2

\* The inductive invariant holds, whatever the ring size, the feed rates, the
\* corners and the lengths, and whenever the stepper finishes a block.
THEOREM SpeedsInvariant == Spec => []IInv
<1>1. Init => IInv
  BY InitOK
<1>2. IInv /\ [Next]_vars => IInv'
  BY NextOK
<1>3. QED
  BY <1>1, <1>2, PTL DEF Spec

\* No line is entered faster than its feed rate, and none but the line before
\* a wait is left faster, even while the stepper races with the planner: what
\* keeps the factors of calculate_trapezoid_for_block between 0 and 1.  The line
\* before a wait brakes for the entry limit the wait's slot had before, which
\* may be above its feed rate.
THEOREM SpeedsFactors == Spec => []FactorsInRange
<1>1. IInv => FactorsInRange
  <2> SUFFICES ASSUME IInv PROVE FactorsInRange
    OBVIOUS
  <2>1. plan \in Seq(Blocks) /\ Lines(plan) /\ Len(plan) \in Nat
    BY DEF IInv, TypeOK
  <2>2. ASSUME NEW i \in 1 .. Len(plan), plan[i].move
        PROVE  /\ plan[i].entry <= plan[i].nominal
               /\ plan[i].entry <= plan[i].max_entry
               /\ plan[i].entry \in Nat /\ plan[i].max_entry \in Nat
               /\ plan[i].nominal \in Nat
    <3>1. plan[i] \in Blocks /\ LineOK(plan[i])
      BY <2>1 DEF Lines
    <3>2. /\ plan[i].entry \in Nat /\ plan[i].max_entry \in Nat
          /\ plan[i].nominal \in Nat
      BY <3>1, BlockFacts
    <3>3. QED
      BY <2>2, <3>1, <3>2 DEF LineOK
  <2>3. ASSUME NEW i \in 1 .. Len(plan), plan[i].move, i < Len(plan), plan[i + 1].move
        PROVE  plan[i + 1].entry <= plan[i].nominal
    <3>1. i + 1 \in 1 .. Len(plan) /\ i \in 1 .. Len(plan) - 1
      BY <2>1, <2>3
    <3>2. plan[i + 1].max_entry <= plan[i].nominal
      BY <2>1, <2>3, <3>1 DEF Lines
    <3>3. QED
      BY <2>2, <2>3, <3>1, <3>2
  <2>4. QED
    BY <2>2, <2>3 DEF FactorsInRange
<1>2. QED
  BY <1>1, SpeedsInvariant, PTL

\* Between two runs of the planner, adjacent trapezoids meet and the newest
\* ends at the minimum: recomputing the flagged junctions only is enough.
THEOREM SpeedsJoin == Spec => []TrapezoidsJoin
<1>1. IInv => TrapezoidsJoin
  <2> SUFFICES ASSUME IInv PROVE TrapezoidsJoin
    OBVIOUS
  <2>1. TypeOK /\ plan \in Seq(Blocks)
    BY DEF IInv, TypeOK
  <2>2. ASSUME Planned
        PROVE  /\ \A i \in 1 .. Len(plan) : plan[i].move /\ Before(plan, last, i).move =>
                    /\ plan[i].entry = Before(plan, last, i).final
                    /\ plan[i].entry = plan[i].initial
               /\ plan # <<>> => plan[Len(plan)].final = Minimum
    BY <2>2 DEF IInv, Planned, Joined
  <2>3. QED
    BY <2>1, <2>2 DEF TrapezoidsJoin, Before, Last
<1>2. QED
  BY <1>1, SpeedsInvariant, PTL

-----------------------------------------------------------------------------
(* The passes compute what PlanIsFastest defines without passes.           *)

LEMMA TravelIs ==
  ASSUME plan \in Seq(Blocks)
  PROVE  /\ Travel[0] = 0 /\ \A i \in 0 .. Len(plan) : Travel[i] \in Nat
         /\ \A i \in 1 .. Len(plan) : Travel[i] = Travel[i - 1] + plan[i].reach
<1> DEFINE n == Len(plan)
           c == [i \in 1 .. n |-> plan[i].reach]
           step == [x \in Nat \X (1 .. n) |-> x[1] + c[x[2]]]
           Def(f) == [i \in 0 .. n |-> IF i = 0 THEN 0 ELSE f[i - 1] + plan[i].reach]
<1>1. n \in Nat /\ \A i \in 1 .. n : c[i] = plan[i].reach /\ plan[i].reach \in Nat
  BY BlockFacts
<1>2. c \in [1 .. n -> Nat]
  BY <1>1
<1>3. step \in [Nat \X (1 .. n) -> Nat]
  <2> HIDE DEF c, n
  <2>1. QED
    BY <1>2
<1>4. PICK f \in [0 .. n -> Nat] : FoldsTo(f, n, 0, step)
  <2> HIDE DEF step, n
  <2>1. QED
    BY <1>1, <1>3, FoldDefined
<1>5. f = Def(f)
  <2>1. ASSUME NEW i \in 0 .. n
        PROVE  f[i] = IF i = 0 THEN 0 ELSE f[i - 1] + plan[i].reach
    <3>1. CASE i = 0
      BY <1>4, <3>1 DEF FoldsTo
    <3>2. CASE i # 0
      <4>1. i \in 1 .. n /\ i - 1 \in 0 .. n
        <5> HIDE DEF n
        <5>1. QED
          BY <1>1, <3>2
      <4>2. f[i] = step[<<f[i - 1], i>>] /\ f[i - 1] \in Nat
        BY <1>4, <4>1 DEF FoldsTo
      <4>3. step[<<f[i - 1], i>>] = f[i - 1] + c[i]
        <5> HIDE DEF c, n
        <5>1. QED
          BY <4>1, <4>2
      <4>4. QED
        BY <1>1, <3>2, <4>1, <4>2, <4>3
    <3>3. QED
      BY <3>1, <3>2
  <2>2. QED
    BY <2>1
<1>6. Travel = Def(Travel)
  <2>1. Travel = CHOOSE g : g = Def(g)
    BY DEF Travel
  <2> HIDE DEF Def
  <2>2. QED
    BY <1>5, <2>1
<1>7. \A i \in 0 .. n : Travel[i] = IF i = 0 THEN 0 ELSE Travel[i - 1] + plan[i].reach
  <2> DEFINE g == Travel
  <2>1. g = [i \in 0 .. n |-> IF i = 0 THEN 0 ELSE g[i - 1] + plan[i].reach]
    BY <1>6
  <2> HIDE DEF g
  <2>2. \A i \in 0 .. n : g[i] = IF i = 0 THEN 0 ELSE g[i - 1] + plan[i].reach
    BY <2>1
  <2>3. QED
    BY <2>2 DEF g
<1> HIDE DEF n
<1>8. 0 \in 0 .. n /\ \A i \in 1 .. n : i \in 0 .. n /\ i # 0
  BY <1>1
<1>9. Travel[0] = 0 /\ \A i \in 1 .. n : Travel[i] = Travel[i - 1] + plan[i].reach
  BY <1>7, <1>8
<1>10. \A i \in 0 .. n : Travel[i] \in Nat
  <2> DEFINE T == {i \in 0 .. n : Travel[i] \in Nat}
  <2>1. 0 \in T
    BY <1>8, <1>9
  <2>2. ASSUME NEW i \in 0 .. n - 1, i \in T PROVE i + 1 \in T
    <3>1. i + 1 \in 1 .. n /\ i + 1 \in 0 .. n /\ i + 1 - 1 = i
      BY <1>1
    <3>2. Travel[i + 1] = Travel[i] + plan[i + 1].reach
      BY <1>9, <3>1
    <3>3. Travel[i] \in Nat /\ plan[i + 1].reach \in Nat
      BY <1>1, <2>2, <3>1
    <3>4. QED
      BY <3>1, <3>2, <3>3
  <2>3. 0 .. n \subseteq T
    <3> HIDE DEF T
    <3>1. QED
      BY <1>1, <2>1, <2>2, IntervalInduction
  <2>4. QED
    BY <2>3
<1>11. QED
  BY <1>9, <1>10 DEF n

\* A function that never falls, and one that stays the same for a while.
LEMMA Monotone ==
  ASSUME NEW m \in Nat, NEW f \in [1 .. m -> Int],
         \A k \in 1 .. m : k # m => f[k] <= f[k + 1],
         NEW i \in 1 .. m, NEW j \in 1 .. m, i <= j
  PROVE  f[i] <= f[j]
<1> DEFINE T == {k \in 1 .. m : i <= k => f[i] <= f[k]}
<1>1. 1 <= m => 1 \in T
  OBVIOUS
<1>2. ASSUME NEW k \in 1 .. m, k # 1, k - 1 \in T PROVE k \in T
  <2>1. k - 1 \in 1 .. m /\ k - 1 # m /\ k - 1 + 1 = k
    BY <1>2
  <2>2. f[k - 1] <= f[k]
    BY <2>1
  <2>3. f[k - 1] \in Int /\ f[k] \in Int /\ f[i] \in Int
    BY <2>1
  <2>4. i <= k => i = k \/ i <= k - 1
    OBVIOUS
  <2>5. QED
    BY <1>2, <2>2, <2>3, <2>4
<1>3. 1 .. m \subseteq T
  <2> HIDE DEF T
  <2>1. QED
    BY <1>1, <1>2, UpInduction
<1>4. QED
  BY <1>3

LEMMA Steady ==
  ASSUME NEW m \in Nat, NEW f \in [1 .. m -> Int], NEW i \in 1 .. m,
         NEW j \in 1 .. m, i <= j, \A k \in i .. j - 1 : f[k] = f[k + 1]
  PROVE  f[i] = f[j]
<1> DEFINE T == {k \in 1 .. m : k \in i .. j => f[k] = f[i]}
<1>1. 1 <= m => 1 \in T
  OBVIOUS
<1>2. ASSUME NEW k \in 1 .. m, k # 1, k - 1 \in T PROVE k \in T
  <2> SUFFICES ASSUME k \in i .. j PROVE f[k] = f[i]
    OBVIOUS
  <2>1. CASE k = i
    BY <2>1
  <2>2. CASE k # i
    <3>1. k - 1 \in i .. j - 1 /\ k - 1 \in i .. j /\ k - 1 + 1 = k
      BY <2>2
    <3>2. f[k - 1] = f[k]
      BY <3>1
    <3>3. QED
      BY <1>2, <3>1, <3>2
  <2>3. QED
    BY <2>1, <2>2
<1>3. 1 .. m \subseteq T
  <2> HIDE DEF T
  <2>1. QED
    BY <1>1, <1>2, UpInduction
<1>4. QED
  BY <1>3

\* The distance between two points.
Gap(t, i, j) == IF i <= j THEN t[j] - t[i] ELSE t[i] - t[j]

\* Speeds e at the points t, none of which changes faster than it may, none
\* above its limit, and each limited from before or from a point ahead: they
\* are the lower envelope of the limits.
LEMMA Envelope ==
  ASSUME NEW m \in Nat, NEW e \in [1 .. m -> Nat], NEW t \in [1 .. m -> Nat],
         NEW lim \in [1 .. m -> Nat],
         \A i \in 1 .. m : i # m => t[i] <= t[i + 1],
         \A i \in 1 .. m : i # m => e[i] + t[i] <= e[i + 1] + t[i + 1],
         \A i \in 1 .. m : i # m => e[i + 1] + t[i] <= e[i] + t[i + 1],
         \A j \in 1 .. m : e[j] <= lim[j],
         1 <= m => e[1] = lim[1],
         \A i \in 1 .. m : i # 1 =>
           \/ e[i] + t[i - 1] = e[i - 1] + t[i]
           \/ \E j \in i .. m : e[i] + t[i] = lim[j] + t[j]
  PROVE  \A i \in 1 .. m :
           /\ \A j \in 1 .. m : e[i] <= lim[j] + Gap(t, i, j)
           /\ \E j \in 1 .. m : e[i] = lim[j] + Gap(t, i, j)
<1>0. \A i \in 1 .. m : /\ e[i] \in Nat /\ t[i] \in Nat /\ lim[i] \in Nat
                        /\ i # m => i + 1 \in 1 .. m
                        /\ i # 1 => i - 1 \in 1 .. m /\ i - 1 # m /\ i - 1 + 1 = i
  OBVIOUS
<1>1. ASSUME NEW i \in 1 .. m, NEW j \in 1 .. m, i <= j
      PROVE  e[i] + t[i] <= e[j] + t[j] /\ t[i] <= t[j]
  <2> DEFINE u == [k \in 1 .. m |-> e[k] + t[k]]
  <2>1. u \in [1 .. m -> Int] /\ t \in [1 .. m -> Int]
    BY <1>0
  <2>2. \A k \in 1 .. m : k # m => u[k] <= u[k + 1]
    BY <1>0
  <2>3. u[i] = e[i] + t[i] /\ u[j] = e[j] + t[j]
    OBVIOUS
  <2> HIDE DEF u
  <2>4. u[i] <= u[j]
    BY <1>1, <2>1, <2>2, Monotone
  <2>5. t[i] <= t[j]
    BY <1>1, <2>1, Monotone
  <2>6. QED
    BY <2>3, <2>4, <2>5
<1>2. ASSUME NEW i \in 1 .. m, NEW j \in 1 .. m, i <= j
      PROVE  t[i] - e[i] <= t[j] - e[j]
  <2> DEFINE w == [k \in 1 .. m |-> t[k] - e[k]]
  <2>1. w \in [1 .. m -> Int]
    BY <1>0
  <2>2. ASSUME NEW k \in 1 .. m, k # m PROVE w[k] <= w[k + 1]
    <3>1. /\ k + 1 \in 1 .. m /\ e[k] \in Nat /\ t[k] \in Nat
          /\ e[k + 1] \in Nat /\ t[k + 1] \in Nat
          /\ e[k + 1] + t[k] <= e[k] + t[k + 1]
      BY <1>0, <2>2
    <3>2. w[k] = t[k] - e[k] /\ w[k + 1] = t[k + 1] - e[k + 1]
      BY <3>1
    <3> DEFINE a == e[k]
               b == t[k]
               c == e[k + 1]
               d == t[k + 1]
    <3> HIDE DEF a, b, c, d, w
    <3>3. a \in Nat /\ b \in Nat /\ c \in Nat /\ d \in Nat /\ c + b <= a + d
      BY <3>1 DEF a, b, c, d
    <3>4. b - a <= d - c
      BY <3>3
    <3>5. QED
      BY <3>2, <3>4 DEF a, b, c, d
  <2>3. w[i] = t[i] - e[i] /\ w[j] = t[j] - e[j]
    OBVIOUS
  <2> HIDE DEF w
  <2>4. w[i] <= w[j]
    BY <1>2, <2>1, <2>2, Monotone
  <2>5. QED
    BY <2>3, <2>4
<1>3. ASSUME NEW i \in 1 .. m, NEW j \in 1 .. m PROVE e[i] <= lim[j] + Gap(t, i, j)
  <2>1. /\ e[i] \in Nat /\ t[i] \in Nat /\ e[j] \in Nat /\ t[j] \in Nat
        /\ lim[j] \in Nat
    BY <1>0
  <2> DEFINE a == e[i]
             b == t[i]
             c == e[j]
             d == t[j]
             l == lim[j]
  <2>2. c <= l
    OBVIOUS
  <2> HIDE DEF a, b, c, d, l
  <2>3. a \in Nat /\ b \in Nat /\ c \in Nat /\ d \in Nat /\ l \in Nat
    BY <2>1 DEF a, b, c, d, l
  <2>4. CASE i <= j
    <3>1. a + b <= c + d
      BY <1>1, <2>4 DEF a, b, c, d
    <3>2. a <= l + (d - b)
      BY <2>2, <2>3, <3>1
    <3>3. QED
      BY <2>4, <3>2 DEF Gap, a, b, d, l
  <2>5. CASE ~(i <= j)
    <3>1. d - c <= b - a
      BY <1>2, <2>5 DEF a, b, c, d
    <3>2. a <= l + (b - d)
      BY <2>2, <2>3, <3>1
    <3>3. QED
      BY <2>5, <3>2 DEF Gap, a, b, d, l
  <2>6. QED
    BY <2>4, <2>5
<1> DEFINE Hit(i) == \E j \in 1 .. m : e[i] = lim[j] + Gap(t, i, j)
           T == {i \in 1 .. m : Hit(i)}
<1>4. ASSUME 1 <= m PROVE 1 \in T
  <2>1. 1 \in 1 .. m /\ e[1] = lim[1] /\ lim[1] \in Nat /\ t[1] \in Nat
    BY <1>0, <1>4
  <2>2. e[1] = lim[1] + Gap(t, 1, 1)
    BY <2>1 DEF Gap
  <2>3. QED
    BY <2>1, <2>2
<1>5. ASSUME NEW i \in 1 .. m, i # 1, i - 1 \in T PROVE i \in T
  <2>1. /\ e[i] \in Nat /\ t[i] \in Nat /\ i - 1 \in 1 .. m
        /\ e[i - 1] \in Nat /\ t[i - 1] \in Nat /\ t[i - 1] <= t[i]
    BY <1>0, <1>5
  <2>2. CASE e[i] + t[i - 1] = e[i - 1] + t[i]
    <3>1. PICK j \in 1 .. m : e[i - 1] = lim[j] + Gap(t, i - 1, j)
      BY <1>5
    <3>2. lim[j] \in Nat /\ t[j] \in Nat /\ e[i] <= lim[j] + Gap(t, i, j)
      BY <1>0, <1>3
    <3>3. CASE i <= j
      <4>1. Gap(t, i - 1, j) = t[j] - t[i - 1] /\ Gap(t, i, j) = t[j] - t[i]
        BY <3>3 DEF Gap
      <4> DEFINE a == e[i]
                 b == t[i]
                 c == e[i - 1]
                 d == t[i - 1]
                 l == lim[j]
                 k == t[j]
      <4>2. /\ a \in Nat /\ b \in Nat /\ c \in Nat /\ d \in Nat /\ l \in Nat /\ k \in Nat
            /\ d <= b /\ a + d = c + b /\ c = l + (k - d) /\ a <= l + (k - b)
        BY <2>1, <2>2, <3>1, <3>2, <4>1
      <4> HIDE DEF a, b, c, d, l, k
      <4>3. a = l + (k - b)
        BY <4>2
      <4>4. e[i] = lim[j] + Gap(t, i, j)
        BY <4>1, <4>3 DEF a, b, l, k
      <4>5. QED
        BY <4>4
    <3>4. CASE ~(i <= j)
      <4>1. Gap(t, i - 1, j) = t[i - 1] - t[j] /\ Gap(t, i, j) = t[i] - t[j]
        <5>1. j <= i - 1 /\ (i - 1 <= j => i - 1 = j)
          BY <3>4
        <5>2. CASE i - 1 = j
          <6>1. t[i - 1] = t[j] /\ t[j] - t[i - 1] = t[i - 1] - t[j]
            BY <2>1, <3>2, <5>2
          <6>2. QED
            BY <3>4, <5>2, <6>1 DEF Gap
        <5>3. CASE i - 1 # j
          BY <3>4, <5>1, <5>3 DEF Gap
        <5>4. QED
          BY <5>2, <5>3
      <4> DEFINE a == e[i]
                 b == t[i]
                 c == e[i - 1]
                 d == t[i - 1]
                 l == lim[j]
                 k == t[j]
      <4>2. /\ a \in Nat /\ b \in Nat /\ c \in Nat /\ d \in Nat /\ l \in Nat /\ k \in Nat
            /\ a + d = c + b /\ c = l + (d - k)
        BY <2>1, <2>2, <3>1, <3>2, <4>1
      <4> HIDE DEF a, b, c, d, l, k
      <4>3. a = l + (b - k)
        BY <4>2
      <4>4. e[i] = lim[j] + Gap(t, i, j)
        BY <4>1, <4>3 DEF a, b, l, k
      <4>5. QED
        BY <4>4
    <3>5. QED
      BY <3>3, <3>4
  <2>3. ASSUME NEW j \in i .. m, e[i] + t[i] = lim[j] + t[j] PROVE Hit(i)
    <3>1. j \in 1 .. m /\ i <= j
      OBVIOUS
    <3>2. lim[j] \in Nat /\ t[j] \in Nat
      BY <1>0, <3>1
    <3>3. e[i] = lim[j] + Gap(t, i, j)
      <4> DEFINE a == e[i]
                 b == t[i]
                 l == lim[j]
                 k == t[j]
      <4>1. a \in Nat /\ b \in Nat /\ l \in Nat /\ k \in Nat /\ a + b = l + k
        BY <2>1, <2>3, <3>2
      <4> HIDE DEF a, b, l, k
      <4>2. a = l + (k - b)
        BY <4>1
      <4>3. QED
        BY <3>1, <4>2 DEF Gap, a, b, l, k
    <3>4. QED
      BY <3>1, <3>3
  <2>4. QED
    BY <1>5, <2>2, <2>3
<1>6. 1 .. m \subseteq T
  <2> HIDE DEF T
  <2>1. QED
    BY <1>4, <1>5, UpInduction
<1>7. QED
  BY <1>3, <1>6

\* The entry speeds of a planned ring are that envelope.
LEMMA FastestIs ==
  ASSUME plan \in Seq(Blocks), Lines(plan), Feasible(plan, Len(plan)), Attained(plan),
         \A i \in 1 .. Len(plan) : plan[i].move, NEW x \in 1 .. Len(plan)
  PROVE  plan[x].entry = Fastest(x)
<1> DEFINE n == Len(plan)
           m == n + 1
           e == [i \in 1 .. m |-> IF i = m THEN Minimum ELSE plan[i].entry]
           t == [i \in 1 .. m |-> Travel[i - 1]]
           lim == [i \in 1 .. m |-> Limit(i)]
<1>1. n \in Nat /\ n >= 1 /\ x \in 1 .. n
  OBVIOUS
<1>2. \A i \in 1 .. n :
        /\ plan[i].entry \in Nat /\ plan[i].reach \in Nat /\ plan[i].max_entry \in Nat
        /\ plan[i].entry <= plan[i].max_entry /\ Run(plan, i)
  <2>1. ASSUME NEW i \in 1 .. n PROVE Run(plan, i)
    BY DEF Run
  <2>2. QED
    BY <2>1, BlockFacts DEF Lines, LineOK
<1>3. Minimum \in Nat
  BY Constants
<1>4. /\ \A i \in 0 .. n : Travel[i] \in Nat
      /\ \A i \in 1 .. n : Travel[i] = Travel[i - 1] + plan[i].reach
  BY TravelIs
<1>5. \A i \in 1 .. n : /\ Minimum <= plan[i].entry
                        /\ plan[i].entry <= After(plan, n, i) + plan[i].reach
                        /\ i < n => plan[i + 1].entry <= plan[i].entry + plan[i].reach
  BY <1>2 DEF Feasible
<1>6. \A j : Limit(j) = IF j = 1 THEN plan[1].entry
                        ELSE IF j > n THEN Minimum ELSE plan[j].max_entry
  BY DEF Limit
<1>7. \A i \in 2 .. n : \/ plan[i].entry = plan[i - 1].entry + plan[i - 1].reach
                        \/ \E j \in i .. n : Braking(plan, i, j)
  <2>1. \A i \in 2 .. n : i - 1 \in 1 .. n
    OBVIOUS
  <2>2. QED
    BY <1>2, <2>1 DEF Attained
<1>8. n = Len(plan)
  OBVIOUS
<1> HIDE DEF n
<1>9. /\ m \in Nat /\ m # 1 /\ m > n /\ m \in 1 .. m /\ 1 \in 1 .. n /\ n \in 1 .. n
      /\ \A i \in 1 .. m : i - 1 \in 0 .. n /\ (i # m <=> i \in 1 .. n) /\ (i # m => ~(i > n))
      /\ \A i \in 1 .. n : i \in 1 .. m /\ i + 1 \in 1 .. m /\ i # m /\ i + 1 - 1 = i
  BY <1>1
<1> HIDE DEF m
<1>10. /\ e \in [1 .. m -> Nat] /\ t \in [1 .. m -> Nat] /\ lim \in [1 .. m -> Nat]
  <2>1. \A i \in 1 .. m : Limit(i) \in Nat
    BY <1>2, <1>3, <1>6, <1>9
  <2>2. QED
    BY <1>2, <1>3, <1>4, <1>9, <2>1
<1>11. /\ \A i \in 1 .. n : e[i] = plan[i].entry /\ t[i + 1] = t[i] + plan[i].reach
       /\ e[m] = Minimum /\ lim[m] = Minimum /\ lim[1] = plan[1].entry
       /\ \A i \in 1 .. n : i # 1 => lim[i] = plan[i].max_entry
  <2>1. ASSUME NEW i \in 1 .. n PROVE t[i + 1] = t[i] + plan[i].reach
    <3>1. t[i + 1] = Travel[i] /\ t[i] = Travel[i - 1]
      BY <1>9
    <3>2. QED
      BY <1>4, <3>1
  <2>2. QED
    BY <1>6, <1>9, <2>1
<1>12. \A i \in 1 .. n : After(plan, n, i) = e[i + 1]
  <2>1. ASSUME NEW i \in 1 .. n, i # n PROVE i + 1 \in 1 .. n
    BY <1>1, <2>1
  <2>2. n + 1 = m
    BY DEF m
  <2> HIDE DEF e
  <2>3. QED
    BY <1>11, <2>1, <2>2 DEF After
<1>13. \A i \in 1 .. m : e[i] \in Nat /\ t[i] \in Nat /\ lim[i] \in Nat
  <2> HIDE DEF e, t, lim
  <2>1. QED
    BY <1>10
<1> HIDE DEF e, t, lim
<1>14. ASSUME NEW i \in 1 .. m, i # m
       PROVE  /\ t[i] <= t[i + 1] /\ e[i] + t[i] <= e[i + 1] + t[i + 1]
              /\ e[i + 1] + t[i] <= e[i] + t[i + 1]
  <2>1. i \in 1 .. n /\ i + 1 \in 1 .. m
    BY <1>9, <1>14
  <2> DEFINE a == e[i]
             b == e[i + 1]
             c == plan[i].reach
             d == t[i]
  <2>2. /\ a \in Nat /\ b \in Nat /\ c \in Nat /\ d \in Nat
        /\ t[i + 1] = d + c
    BY <1>2, <1>11, <1>13, <2>1
  <2>3. a <= b + c
    BY <1>5, <1>11, <1>12, <2>1
  <2>4. b <= a + c
    <3>1. CASE i = n
      <4>1. b = Minimum /\ Minimum <= a
        BY <1>5, <1>11, <2>1, <3>1 DEF m
      <4> HIDE DEF a, b, c
      <4>2. QED
        BY <1>3, <2>2, <4>1
    <3>2. CASE i # n
      <4>1. i < n /\ i + 1 \in 1 .. n
        BY <1>1, <2>1, <3>2
      <4>2. QED
        BY <1>5, <1>11, <2>1, <4>1
    <3>3. QED
      BY <3>1, <3>2
  <2> HIDE DEF a, b, c, d
  <2>5. d <= d + c /\ a + d <= b + (d + c) /\ b + d <= a + (d + c)
    BY <2>2, <2>3, <2>4
  <2>6. QED
    BY <2>2, <2>5 DEF a, b, d
<1>15. ASSUME NEW j \in 1 .. m PROVE e[j] <= lim[j]
  <2>1. CASE j = m
    BY <1>3, <1>11, <2>1
  <2>2. CASE j = 1
    BY <1>2, <1>9, <1>11, <2>2
  <2>3. CASE j # m /\ j # 1
    <3>1. j \in 1 .. n
      BY <1>9, <2>3
    <3>2. QED
      BY <1>2, <1>11, <2>3, <3>1
  <2>4. QED
    BY <2>1, <2>2, <2>3
<1>16. e[1] = lim[1]
  BY <1>9, <1>11
<1>17. ASSUME NEW i \in 1 .. m, i # 1
       PROVE  \/ e[i] + t[i - 1] = e[i - 1] + t[i]
              \/ \E j \in i .. m : e[i] + t[i] = lim[j] + t[j]
  <2>1. CASE i = m
    <3>1. m \in i .. m
      BY <1>9, <2>1
    <3>2. QED
      BY <1>11, <2>1, <3>1
  <2>2. CASE i # m
    <3>1. i \in 2 .. n /\ i \in 1 .. n /\ i - 1 \in 1 .. n /\ i - 1 + 1 = i
      BY <1>1, <1>9, <1>17, <2>2
    <3>2. CASE plan[i].entry = plan[i - 1].entry + plan[i - 1].reach
      <4> DEFINE a == e[i]
                 b == e[i - 1]
                 c == plan[i - 1].reach
                 d == t[i - 1]
      <4>1. /\ b \in Nat /\ c \in Nat /\ d \in Nat /\ a = b + c /\ t[i] = d + c
        BY <1>2, <1>9, <1>11, <1>13, <3>1, <3>2
      <4> HIDE DEF a, b, c, d
      <4>2. a + d = b + (d + c)
        BY <4>1
      <4>3. QED
        BY <4>1, <4>2 DEF a, b, d
    <3>3. ASSUME NEW j \in i .. n, Braking(plan, i, j)
          PROVE  \E h \in i .. m : e[i] + t[i] = lim[h] + t[h]
      <4> DEFINE u == [k \in 1 .. m |-> e[k] + t[k]]
      <4>0. u \in [1 .. m -> Int]
        BY <1>10
      <4>1. /\ i <= j /\ j \in 1 .. m /\ j \in 1 .. n /\ j \in i .. m /\ m \in i .. m
            /\ j # 1
        BY <1>1, <1>9, <3>1 DEF m
      <4>2. ASSUME NEW k \in 1 .. n, e[k] = e[k + 1] + plan[k].reach
            PROVE  u[k] = u[k + 1]
        <5> DEFINE a == e[k]
                   b == e[k + 1]
                   c == plan[k].reach
                   d == t[k]
        <5>1. /\ k \in 1 .. m /\ k + 1 \in 1 .. m
              /\ b \in Nat /\ c \in Nat /\ d \in Nat /\ a = b + c /\ t[k + 1] = d + c
          BY <1>2, <1>9, <1>11, <1>13, <4>2
        <5>2. u[k] = a + d /\ u[k + 1] = b + (d + c)
          BY <5>1
        <5> HIDE DEF a, b, c, d, u
        <5>3. QED
          BY <5>1, <5>2
      <4>3. u[i] = e[i] + t[i] /\ u[j] = e[j] + t[j] /\ u[m] = e[m] + t[m] /\ i \in 1 .. m
        BY <1>9, <3>1, <4>1
      <4> HIDE DEF u
      <4>4. ASSUME NEW k \in i .. j - 1 PROVE u[k] = u[k + 1]
        <5>1. k \in 1 .. n /\ k + 1 \in 1 .. n
          BY <1>1, <3>1, <4>1
        <5>2. plan[k].entry = plan[k + 1].entry + plan[k].reach
          BY <3>3 DEF Braking
        <5>3. QED
          BY <1>11, <4>2, <5>1, <5>2
      <4>5. u[i] = u[j]
        <5>1. m \in Nat /\ i \in 1 .. m /\ j \in 1 .. m /\ i <= j
          BY <1>9, <4>1, <4>3
        <5>2. \A k \in i .. j - 1 : u[k] = u[k + 1]
          BY <4>4
        <5>3. QED
          BY <4>0, <5>1, <5>2, Steady
      <4>6. CASE plan[j].entry = plan[j].max_entry
        <5>1. e[j] = lim[j]
          BY <1>11, <4>1, <4>6
        <5>2. QED
          BY <4>1, <4>3, <4>5, <5>1
      <4>7. CASE j = n /\ plan[j].entry = Minimum + plan[j].reach
        <5>1. e[j] = e[j + 1] + plan[j].reach /\ j + 1 = m
          BY <1>11, <4>1, <4>7 DEF m
        <5>2. u[j] = u[m]
          BY <4>1, <4>2, <5>1
        <5>3. e[m] = lim[m]
          BY <1>11
        <5>4. QED
          BY <4>1, <4>3, <4>5, <5>2, <5>3
      <4>8. QED
        BY <1>8, <3>3, <4>6, <4>7 DEF Braking
    <3>4. QED
      BY <1>7, <3>1, <3>2, <3>3
  <2>3. QED
    BY <2>1, <2>2
<1>18. \A i \in 1 .. m : /\ \A j \in 1 .. m : e[i] <= lim[j] + Gap(t, i, j)
                         /\ \E j \in 1 .. m : e[i] = lim[j] + Gap(t, i, j)
  <2>1. m \in Nat
    BY <1>9
  <2>2. /\ \A i \in 1 .. m : i # m => t[i] <= t[i + 1]
        /\ \A i \in 1 .. m : i # m => e[i] + t[i] <= e[i + 1] + t[i + 1]
        /\ \A i \in 1 .. m : i # m => e[i + 1] + t[i] <= e[i] + t[i + 1]
    BY <1>14
  <2>3. \A i \in 1 .. m : i # 1 => \/ e[i] + t[i - 1] = e[i - 1] + t[i]
                                   \/ \E j \in i .. m : e[i] + t[i] = lim[j] + t[j]
    BY <1>17
  <2>4. QED
    BY <1>10, <1>15, <1>16, <2>1, <2>2, <2>3, Envelope
<1> DEFINE S == {Limit(j) + (IF x <= j THEN Between(x, j) ELSE Between(j, x)) :
                   j \in 1 .. Len(plan) + 1}
<1>19. \A j \in 1 .. m : Limit(j) + (IF x <= j THEN Between(x, j) ELSE Between(j, x))
                          = lim[j] + Gap(t, x, j)
  <2>1. ASSUME NEW j \in 1 .. m PROVE Limit(j) = lim[j] /\ t[j] = Travel[j - 1]
    BY DEF lim, t
  <2>2. x \in 1 .. m
    BY <1>1, <1>9
  <2>3. QED
    BY <2>1, <2>2 DEF Between, Gap
<1>20. S = {lim[j] + Gap(t, x, j) : j \in 1 .. m}
  BY <1>8, <1>19 DEF m
<1>21. x \in 1 .. m /\ e[x] = plan[x].entry /\ e[x] \in Nat
  BY <1>1, <1>9, <1>11, <1>13
<1>22. e[x] \in S /\ \A y \in S : e[x] <= y
  BY <1>18, <1>20, <1>21
<1>23. S \subseteq Nat
  <2>1. ASSUME NEW j \in 1 .. m PROVE lim[j] + Gap(t, x, j) \in Int
    BY <1>13, <1>21 DEF Gap
  <2>2. ASSUME NEW y \in Int, e[x] <= y PROVE y \in Nat
    <3> DEFINE a == e[x]
    <3>1. a \in Nat /\ a <= y
      BY <1>21, <2>2
    <3> HIDE DEF a
    <3>2. QED
      BY <3>1
  <2>3. \A j \in 1 .. m : lim[j] + Gap(t, x, j) \in Nat
    BY <1>18, <1>21, <2>1, <2>2
  <2>4. QED
    BY <1>20, <2>3
<1>24. Fastest(x) = Min(S)
  BY DEF Fastest
<1> HIDE DEF S
<1>25. Min(S) \in S /\ \A y \in S : Min(S) <= y
  <2>1. S \in SUBSET Nat /\ S # {}
    BY <1>22, <1>23
  <2>2. QED
    BY <2>1, MinNat
<1>26. Min(S) = e[x]
  <2>1. Min(S) \in Nat /\ Min(S) <= e[x] /\ e[x] <= Min(S)
    BY <1>22, <1>23, <1>25
  <2> DEFINE a == e[x]
             s == Min(S)
  <2>2. s \in Nat /\ a \in Nat /\ s <= a /\ a <= s
    BY <1>21, <2>1
  <2> HIDE DEF a, s
  <2>3. s = a
    BY <2>2
  <2>4. QED
    BY <2>3 DEF a, s
<1>27. QED
  BY <1>21, <1>24, <1>26

\* Two passes that skip blocks and start from the plan before compute the
\* fastest plan there is: every junction at the lower envelope of all limits.
THEOREM SpeedsFastest == Spec => []PlanIsFastest
<1>1. IInv => PlanIsFastest
  <2> SUFFICES ASSUME IInv, Planned, \A i \in 1 .. Len(plan) : plan[i].move,
                      NEW x \in 1 .. Len(plan)
               PROVE  plan[x].entry = Fastest(x)
    BY DEF PlanIsFastest
  <2>1. plan \in Seq(Blocks) /\ Lines(plan) /\ Feasible(plan, Len(plan)) /\ Attained(plan)
    BY DEF IInv, TypeOK, Planned, Fast
  <2>2. QED
    BY <2>1, FastestIs
<1>2. QED
  BY <1>1, SpeedsInvariant, PTL

=============================================================================
