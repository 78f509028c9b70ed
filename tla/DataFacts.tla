----------------------------- MODULE DataFacts -----------------------------
(***************************************************************************)
(* Facts about numbers and recursion that the proofs of several components *)
(* need.  They are first-order: induction is stated over a set of numbers, *)
(* the set of those for which a claim holds.                               *)
(***************************************************************************)
EXTENDS Integers, SequencesExt, SequenceTheorems, WellFoundedInduction, TLAPS

LessThan == {r \in Nat \X Nat : r[1] < r[2]}

\* Every set of natural numbers that is not empty has a least element.
LEMMA LeastNat ==
  ASSUME NEW T \in SUBSET Nat, T # {}
  PROVE  \E x \in T : \A y \in T : x <= y
<1>1. IsWellFoundedOn(LessThan, Nat)
  BY NatLessThanWellFounded DEF OpToRel, LessThan
<1>2. PICK x \in T : \A y \in T : ~(<<y, x>> \in LessThan)
  BY <1>1, WFMin
<1>3. ASSUME NEW y \in T PROVE x <= y
  <2>1. <<y, x>> \in Nat \X Nat
    OBVIOUS
  <2>2. ~(y < x)
    BY <1>2, <2>1 DEF LessThan
  <2>3. QED
    BY <2>2
<1>4. QED
  BY <1>3

\* Min, as FiniteSetsExt defines it, is that element.
LEMMA MinNat ==
  ASSUME NEW T \in SUBSET Nat, T # {}
  PROVE  Min(T) \in T /\ \A y \in T : Min(T) <= y
BY LeastNat DEF Min

\* Min and Max of two integers.
LEMMA MinPair ==
  ASSUME NEW a \in Int, NEW b \in Int
  PROVE  Min({a, b}) = IF a <= b THEN a ELSE b
<1>1. ASSUME a <= b PROVE Min({a, b}) = a
  BY <1>1 DEF Min
<1>2. ASSUME ~(a <= b) PROVE Min({a, b}) = b
  BY <1>2 DEF Min
<1>3. QED
  BY <1>1, <1>2

\* A set with 0 and with the successor of each of its numbers below n has all
\* numbers up to n.
LEMMA IntervalInduction ==
  ASSUME NEW n \in Nat, NEW T,
         0 \in T, \A i \in 0 .. n - 1 : i \in T => i + 1 \in T
  PROVE  0 .. n \subseteq T
<1> DEFINE U == (0 .. n) \ T
<1> SUFFICES ASSUME U # {} PROVE FALSE
  OBVIOUS
<1>1. PICK x \in U : \A y \in U : x <= y
  <2>1. U \in SUBSET Nat
    OBVIOUS
  <2> HIDE DEF U
  <2>2. QED
    BY <2>1, LeastNat
<1>2. x \in 0 .. n /\ x # 0 /\ x - 1 \in 0 .. n - 1
  OBVIOUS
<1>3. x - 1 \in T
  BY <1>1, <1>2
<1>4. x - 1 + 1 = x
  BY <1>2
<1>5. QED
  BY <1>2, <1>3, <1>4

\* f[i] is what i steps make of base.
FoldsTo(f, n, base, step) ==
  f[0] = base /\ \A i \in 1 .. n : f[i] = step[<<f[i - 1], i>>]

\* A recursive definition over the numbers up to n defines a function: each
\* value is a step from the one before.
LEMMA FoldDefined ==
  ASSUME NEW n \in Nat, NEW S, NEW base \in S,
         NEW step \in [S \X (1 .. n) -> S]
  PROVE  \E f \in [0 .. n -> S] : FoldsTo(f, n, base, step)
<1> DEFINE Works(f, m) == FoldsTo(f, m, base, step)
           T == {m \in 0 .. n : \E f \in [0 .. m -> S] : Works(f, m)}
<1>1. 0 \in T
  <2>1. [i \in 0 .. 0 |-> base] \in [0 .. 0 -> S]
    OBVIOUS
  <2>2. Works([i \in 0 .. 0 |-> base], 0)
    BY DEF FoldsTo
  <2>3. \E f \in [0 .. 0 -> S] : Works(f, 0)
    BY <2>1, <2>2
  <2>4. 0 \in 0 .. n
    OBVIOUS
  <2> HIDE DEF Works
  <2>5. QED
    BY <2>3, <2>4
<1>2. ASSUME NEW m \in 0 .. n - 1, m \in T PROVE m + 1 \in T
  <2>1. PICK f \in [0 .. m -> S] : Works(f, m)
    BY <1>2
  <2>2. m + 1 \in 1 .. n /\ f[m] \in S
    OBVIOUS
  <2> DEFINE v == step[<<f[m], m + 1>>]
             g == [i \in 0 .. m + 1 |-> IF i = m + 1 THEN v ELSE f[i]]
  <2>3. v \in S
    BY <2>2
  <2>4. g \in [0 .. m + 1 -> S]
    BY <2>3
  <2>5. g[0] = base
    BY <2>1 DEF FoldsTo
  <2>6. ASSUME NEW i \in 1 .. m + 1 PROVE g[i] = step[<<g[i - 1], i>>]
    <3>1. i - 1 \in 0 .. m /\ g[i - 1] = f[i - 1]
      OBVIOUS
    <3>2. CASE i = m + 1
      <4>1. i - 1 = m /\ g[i] = v
        BY <3>2
      <4>2. QED
        BY <3>1, <3>2, <4>1
    <3>3. CASE i # m + 1
      <4>1. i \in 1 .. m /\ g[i] = f[i]
        BY <3>3
      <4>2. QED
        BY <2>1, <3>1, <4>1 DEF FoldsTo
    <3>4. QED
      BY <3>2, <3>3
  <2>7. \E h \in [0 .. m + 1 -> S] : Works(h, m + 1)
    <3>1. Works(g, m + 1)
      BY <2>5, <2>6 DEF FoldsTo
    <3> HIDE DEF Works, g
    <3>2. QED
      BY <2>4, <3>1
  <2>8. m + 1 \in 0 .. n
    OBVIOUS
  <2> HIDE DEF Works
  <2>9. QED
    BY <2>7, <2>8
<1>3. n \in T
  <2> HIDE DEF T
  <2>1. QED
    BY <1>1, <1>2, IntervalInduction
<1>4. QED
  BY <1>3

\* The same from 1 upwards ...
LEMMA UpInduction ==
  ASSUME NEW n \in Nat, NEW T,
         1 <= n => 1 \in T, \A i \in 1 .. n : i # 1 /\ i - 1 \in T => i \in T
  PROVE  1 .. n \subseteq T
<1> DEFINE U == (1 .. n) \ T
<1> SUFFICES ASSUME U # {} PROVE FALSE
  OBVIOUS
<1>1. PICK x \in U : \A y \in U : x <= y
  <2>1. U \in SUBSET Nat
    OBVIOUS
  <2> HIDE DEF U
  <2>2. QED
    BY <2>1, LeastNat
<1>2. x \in 1 .. n /\ x # 1 /\ x - 1 \in 1 .. n /\ ~(x <= x - 1)
  OBVIOUS
<1>3. x - 1 \in T
  BY <1>1, <1>2
<1>4. QED
  BY <1>2, <1>3

\* ... and from n downwards.
LEMMA DownInduction ==
  ASSUME NEW n \in Nat, NEW T,
         1 <= n => n \in T, \A i \in 1 .. n : i # n /\ i + 1 \in T => i \in T
  PROVE  1 .. n \subseteq T
<1> DEFINE D == {k \in 0 .. n : k >= 1 => n + 1 - k \in T}
<1>1. 0 \in D
  OBVIOUS
<1>2. ASSUME NEW k \in 0 .. n - 1, k \in D PROVE k + 1 \in D
  <2>1. k + 1 \in 0 .. n /\ n + 1 - (k + 1) = n - k /\ n - k \in 1 .. n /\ n \in 1 .. n
    OBVIOUS
  <2>2. PICK i \in 1 .. n : i = n - k
    BY <2>1
  <2>3. i \in T
    <3>1. CASE i = n
      BY <2>1, <3>1
    <3>2. CASE i # n
      <4>1. k >= 1 /\ i + 1 = n + 1 - k
        BY <2>2, <3>2
      <4>2. i + 1 \in T
        BY <1>2, <4>1
      <4>3. QED
        BY <3>2, <4>2
    <3>3. QED
      BY <3>1, <3>2
  <2>4. QED
    BY <2>1, <2>2, <2>3
<1>3. 0 .. n \subseteq D
  <2> HIDE DEF D
  <2>1. QED
    BY <1>1, <1>2, IntervalInduction
<1>4. ASSUME NEW i \in 1 .. n PROVE i \in T
  <2>1. n + 1 - i \in 0 .. n /\ n + 1 - i >= 1 /\ n + 1 - (n + 1 - i) = i
    OBVIOUS
  <2>2. QED
    BY <1>3, <2>1
<1>5. QED
  BY <1>4

-----------------------------------------------------------------------------
(* Sequences.                                                              *)

\* r is q with x put before position at.
PutBefore(r, q, at, x) ==
  /\ Len(r) = Len(q) + 1
  /\ \A i \in 1 .. Len(q) + 1 :
       r[i] = IF i < at THEN q[i] ELSE IF i = at THEN x ELSE q[i - 1]

LEMMA InsertAtFacts ==
  ASSUME NEW S, NEW q \in Seq(S), NEW at \in 1 .. Len(q) + 1, NEW x \in S
  PROVE  InsertAt(q, at, x) \in Seq(S) /\ PutBefore(InsertAt(q, at, x), q, at, x)
<1> DEFINE a == SubSeq(q, 1, at - 1)
           b == SubSeq(q, at, Len(q))
           one == <<x>>
           ax == a \o one
           r == ax \o b
           n == Len(q)
<1>1. n \in Nat /\ at \in Nat /\ at >= 1 /\ at <= n + 1 /\ \A i \in 1 .. n : q[i] \in S
  OBVIOUS
<1>2. /\ a \in Seq(S) /\ Len(a) = at - 1
      /\ \A i \in 1 .. at - 1 : a[i] = q[i]
  <2>1. \A i \in 1 .. at - 1 : q[i] \in S
    BY <1>1
  <2>2. QED
    BY <1>1, <2>1, SubSeqProperties
<1>3. /\ b \in Seq(S) /\ Len(b) = (n + 1) - at
      /\ \A i \in 1 .. (n + 1) - at : b[i] = q[(at + i) - 1]
  <2>1. \A i \in at .. n : q[i] \in S
    BY <1>1
  <2>2. QED
    BY <1>1, <2>1, SubSeqProperties
<1>4. one \in Seq(S) /\ Len(one) = 1 /\ one[1] = x
  OBVIOUS
<1> HIDE DEF a, b, one
<1>5. /\ ax \in Seq(S) /\ Len(ax) = at /\ ax[at] = x
      /\ \A i \in 1 .. at - 1 : ax[i] = q[i]
  <2>1. /\ ax \in Seq(S) /\ Len(ax) = Len(a) + Len(one)
        /\ \A i \in 1 .. Len(a) + Len(one) :
             ax[i] = IF i <= Len(a) THEN a[i] ELSE one[i - Len(a)]
    BY <1>2, <1>4, ConcatProperties
  <2>2. /\ Len(a) + Len(one) = at /\ at \in 1 .. at /\ ~(at <= at - 1)
        /\ at - (at - 1) = 1 /\ \A i \in 1 .. at - 1 : i \in 1 .. at /\ i <= at - 1
    BY <1>1, <1>2, <1>4
  <2> HIDE DEF ax
  <2>3. ax[at] = one[1]
    BY <1>2, <2>1, <2>2
  <2>4. QED
    BY <1>2, <1>4, <2>1, <2>2, <2>3
<1> HIDE DEF ax
<1>6. /\ r \in Seq(S) /\ Len(r) = n + 1
      /\ \A i \in 1 .. n + 1 : r[i] = IF i <= at THEN ax[i] ELSE b[i - at]
  <2>1. /\ r \in Seq(S) /\ Len(r) = Len(ax) + Len(b)
        /\ \A i \in 1 .. Len(ax) + Len(b) :
             r[i] = IF i <= Len(ax) THEN ax[i] ELSE b[i - Len(ax)]
    BY <1>3, <1>5, ConcatProperties
  <2>2. Len(ax) + Len(b) = n + 1
    BY <1>1, <1>3, <1>5
  <2> HIDE DEF r, n
  <2>3. QED
    BY <1>5, <2>1, <2>2
<1>7. InsertAt(q, at, x) = r
  BY DEF InsertAt, a, b, one, ax
<1> HIDE DEF r
<1>8. ASSUME NEW i \in 1 .. n + 1
      PROVE  r[i] = IF i < at THEN q[i] ELSE IF i = at THEN x ELSE q[i - 1]
  <2>1. CASE i < at
    BY <1>1, <1>5, <1>6, <2>1
  <2>2. CASE i = at
    BY <1>1, <1>5, <1>6, <2>2
  <2>3. CASE i > at
    <3>1. PICK j \in 1 .. (n + 1) - at : i - at = j /\ (at + j) - 1 = i - 1
      BY <1>1, <2>3
    <3>2. ~(i <= at) /\ ~(i < at) /\ i # at
      BY <1>1, <2>3
    <3>3. r[i] = b[j]
      BY <1>6, <3>1, <3>2
    <3>4. b[j] = q[i - 1]
      BY <1>3, <3>1
    <3>5. QED
      BY <3>2, <3>3, <3>4
  <2>4. QED
    BY <1>1, <2>1, <2>2, <2>3
<1>9. QED
  BY <1>6, <1>7, <1>8 DEF PutBefore

\* ... and without its element at position at.
LEMMA RemoveAtFacts ==
  ASSUME NEW S, NEW q \in Seq(S), NEW at \in 1 .. Len(q)
  PROVE  /\ RemoveAt(q, at) \in Seq(S) /\ Len(RemoveAt(q, at)) = Len(q) - 1
         /\ \A i \in 1 .. Len(q) - 1 :
              RemoveAt(q, at)[i] = IF i < at THEN q[i] ELSE q[i + 1]
<1> DEFINE a == SubSeq(q, 1, at - 1)
           b == SubSeq(q, at + 1, Len(q))
           r == a \o b
           n == Len(q)
<1>1. n \in Nat /\ at \in Nat /\ at >= 1 /\ at <= n /\ \A i \in 1 .. n : q[i] \in S
  OBVIOUS
<1>2. /\ a \in Seq(S) /\ Len(a) = at - 1
      /\ \A i \in 1 .. at - 1 : a[i] = q[i]
  <2>1. \A i \in 1 .. at - 1 : q[i] \in S
    BY <1>1
  <2>2. QED
    BY <1>1, <2>1, SubSeqProperties
<1>3. /\ b \in Seq(S) /\ Len(b) = n - at
      /\ \A i \in 1 .. n - at : b[i] = q[((at + 1) + i) - 1]
  <2>1. \A i \in at + 1 .. n : q[i] \in S
    BY <1>1
  <2>2. QED
    BY <1>1, <2>1, SubSeqProperties
<1> HIDE DEF a, b
<1>6. /\ r \in Seq(S) /\ Len(r) = n - 1
      /\ \A i \in 1 .. n - 1 : r[i] = IF i <= at - 1 THEN a[i] ELSE b[i - (at - 1)]
  <2>1. /\ r \in Seq(S) /\ Len(r) = Len(a) + Len(b)
        /\ \A i \in 1 .. Len(a) + Len(b) :
             r[i] = IF i <= Len(a) THEN a[i] ELSE b[i - Len(a)]
    BY <1>2, <1>3, ConcatProperties
  <2>2. Len(a) + Len(b) = n - 1
    BY <1>1, <1>2, <1>3
  <2> HIDE DEF r, n
  <2>3. QED
    BY <1>2, <2>1, <2>2
<1>7. RemoveAt(q, at) = r
  BY DEF RemoveAt, a, b
<1> HIDE DEF r
<1>8. ASSUME NEW i \in 1 .. n - 1
      PROVE  r[i] = IF i < at THEN q[i] ELSE q[i + 1]
  <2>1. CASE i < at
    BY <1>1, <1>2, <1>6, <2>1
  <2>2. CASE i >= at
    <3>1. PICK j \in 1 .. n - at : i - (at - 1) = j /\ ((at + 1) + j) - 1 = i + 1
      BY <1>1, <2>2
    <3>2. ~(i <= at - 1) /\ ~(i < at)
      BY <1>1, <2>2
    <3>3. r[i] = b[j]
      BY <1>6, <3>1, <3>2
    <3>4. b[j] = q[i + 1]
      BY <1>3, <3>1
    <3>5. QED
      BY <3>2, <3>3, <3>4
  <2>3. QED
    BY <1>1, <2>1, <2>2
<1>9. QED
  BY <1>6, <1>7, <1>8

\* Sequence t with row in place of its elements from .. to.
Splice(t, from, to, row) == SubSeq(t, 1, from - 1) \o row \o SubSeq(t, to + 1, Len(t))

Spliced(q, t, from, to, row) ==
  /\ Len(q) = (from - 1) + Len(row) + (Len(t) - to)
  /\ \A i \in 1 .. Len(q) :
       q[i] = IF i < from THEN t[i]
              ELSE IF i < from + Len(row) THEN row[(i - from) + 1]
              ELSE t[(i - (from - 1) - Len(row)) + to]

LEMMA SplicedIs ==
  ASSUME NEW S, NEW t \in Seq(S), NEW row \in Seq(S), NEW q \in Seq(S),
         NEW from \in 1 .. Len(t), NEW to \in 1 .. Len(t), Spliced(q, t, from, to, row)
  PROVE  q = Splice(t, from, to, row)
<1>1. PICK n, m \in Nat : n = Len(t) /\ m = Len(row)
  OBVIOUS
<1>2. PICK a, b, ar, r : /\ a = SubSeq(t, 1, from - 1) /\ b = SubSeq(t, to + 1, Len(t))
                         /\ ar = a \o row /\ r = ar \o b
  OBVIOUS
<1>3. from \in Nat /\ from >= 1 /\ from <= n /\ to \in Nat /\ to >= 1 /\ to <= n
  BY <1>1
<1>4. \A i \in 1 .. n : t[i] \in S
  BY <1>1
<1>5. /\ a \in Seq(S) /\ Len(a) = from - 1
      /\ \A i \in 1 .. from - 1 : a[i] = t[i]
  <2>1. \A i \in 1 .. from - 1 : t[i] \in S
    BY <1>3, <1>4
  <2>2. QED
    BY <1>2, <1>3, <2>1, SubSeqProperties
<1>6. /\ b \in Seq(S) /\ Len(b) = n - to
      /\ \A i \in 1 .. n - to : b[i] = t[i + to]
  <2>1. PICK x \in Int : x = to + 1
    BY <1>3
  <2>2. \A i \in x .. n : t[i] \in S
    BY <1>3, <1>4, <2>1
  <2>3. /\ SubSeq(t, x, n) \in Seq(S)
        /\ Len(SubSeq(t, x, n)) = IF x <= n THEN n - x + 1 ELSE 0
        /\ \A i \in 1 .. n - x + 1 : SubSeq(t, x, n)[i] = t[x + i - 1]
    BY <2>2, SubSeqProperties
  <2>4. b = SubSeq(t, x, n)
    BY <1>1, <1>2, <2>1
  <2>5. /\ n - x + 1 = n - to /\ (IF x <= n THEN n - x + 1 ELSE 0) = n - to
        /\ \A i \in 1 .. n - to : x + i - 1 = i + to
    BY <1>3, <2>1
  <2>6. QED
    BY <2>3, <2>4, <2>5
<1>7. /\ ar \in Seq(S) /\ Len(ar) = (from - 1) + m
      /\ \A i \in 1 .. (from - 1) + m :
           ar[i] = IF i <= from - 1 THEN a[i] ELSE row[i - (from - 1)]
  <2>1. /\ ar \in Seq(S) /\ Len(ar) = Len(a) + Len(row)
        /\ \A i \in 1 .. Len(a) + Len(row) :
             ar[i] = IF i <= Len(a) THEN a[i] ELSE row[i - Len(a)]
    BY <1>2, <1>5, ConcatProperties
  <2>2. QED
    BY <1>1, <1>5, <2>1
<1>8. PICK c \in Nat : c = (from - 1) + m
  <2>1. (from - 1) + m \in Nat
    BY <1>3
  <2>2. QED
    BY <2>1
<1>9. /\ r \in Seq(S) /\ Len(r) = c + (n - to)
      /\ \A i \in 1 .. c + (n - to) : r[i] = IF i <= c THEN ar[i] ELSE b[i - c]
  <2>1. /\ r \in Seq(S) /\ Len(r) = Len(ar) + Len(b)
        /\ \A i \in 1 .. Len(ar) + Len(b) :
             r[i] = IF i <= Len(ar) THEN ar[i] ELSE b[i - Len(ar)]
    <3>1. ar \in Seq(S) /\ b \in Seq(S) /\ r = ar \o b
      BY <1>2, <1>6, <1>7
    <3>2. QED
      BY <3>1, ConcatProperties
  <2>2. QED
    BY <1>6, <1>7, <1>8, <2>1
<1>10. Len(q) = c + (n - to)
  BY <1>1, <1>8 DEF Spliced
<1>11. ASSUME NEW i \in 1 .. c + (n - to) PROVE q[i] = r[i]
  <2>0. q[i] = IF i < from THEN t[i]
               ELSE IF i < from + m THEN row[(i - from) + 1]
               ELSE t[(i - (from - 1) - m) + to]
    BY <1>1, <1>10 DEF Spliced
  <2>00. i \in Int /\ i >= 1 /\ i <= c + (n - to)
    BY <1>3, <1>8
  <2>1. CASE i < from
    <3>1. i \in 1 .. from - 1 /\ i <= from - 1 /\ i <= c /\ i \in 1 .. (from - 1) + m
      BY <1>1, <1>3, <1>8, <2>1, <2>00
    <3>2. r[i] = ar[i] /\ ar[i] = a[i] /\ a[i] = t[i]
      BY <1>5, <1>7, <1>9, <3>1
    <3>3. QED
      BY <2>0, <2>1, <3>2
  <2>2. CASE ~(i < from) /\ i < from + m
    <3>1. ~(i <= from - 1) /\ i <= c /\ i \in 1 .. (from - 1) + m /\ i - (from - 1) = (i - from) + 1
      BY <1>1, <1>3, <1>8, <2>2, <2>00
    <3>2. r[i] = ar[i] /\ ar[i] = row[i - (from - 1)]
      BY <1>7, <1>9, <3>1
    <3>3. QED
      BY <2>0, <2>2, <3>1, <3>2
  <2>3. CASE ~(i < from) /\ ~(i < from + m)
    <3>1. ~(i <= c) /\ i - c \in 1 .. n - to /\ (i - c) + to = (i - (from - 1) - m) + to
      BY <1>1, <1>3, <1>8, <2>3, <2>00
    <3>2. r[i] = b[i - c] /\ b[i - c] = t[(i - c) + to]
      BY <1>6, <1>9, <3>1
    <3>3. QED
      BY <2>0, <2>3, <3>1, <3>2
  <2>4. QED
    BY <2>1, <2>2, <2>3
<1>12. q = r
  BY <1>9, <1>10, <1>11, SeqEqual
<1>13. QED
  BY <1>2, <1>12 DEF Splice

=============================================================================
