----------------------------- MODULE KernelHeap -----------------------------
(***************************************************************************)
(* The CoOS kernel heap, CoOS/kernel/kernelHeap.c, word by word.           *)
(*                                                                         *)
(* A used block starts with two links, nextMB and preMB; a free block with *)
(* three, nextFMB, nextUMB and preUMB, at the same addresses.  A link to a *)
(* used block is tagged in its lowest bit.  Both functions work under      *)
(* OsSchedLock and no interrupt calls them, so each is one step.           *)
(*                                                                         *)
(* Addresses count words from 1; a pointer is twice the address, plus the  *)
(* tag; 0 is Co_NULL.  The owner of a block fills all it asked for with    *)
(* USER.                                                                   *)
(***************************************************************************)
EXTENDS Integers, FiniteSets, FiniteSetsExt

CONSTANTS
  KHEAP_SIZE,   \* words in the heap
  Requests      \* sizes asked for, in bytes

ASSUME HeapAssumption ==
  KHEAP_SIZE \in Nat /\ KHEAP_SIZE >= 3 /\ Requests \subseteq Nat

\* No request is so near to 2^32 bytes that its size with the header, a U32,
\* wraps: CoKmalloc would grant it with a block of two words.
ASSUME WidthAssumption == \A n \in Requests : (n + 3) \div 4 + 2 < 2^30

VARIABLES
  mem,       \* KernelHeap
  FMBlist,   \* first free block
  live       \* history: blocks handed out and not released, with their data

heapVars == <<mem, FMBlist, live>>

USER == -1
NULL == 0
End == KHEAP_SIZE + 1

FMB(a) == 2 * a              \* pointer to a free block
UMB(a) == 2 * a + 1          \* tagged pointer to a used block
IsUMB(p) == p % 2 = 1
Addr(p) == p \div 2

nextMB(a) == a
preMB(a) == a + 1
nextFMB(a) == a
nextUMB(a) == a + 1
preUMB(a) == a + 2

\* Memory m after the store of v at a, if cond.
Put(m, cond, a, v) == IF cond THEN [m EXCEPT ![a] = v] ELSE m

\* Words of a block for a request of n bytes: aligned, plus the header.
Words(n) == (n + 3) \div 4 + 2

\* The words the owner of n bytes at block a may write to.
Data(a, n) == a + 2 .. a + 1 + (n + 3) \div 4

-----------------------------------------------------------------------------
(* Walks along the links: the pointers met, step by step.  A walk stays    *)
(* where it ends, and as a block has three words at least it ends in time  *)
(* (KernelProofs).                                                         *)

Word(a) == IF a \in DOMAIN mem THEN mem[a] ELSE NULL
LastStep == KHEAP_SIZE \div 3 + 1
Steps == 1 .. LastStep

Walk(first, next) ==
  LET met[i \in Steps] == IF i = 1 THEN first ELSE next[met[i - 1]]
  IN  met

\* Along the free list.
FreeWalk ==
  Walk(FMBlist, [p \in Int |-> IF p = NULL THEN NULL ELSE Word(nextFMB(Addr(p)))])

\* Through all blocks, in address order.
BlockWalk ==
  Walk(IF FMBlist = FMB(1) THEN FMB(1) ELSE UMB(1),
       [p \in Int |-> IF p = NULL THEN NULL
                      ELSE IF IsUMB(p) THEN Word(nextMB(Addr(p)))
                      ELSE Word(nextUMB(Addr(p)))])

\* Back along used blocks to the free one before them, or Co_NULL.
GetPreFMB(u) ==
  LET walk == Walk(Word(preMB(u)),
                   [p \in Int |-> IF IsUMB(p) THEN Word(preMB(Addr(p))) ELSE p])
  IN  walk[LastStep]

FreeSize(f) ==
  (IF mem[nextUMB(f)] = NULL THEN End ELSE Addr(mem[nextUMB(f)])) - f

-----------------------------------------------------------------------------
\* CoCreateKheap
HeapInit ==
  /\ mem = [a \in 1 .. KHEAP_SIZE |-> 0]
  /\ FMBlist = FMB(1)
  /\ live = {}

\* The rest of free block f is too small to be a free block.
TooSmall(f, size) == FreeSize(f) - size < 3

\* The links of f when it is used, and of the rest when it is a free block.
SplitLinks(m, f, size) ==
  LET new == f + size IN
  [m EXCEPT ![preUMB(new)] = UMB(f), ![nextUMB(new)] = mem[nextUMB(f)],
            ![nextFMB(new)] = mem[nextFMB(f)],
            ![nextMB(f)] = FMB(new), ![preMB(f)] = mem[preUMB(f)]]

\* Variant with a defect: the block after the rest is not told of it.
SplitQuietly(m, f, size) == SplitLinks(m, f, size)

\* Free block f becomes a used one, with a new free block behind.
Split(m, f, size) ==
  SplitLinks(Put(m, mem[nextUMB(f)] # NULL, preMB(Addr(mem[nextUMB(f)])), FMB(f + size)),
             f, size)

\* All of free block f becomes a used one.
Whole(m, f) ==
  [Put(m, mem[nextUMB(f)] # NULL, preMB(Addr(mem[nextUMB(f)])), UMB(f))
     EXCEPT ![nextMB(f)] = mem[nextUMB(f)], ![preMB(f)] = mem[preUMB(f)]]

\* The owner writes to all it has asked for.
Filled(m, f, n) == [a \in DOMAIN m |-> IF a \in Data(f, n) THEN USER ELSE m[a]]

\* The steps of the walk at which a free block is large enough.
FitsAt(size) ==
  LET walk == FreeWalk
  IN  {i \in Steps : walk[i] # NULL /\ FreeSize(Addr(walk[i])) >= size}

\* First fit, along the free list; prev is the free block before it.
CoKmalloc(n) ==
  LET size == Words(n)
      walk == FreeWalk
      i == Min(FitsAt(size))
      f == Addr(walk[i])
      rest == IF TooSmall(f, size) THEN mem[nextFMB(f)] ELSE FMB(f + size)
      prev == i > 1
      listed == Put(mem, prev, nextFMB(Addr(walk[i - 1])), rest)
      taken == IF TooSmall(f, size) THEN Whole(listed, f) ELSE Split(listed, f, size)
  IN  /\ n > 0 /\ FitsAt(size) # {}
      /\ mem' = Filled(Put(taken, mem[preUMB(f)] # NULL,
                           nextMB(Addr(mem[preUMB(f)])), UMB(f)), f, n)
      /\ FMBlist' = IF prev THEN FMBlist ELSE rest
      /\ live' = live \cup {[at |-> f, data |-> Data(f, n)]}

\* No free block is large enough, or nothing is asked for: Co_NULL.
CoKmallocFails(n) ==
  /\ n = 0 \/ FitsAt(Words(n)) = {}
  /\ UNCHANGED heapVars

\* The free block that holds u after its release: where it starts, its
\* links, and the new head of the free list.  pre is the free block whose
\* nextFMB must point to it.
Block(a, next, after, before, head, pre) ==
  [at |-> a, next |-> next, after |-> after, before |-> before,
   head |-> head, pre |-> pre]

Merged(u) ==
  LET nx == mem[nextMB(u)]
      pv == mem[preMB(u)]
      n == Addr(nx)
      p == Addr(pv)
      pre == GetPreFMB(u)
      succ == IF pre = NULL THEN FMBlist ELSE mem[nextFMB(Addr(pre))]
      s == Addr(succ)
      head == IF pre = NULL THEN FMB(u) ELSE FMBlist
  IN  IF ~IsUMB(nx) /\ ~IsUMB(pv)
      THEN IF nx = NULL /\ pv = NULL
           THEN Block(u, NULL, NULL, NULL, FMB(u), NULL)
           ELSE IF pv = NULL
           THEN Block(u, mem[nextFMB(n)], mem[nextUMB(n)], NULL, FMB(u), NULL)
           ELSE IF nx = NULL
           THEN Block(p, NULL, NULL, mem[preUMB(p)], FMBlist, NULL)
           ELSE Block(p, mem[nextFMB(n)], mem[nextUMB(n)], mem[preUMB(p)],
                      FMBlist, NULL)
      ELSE IF ~IsUMB(pv)
      THEN IF pv = NULL
           THEN Block(u, FMBlist, nx, NULL, FMB(u), NULL)
           ELSE Block(p, mem[nextFMB(p)], nx, mem[preUMB(p)], FMBlist, NULL)
      ELSE IF ~IsUMB(nx)
      THEN IF succ = NULL THEN Block(u, NULL, NULL, pv, head, pre)
           ELSE Block(u, mem[nextFMB(s)], mem[nextUMB(s)], pv, head, pre)
      ELSE Block(u, succ, nx, pv, head, pre)

\* The links of the free block, and the one of the free list to it.
ReleasedLinks(c) ==
  Put([mem EXCEPT ![nextFMB(c.at)] = c.next, ![nextUMB(c.at)] = c.after,
                  ![preUMB(c.at)] = c.before],
      c.pre # NULL, nextFMB(Addr(c.pre)), FMB(c.at))

\* Variant with a defect: the block before is not told of the release.
ReleasedQuietly(c) ==
  Put(ReleasedLinks(c), c.after # NULL, preMB(Addr(c.after)), FMB(c.at))

\* The memory after a release.
Released(c) ==
  Put(Put(ReleasedLinks(c), c.before # NULL, nextMB(Addr(c.before)), FMB(c.at)),
      c.after # NULL, preMB(Addr(c.after)), FMB(c.at))

\* The tests that turn away Co_NULL and pointers that were not handed out let
\* every live block pass and are left out.
CoKfree(b) ==
  /\ mem' = Released(Merged(b.at))
  /\ FMBlist' = Merged(b.at).head
  /\ live' = live \ {b}

HeapNext ==
  \/ \E n \in Requests : CoKmalloc(n) \/ CoKmallocFails(n)
  \/ \E b \in live : CoKfree(b)

HeapSpec == HeapInit /\ [][HeapNext]_heapVars

-----------------------------------------------------------------------------
(* Properties.                                                             *)

\* Words, links and what is handed out have their types.
HeapTypeOK ==
  /\ mem \in [1 .. KHEAP_SIZE -> -1 .. UMB(KHEAP_SIZE)]
  /\ FMBlist \in 0 .. FMB(KHEAP_SIZE)
  /\ \A b \in live : b.at \in 1 .. KHEAP_SIZE /\ b.data # {}

\* What is handed out lies inside the heap and is handed out once, and
\* neither function ever writes into what a caller has been given.
LiveIntact ==
  \A b \in live :
    /\ b.data \subseteq 1 .. KHEAP_SIZE
    /\ \A a \in b.data : mem[a] = USER
    /\ \A c \in live \ {b} : b.data \cap c.data = {}

\* The three ways through the heap agree: the free list is exactly the free
\* blocks met on the walk through all blocks, both are in address order, the
\* used blocks met there are those handed out, and every link back is the
\* reverse of a link forth.
LinksAgree ==
  LET all == BlockWalk
      free == FreeWalk
      met == {all[i] : i \in Steps} \ {NULL}
      before(i) == IF i = 1 THEN NULL ELSE all[i - 1]
      back(p) == Word(IF IsUMB(p) THEN preMB(Addr(p)) ELSE preUMB(Addr(p)))
  IN  /\ HeapTypeOK
      /\ {free[i] : i \in Steps} \ {NULL} = {p \in met : ~IsUMB(p)}
      /\ {p \in met : IsUMB(p)} = {UMB(b.at) : b \in live}
      /\ \A i \in Steps \ {1} : free[i] # NULL => free[i - 1] < free[i]
      /\ \A i \in Steps \ {1} : all[i] # NULL => Addr(all[i - 1]) < Addr(all[i])
      /\ \A i \in Steps : all[i] # NULL => back(all[i]) = before(i)

\* The heap is the row of tiles of FirstFit: nothing leaks, neighbours that
\* are free are one block, and the first block that fits is taken.
Tiles ==
  LET all == BlockWalk
      count == Cardinality({i \in Steps : all[i] # NULL})
      stop(i) == IF i = count THEN End ELSE Addr(all[i + 1])
  IN  [i \in 1 .. count |->
         [used |-> IsUMB(all[i]), size |-> stop(i) - Addr(all[i])]]

Abstract == INSTANCE FirstFit WITH
  Size <- KHEAP_SIZE, Wanted <- {Words(n) : n \in Requests \ {0}},
  LeastFree <- 3, tiles <- Tiles

ImplementsFirstFit == Abstract!Spec
=============================================================================
