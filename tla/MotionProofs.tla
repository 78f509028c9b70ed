---------------------------- MODULE MotionProofs ----------------------------
(***************************************************************************)
(* The two halves of the motion subsystem.                                 *)
(*                                                                         *)
(* For every ring size, every bound on the number of blocks and every set  *)
(* of move lengths, MotionQueue keeps its blocks in order, never           *)
(* overwrites a live one and settles where the planner believes it is.     *)
(*                                                                         *)
(* Whatever the lengths of the moves, their rates and the writes of the    *)
(* planner, Tracer gives every motor exactly its steps and keeps it within *)
(* half a step of the line.                                                *)
(***************************************************************************)
EXTENDS MotionQueue, Tracer, TLAPS

-----------------------------------------------------------------------------
(* The ring of blocks.                                                     *)


\* Index arithmetic of the ring (next_block_index, prev_block_index).
LEMMA RingFacts ==
  ASSUME head \in Slots, tail \in Slots
  PROVE  /\ Count \in Slots
         /\ (Count = 0) <=> (head = tail)
         /\ \A k \in Slots : SlotOf(k) \in Slots
         /\ \A k \in Slots : k < Count => SlotOf(k) # head
         /\ \A k \in Slots : k + 1 < Count => k + 1 \in Slots
         /\ SlotOf(0) = tail
         /\ head # tail => SlotOf(Count - 1) = prev_block_index(head)
         /\ next_block_index(head) \in Slots
         /\ next_block_index(tail) \in Slots
         /\ prev_block_index(head) \in Slots
BY SizeAssumption DEF Slots, Count, SlotOf, next_block_index, prev_block_index

\* Publishing a block appends it at position Count.
LEMMA RingPublish ==
  ASSUME head \in Slots, tail \in Slots, next_block_index(head) # tail,
         head' = next_block_index(head), tail' = tail
  PROVE  /\ Count' = Count + 1
         /\ \A k \in Slots : SlotOf(k)' = SlotOf(k)
         /\ SlotOf(Count) = head
         /\ prev_block_index(head)' = head
         /\ head' # tail'
BY SizeAssumption DEF Slots, Count, SlotOf, next_block_index, prev_block_index

\* Discarding a block shifts the others by one.
LEMMA RingDiscard ==
  ASSUME head \in Slots, tail \in Slots, head # tail,
         head' = head, tail' = next_block_index(tail)
  PROVE  /\ Count' = Count - 1
         /\ \A k \in Slots : k + 1 < Count =>
              /\ k + 1 \in Slots
              /\ SlotOf(k)' = SlotOf(k + 1)
         /\ head' # tail' => /\ tail' = SlotOf(1) /\ 1 < Count
                             /\ prev_block_index(head)' = prev_block_index(head)
         /\ head' = tail' => prev_block_index(head) = tail
BY SizeAssumption DEF Slots, Count, SlotOf, next_block_index, prev_block_index

LEMMA InitIInv == Init => IInv
<1> SUFFICES ASSUME Init PROVE IInv  OBVIOUS
<1>1. TypeOK
  <2>1. 0 \in Slots /\ 0 \in Ids
    BY SizeAssumption, BoundAssumption DEF Slots, Ids
  <2>2. slot \in [Slots -> Blocks]
    BY <2>1 DEF Init, Blocks
  <2>3. timer \in BOOLEAN
    BY Zenon DEF Init
  <2>4. QED
    BY <2>1, <2>2, <2>3 DEF Init, TypeOK
<1>2. Count = 0
  BY DEF Init, Count
<1>3. QED
  BY <1>1, <1>2 DEF Init, IInv, FifoExactlyOnce, NoOverwrite, SettledPosition,
     MovesNotEmpty, FillInv, GoalChain, Slots

-----------------------------------------------------------------------------
\* Steps that leave the ring, the stepper and the kept fields of every block
\* alone preserve what is said about them.
LEMMA FrameStep ==
  ASSUME IInv, TypeOK',
         head' = head, tail' = tail, current' = current, events' = events,
         issued' = issued, executed' = executed, machine' = machine,
         skipped' = skipped, goal' = goal,
         position' - origin' = position - origin,
         \A i \in Slots : /\ slot'[i].id = slot[i].id
                          /\ slot'[i].action = slot[i].action
                          /\ slot'[i].delta = slot[i].delta
  PROVE  /\ FifoExactlyOnce' /\ SettledPosition' /\ MovesNotEmpty' /\ GoalChain'
         /\ slot'[head].id = slot[head].id
         /\ slot'[head].action = slot[head].action
         /\ slot'[head].delta = slot[head].delta
<1> USE DEF IInv
<1>0. TypeOK  OBVIOUS
<1>1. /\ Count' = Count
      /\ \A k \in Slots : SlotOf(k)' = SlotOf(k)
      /\ prev_block_index(head)' = prev_block_index(head)
  BY DEF Count, SlotOf, prev_block_index
<1>2. /\ \A k \in Slots : SlotOf(k) \in Slots
      /\ Count \in Slots
      /\ head \in Slots /\ tail \in Slots
      /\ prev_block_index(head) \in Slots
  BY <1>0, RingFacts DEF TypeOK
<1>3. FifoExactlyOnce'
  BY <1>1, <1>2 DEF FifoExactlyOnce
<1>4. SettledPosition'
  BY DEF SettledPosition
<1>5. MovesNotEmpty'
  BY <1>0, <1>1, <1>2 DEF MovesNotEmpty, TypeOK, Abs
<1>6. /\ \A i \in Slots : Travel(i)' = Travel(i)
      /\ EventsBefore' = EventsBefore
      /\ Owed(tail)' = Owed(tail)
  BY <1>0, <1>2 DEF Travel, Owed, EventsBefore, Sign
<1>7. \A k \in Slots : k + 1 < Count => k + 1 \in Slots
  BY <1>2, SizeAssumption DEF Slots
<1>8. GoalChain'
  BY <1>1, <1>2, <1>6, <1>7 DEF GoalChain
<1>9. QED
  BY <1>2, <1>3, <1>4, <1>5, <1>8

-----------------------------------------------------------------------------
\* Types are preserved, one action at a time.
LEMMA TypeStep == IInv /\ [Next]_vars => TypeOK'
<1> SUFFICES ASSUME IInv, [Next]_vars PROVE TypeOK'  OBVIOUS
<1> USE DEF TypeOK
<1>0. /\ TypeOK
      /\ next_block_index(head) \in Slots /\ next_block_index(tail) \in Slots
      /\ \A i \in Slots : next_block_index(i) \in Slots
      /\ \A i \in Slots : prev_block_index(i) \in Slots
      /\ 0 \in Slots
  BY SizeAssumption DEF IInv, Slots, next_block_index, prev_block_index
<1>1. \A b \in Slots : WriteTrapezoid(b) \/ MayFlag(b)
                        => slot' \in [Slots -> Blocks]
  <2> SUFFICES ASSUME NEW b \in Slots,
                      WriteTrapezoid(b) \/ MayFlag(b)
               PROVE  slot' \in [Slots -> Blocks]
    OBVIOUS
  <2>1. slot[b] \in Blocks /\ slot[b].id \in Ids
    BY <1>0 DEF Blocks
  <2>2. /\ [slot[b] EXCEPT !.recalculate_flag = TRUE] \in Blocks
        /\ [slot[b] EXCEPT !.trap = slot[b].id, !.recalculate_flag = FALSE]
             \in Blocks
    BY <2>1 DEF Blocks
  <2>3. CASE WriteTrapezoid(b)
    BY <1>0, <2>2, <2>3 DEF WriteTrapezoid
  <2>4. CASE MayFlag(b)
    BY <1>0, <2>2, <2>4 DEF MayFlag
  <2>5. QED
    BY <2>3, <2>4
<1>2. CASE plan_buffer_action
  BY <1>0, <1>2 DEF plan_buffer_action, isrVars
<1>3. CASE WaitForRoom
  BY <1>0, <1>3 DEF WaitForRoom, isrVars
<1>4. ASSUME NEW kind \in MoveKinds, NEW delta \in Deltas, FillMove(kind, delta)
      PROVE  TypeOK'
  <2>1. issued + 1 \in Ids /\ delta \in Int
    BY <1>0, <1>4, BoundAssumption, DeltaAssumption
       DEF IInv, FillInv, FillMove, Ids
  <2>2. slot' \in [Slots -> Blocks]
    BY <1>0, <1>4, <2>1 DEF FillMove, Blocks
  <2>3. QED
    BY <1>0, <1>4, <2>2 DEF FillMove, isrVars
<1>5. CASE FillWait
  <2>1. issued + 1 \in Ids
    BY <1>0, <1>5, BoundAssumption DEF IInv, FillInv, FillWait, Ids
  <2>2. slot' \in [Slots -> Blocks]
    <3>1. [slot[head] EXCEPT !.id = issued + 1, !.action = "AT_WAIT_TEMPS",
                             !.trap = issued + 1] \in Blocks
      <4>1. slot[head] \in Blocks
        BY <1>0
      <4>2. QED
        BY <2>1, <4>1 DEF Blocks
    <3>2. QED
      BY <1>0, <1>5, <3>1 DEF FillWait
  <2>3. QED
    BY <1>0, <1>5, <2>2 DEF FillWait, isrVars
<1>6. CASE Publish
  <2>1. issued + 1 \in Ids
    BY <1>0, <1>6, BoundAssumption DEF IInv, FillInv, Publish, Ids
  <2>2. slot[head].delta \in Int
    BY <1>0 DEF Blocks
  <2>3. QED
    BY <1>0, <1>6, <2>1, <2>2 DEF Publish, isrVars
<1>7. CASE ReverseStep
  BY <1>0, <1>1, <1>7 DEF ReverseStep, isrVars
<1>8. CASE ReverseDone
  BY <1>0, <1>8 DEF ReverseDone, isrVars
<1>9. CASE ForwardStep
  BY <1>0, <1>1, <1>9 DEF ForwardStep, isrVars
<1>10. CASE ForwardDone
  BY <1>0, <1>1, <1>10 DEF ForwardDone, isrVars
<1>11. CASE TrapezoidStep
  BY <1>0, <1>1, <1>11 DEF TrapezoidStep, isrVars
<1>12. CASE TrapezoidLast
  BY <1>0, <1>1, <1>12 DEF TrapezoidLast, isrVars
<1>13. CASE TrapezoidNull
  BY <1>0, <1>13 DEF TrapezoidNull, isrVars
<1>14. CASE st_wake_up
  BY <1>0, <1>14 DEF st_wake_up, isrVars
<1>15. CASE SynchronizeCall
  BY <1>0, <1>15 DEF SynchronizeCall, isrVars
<1>16. CASE st_synchronize
  BY <1>0, <1>16 DEF st_synchronize, isrVars
<1>17. CASE plan_set_current_position
  BY <1>0, <1>17 DEF plan_set_current_position, isrVars, fgVars
<1>18. CASE InterruptIdle
  BY <1>0, <1>18 DEF InterruptIdle, isrVars, fgVars
<1>19. /\ Popped \in Slots \cup {NULL}
       /\ EventsBefore \in Nat
       /\ \A b \in Slots : /\ slot[b].delta \in Int /\ Abs(slot[b].delta) \in Nat
                            /\ Sign(slot[b].delta) \in {1, -1}
                            /\ slot[b].id \in Ids
  BY <1>0 DEF Popped, EventsBefore, Blocks, Abs, Sign
<1>20. \A b \in Slots : Finish(b) =>
         tail' \in Slots /\ current' = NULL /\ executed' \in Ids
  BY <1>0, <1>19 DEF Finish, plan_discard_current_block
<1>21. CASE InterruptStep
  BY <1>0, <1>19, <1>20, <1>21 DEF InterruptStep, fgVars
<1>22. CASE InterruptEndstop
  <2>1. PICK b \in Slots : /\ Finish(b) /\ events' = Abs(slot[b].delta)
          /\ skipped' = skipped
               + Sign(slot[b].delta) * (Abs(slot[b].delta) - EventsBefore)
    BY <1>19, <1>22 DEF InterruptEndstop
  <2>2. skipped' \in Int
    BY <1>0, <1>19, <2>1
  <2>3. QED
    BY <1>0, <1>19, <1>20, <1>22, <2>1, <2>2 DEF InterruptEndstop, fgVars
<1>23. ASSUME NEW achieved \in BOOLEAN, InterruptWait(achieved)
       PROVE  TypeOK'
  BY <1>0, <1>19, <1>20, <1>23 DEF InterruptWait, fgVars
<1>24. CASE UNCHANGED vars
  BY <1>0, <1>24 DEF vars, isrVars, fgVars
<1>25. QED
  BY <1>2, <1>3, <1>4, <1>5, <1>6, <1>7, <1>8, <1>9, <1>10, <1>11, <1>12,
     <1>13, <1>14, <1>15, <1>16, <1>17, <1>18, <1>21, <1>22, <1>23, <1>24
     DEF Next, Foreground, Caller, st_interrupt

-----------------------------------------------------------------------------
\* The pass kernels and calculate_trapezoid_for_block only write planner
\* fields.
LEMMA PlannerFields ==
  ASSUME TypeOK, NEW b \in Slots, WriteTrapezoid(b) \/ MayFlag(b)
  PROVE  \A i \in Slots : /\ slot'[i].id = slot[i].id
                          /\ slot'[i].action = slot[i].action
                          /\ slot'[i].delta = slot[i].delta
<1> SUFFICES ASSUME NEW i \in Slots
             PROVE  /\ slot'[i].id = slot[i].id
                    /\ slot'[i].action = slot[i].action
                    /\ slot'[i].delta = slot[i].delta
  OBVIOUS
<1>1. slot[i] \in Blocks /\ slot \in [Slots -> Blocks]
  BY DEF TypeOK
<1>2. CASE WriteTrapezoid(b)
  BY <1>1, <1>2 DEF Blocks, WriteTrapezoid
<1>3. CASE MayFlag(b)
  BY <1>1, <1>3 DEF Blocks, MayFlag
<1>4. QED
  BY <1>2, <1>3

\* Foreground steps that do not write a new block or move the head.
LEMMA QuietStep ==
  ASSUME IInv, TypeOK',
         \/ plan_buffer_action \/ WaitForRoom \/ ReverseStep \/ ReverseDone
         \/ ForwardStep \/ ForwardDone \/ TrapezoidStep \/ TrapezoidLast
         \/ TrapezoidNull \/ st_wake_up \/ SynchronizeCall \/ st_synchronize
         \/ plan_set_current_position \/ InterruptIdle \/ UNCHANGED vars
  PROVE  IInv'
<1> USE DEF isrVars, fgVars, vars
<1>0. TypeOK  BY DEF IInv
<1>1. \/ slot' = slot
      \/ \E b \in Slots : WriteTrapezoid(b) \/ MayFlag(b)
  BY <1>0 DEF TypeOK, plan_buffer_action, WaitForRoom, ReverseStep, ReverseDone,
     ForwardStep, ForwardDone, TrapezoidStep, TrapezoidLast, TrapezoidNull,
     st_wake_up, SynchronizeCall, st_synchronize, plan_set_current_position,
     InterruptIdle
<1>2. \A i \in Slots : /\ slot'[i].id = slot[i].id
                       /\ slot'[i].action = slot[i].action
                       /\ slot'[i].delta = slot[i].delta
  BY <1>0, <1>1, PlannerFields
<1>3. /\ head' = head /\ tail' = tail /\ current' = current /\ events' = events
      /\ issued' = issued /\ executed' = executed /\ machine' = machine
      /\ skipped' = skipped /\ goal' = goal
  BY DEF plan_buffer_action, WaitForRoom, ReverseStep, ReverseDone,
     ForwardStep, ForwardDone, TrapezoidStep, TrapezoidLast, TrapezoidNull,
     st_wake_up, SynchronizeCall, st_synchronize, plan_set_current_position,
     InterruptIdle
<1>4. position' - origin' = position - origin
  <2>1. CASE plan_set_current_position
    BY <1>0, <2>1 DEF TypeOK, plan_set_current_position
  <2>2. CASE ~plan_set_current_position
    BY <2>2 DEF plan_buffer_action, WaitForRoom, ReverseStep, ReverseDone,
       ForwardStep, ForwardDone, TrapezoidStep, TrapezoidLast, TrapezoidNull,
       st_wake_up, SynchronizeCall, st_synchronize, InterruptIdle
  <2>3. QED
    BY <2>1, <2>2
<1>5. /\ FifoExactlyOnce' /\ SettledPosition' /\ MovesNotEmpty' /\ GoalChain'
      /\ slot'[head].id = slot[head].id
      /\ slot'[head].action = slot[head].action
      /\ slot'[head].delta = slot[head].delta
  BY <1>2, <1>3, <1>4, FrameStep
<1>6. \/ pc' = pc
      \/ pc' = "room" /\ issued < MaxBlocks
      \/ pc = "room" /\ pc' = "fill" /\ tail # next_block_index(head)
      \/ pc' \notin {"room", "fill", "publish"}
  BY DEF plan_buffer_action, WaitForRoom, ReverseStep, ReverseDone,
     ForwardStep, ForwardDone, TrapezoidStep, TrapezoidLast, TrapezoidNull,
     st_wake_up, SynchronizeCall, st_synchronize, plan_set_current_position,
     InterruptIdle
<1>7. NoOverwrite'
  BY <1>0, <1>3, <1>6, NullAssumption DEF IInv, NoOverwrite, FifoExactlyOnce,
     TypeOK, Slots, next_block_index
<1>8. FillInv'
  BY <1>3, <1>5, <1>6 DEF IInv, FillInv
<1>9. QED
  BY <1>5, <1>7, <1>8 DEF IInv

\* Writing the slot at the head disturbs no published block.
LEMMA FillStep ==
  ASSUME IInv, TypeOK', NEW blk \in Blocks,
         blk.action = "AT_MOVE" => blk.delta # 0 \/ pc' = "idle",
         blk.id = issued + 1,
         pc = "fill", pc' \in {"idle", "publish"},
         slot' = [slot EXCEPT ![head] = blk],
         UNCHANGED <<head, position, timer, isrVars, issued, goal, origin>>
  PROVE  IInv'
<1> USE DEF IInv, isrVars
<1>0. TypeOK  OBVIOUS
<1>1. /\ Count' = Count
      /\ \A k \in Slots : SlotOf(k)' = SlotOf(k)
      /\ prev_block_index(head)' = prev_block_index(head)
      /\ next_block_index(head)' = next_block_index(head)
  BY DEF Count, SlotOf, prev_block_index, next_block_index
<1>2. /\ Count \in Slots
      /\ (Count = 0) <=> (head = tail)
      /\ \A k \in Slots : SlotOf(k) \in Slots
      /\ \A k \in Slots : k < Count => SlotOf(k) # head
      /\ SlotOf(0) = tail
      /\ head \in Slots /\ tail \in Slots
      /\ prev_block_index(head) \in Slots
  BY <1>0, RingFacts DEF TypeOK
<1>3. \A i \in Slots : i # head => slot'[i] = slot[i]
  BY <1>0 DEF TypeOK
<1>4. slot'[head] = blk
  BY <1>0, <1>2 DEF TypeOK
<1>5. current # NULL => head # tail /\ current = tail
  BY DEF FifoExactlyOnce
<1>6. FifoExactlyOnce'
  BY <1>1, <1>2, <1>3 DEF FifoExactlyOnce
<1>7. NoOverwrite'
  BY <1>1 DEF NoOverwrite
<1>8. SettledPosition'
  BY DEF SettledPosition
<1>9. MovesNotEmpty'
  BY <1>1, <1>2, <1>3, <1>5 DEF MovesNotEmpty
<1>10. FillInv'
  BY <1>4 DEF FillInv
<1>11. \A i \in Slots : i # head => Travel(i)' = Travel(i)
  BY <1>3 DEF Travel
<1>12. head # tail => Owed(tail)' = Owed(tail)
  BY <1>2, <1>3 DEF Owed, EventsBefore
<1>13. \A k \in Slots : k + 1 < Count => k + 1 \in Slots
  BY <1>2, RingFacts
<1>14. GoalChain'
  BY <1>1, <1>2, <1>11, <1>12, <1>13 DEF GoalChain
<1>15. QED
  BY <1>6, <1>7, <1>8, <1>9, <1>10, <1>14

LEMMA PublishStep ==
  ASSUME IInv, TypeOK', Publish
  PROVE  IInv'
<1> USE DEF IInv, isrVars
<1>0. TypeOK  OBVIOUS
<1>1. /\ Count \in Slots
      /\ (Count = 0) <=> (head = tail)
      /\ \A k \in Slots : SlotOf(k) \in Slots
      /\ \A k \in Slots : k < Count => SlotOf(k) # head
      /\ SlotOf(0) = tail
      /\ head # tail => SlotOf(Count - 1) = prev_block_index(head)
      /\ head \in Slots /\ tail \in Slots
  BY <1>0, RingFacts DEF TypeOK
<1>2. next_block_index(head) # tail
  BY DEF Publish, NoOverwrite
<1>3. /\ Count' = Count + 1
      /\ \A k \in Slots : SlotOf(k)' = SlotOf(k)
      /\ SlotOf(Count) = head
      /\ prev_block_index(head)' = head
      /\ head' # tail'
  BY <1>1, <1>2, RingPublish DEF Publish
<1>4. /\ slot' = slot /\ current' = current /\ events' = events
      /\ executed' = executed /\ machine' = machine /\ skipped' = skipped
      /\ origin' = origin /\ issued' = issued + 1 /\ pc' = "reverse"
      /\ tail' = tail
  BY DEF Publish
<1>5. /\ slot[head].id = issued + 1
      /\ slot[head].action = "AT_MOVE" => slot[head].delta # 0
  BY DEF Publish, FillInv
<1>6. /\ position' = position + Travel(head)
      /\ Travel(head) \in Int
      /\ goal'[head] = position + Travel(head) - origin
      /\ \A i \in Slots : i # head => goal'[i] = goal[i]
  BY <1>0, <1>1 DEF Publish, Travel, TypeOK, Blocks
<1>7. issued \in Int /\ executed \in Int /\ machine \in Int /\ skipped \in Int
      /\ position \in Int /\ origin \in Int /\ \A i \in Slots : goal[i] \in Int
  BY <1>0, BoundAssumption DEF TypeOK, Ids
<1>8. FifoExactlyOnce'
  <2>1. Count' = issued' - executed'
    BY <1>1, <1>3, <1>4, <1>7 DEF FifoExactlyOnce, Slots
  <2>2. ASSUME NEW k \in Slots, k < Count'
        PROVE  slot'[SlotOf(k)'].id = executed' + 1 + k
    <3>1. CASE k < Count
      BY <1>3, <1>4, <3>1 DEF FifoExactlyOnce
    <3>2. CASE k = Count
      BY <1>1, <1>3, <1>4, <1>5, <1>7, <3>2 DEF FifoExactlyOnce
    <3>3. QED
      BY SizeAssumption, <1>1, <1>3, <2>2, <3>1, <3>2 DEF Slots
  <2>3. QED
    BY <1>3, <1>4, <2>1, <2>2 DEF FifoExactlyOnce
<1>9. NoOverwrite' /\ FillInv'
  BY <1>4 DEF NoOverwrite, FillInv
<1>10. SettledPosition'
  BY <1>3 DEF SettledPosition
<1>11. MovesNotEmpty'
  <2>1. ASSUME NEW k \in Slots, k < Count', slot[SlotOf(k)].action = "AT_MOVE"
        PROVE  slot[SlotOf(k)].delta # 0
    <3>1. CASE k < Count
      BY <2>1, <3>1 DEF MovesNotEmpty
    <3>2. CASE k = Count
      BY <1>3, <1>5, <2>1, <3>2
    <3>3. QED
      BY SizeAssumption, <1>1, <1>3, <2>1, <3>1, <3>2 DEF Slots
  <2>2. QED
    BY <1>3, <1>4, <2>1 DEF MovesNotEmpty
<1>12. \A i \in Slots : Travel(i)' = Travel(i)
  BY <1>4 DEF Travel
<1>13. ASSUME NEW k \in Slots, k + 1 < Count'
       PROVE  goal'[SlotOf(k + 1)'] = goal'[SlotOf(k)'] + Travel(SlotOf(k + 1))'
  <2>0. k + 1 \in Slots
    BY SizeAssumption, <1>1, <1>3, <1>13 DEF Slots
  <2>1. CASE k + 1 < Count
    <3>1. k < Count /\ SlotOf(k) # head /\ SlotOf(k + 1) # head
      BY SizeAssumption, <1>1, <2>0, <2>1 DEF Slots
    <3>2. QED
      BY <1>1, <1>3, <1>6, <1>12, <2>0, <2>1, <3>1 DEF GoalChain
  <2>2. CASE k + 1 = Count
    <3>1. /\ k < Count /\ SlotOf(k) # head /\ head # tail
          /\ SlotOf(k) = prev_block_index(head)
      BY <1>1, <2>0, <2>2 DEF Slots
    <3>2. goal'[SlotOf(k)'] = position - origin
      BY <1>1, <1>3, <1>6, <3>1 DEF GoalChain
    <3>3. goal'[SlotOf(k + 1)'] = position + Travel(head) - origin
      BY <1>3, <1>6, <2>0, <2>2
    <3>4. Travel(SlotOf(k + 1))' = Travel(head)
      BY <1>1, <1>3, <1>12, <2>0, <2>2
    <3>5. QED
      BY <1>6, <1>7, <3>2, <3>3, <3>4
  <2>3. QED
    BY SizeAssumption, <1>1, <1>3, <1>13, <2>0, <2>1, <2>2 DEF Slots
<1>14. goal'[tail] = machine + skipped + Owed(tail)
  <2>1. CASE head = tail
    <3>1. current = NULL /\ machine + skipped = position - origin
      BY <2>1 DEF SettledPosition
    <3>2. Owed(tail) = Travel(head)
      BY <1>0, <1>1, <2>1, <3>1 DEF Owed, Travel, EventsBefore, Sign, TypeOK, Blocks
    <3>3. QED
      BY <1>6, <1>7, <2>1, <3>1, <3>2
  <2>2. CASE head # tail
    BY <1>1, <1>6, <2>2 DEF GoalChain
  <2>3. QED
    BY <2>1, <2>2
<1>15. Owed(tail)' = Owed(tail)
  BY <1>4 DEF Owed, EventsBefore
<1>16. goal'[prev_block_index(head)'] = position' - origin'
  <2>1. goal'[prev_block_index(head)'] = goal'[head]
    BY <1>3
  <2>2. position' - origin' = position + Travel(head) - origin
    <3>1. position' = position + Travel(head) /\ origin' = origin
      BY <1>4, <1>6
    <3>2. QED
      BY <1>6, <1>7, <3>1
  <2>3. QED
    BY <1>6, <2>1, <2>2
<1>17. GoalChain'
  BY <1>3, <1>4, <1>13, <1>14, <1>15, <1>16 DEF GoalChain
<1>18. QED
  BY <1>8, <1>9, <1>10, <1>11, <1>17

-----------------------------------------------------------------------------
\* The stepper discards the oldest block once it is where that block ends.
LEMMA DiscardStep ==
  ASSUME IInv, TypeOK', head # tail,
         head' = head, tail' = next_block_index(tail), current' = NULL,
         executed' = slot[tail].id, machine' + skipped' = goal[tail],
         UNCHANGED <<slot, pc, position, issued, goal, origin>>
  PROVE  IInv'
<1> USE DEF IInv
<1>0. TypeOK  OBVIOUS
<1>1. /\ Count \in Slots
      /\ (Count = 0) <=> (head = tail)
      /\ \A k \in Slots : SlotOf(k) \in Slots
      /\ SlotOf(0) = tail
      /\ head \in Slots /\ tail \in Slots /\ 0 \in Slots
  BY <1>0, RingFacts, SizeAssumption DEF TypeOK, Slots
<1>2. /\ Count' = Count - 1
      /\ \A k \in Slots : k + 1 < Count =>
           k + 1 \in Slots /\ SlotOf(k)' = SlotOf(k + 1)
      /\ head' # tail' => /\ tail' = SlotOf(1) /\ 1 < Count
                          /\ prev_block_index(head)' = prev_block_index(head)
      /\ head' = tail' => prev_block_index(head) = tail
  BY <1>1, RingDiscard
<1>3. issued \in Int /\ executed \in Int /\ machine \in Int /\ skipped \in Int
      /\ position \in Int /\ origin \in Int /\ \A i \in Slots : goal[i] \in Int
  BY <1>0, BoundAssumption DEF TypeOK, Ids
<1>4. executed' = executed + 1
  BY SizeAssumption, <1>1, <1>3 DEF FifoExactlyOnce, Slots
<1>5. FifoExactlyOnce'
  <2>1. Count' = issued' - executed'
    BY <1>1, <1>2, <1>3, <1>4 DEF FifoExactlyOnce
  <2>2. ASSUME NEW k \in Slots, k < Count'
        PROVE  slot'[SlotOf(k)'].id = executed' + 1 + k
    <3>1. k + 1 < Count
      BY SizeAssumption, <1>1, <1>2, <2>2 DEF Slots
    <3>2. slot[SlotOf(k + 1)].id = executed + 1 + (k + 1)
      BY <1>2, <3>1 DEF FifoExactlyOnce
    <3>3. QED
      BY <1>2, <1>3, <1>4, <3>1, <3>2 DEF Slots
  <2>3. QED
    BY <2>1, <2>2 DEF FifoExactlyOnce
<1>6. NoOverwrite'
  <2>1. next_block_index(head) # next_block_index(tail)
    BY <1>1 DEF Slots, next_block_index
  <2>2. next_block_index(head)' = next_block_index(head)
    BY DEF next_block_index
  <2>3. QED
    BY <1>1, <2>1, <2>2, NullAssumption DEF NoOverwrite, Slots
<1>7. FillInv'
  BY DEF FillInv
<1>8. SettledPosition'
  BY <1>2, <1>3 DEF SettledPosition, GoalChain
<1>9. MovesNotEmpty'
  <2>1. ASSUME NEW k \in Slots, k < Count', slot[SlotOf(k)'].action = "AT_MOVE"
        PROVE  slot[SlotOf(k)'].delta # 0
    <3>1. k + 1 < Count
      BY SizeAssumption, <1>1, <1>2, <2>1 DEF Slots
    <3>2. QED
      BY <1>2, <2>1, <3>1 DEF MovesNotEmpty
  <2>2. QED
    BY <2>1 DEF MovesNotEmpty
<1>10. \A i \in Slots : Travel(i)' = Travel(i)
  BY DEF Travel
<1>11. ASSUME NEW k \in Slots, k + 1 < Count'
       PROVE  goal'[SlotOf(k + 1)'] = goal'[SlotOf(k)'] + Travel(SlotOf(k + 1))'
  <2>1. /\ k + 1 < Count /\ (k + 1) + 1 < Count /\ k + 1 \in Slots
        /\ (k + 1) + 1 \in Slots
    BY SizeAssumption, <1>1, <1>2, <1>11 DEF Slots
  <2>2. /\ SlotOf(k)' = SlotOf(k + 1) /\ SlotOf(k + 1)' = SlotOf((k + 1) + 1)
        /\ Travel(SlotOf(k + 1))' = Travel(SlotOf((k + 1) + 1))
    BY <1>2, <2>1 DEF Travel
  <2>3. QED
    BY <2>1, <2>2 DEF GoalChain
<1>12. ASSUME head' # tail'
       PROVE  /\ goal'[tail'] = machine' + skipped' + Owed(tail)'
              /\ goal'[prev_block_index(head)'] = position' - origin'
  <2>1. tail' = SlotOf(1) /\ 1 < Count /\ 1 \in Slots /\ SlotOf(1) \in Slots
    BY <1>1, <1>2, <1>12 DEF Slots
  <2>2. goal[SlotOf(1)] = goal[tail] + Travel(SlotOf(1))
    BY <1>1, <2>1 DEF GoalChain
  <2>3. Owed(tail)' = Travel(SlotOf(1))
    BY <1>0, <2>1 DEF Owed, Travel, EventsBefore, Sign, TypeOK, Blocks
  <2>4. goal'[tail'] = machine' + skipped' + Owed(tail)'
    BY <2>1, <2>2, <2>3
  <2>5. QED
    BY <1>2, <1>12, <2>4 DEF GoalChain
<1>13. GoalChain'
  BY <1>11, <1>12 DEF GoalChain
<1>14. QED
  BY <1>5, <1>6, <1>7, <1>8, <1>9, <1>13

\* What the interrupt knows when it works on a block: it is the oldest one,
\* and a move still has step events left.
LEMMA PoppedFacts ==
  ASSUME IInv, Popped # NULL
  PROVE  /\ Popped = tail /\ head # tail /\ tail \in Slots
         /\ slot[tail].delta \in Int /\ EventsBefore \in Nat
         /\ slot[tail].action = "AT_MOVE" =>
              EventsBefore < Abs(slot[tail].delta)
         /\ goal[tail] = machine + skipped + Owed(tail)
         /\ machine \in Int /\ skipped \in Int
<1> USE DEF IInv
<1>0. TypeOK  OBVIOUS
<1>1. Popped = tail /\ head # tail
  BY DEF Popped, FifoExactlyOnce
<1>2. /\ tail \in Slots /\ slot[tail].delta \in Int /\ EventsBefore \in Nat
      /\ machine \in Int /\ skipped \in Int
  BY <1>0 DEF TypeOK, Blocks, EventsBefore
<1>3. 0 \in Slots /\ 0 < Count /\ SlotOf(0) = tail
  BY <1>0, <1>1, RingFacts, SizeAssumption DEF TypeOK, Slots
<1>4. slot[tail].action = "AT_MOVE" => EventsBefore < Abs(slot[tail].delta)
  <2>1. CASE current = NULL
    BY <1>2, <1>3, <2>1 DEF MovesNotEmpty, EventsBefore, Abs
  <2>2. CASE current # NULL
    BY <1>0, <2>2 DEF MovesNotEmpty, EventsBefore, FifoExactlyOnce
  <2>3. QED
    BY <2>1, <2>2
<1>5. goal[tail] = machine + skipped + Owed(tail)
  BY <1>1 DEF GoalChain
<1>6. QED
  BY <1>1, <1>2, <1>4, <1>5

\* The interrupt leaves the block current and owing what is not yet pulsed.
LEMMA KeepBlockStep ==
  ASSUME IInv, TypeOK', head # tail,
         UNCHANGED <<head, tail, slot, pc, position, issued, executed, goal,
                     origin>>,
         current' = tail,
         slot[tail].action = "AT_MOVE" => events' < Abs(slot[tail].delta),
         machine' + skipped' + Owed(tail)' = goal[tail]
  PROVE  IInv'
<1> USE DEF IInv
<1>0. TypeOK  OBVIOUS
<1>1. /\ Count' = Count
      /\ \A k \in Slots : SlotOf(k)' = SlotOf(k)
      /\ prev_block_index(head)' = prev_block_index(head)
      /\ next_block_index(head)' = next_block_index(head)
      /\ \A i \in Slots : Travel(i)' = Travel(i)
  BY DEF Count, SlotOf, prev_block_index, next_block_index, Travel
<1>2. /\ \A k \in Slots : SlotOf(k) \in Slots
      /\ \A k \in Slots : k + 1 < Count => k + 1 \in Slots
      /\ tail \in Slots /\ head \in Slots
  BY <1>0, RingFacts DEF TypeOK
<1>3. FifoExactlyOnce'
  BY <1>1 DEF FifoExactlyOnce
<1>4. NoOverwrite'
  BY <1>1 DEF NoOverwrite
<1>5. SettledPosition'
  BY DEF SettledPosition
<1>6. MovesNotEmpty'
  BY <1>1 DEF MovesNotEmpty
<1>7. FillInv'
  BY DEF FillInv
<1>8. Travel(tail)' = Travel(tail)
  BY DEF Travel
<1>9. \A k \in Slots : k + 1 < Count =>
        Travel(SlotOf(k + 1))' = Travel(SlotOf(k + 1))
  BY <1>1, <1>2 DEF Travel
<1>10. GoalChain'
  BY <1>1, <1>2, <1>9 DEF GoalChain
<1>11. QED
  BY <1>3, <1>4, <1>5, <1>6, <1>7, <1>10

LEMMA InterruptMoveStep ==
  ASSUME IInv, TypeOK', InterruptStep \/ InterruptEndstop
  PROVE  IInv'
<1>1. /\ Popped = tail /\ head # tail /\ tail \in Slots
      /\ slot[tail].delta \in Int /\ EventsBefore \in Nat
      /\ EventsBefore < Abs(slot[tail].delta)
      /\ goal[tail] = machine + skipped + Owed(tail)
      /\ machine \in Int /\ skipped \in Int
      /\ slot[tail].action = "AT_MOVE"
  BY PoppedFacts DEF InterruptStep, InterruptEndstop
<1>2. /\ UNCHANGED <<head, slot, pc, position, issued, goal, origin>>
      /\ Finish(tail) => /\ current' = NULL /\ executed' = slot[tail].id
                         /\ tail' = next_block_index(tail)
  BY <1>1 DEF InterruptStep, InterruptEndstop, fgVars, Finish,
     plan_discard_current_block
<1>3. Owed(tail) = slot[tail].delta - Sign(slot[tail].delta) * EventsBefore
  BY <1>1 DEF Owed
<1>4. CASE InterruptEndstop
  <2>1. /\ Finish(tail) /\ machine' = machine
        /\ skipped' = skipped
             + Sign(slot[tail].delta) * (Abs(slot[tail].delta) - EventsBefore)
    BY <1>1, <1>4 DEF InterruptEndstop
  <2>2. Sign(slot[tail].delta) * (Abs(slot[tail].delta) - EventsBefore)
          = Owed(tail)
    BY <1>1, <1>3 DEF Sign, Abs
  <2>3. Owed(tail) \in Int
    BY <1>1, <1>3 DEF Sign
  <2>4. machine' + skipped' = goal[tail]
    BY <1>1, <2>1, <2>2, <2>3
  <2>5. QED
    BY <1>1, <1>2, <2>1, <2>4, DiscardStep
<1>5. CASE InterruptStep
  <2>1. /\ machine' = machine + Sign(slot[tail].delta) /\ skipped' = skipped
        /\ events' = EventsBefore + 1
        /\ IF EventsBefore + 1 < Abs(slot[tail].delta)
           THEN current' = tail /\ UNCHANGED <<tail, executed>>
           ELSE Finish(tail)
    BY <1>1, <1>5 DEF InterruptStep
  <2>2. CASE EventsBefore + 1 < Abs(slot[tail].delta)
    <3>1. EventsBefore' = EventsBefore + 1 /\ tail' = tail
      BY <1>1, <2>1, <2>2, NullAssumption, SizeAssumption
         DEF EventsBefore, Slots
    <3>2. Owed(tail)' = slot[tail].delta
                          - Sign(slot[tail].delta) * (EventsBefore + 1)
      BY <1>1, <1>2, <3>1 DEF Owed
    <3>3. machine' + skipped' + Owed(tail)' = goal[tail]
      BY <1>1, <1>3, <2>1, <3>2 DEF Sign
    <3>4. QED
      BY <1>1, <1>2, <2>1, <2>2, <3>1, <3>3, KeepBlockStep
  <2>3. CASE ~(EventsBefore + 1 < Abs(slot[tail].delta))
    <3>1. EventsBefore + 1 = Abs(slot[tail].delta)
      BY <1>1, <2>3 DEF Abs
    <3>2. Owed(tail) = Sign(slot[tail].delta)
      BY <1>1, <1>3, <3>1 DEF Sign, Abs
    <3>3. machine' + skipped' = goal[tail]
      BY <1>1, <2>1, <3>2 DEF Sign
    <3>4. QED
      BY <1>1, <1>2, <2>1, <2>3, <3>3, DiscardStep
  <2>4. QED
    BY <2>2, <2>3
<1>6. QED
  BY <1>4, <1>5

LEMMA InterruptWaitStep ==
  ASSUME IInv, TypeOK', NEW achieved \in BOOLEAN, InterruptWait(achieved)
  PROVE  IInv'
<1>1. /\ Popped = tail /\ head # tail
      /\ goal[tail] = machine + skipped + Owed(tail)
      /\ machine \in Int /\ skipped \in Int
      /\ slot[tail].action # "AT_MOVE" /\ Owed(tail) = 0
  BY PoppedFacts DEF InterruptWait, Owed
<1>2. /\ UNCHANGED <<head, slot, pc, position, issued, goal, origin>>
      /\ machine' = machine /\ skipped' = skipped
      /\ Finish(tail) => /\ current' = NULL /\ executed' = slot[tail].id
                         /\ tail' = next_block_index(tail)
  BY <1>1 DEF InterruptWait, fgVars, Finish, plan_discard_current_block
<1>3. CASE achieved
  <2>1. Finish(tail)
    BY <1>1, <1>3 DEF InterruptWait
  <2>2. machine' + skipped' = goal[tail]
    BY <1>1, <1>2
  <2>3. QED
    BY <1>1, <1>2, <2>1, <2>2, DiscardStep
<1>4. CASE ~achieved
  <2>1. current' = tail /\ tail' = tail /\ executed' = executed
    BY <1>1, <1>4 DEF InterruptWait
  <2>2. Owed(tail)' = 0
    BY <1>1, <1>2, <2>1 DEF Owed
  <2>3. machine' + skipped' + Owed(tail)' = goal[tail]
    BY <1>1, <1>2, <2>2
  <2>4. QED
    BY <1>1, <1>2, <2>1, <2>3, KeepBlockStep
<1>5. QED
  BY <1>3, <1>4

-----------------------------------------------------------------------------
LEMMA NextIInv == IInv /\ [Next]_vars => IInv'
<1> SUFFICES ASSUME IInv, [Next]_vars PROVE IInv'  OBVIOUS
<1>0. TypeOK'
  BY TypeStep
<1>1. ASSUME NEW kind \in MoveKinds, NEW delta \in Deltas, FillMove(kind, delta)
      PROVE  IInv'
  <2> DEFINE blk ==
       [id |-> issued + 1, action |-> "AT_MOVE", delta |-> delta,
        check_endstops |-> IF delta = 0 THEN slot[head].check_endstops
                           ELSE kind = "AT_MOVE_ENDSTOP",
        recalculate_flag |-> IF delta = 0 THEN slot[head].recalculate_flag
                             ELSE TRUE,
        trap |-> slot[head].trap]
  <2>1. /\ slot' = [slot EXCEPT ![head] = blk]
        /\ pc = "fill" /\ pc' = IF delta = 0 THEN "idle" ELSE "publish"
        /\ UNCHANGED <<head, position, timer, isrVars, issued, goal, origin>>
    BY <1>1 DEF FillMove
  <2>2. slot'[head] = blk /\ slot'[head] \in Blocks
    BY <1>0, <2>1 DEF IInv, TypeOK
  <2>3. blk.id = issued + 1 /\ blk.action = "AT_MOVE" /\ blk.delta = delta
    OBVIOUS
  <2> HIDE DEF blk
  <2>4. blk.action = "AT_MOVE" => blk.delta # 0 \/ pc' = "idle"
    BY <2>1, <2>3
  <2>5. QED
    BY <1>0, <2>1, <2>2, <2>3, <2>4, FillStep
<1>2. CASE FillWait
  <2> DEFINE blk == [slot[head] EXCEPT !.id = issued + 1,
                       !.action = "AT_WAIT_TEMPS", !.trap = issued + 1]
  <2>1. /\ slot' = [slot EXCEPT ![head] = blk]
        /\ pc = "fill" /\ pc' = "publish"
        /\ UNCHANGED <<head, position, timer, isrVars, issued, goal, origin>>
    BY <1>2 DEF FillWait
  <2>2. slot'[head] = blk /\ slot'[head] \in Blocks
    BY <1>0, <2>1 DEF IInv, TypeOK
  <2>3. blk.id = issued + 1 /\ blk.action = "AT_WAIT_TEMPS"
    BY DEF IInv, TypeOK, Blocks
  <2> HIDE DEF blk
  <2>4. QED
    BY <1>0, <2>1, <2>2, <2>3, FillStep
<1>3. CASE Publish
  BY <1>0, <1>3, PublishStep
<1>4. CASE InterruptStep \/ InterruptEndstop
  BY <1>0, <1>4, InterruptMoveStep
<1>5. ASSUME NEW achieved \in BOOLEAN, InterruptWait(achieved)
      PROVE  IInv'
  BY <1>0, <1>5, InterruptWaitStep
<1>6. QED
  BY <1>0, <1>1, <1>2, <1>3, <1>4, <1>5, QuietStep
     DEF Next, Foreground, Caller, st_interrupt

\* The inductive invariant holds throughout.
THEOREM MotionInvariant == Spec => []IInv
BY InitIInv, NextIInv, PTL DEF Spec

\* Blocks are executed exactly once and in order, for every ring size.
THEOREM MotionFifo == Spec => []FifoExactlyOnce
<1>1. IInv => FifoExactlyOnce
  BY DEF IInv
<1>2. QED
  BY <1>1, MotionInvariant, PTL

\* The planner never writes the slot the stepper is reading.
THEOREM MotionNoOverwrite == Spec => []NoOverwrite
<1>1. IInv => NoOverwrite
  BY DEF IInv
<1>2. QED
  BY <1>1, MotionInvariant, PTL

\* An empty ring means the machine is where the planner believes it is,
\* except for the steps an endstop suppressed.
THEOREM MotionSettles == Spec => []SettledPosition
<1>1. IInv => SettledPosition
  BY DEF IInv
<1>2. QED
  BY <1>1, MotionInvariant, PTL

-----------------------------------------------------------------------------
(* The tracer: one block on its way to the motors.                         *)


-----------------------------------------------------------------------------
(* Arithmetic.                                                             *)

\* Integer division by a positive number.
LEMMA DivBounds ==
  ASSUME NEW n \in Int, NEW d \in Nat, d > 0
  PROVE  /\ n \div d \in Int
         /\ d * (n \div d) <= n
         /\ n < d * (n \div d) + d
  OBVIOUS

\* A quotient has the sign of its dividend.
LEMMA DivSign ==
  ASSUME NEW n \in Nat, NEW d \in Nat, d > 0
  PROVE  n \div d \in Nat
  OBVIOUS

\* Half a count.
LEMMA Half ==
  ASSUME NEW n \in Nat
  PROVE  /\ n \div 2 \in Nat
         /\ 2 * (n \div 2) <= n /\ n <= 2 * (n \div 2) + 1
         /\ n > 0 => n \div 2 < n
  OBVIOUS

\* Multiplication by a positive number reflects the order.
LEMMA MulOrder ==
  ASSUME NEW k \in Nat, k > 0, NEW m \in Int, NEW n \in Int, k * m < k * n
  PROVE  m < n
  <1>1. CASE m >= n
    <2>1. PICK j \in Nat : m = n + j
      BY <1>1
    <2>2. k * m = k * n + k * j
      BY <2>1
    <2>3. k * j >= 0
      OBVIOUS
    <2> QED BY <2>2, <2>3
  <1> QED BY <1>1

\* One more step event.
LEMMA NextEvent ==
  ASSUME NEW n \in Int, NEW s \in Int
  PROVE  (n + 1) * s = n * s + s
  OBVIOUS

\* Products are typed and monotonic.
LEMMA MulMono ==
  ASSUME NEW k \in Nat, NEW m \in Nat, NEW n \in Nat, m <= n
  PROVE  m * k <= n * k
  <1>1. PICK j \in Nat : n = m + j
    OBVIOUS
  <1>2. n * k = m * k + j * k
    BY <1>1
  <1>3. j * k >= 0
    OBVIOUS
  <1> QED BY <1>2, <1>3

LEMMA SquareMono ==
  ASSUME NEW m \in Nat, NEW n \in Nat, m <= n
  PROVE  m * m \in Nat /\ n * n \in Nat /\ m * m <= n * n
  <1>1. m * m <= n * m
    BY MulMono
  <1>2. m * n <= n * n
    BY MulMono
  <1> QED BY <1>1, <1>2

-----------------------------------------------------------------------------
(* The trapezoid.                                                          *)

\* A quotient rounded up.
LEMMA CeilBounds ==
  ASSUME NEW n \in Int, NEW d \in Nat, d > 0
  PROVE  /\ CeilDiv(n, d) \in Int
         /\ n <= d * CeilDiv(n, d)
         /\ d * CeilDiv(n, d) < n + d
  <1> DEFINE q == (-n) \div d
  <1>1. q \in Int /\ d * q <= -n /\ -n < d * q + d
    BY DivBounds, -n \in Int
  <1> HIDE DEF q
  <1>2. d * (-q) = -(d * q) /\ d * q \in Int
    BY <1>1
  <1>3. CeilDiv(n, d) = -q
    BY DEF CeilDiv, q
  <1> QED BY <1>1, <1>2, <1>3

\* A block that shall be left above its nominal rate and has no room for a
\* plateau accelerates to its end: the intersection lies behind it.
LEMMA FastExit ==
  ASSUME NEW k \in Nat, k > 0, NEW U \in Nat, NEW D \in Nat, NEW count \in Nat,
         NEW up \in Int, NEW down \in Int, NEW top \in Int,
         k * up < U + k, k * down <= -D, count - up - down < 0,
         k * count + U + D <= (2 * k) * top
  PROVE  count <= top
  <1>1. k * (count + 1) <= k * (up + down)
    <2>1. SUFFICES ASSUME k * (up + down) < k * (count + 1) PROVE FALSE
      <3>1. k * (up + down) \in Int /\ k * (count + 1) \in Int
        OBVIOUS
      <3> QED BY <3>1
    <2>2. up + down < count + 1
      BY <2>1, MulOrder, up + down \in Int, count + 1 \in Int
    <2> QED BY <2>2
  <1>2. k * (up + down) = k * up + k * down /\ k * (count + 1) = k * count + k
    OBVIOUS
  <1>3. /\ k * up \in Int /\ k * down \in Int /\ k * count \in Int
        /\ (2 * k) * count = 2 * (k * count) /\ (2 * k) * top \in Int
    OBVIOUS
  <1>4. (2 * k) * count < (2 * k) * top
    BY <1>1, <1>2, <1>3
  <1>5. 2 * k \in Nat /\ 2 * k > 0
    OBVIOUS
  <1> QED BY <1>4, <1>5, MulOrder

\* What calculate_trapezoid_for_block writes is a trapezoid that can be
\* followed to the end of the block.
LEMMA TrapezoidShaped ==
  ASSUME NEW i \in EntryRates, NEW f \in ExitRates, NEW count \in Nat
  PROVE  LET t == calculate_trapezoid_for_block(i, f, count)
         IN /\ t \in [TrapezoidFields -> Nat]
            /\ Shaped(t, count)
            /\ t.initial_rate <= nominal_rate
            /\ t.initial_rate = i /\ t.final_rate = f
  <1> DEFINE acc == rate_delta * TicksPerMinute
             U == nominal_rate * nominal_rate - i * i
             V == nominal_rate * nominal_rate - f * f
             up == AccelerateSteps(i, acc)
             down == DecelerateSteps(f, acc)
             plateau == count - up - down
             top == intersection_distance(i, f, acc, count)
             until == IF plateau < 0 THEN Lesser(Greater(top, 0), count) ELSE up
             after == until + Greater(plateau, 0)
  <1>1. /\ acc \in Nat /\ acc > 0 /\ nominal_rate \in Nat
        /\ i \in Nat /\ f \in Nat /\ i <= nominal_rate
    BY RateAssumption, TickAssumption DEF EntryRates, ExitRates, Greater
  <1> HIDE DEF acc
  <1> DEFINE k == 2 * acc
  <1>2. /\ k \in Nat /\ k > 0 /\ 4 * acc = 2 * k /\ 2 * acc * count = k * count
        /\ k * count \in Nat /\ 2 * k \in Nat /\ 2 * k > 0
    BY <1>1
  <1>3. /\ U \in Nat /\ V \in Int
        /\ f <= nominal_rate => V \in Nat
        /\ f > nominal_rate => -V \in Nat
    <2>1. i * i \in Nat /\ f * f \in Nat /\ nominal_rate * nominal_rate \in Nat
      BY <1>1
    <2>2. i * i <= nominal_rate * nominal_rate
      BY <1>1, SquareMono
    <2>3. f <= nominal_rate => f * f <= nominal_rate * nominal_rate
      BY <1>1, SquareMono
    <2>4. f > nominal_rate => nominal_rate * nominal_rate <= f * f
      BY <1>1, SquareMono
    <2> QED BY <1>1, <2>1, <2>2, <2>3, <2>4
  <1>4. 2 * acc * count - i * i + f * f = k * count + U - V
    <2>1. i * i \in Int /\ f * f \in Int /\ nominal_rate * nominal_rate \in Int
      BY <1>1
    <2> HIDE DEF k
    <2> QED BY <1>2, <2>1
  <1>5. /\ up = CeilDiv(U, k) /\ down = V \div k
        /\ top = CeilDiv(k * count + U - V, 2 * k)
    BY <1>2, <1>4 DEF AccelerateSteps, DecelerateSteps, intersection_distance
  <1> HIDE DEF U, V, up, down, top, k
  <1>6. /\ up \in Int /\ k * up < U + k /\ U <= k * up
    <2>1. U \in Int
      BY <1>3
    <2> QED BY ONLY <1>2, <1>5, <2>1, CeilBounds
  <1>7. /\ down \in Int /\ k * down <= V
    BY ONLY <1>2, <1>3, <1>5, DivBounds
  <1>8. /\ top \in Int
        /\ k * count + U - V <= (2 * k) * top
    <2>1. k * count + U - V \in Int
      BY <1>2, <1>3
    <2> QED BY ONLY <1>2, <1>5, <2>1, CeilBounds
  <1>9. up >= 0
    <2>1. k * (-1) < k * up
      <3>1. k * (-1) = -k /\ k * up \in Int
        BY <1>2, <1>6
      <3> QED BY <1>2, <1>3, <1>6, <3>1
    <2>2. -1 < up
      BY <1>2, <1>6, <2>1, MulOrder, -1 \in Int
    <2> QED BY <1>6, <2>2
  <1>10. f <= nominal_rate => down >= 0
    <2>1. V \in Nat => V \div k \in Nat
      BY <1>2, DivSign
    <2> QED BY <1>3, <1>5, <2>1
  <1>11. f > nominal_rate => down <= 0
    <2>1. SUFFICES ASSUME f > nominal_rate PROVE down <= 0
      BY <1>1, <1>7
    <2>2. k * down < k * 1
      <3>1. V <= 0
        BY <1>3, <2>1
      <3>2. k * down \in Int /\ k * 1 = k
        BY <1>2, <1>7
      <3> QED BY <1>2, <1>3, <1>7, <3>1, <3>2
    <2>3. down < 1
      BY <1>2, <1>7, <2>2, MulOrder, 1 \in Int
    <2> QED BY <1>7, <2>3
  <1>12. f > nominal_rate /\ plateau < 0 => count <= top
    <2>1. SUFFICES ASSUME f > nominal_rate, plateau < 0 PROVE count <= top
      OBVIOUS
    <2> DEFINE D == -V
    <2>2. D \in Nat /\ V = -D
      BY <1>3, <2>1
    <2>4. k * down <= -D /\ k * count + U + D <= (2 * k) * top
      <3>1. (2 * k) * top \in Int
        BY <1>2, <1>8
      <3> QED BY <1>2, <1>3, <1>7, <1>8, <2>2, <3>1
    <2>3. count - up - down < 0
      BY <2>1
    <2> HIDE DEF D
    <2> QED BY ONLY <1>2, <1>3, <1>6, <1>7, <1>8, <2>2, <2>3, <2>4, FastExit,
                    count \in Nat
  <1>13. plateau \in Int
    BY <1>6, <1>7
  <1>14. /\ until \in Nat /\ after \in Nat /\ until <= after
    BY <1>6, <1>7, <1>8, <1>9, <1>13 DEF Lesser, Greater
  <1>15. f <= nominal_rate => after <= count
    BY <1>6, <1>7, <1>8, <1>9, <1>10, <1>13 DEF Lesser, Greater
  <1>16. f > nominal_rate => after >= count
    BY <1>6, <1>7, <1>8, <1>9, <1>11, <1>12, <1>13 DEF Lesser, Greater
  <1> HIDE DEF until, after, plateau
  <1>17. calculate_trapezoid_for_block(i, f, count) =
          [initial_rate |-> i, final_rate |-> f, accelerate_until |-> until,
           decelerate_after |-> after]
    BY DEF calculate_trapezoid_for_block, acc, up, down, top, until, after,
           plateau
  <1>18. [initial_rate |-> i, final_rate |-> f, accelerate_until |-> until,
         decelerate_after |-> after] \in [TrapezoidFields -> Nat]
    BY <1>1, <1>14 DEF TrapezoidFields
  <1> QED BY <1>1, <1>14, <1>15, <1>16, <1>17, <1>18 DEF Shaped

\* The step event count is positive and bounds the steps of every axis.
LEMMA CountBounds ==
  ASSUME NEW steps \in Moves
  PROVE  /\ steps \in [Axes -> Nat]
         /\ step_event_count(steps) \in Nat /\ step_event_count(steps) > 0
         /\ \A a \in Axes : steps[a] <= step_event_count(steps)
  <1>1. steps \in [Axes -> Nat]
    BY MovesAssumption
  <1>2. PICK a \in Axes : steps[a] > 0 /\ \A b \in Axes : steps[b] <= steps[a]
    BY MovesAssumption
  <1>3. \E n \in {steps[c] : c \in Axes} : \A b \in Axes : steps[b] <= n
    BY <1>2
  <1>4. /\ step_event_count(steps) \in {steps[c] : c \in Axes}
        /\ \A b \in Axes : steps[b] <= step_event_count(steps)
    BY <1>3 DEF step_event_count
  <1>5. step_event_count(steps) \in Nat
    BY <1>1, <1>4
  <1> QED BY <1>1, <1>2, <1>4, <1>5


-----------------------------------------------------------------------------
(* One interrupt.                                                          *)

\* One Bresenham step of one axis keeps the counter in its window.
LEMMA AxisStep ==
  ASSUME NEW C \in Nat, C > 0, NEW s \in Nat, s <= C, NEW n \in Nat,
         NEW m \in Nat, NEW c \in Int, NEW h \in Int,
         c = n * s - C * m - h, -C < c, c <= 0
  PROVE  /\ c + s > 0 => /\ c + s - C = (n + 1) * s - C * (m + 1) - h
                         /\ -C < c + s - C /\ c + s - C <= 0
         /\ ~(c + s > 0) => /\ c + s = (n + 1) * s - C * m - h
                            /\ -C < c + s /\ c + s <= 0
  <1>1. (n + 1) * s = n * s + s
    BY NextEvent
  <1>2. C * (m + 1) = C * m + C
    OBVIOUS
  <1>3. n * s \in Int /\ C * m \in Int
    OBVIOUS
  <1> QED BY <1>1, <1>2, <1>3

\* No axis is ever ahead of its share ...
LEMMA NeverAhead ==
  ASSUME NEW C \in Nat, C > 0, NEW s \in Nat, NEW n \in Nat, n <= C,
         NEW m \in Nat, NEW c \in Int,
         c = n * s - C * m - (C \div 2), -C < c
  PROVE  m <= s
  <1>1. n * s <= C * s
    BY MulMono
  <1>2. C * m < C * s + C
    <2>1. C \div 2 \in Nat
      BY Half
    <2>2. n * s \in Int /\ C * m \in Int /\ C * s \in Int
      OBVIOUS
    <2> QED BY <1>1, <2>1, <2>2
  <1>3. C * s + C = C * (s + 1)
    OBVIOUS
  <1>4. m < s + 1
    BY <1>2, <1>3, MulOrder
  <1> QED BY <1>4

\* ... and after the last event none is behind.
LEMMA AllSteps ==
  ASSUME NEW C \in Nat, C > 0, NEW s \in Nat, NEW m \in Nat, NEW c \in Int,
         c = C * s - C * m - (C \div 2), -C < c, c <= 0
  PROVE  m = s
  <1>1. m <= s
    BY NeverAhead
  <1>2. C * s < C * (m + 1)
    <2>1. C \div 2 \in Nat /\ C \div 2 < C
      BY Half
    <2>2. C * m \in Int /\ C * s \in Int /\ C * (m + 1) = C * m + C
      OBVIOUS
    <2> QED BY <2>1, <2>2
  <1>3. s < m + 1
    BY <1>2, MulOrder
  <1> QED BY <1>1, <1>3

\* A step bit always is a rising edge: its pin has just been lowered.
LEMMA EdgesAreBits ==
  ASSUME NEW bits \in SUBSET Axes
  PROVE  RisingEdges(bits) = bits
  BY DEF RisingEdges, clear_step_pins

\* What one step event does to the axes of the block.
LEMMA TraceAxes ==
  ASSUME NEW b \in TracedBlocks, NEW c \in [Axes -> Int], NEW n \in Nat,
         NEW m \in [Axes -> Nat], NEW r \in Nat,
         Straight(b, c, n, m), TraceEvent(b, c, n + 1, m, r)
  PROVE  /\ counter' \in [Axes -> Int] /\ moved' \in [Axes -> Nat]
         /\ n + 1 < b.count => active' /\ Straight(b, counter', n + 1, moved')
         /\ ~(n + 1 < b.count) =>
              ~active' /\ \A a \in Axes : moved'[a] = b.steps[a]
  <1> DEFINE bits == StepBits(b, c)
  <1>1. /\ b.count \in Nat /\ b.steps \in [Axes -> Nat]
        /\ b.count > 0 /\ n < b.count
    BY DEF TracedBlocks, Straight
  <1>2. bits \in SUBSET Axes /\ RisingEdges(bits) = bits
    BY EdgesAreBits DEF StepBits
  <1>3. /\ counter' = [a \in Axes |-> c[a] + b.steps[a]
                         - (IF a \in bits THEN b.count ELSE 0)]
        /\ moved' = [a \in Axes |-> IF a \in bits THEN m[a] + 1 ELSE m[a]]
    BY <1>2 DEF TraceEvent, Bresenham
  <1>4. \A a \in Axes : a \in bits <=> c[a] + b.steps[a] > 0
    BY DEF StepBits
  <1> HIDE DEF bits
  <1>5. ASSUME NEW a \in Axes
        PROVE  /\ counter'[a] \in Int /\ moved'[a] \in Nat
               /\ counter'[a] = (n + 1) * b.steps[a] - b.count * moved'[a]
                                - (b.count \div 2)
               /\ -b.count < counter'[a] /\ counter'[a] <= 0
    <2>1. /\ c[a] \in Int /\ m[a] \in Nat /\ b.steps[a] \in Nat
          /\ b.steps[a] <= b.count
          /\ c[a] = n * b.steps[a] - b.count * m[a] - (b.count \div 2)
          /\ -b.count < c[a] /\ c[a] <= 0
      BY <1>1 DEF Straight
    <2> DEFINE C == b.count  s == b.steps[a]  ma == m[a]  ca == c[a]
               h == b.count \div 2
    <2>2. /\ C \in Nat /\ C > 0 /\ s \in Nat /\ s <= C /\ ma \in Nat
          /\ ca \in Int /\ h \in Int
          /\ ca = n * s - C * ma - h /\ -C < ca /\ ca <= 0
      BY <1>1, <2>1, Half
    <2> HIDE DEF C, s, ma, ca, h
    <2>6. /\ ca + s > 0 => /\ ca + s - C = (n + 1) * s - C * (ma + 1) - h
                           /\ -C < ca + s - C /\ ca + s - C <= 0
          /\ ~(ca + s > 0) => /\ ca + s = (n + 1) * s - C * ma - h
                              /\ -C < ca + s /\ ca + s <= 0
      BY <2>2, AxisStep
    <2>3. /\ counter'[a] = c[a] + b.steps[a]
                           - (IF a \in bits THEN b.count ELSE 0)
          /\ moved'[a] = IF a \in bits THEN m[a] + 1 ELSE m[a]
      BY <1>3
    <2>4. CASE a \in bits
      <3>1. /\ counter'[a] = c[a] + b.steps[a] - b.count
            /\ moved'[a] = m[a] + 1 /\ c[a] + b.steps[a] > 0
        BY <1>4, <2>3, <2>4
      <3>2. /\ c[a] + b.steps[a] - b.count =
                 (n + 1) * b.steps[a] - b.count * (m[a] + 1) - (b.count \div 2)
            /\ -b.count < c[a] + b.steps[a] - b.count
            /\ c[a] + b.steps[a] - b.count <= 0
        BY <2>6, <3>1 DEF C, s, ma, ca, h
      <3> QED BY <1>1, <2>1, <3>1, <3>2
    <2>5. CASE a \notin bits
      <3>1. /\ counter'[a] = c[a] + b.steps[a]
            /\ moved'[a] = m[a] /\ ~(c[a] + b.steps[a] > 0)
        BY <1>1, <1>4, <2>1, <2>3, <2>5
      <3>2. /\ c[a] + b.steps[a] =
                 (n + 1) * b.steps[a] - b.count * m[a] - (b.count \div 2)
            /\ -b.count < c[a] + b.steps[a] /\ c[a] + b.steps[a] <= 0
        BY <2>6, <3>1 DEF C, s, ma, ca, h
      <3> QED BY <1>1, <2>1, <3>1, <3>2
    <2> QED BY <2>4, <2>5
  <1>6. counter' \in [Axes -> Int] /\ moved' \in [Axes -> Nat]
    <2>1. /\ counter' = [a \in Axes |-> counter'[a]]
          /\ moved' = [a \in Axes |-> moved'[a]]
      BY <1>3
    <2> QED BY <1>5, <2>1
  <1>7. n + 1 < b.count => active' /\ Straight(b, counter', n + 1, moved')
    <2>1. SUFFICES ASSUME n + 1 < b.count
                   PROVE  active' /\ Straight(b, counter', n + 1, moved')
      OBVIOUS
    <2>2. active'
      BY <2>1 DEF TraceEvent, GoOn
    <2>3. \A a \in Axes : b.steps[a] <= b.count
      BY DEF Straight
    <2> QED BY <1>1, <1>5, <2>1, <2>2, <2>3 DEF Straight
  <1>8. ~(n + 1 < b.count) =>
          ~active' /\ \A a \in Axes : moved'[a] = b.steps[a]
    <2>1. SUFFICES ASSUME ~(n + 1 < b.count)
                   PROVE  ~active' /\ \A a \in Axes : moved'[a] = b.steps[a]
      OBVIOUS
    <2>2. ~active'
      BY <2>1 DEF TraceEvent, StopBlock
    <2>3. n + 1 = b.count
      BY <1>1, <2>1
    <2>4. ASSUME NEW a \in Axes
          PROVE  moved'[a] = b.steps[a]
      <3> DEFINE C == b.count  s == b.steps[a]  ma == moved'[a]
                 ca == counter'[a]
      <3>1. /\ C \in Nat /\ C > 0 /\ s \in Nat /\ ma \in Nat /\ ca \in Int
            /\ ca = C * s - C * ma - (C \div 2) /\ -C < ca /\ ca <= 0
        BY <1>1, <1>5, <2>3
      <3> HIDE DEF C, s, ma, ca
      <3>2. ma = s
        BY <3>1, AllSteps
      <3> QED BY <3>2 DEF s, ma
    <2> QED BY <2>2, <2>4
  <1> QED BY <1>6, <1>7, <1>8

\* What one step event inside block b does to the rate.
LEMMA RateStep ==
  ASSUME NEW b \in TracedBlocks, NEW n \in Nat, NEW r \in Nat
  PROVE  /\ NextRate(b, n, r) \in Nat
         /\ \A top \in Nat :
              /\ nominal_rate <= top /\ r <= top /\ n < b.count
              /\ \/ b.trapezoid.final_rate <= top
                 \/ b.trapezoid.decelerate_after >= b.count
              => NextRate(b, n, r) <= top
  <1>1. /\ b.trapezoid.accelerate_until \in Nat
        /\ b.trapezoid.decelerate_after \in Nat
        /\ b.trapezoid.final_rate \in Nat /\ b.count \in Nat
    BY DEF TracedBlocks, TrapezoidFields
  <1>2. nominal_rate \in Nat /\ rate_delta \in Nat
    BY RateAssumption
  <1> DEFINE slower == IF r > rate_delta THEN r - rate_delta ELSE r
             braked == Greater(slower, b.trapezoid.final_rate)
  <1>3. slower \in Nat /\ slower <= r
    BY <1>2
  <1>4. /\ Lesser(r + rate_delta, nominal_rate) \in Nat
        /\ Lesser(r + rate_delta, nominal_rate) <= nominal_rate
    BY <1>2 DEF Lesser
  <1> HIDE DEF slower
  <1>5. /\ braked \in Nat
        /\ \A top \in Nat : r <= top /\ b.trapezoid.final_rate <= top =>
             braked <= top
    BY <1>1, <1>2, <1>3 DEF Greater
  <1>6. \/ NextRate(b, n, r) \in {Lesser(r + rate_delta, nominal_rate), r,
                                  nominal_rate}
        \/ NextRate(b, n, r) = braked /\ n > b.trapezoid.decelerate_after
    BY DEF NextRate, slower
  <1> HIDE DEF braked
  <1>7. NextRate(b, n, r) \in Nat
    BY <1>2, <1>4, <1>5, <1>6
  <1>8. ASSUME NEW top \in Nat, nominal_rate <= top, r <= top, n < b.count,
               \/ b.trapezoid.final_rate <= top
               \/ b.trapezoid.decelerate_after >= b.count
        PROVE  NextRate(b, n, r) <= top
    BY <1>1, <1>2, <1>4, <1>5, <1>6, <1>8
  <1> QED BY <1>7, <1>8

\* The LED counters stay below their period.
LEMMA LedTypes ==
  ASSUME TracerTypeOK, NEW bits \in SUBSET Axes
  PROVE  /\ LedCounts(bits) \in [Axes -> 0 .. LedPeriod - 1]
         /\ Toggle(led_on, LedToggles(bits)) \subseteq Axes
  <1>1. LedPeriod \in Nat /\ LedPeriod > 0
    BY LedAssumption
  <1>2. ASSUME NEW a \in Axes
        PROVE  LedCounts(bits)[a] \in 0 .. LedPeriod - 1
    BY <1>1 DEF TracerTypeOK, LedCounts
  <1>3. LedCounts(bits) = [a \in Axes |-> LedCounts(bits)[a]]
    BY DEF LedCounts
  <1>4. LedCounts(bits) \in [Axes -> 0 .. LedPeriod - 1]
    BY <1>2, <1>3
  <1>5. Toggle(led_on, LedToggles(bits)) \subseteq Axes
    BY DEF TracerTypeOK, Toggle, LedToggles
  <1> QED BY <1>4, <1>5

\* The parts of the type invariant that belong to the traced block.
BlockTypes ==
  /\ active \in BOOLEAN /\ block \in TracedBlocks
  /\ counter \in [Axes -> Int] /\ completed \in Nat
  /\ rate \in Nat /\ accel_flag \in BOOLEAN
  /\ pin \in [Axes -> BOOLEAN]
  /\ led_count \in [Axes -> 0 .. LedPeriod - 1] /\ led_on \subseteq Axes
  /\ moved \in [Axes -> Nat] /\ cut \in BOOLEAN

LEMMA NoBlockType == NoBlock \in TracedBlocks /\ NoTrapezoid \in [TrapezoidFields -> Nat]
  BY DEF NoBlock, TracedBlocks, ZeroSteps, NoTrapezoid

\* The rate r and the exit rate of a block b with the stores todo of trapezoid
\* t to come stay below top.
RateOf(b, r, todo, t, top) ==
  /\ nominal_rate <= top /\ r <= top
  /\ \/ b.trapezoid.final_rate <= top
     \/ todo = {} /\ b.trapezoid.decelerate_after >= b.count
  /\ todo # {} => t.final_rate <= top

\* A step event of block b keeps the types, the line and the step counts.
LEMMA TraceKeeps ==
  ASSUME TracerTypeOK, NEW b \in TracedBlocks, NEW c \in [Axes -> Int], NEW n \in Nat,
         NEW m \in [Axes -> Nat], NEW r \in Nat, NEW p \in BOOLEAN,
         Straight(b, c, n, m), TraceEvent(b, c, n + 1, m, r),
         asked' = b.steps, planned' = p,
         NEW todo, NEW t, NEW top \in Nat, StillWriting(todo, t), limit' = top,
         p => RateOf(b, r, todo, t, top)
  PROVE  BlockTypes' /\ Traced' /\ ExactSteps' /\ RateInv' /\
         (active' => block' = b)
  <1> DEFINE bits == StepBits(b, c)
  <1>1. bits \in SUBSET Axes
    BY DEF StepBits
  <1>2. /\ counter' \in [Axes -> Int] /\ moved' \in [Axes -> Nat]
        /\ n + 1 < b.count => active' /\ Straight(b, counter', n + 1, moved')
        /\ ~(n + 1 < b.count) =>
             ~active' /\ \A a \in Axes : moved'[a] = b.steps[a]
    BY TraceAxes
  <1>3. /\ led_count' = LedCounts(bits) /\ completed' = n + 1 /\ cut' = FALSE
        /\ IF n + 1 < b.count THEN GoOn(b, bits, n + 1, r) ELSE StopBlock(r)
    BY DEF TraceEvent
  <1>4. led_count' \in [Axes -> 0 .. LedPeriod - 1]
    BY <1>1, <1>3, LedTypes
  <1>5. b.steps \in [Axes -> Nat]
    BY DEF TracedBlocks
  <1> HIDE DEF bits
  <1>6. CASE n + 1 < b.count
    <2>1. GoOn(b, bits, n + 1, r)
      BY <1>3, <1>6
    <2>2. /\ active' = TRUE /\ block' = b
          /\ rate' = NextRate(b, n + 1, r)
      BY <2>1 DEF GoOn
    <2>3. n + 1 \in Nat
      OBVIOUS
    <2>4. /\ rate' \in Nat
          /\ p => rate' <= top
      <3>1. rate' \in Nat
        BY <2>2, <2>3, RateStep
      <3>2. ASSUME p PROVE rate' <= top
        BY <1>6, <2>2, <2>3, <3>2, RateStep DEF RateOf
      <3> QED BY <3>1, <3>2
    <2>10. RateInv'
      <3>1. writes' = todo /\ (todo # {} => fresh' = t)
        BY <2>2 DEF StillWriting
      <3> QED BY <2>2, <2>4, <3>1 DEF RateInv, RateOf
    <2>5. led_on' \subseteq Axes
      BY <1>1, <2>1, LedTypes DEF GoOn
    <2>6. accel_flag' \in BOOLEAN
      BY <2>1 DEF GoOn
    <2>7. pin' \in [Axes -> BOOLEAN]
      BY <2>1 DEF GoOn
    <2>8. BlockTypes'
      BY <1>2, <1>3, <1>4, <2>2, <2>3, <2>4, <2>5, <2>6, <2>7 DEF BlockTypes
    <2>9. Traced'
      BY <1>2, <1>3, <1>6, <2>2 DEF Traced
    <2> QED BY <2>2, <2>8, <2>9, <2>10 DEF ExactSteps
  <1>7. CASE ~(n + 1 < b.count)
    <2>1. StopBlock(r)
      BY <1>3, <1>7
    <2>5. /\ active' = FALSE /\ block' = NoBlock /\ led_on' = {} /\ rate' = r
          /\ pin' = [a \in Axes |-> FALSE] /\ accel_flag' = accel_flag
      BY <2>1 DEF StopBlock
    <2>2. BlockTypes'
      <3>1. n + 1 \in Nat
        OBVIOUS
      <3>2. accel_flag' \in BOOLEAN
        BY <2>5 DEF TracerTypeOK
      <3>3. pin' \in [Axes -> BOOLEAN] /\ led_on' \subseteq Axes
        BY <2>5
      <3> QED BY <1>2, <1>3, <1>4, <2>5, <3>1, <3>2, <3>3, NoBlockType
              DEF BlockTypes
    <2>3. ~active'
      BY <2>1 DEF StopBlock
    <2>4. \A a \in Axes : moved'[a] = asked'[a] /\ moved'[a] <= asked'[a]
      BY <1>2, <1>5, <1>7
    <2> QED BY <2>2, <2>3, <2>4 DEF Traced, ExactSteps, RateInv
  <1> QED BY <1>6, <1>7

\* So does an event that meets an endstop: the block ends with no axis ahead.
LEMMA EndstopKeeps ==
  ASSUME TracerTypeOK, NEW b \in TracedBlocks, NEW c \in [Axes -> Int], NEW n \in Nat,
         NEW m \in [Axes -> Nat], NEW r \in Nat,
         Straight(b, c, n, m), EndstopEvent(b, c, m, r), asked' = b.steps
  PROVE  BlockTypes' /\ Traced' /\ ExactSteps' /\ RateInv' /\ ~active'
  <1>1. /\ b.count \in Nat /\ b.steps \in [Axes -> Nat]
        /\ b.count > 0 /\ n < b.count
    BY DEF TracedBlocks, Straight
  <1>2. /\ ~active' /\ block' = NoBlock /\ led_on' = {} /\ rate' = r
        /\ pin' = [a \in Axes |-> FALSE] /\ accel_flag' = accel_flag
        /\ active' \in BOOLEAN
        /\ completed' = b.count /\ cut' = TRUE /\ moved' = m
        /\ led_count' = led_count /\ counter' = Bresenham(b, c)
    BY DEF EndstopEvent, StopBlock
  <1>3. counter' \in [Axes -> Int]
    BY <1>1, <1>2 DEF Bresenham
  <1>4. BlockTypes'
    BY <1>1, <1>2, <1>3, NoBlockType DEF BlockTypes, TracerTypeOK
  <1>5. ASSUME NEW a \in Axes
        PROVE  m[a] <= b.steps[a]
    <2> DEFINE C == b.count  s == b.steps[a]  ma == m[a]  ca == c[a]
    <2>1. /\ C \in Nat /\ C > 0 /\ s \in Nat /\ ma \in Nat /\ ca \in Int
          /\ ca = n * s - C * ma - (C \div 2) /\ -C < ca /\ n <= C
      BY <1>1 DEF Straight
    <2> HIDE DEF C, s, ma, ca
    <2>2. ma <= s
      BY <2>1, NeverAhead
    <2> QED BY <2>2 DEF s, ma
  <1> QED BY <1>2, <1>4, <1>5 DEF Traced, ExactSteps, RateInv


-----------------------------------------------------------------------------
(* The inductive invariant.                                                *)

LEMMA TracerInitInv == TracerInit => TracerInv
  <1> SUFFICES ASSUME TracerInit PROVE TracerInv
    OBVIOUS
  <1>1. TracerTypeOK
    <2>1. LedPeriod \in Nat /\ LedPeriod > 0 /\ nominal_rate \in Nat
      BY LedAssumption, RateAssumption
    <2>2. ZeroSteps \in [Axes -> Nat] /\ ZeroSteps \in [Axes -> Int]
          /\ ZeroSteps \in [Axes -> 0 .. LedPeriod - 1]
      BY <2>1 DEF ZeroSteps
    <2>3. pin \in [Axes -> BOOLEAN] /\ led_count \in [Axes -> 0 .. LedPeriod - 1]
      BY <2>1 DEF TracerInit
    <2>4. cut \in BOOLEAN /\ planned \in BOOLEAN /\ limit \in Nat
      BY <2>1 DEF TracerInit
    <2>5. /\ active \in BOOLEAN /\ accel_flag \in BOOLEAN
          /\ led_on \subseteq Axes /\ writes \subseteq TrapezoidFields
      BY DEF TracerInit
    <2>6. rate \in Nat /\ completed \in Nat
      BY DEF TracerInit
    <2>7. /\ block \in TracedBlocks /\ fresh \in [TrapezoidFields -> Nat]
          /\ counter \in [Axes -> Int] /\ moved \in [Axes -> Nat]
          /\ asked \in [Axes -> Nat]
      BY <2>2, NoBlockType DEF TracerInit
    <2> QED BY <2>3, <2>4, <2>5, <2>6, <2>7 DEF TracerTypeOK
  <1>2. ExactSteps
    BY DEF TracerInit, ExactSteps, ZeroSteps
  <1> QED BY <1>1, <1>2 DEF TracerInit, TracerInv, Traced, PlanInv, RateInv

\* The planner's side of an interrupt that works on block b: the stores left
\* to do belong to a trapezoid of that block.
PlanOf(b, todo, t) ==
  /\ todo = {} => Shaped(b.trapezoid, b.count)
  /\ todo # {} => /\ Shaped(t, b.count)
                  /\ \A x \in TrapezoidFields \ todo : b.trapezoid[x] = t[x]

LEMMA PlanKeeps ==
  ASSUME NEW b, NEW todo \in SUBSET TrapezoidFields,
         NEW t \in [TrapezoidFields -> Nat],
         PlanOf(b, todo, t), StillWriting(todo, t),
         active' => block' = b
  PROVE  /\ PlanInv'
         /\ writes' \subseteq TrapezoidFields
         /\ fresh' \in [TrapezoidFields -> Nat]
  <1>1. writes' = IF active' THEN todo ELSE {}
    BY DEF StillWriting
  <1>2. fresh' = IF writes' = {} THEN NoTrapezoid ELSE t
    BY DEF StillWriting
  <1>3. CASE active'
    <2>1. writes' = todo /\ block' = b
      BY <1>1, <1>3
    <2>2. writes' # {} => fresh' = t
      BY <1>2
    <2> QED BY <1>2, <2>1, <2>2, NoBlockType DEF PlanInv, PlanOf
  <1>4. CASE ~active'
    BY <1>1, <1>2, <1>4, NoBlockType DEF PlanInv
  <1> QED BY <1>3, <1>4

LEMMA ContinueIInv ==
  ASSUME TracerInv, Continue
  PROVE  TracerInv'
  <1>1. TracerTypeOK /\ Traced /\ PlanInv /\ RateInv /\ active
    BY DEF TracerInv, Continue
  <1>2. /\ block \in TracedBlocks /\ counter \in [Axes -> Int] /\ completed \in Nat
        /\ moved \in [Axes -> Nat] /\ rate \in Nat /\ planned \in BOOLEAN
        /\ limit \in Nat /\ writes \in SUBSET TrapezoidFields
        /\ fresh \in [TrapezoidFields -> Nat]
    BY <1>1 DEF TracerTypeOK
  <1>3. Straight(block, counter, completed, moved) /\ asked = block.steps
    BY <1>1 DEF Traced
  <1>4. asked' = block.steps /\ planned' = planned /\ limit' = limit
    BY <1>3 DEF Continue
  <1>5. planned => RateOf(block, rate, writes, fresh, limit)
    BY <1>1 DEF RateInv, RateOf
  <1>6. PlanOf(block, writes, fresh) /\ StillWriting(writes, fresh)
    BY <1>1 DEF PlanInv, PlanOf, Continue
  <1>7. /\ BlockTypes' /\ Traced' /\ ExactSteps' /\ RateInv'
        /\ active' => block' = block
    <2>1. CASE TraceEvent(block, counter, completed + 1, moved, rate)
      BY <1>1, <1>2, <1>3, <1>4, <1>5, <1>6, <2>1, TraceKeeps
    <2>2. CASE EndstopEvent(block, counter, moved, rate)
      BY <1>1, <1>2, <1>3, <1>4, <2>2, EndstopKeeps
    <2> QED BY <2>1, <2>2 DEF Continue
  <1>8. /\ PlanInv' /\ writes' \subseteq TrapezoidFields
        /\ fresh' \in [TrapezoidFields -> Nat]
    BY <1>2, <1>6, <1>7, PlanKeeps
  <1>9. TracerTypeOK'
    BY <1>1, <1>4, <1>7, <1>8 DEF TracerTypeOK, BlockTypes, TracedBlocks
  <1> QED BY <1>7, <1>8, <1>9 DEF TracerInv

LEMMA StartIInv ==
  ASSUME TracerInv, NEW steps \in Moves, NEW i \in EntryRates, NEW f \in ExitRates,
         NEW old \in Leftovers, NEW todo \in SUBSET TrapezoidFields,
         NEW check \in BOOLEAN,
         Start(steps, calculate_trapezoid_for_block(i, f,
                                                    step_event_count(steps)),
               old, todo, check)
  PROVE  TracerInv'
  <1> DEFINE count == step_event_count(steps)
             new == calculate_trapezoid_for_block(i, f, count)
             b == NewBlock(steps, new, old, todo, check)
             c == [a \in Axes |-> -(b.count \div 2)]
             r == b.trapezoid.initial_rate
  <1>1. /\ steps \in [Axes -> Nat] /\ count \in Nat /\ count > 0
        /\ \A a \in Axes : steps[a] <= count
    BY CountBounds
  <1> HIDE DEF count
  <1>2. /\ new \in [TrapezoidFields -> Nat] /\ Shaped(new, count)
        /\ new.initial_rate <= nominal_rate /\ new.initial_rate = i
    BY <1>1, TrapezoidShaped
  <1> HIDE DEF new
  <1>3. old \in [TrapezoidFields -> Nat]
    BY LeftoverAssumption
  <1>4. /\ b.steps = steps /\ b.count = count /\ b.check_endstops = check
        /\ b.trapezoid = [x \in TrapezoidFields |->
                            IF x \in todo THEN old[x] ELSE new[x]]
        /\ b \in TracedBlocks
    <2>1. b = [steps |-> steps, count |-> count, check_endstops |-> check,
               trapezoid |-> [x \in TrapezoidFields |->
                                IF x \in todo THEN old[x] ELSE new[x]]]
      BY DEF NewBlock, count
    <2>2. [x \in TrapezoidFields |-> IF x \in todo THEN old[x] ELSE new[x]]
            \in [TrapezoidFields -> Nat]
      BY <1>2, <1>3
    <2> HIDE DEF b
    <2> QED BY <1>1, <2>1, <2>2 DEF TracedBlocks
  <1>5. Start(steps, new, old, todo, check)
    BY DEF new, count
  <1>6. /\ \/ TraceEvent(b, c, 1, ZeroSteps, r)
           \/ EndstopEvent(b, c, ZeroSteps, r)
        /\ StillWriting(todo, new)
        /\ asked' = steps /\ planned' = (todo = {}) /\ limit' = nominal_rate
    BY <1>5 DEF Start
  <1> HIDE DEF b
  <1>7. c \in [Axes -> Int] /\ Straight(b, c, 0, ZeroSteps)
    <2>1. /\ count \div 2 \in Nat /\ count \div 2 < count
      BY <1>1, Half
    <2>2. c \in [Axes -> Int] /\ \A a \in Axes : c[a] = -(count \div 2)
      BY <1>4, <2>1
    <2>3. ASSUME NEW a \in Axes
          PROVE  /\ c[a] = 0 * steps[a] - count * ZeroSteps[a] - (count \div 2)
                 /\ -count < c[a] /\ c[a] <= 0
      <3>1. ZeroSteps[a] = 0 /\ steps[a] \in Nat
        BY <1>1 DEF ZeroSteps
      <3>2. 0 * steps[a] = 0 /\ count * 0 = 0
        BY <1>1, <3>1
      <3> HIDE DEF c
      <3> QED BY <1>1, <2>1, <2>2, <3>1, <3>2
    <2> HIDE DEF c
    <2> QED BY <1>1, <1>4, <2>2, <2>3 DEF Straight
  <1> HIDE DEF c
  <1>8. r \in Nat
    BY <1>4 DEF TracedBlocks, TrapezoidFields
  <1>9. todo = {} => b.trapezoid = new
    BY <1>2, <1>4
  <1>16. nominal_rate \in Nat
    BY RateAssumption
  <1>10. planned' => RateOf(b, r, todo, new, nominal_rate)
    <2>1. new.final_rate \in Nat
      BY <1>2 DEF TrapezoidFields
    <2>2. SUFFICES ASSUME todo = {}
                   PROVE  RateOf(b, r, todo, new, nominal_rate)
      BY <1>6
    <2>3. b.trapezoid = new
      BY <1>9, <2>2
    <2>4. r = new.initial_rate
      BY <2>3
    <2>5. nominal_rate <= nominal_rate /\ r <= nominal_rate
      BY <1>2, <1>16, <2>4
    <2>6. \/ b.trapezoid.final_rate <= nominal_rate
          \/ b.trapezoid.decelerate_after >= b.count
      BY <1>2, <1>4, <1>16, <2>1, <2>3 DEF Shaped
    <2> QED BY <2>2, <2>5, <2>6 DEF RateOf
  <1> HIDE DEF r
  <1>11. PlanOf(b, todo, new)
    <2>1. \A x \in TrapezoidFields \ todo : b.trapezoid[x] = new[x]
      BY <1>4
    <2> QED BY <1>2, <1>4, <1>9, <2>1 DEF PlanOf
  <1>12. ZeroSteps \in [Axes -> Nat] /\ planned' \in BOOLEAN /\ TracerTypeOK
    BY <1>6 DEF ZeroSteps, TracerInv
  <1>13. /\ BlockTypes' /\ Traced' /\ ExactSteps' /\ RateInv'
         /\ active' => block' = b
    <2>1. CASE TraceEvent(b, c, 1, ZeroSteps, r)
      <3>1. TraceEvent(b, c, 0 + 1, ZeroSteps, r)
        BY <2>1
      <3>2. asked' = b.steps
        BY <1>4, <1>6
      <3> QED BY <1>4, <1>6, <1>7, <1>8, <1>10, <1>12, <1>16, <3>1, <3>2, TraceKeeps
    <2>2. CASE EndstopEvent(b, c, ZeroSteps, r)
      <3>1. asked' = b.steps
        BY <1>4, <1>6
      <3> QED BY <1>4, <1>7, <1>8, <1>12, <2>2, <3>1, EndstopKeeps
    <2> QED BY <1>6, <2>1, <2>2
  <1>14. /\ PlanInv' /\ writes' \subseteq TrapezoidFields
         /\ fresh' \in [TrapezoidFields -> Nat]
    BY <1>2, <1>6, <1>11, <1>13, PlanKeeps
  <1>15. TracerTypeOK'
    <2>1. asked' \in [Axes -> Nat] /\ limit' \in Nat
      BY <1>1, <1>6, <1>16
    <2> QED BY <1>12, <1>13, <1>14, <2>1 DEF TracerTypeOK, BlockTypes
  <1> QED BY <1>13, <1>14, <1>15 DEF TracerInv

LEMMA TickIInv ==
  ASSUME TracerInv, accelCallback
  PROVE  TracerInv'
  <1>2. /\ UNCHANGED <<active, block, counter, completed, rate, writes, fresh, pin,
                       led_count, led_on, moved, asked, cut, planned, limit>>
        /\ accel_flag' = TRUE
    BY DEF accelCallback, planVars, pinVars
  <1>3. TracerTypeOK'
    BY <1>2 DEF TracerInv, TracerTypeOK
  <1> QED BY <1>2, <1>3 DEF TracerInv, Traced, ExactSteps, PlanInv, RateInv

LEMMA ReplanIInv ==
  ASSUME TracerInv, NEW i \in EntryRates, NEW f \in ExitRates, Replan(i, f)
  PROVE  TracerInv'
  <1>1. /\ UNCHANGED <<active, block, counter, completed, rate, accel_flag, pin,
                       led_count, led_on, moved, asked, cut, planned>>
        /\ fresh' = calculate_trapezoid_for_block(i, f, block.count)
        /\ writes' = TrapezoidFields /\ active
        /\ limit' = Greater(limit, Greater(block.trapezoid.final_rate, f))
    BY DEF Replan, pinVars
  <1>2. /\ block.count \in Nat /\ block.trapezoid.final_rate \in Nat
        /\ limit \in Nat /\ f \in Nat
    BY RateAssumption
       DEF TracerInv, TracerTypeOK, TracedBlocks, TrapezoidFields, ExitRates, Greater
  <1>3. /\ fresh' \in [TrapezoidFields -> Nat] /\ Shaped(fresh', block.count)
        /\ fresh'.final_rate = f
    BY <1>1, <1>2, TrapezoidShaped
  <1>6. /\ limit' \in Nat /\ limit <= limit' /\ f <= limit'
        /\ block.trapezoid.final_rate <= limit'
    BY <1>1, <1>2 DEF Greater
  <1>4. TracerTypeOK'
    BY <1>1, <1>3, <1>6 DEF TracerInv, TracerTypeOK
  <1>7. RateInv'
    <2>1. planned => nominal_rate <= limit /\ rate <= limit
      BY <1>1 DEF TracerInv, RateInv
    <2>2. rate \in Nat /\ nominal_rate \in Nat
      BY RateAssumption DEF TracerInv, TracerTypeOK
    <2> QED BY <1>1, <1>2, <1>3, <1>6, <2>1, <2>2 DEF RateInv
  <1>5. PlanInv'
    <2>1. TrapezoidFields # {}
      BY DEF TrapezoidFields
    <2> QED BY <1>1, <1>3, <2>1 DEF PlanInv, Shaped
  <1> QED BY <1>1, <1>4, <1>5, <1>7 DEF TracerInv, Traced, ExactSteps

LEMMA WriteIInv ==
  ASSUME TracerInv, NEW x \in TrapezoidFields, WriteField(x)
  PROVE  TracerInv'
  <1> DEFINE t == [block.trapezoid EXCEPT ![x] = fresh[x]]
  <1>1. /\ UNCHANGED <<active, counter, completed, rate, accel_flag, pin,
                       led_count, led_on, moved, asked, cut, planned, limit>>
        /\ x \in writes /\ writes' = writes \ {x}
        /\ fresh' = IF writes' = {} THEN NoTrapezoid ELSE fresh
    BY DEF WriteField, pinVars
  <1>2. /\ block \in TracedBlocks /\ fresh \in [TrapezoidFields -> Nat]
        /\ writes \subseteq TrapezoidFields
    BY DEF TracerInv, TracerTypeOK
  <1>3. /\ block'.steps = block.steps /\ block'.count = block.count
        /\ block'.trapezoid = t /\ t \in [TrapezoidFields -> Nat]
        /\ block' \in TracedBlocks
    <2>1. block' = [block EXCEPT !.trapezoid = t]
      BY <1>2 DEF WriteField, TracedBlocks
    <2>2. t \in [TrapezoidFields -> Nat]
      BY <1>2 DEF TracedBlocks
    <2> HIDE DEF t
    <2> QED BY <1>2, <2>1, <2>2 DEF TracedBlocks
  <1>4. \A y \in TrapezoidFields : t[y] = IF y = x THEN fresh[x]
                                         ELSE block.trapezoid[y]
    BY <1>2 DEF TracedBlocks
  <1> HIDE DEF t
  <1>5. TracerTypeOK'
    BY <1>1, <1>2, <1>3, NoBlockType DEF TracerInv, TracerTypeOK
  <1>6. Traced' /\ ExactSteps'
    BY <1>1, <1>3 DEF TracerInv, Traced, Straight, ExactSteps
  <1>7. active => /\ Shaped(fresh, block.count)
                  /\ \A y \in TrapezoidFields \ writes' : t[y] = fresh[y]
    BY <1>1, <1>2, <1>4 DEF TracerInv, PlanInv
  <1>8. PlanInv'
    <2>1. CASE writes' = {}
      <3>1. active => t = fresh
        BY <1>2, <1>3, <1>7, <2>1
      <3> QED BY <1>1, <1>3, <1>7, <2>1, <3>1 DEF PlanInv
    <2>2. CASE writes' # {}
      <3>1. fresh' = fresh
        BY <1>1, <2>2
      <3> QED BY <1>1, <1>3, <1>7, <2>2, <3>1 DEF PlanInv, Shaped
    <2> QED BY <2>1, <2>2
  <1>9. RateInv'
    <2>1. active /\ planned => /\ block.trapezoid.final_rate <= limit
                               /\ fresh.final_rate <= limit
                               /\ nominal_rate <= limit /\ rate <= limit
      BY <1>1 DEF TracerInv, RateInv
    <2>2. active /\ planned => t.final_rate <= limit
      <3>1. "final_rate" \in TrapezoidFields
        BY DEF TrapezoidFields
      <3> QED BY <1>4, <2>1, <3>1
    <2>3. writes' # {} => fresh' = fresh
      BY <1>1
    <2> QED BY <1>1, <1>3, <2>1, <2>2, <2>3 DEF RateInv
  <1> QED BY <1>5, <1>6, <1>8, <1>9 DEF TracerInv

LEMMA TracerNextInv == TracerInv /\ [TracerNext]_tracerVars => TracerInv'
  <1> SUFFICES ASSUME TracerInv, [TracerNext]_tracerVars PROVE TracerInv'
    OBVIOUS
  <1>1. CASE Continue
    BY <1>1, ContinueIInv
  <1>2. ASSUME NEW steps \in Moves, NEW i \in EntryRates, NEW f \in ExitRates,
               NEW old \in Leftovers, NEW todo \in SUBSET TrapezoidFields,
               NEW check \in BOOLEAN,
               Start(steps, calculate_trapezoid_for_block(i, f,
                              step_event_count(steps)), old, todo, check)
        PROVE  TracerInv'
    BY <1>2, StartIInv
  <1>3. CASE accelCallback
    BY <1>3, TickIInv
  <1>4. ASSUME NEW i \in EntryRates, NEW f \in ExitRates, Replan(i, f)
        PROVE  TracerInv'
    BY <1>4, ReplanIInv
  <1>5. ASSUME NEW x \in TrapezoidFields, WriteField(x)
        PROVE  TracerInv'
    BY <1>5, WriteIInv
  <1>6. CASE UNCHANGED tracerVars
    BY <1>6 DEF tracerVars, planVars, pinVars, TracerInv, TracerTypeOK, Traced, Straight,
                ExactSteps, PlanInv, Shaped, RateInv
  <1> QED BY <1>1, <1>2, <1>3, <1>4, <1>5, <1>6 DEF TracerNext, TraceInterrupt, Planner

\* The invariant from which the results below follow.
THEOREM TracerInvariant == TracerSpec => []TracerInv
  BY TracerInitInv, TracerNextInv, PTL DEF TracerSpec

\* Half a step from the line, in every reachable state of every instance.
THEOREM TracerOnTheLine == TracerSpec => []OnTheLine
  <1>1. TracerInv => OnTheLine
    <2>1. SUFFICES ASSUME TracerInv, active, NEW a \in Axes
                   PROVE  2 * Distance(completed * block.steps[a],
                                       block.count * moved[a]) <= block.count
      BY DEF OnTheLine
    <2> DEFINE C == block.count  p == completed * block.steps[a]
               q == block.count * moved[a]  h == block.count \div 2
               ca == counter[a]
    <2>2. /\ C \in Nat /\ p \in Int /\ q \in Int /\ ca \in Int
          /\ ca = p - q - h /\ -C < ca /\ ca <= 0
      BY <2>1 DEF TracerInv, TracerTypeOK, TracedBlocks, Traced, Straight
    <2>3. h \in Nat /\ 2 * h <= C /\ C <= 2 * h + 1
      BY <2>2, Half
    <2> HIDE DEF C, p, q, h, ca
    <2>4. 2 * Distance(p, q) <= C
      BY <2>2, <2>3 DEF Distance
    <2> QED BY <2>4 DEF C, p, q
  <1> QED BY <1>1, TracerInvariant, PTL

\* Every move gives every motor exactly its steps.
THEOREM TracerExactSteps == TracerSpec => []ExactSteps
  <1>1. TracerInv => ExactSteps
    BY DEF TracerInv
  <1> QED BY <1>1, TracerInvariant, PTL

\* The trapezoid lies inside the block when no store is pending.
THEOREM TracerShape == TracerSpec => []TrapezoidShape
  <1>1. TracerInv => TrapezoidShape
    BY DEF TracerInv, PlanInv, TrapezoidShape
  <1> QED BY <1>1, TracerInvariant, PTL

\* A block that started with its own trapezoid drives the timer at its nominal
\* or the minimum rate at most, and a rewritten one at no more than the exit
\* rates that were mixed in it.
THEOREM TracerRate == TracerSpec => []RateWithinNominal
  <1>1. TracerInv => RateWithinNominal
    <2>1. SUFFICES ASSUME TracerInv, active, planned
                   PROVE  set_step_events_per_minute(rate) <=
                            Greater(limit, MINIMUM_STEPS_PER_MINUTE)
      BY DEF RateWithinNominal
    <2>2. rate \in Nat /\ limit \in Nat /\ rate <= limit
      BY <2>1 DEF TracerInv, TracerTypeOK, RateInv
    <2> QED BY <2>2, RateAssumption DEF set_step_events_per_minute, Greater
  <1> QED BY <1>1, TracerInvariant, PTL

=============================================================================
