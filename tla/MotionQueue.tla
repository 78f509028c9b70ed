---------------------------- MODULE MotionQueue ----------------------------
(***************************************************************************)
(* The block buffer between the G-code foreground and the stepper          *)
(* interrupt: libraries/grbl/src/planner.c (producer) and                  *)
(* libraries/grbl/src/stepper.c (consumer).                                *)
(*                                                                         *)
(* The foreground runs plan_buffer_line / plan_buffer_wait one visible     *)
(* memory access at a time; the timer-1 interrupt (st_interrupt) may run,  *)
(* to completion, between any two of them.  Speeds and step rates are      *)
(* abstracted: a block only remembers for which block (id) its trapezoid   *)
(* was last computed, and whether the planner changed a junction speed is  *)
(* a free choice.  One axis is kept, in whole steps.                       *)
(***************************************************************************)
EXTENDS Integers

CONSTANTS
  BLOCK_BUFFER_SIZE,   \* slots of the ring, planner.c:44
  MaxBlocks,           \* bound: blocks published in a behaviour
  Deltas,              \* signed lengths, in steps, of the requested moves
  NULL                 \* the null block_t pointer

ASSUME SizeAssumption == BLOCK_BUFFER_SIZE \in Nat /\ BLOCK_BUFFER_SIZE >= 2
ASSUME BoundAssumption == MaxBlocks \in Nat
ASSUME DeltaAssumption == Deltas \subseteq Int
ASSUME NullAssumption == NULL \notin Int

VARIABLES
  head,       \* block_buffer_head: next slot to fill
  tail,       \* block_buffer_tail: slot to execute now
  slot,       \* block_buffer
  pc,         \* foreground: control point
  idx, b0, b1,\* foreground: block_index and the window of the planner passes
  position,   \* planner position of the axis, in steps
  timer,      \* hardware timer 1 runs (st_interrupt is called)
  current,    \* current_block of the stepper: a slot or NULL
  events,     \* step_events_completed
  \* History variables
  issued,     \* id of the last published block
  executed,   \* id of the last block the stepper discarded
  machine,    \* steps really pulsed, signed
  skipped,    \* steps given up because an endstop was hit
  goal,       \* per slot: where its block ends, in steps since power-up
  origin      \* offset introduced by plan_set_current_position

fgVars  == <<pc, idx, b0, b1>>
isrVars == <<tail, current, events, executed, machine, skipped>>
vars == <<head, slot, fgVars, position, timer, isrVars, issued, goal, origin>>

Slots == 0 .. BLOCK_BUFFER_SIZE - 1
MoveKinds == {"AT_MOVE", "AT_MOVE_ENDSTOP"}
Ids   == 0 .. MaxBlocks

\* The fields of block_t that are kept.  trap is the id of the block for
\* which initial_rate, final_rate, accelerate_until and decelerate_after
\* were computed last.
Blocks == [id : Ids, action : {"AT_MOVE", "AT_WAIT_TEMPS"},
           delta : Int, check_endstops : BOOLEAN,
           recalculate_flag : BOOLEAN, trap : Ids]

next_block_index(i) == IF i + 1 = BLOCK_BUFFER_SIZE THEN 0 ELSE i + 1
prev_block_index(i) == IF i = 0 THEN BLOCK_BUFFER_SIZE - 1 ELSE i - 1

Abs(n) == IF n < 0 THEN -n ELSE n
Sign(n) == IF n < 0 THEN -1 ELSE 1

-----------------------------------------------------------------------------
\* plan_init, st_init: empty ring, idle stepper, zeroed blocks.
Init ==
  /\ head = 0 /\ tail = 0
  /\ slot = [i \in Slots |->
               [id |-> 0, action |-> "AT_MOVE", delta |-> 0,
                check_endstops |-> FALSE, recalculate_flag |-> FALSE,
                trap |-> 0]]
  /\ pc = "idle"
  /\ idx = 0 /\ b0 = NULL /\ b1 = NULL
  /\ position = 0 /\ timer = FALSE
  /\ current = NULL /\ events = 0
  /\ issued = 0 /\ executed = 0 /\ machine = 0 /\ skipped = 0
  /\ goal = [i \in Slots |-> 0] /\ origin = 0

-----------------------------------------------------------------------------
(* Foreground: plan_buffer_action and the two functions it dispatches to.  *)

\* A request reaches plan_buffer_action; what it asks for first matters when
\* the slot is filled, so it is chosen there.  AT_WAIT is left out: no caller
\* asks for it and st_interrupt has no branch for it.
plan_buffer_action ==
  /\ pc = "idle" /\ issued < MaxBlocks
  /\ pc' = "room"
  /\ UNCHANGED <<head, slot, idx, b0, b1, position, timer, isrVars, issued, goal,
                 origin>>

\* Variant with a defect: a full ring is not waited for.
NoWait ==
  /\ pc = "room"
  /\ pc' = "fill"
  /\ UNCHANGED <<head, slot, idx, b0, b1, position, timer, isrVars,
                 issued, goal, origin>>

\* while (block_buffer_tail == next_buffer_head) sleep_mode();
WaitForRoom ==
  /\ pc = "room" /\ tail # next_block_index(head)
  /\ pc' = "fill"
  /\ UNCHANGED <<head, slot, idx, b0, b1, position, timer, isrVars,
                 issued, goal, origin>>

\* Variant with a defect: a zero-length block is not abandoned.
FillEvenZero(kind, delta) ==
  /\ pc = "fill"
  /\ slot' = [slot EXCEPT ![head] =
       [id |-> issued + 1, action |-> "AT_MOVE", delta |-> delta,
        check_endstops |-> kind = "AT_MOVE_ENDSTOP",
        recalculate_flag |-> TRUE, trap |-> @.trap]]
  /\ pc' = "publish"
  /\ UNCHANGED <<head, idx, b0, b1, position, timer, isrVars, issued, goal,
                 origin>>

\* plan_buffer_line up to "Move buffer head".  A zero-length block is
\* abandoned after its step counts were written.  The trapezoid fields keep
\* what the previous user of the slot left there.
FillMove(kind, delta) ==
  /\ pc = "fill"
  /\ slot' = [slot EXCEPT ![head] =
       [id |-> issued + 1, action |-> "AT_MOVE", delta |-> delta,
        check_endstops |-> IF delta = 0 THEN @.check_endstops
                           ELSE kind = "AT_MOVE_ENDSTOP",
        recalculate_flag |-> IF delta = 0 THEN @.recalculate_flag ELSE TRUE,
        trap |-> @.trap]]
  /\ pc' = IF delta = 0 THEN "idle" ELSE "publish"
  /\ UNCHANGED <<head, idx, b0, b1, position, timer, isrVars, issued, goal,
                 origin>>

\* plan_buffer_wait up to "Move buffer head": sets its own rates, leaves
\* recalculate_flag, the step counts and check_endstops of the old block.
FillWait ==
  /\ pc = "fill"
  /\ slot' = [slot EXCEPT ![head] =
       [@ EXCEPT !.id = issued + 1, !.action = "AT_WAIT_TEMPS",
                 !.trap = issued + 1]]
  /\ pc' = "publish"
  /\ UNCHANGED <<head, idx, b0, b1, position, timer, isrVars, issued, goal,
                 origin>>

\* block_buffer_head = next_buffer_head; position[] = target[];
\* acceleration_manager_enabled is true, so planner_recalculate follows.
Publish ==
  /\ pc = "publish"
  /\ head' = next_block_index(head)
  /\ position' = IF slot[head].action = "AT_MOVE"
                 THEN position + slot[head].delta ELSE position
  /\ issued' = issued + 1
  /\ goal' = [goal EXCEPT ![head] = position' - origin]
  /\ pc' = "reverse" /\ idx' = next_block_index(head) /\ b0' = NULL /\ b1' = NULL
  /\ UNCHANGED <<slot, timer, isrVars, origin>>

\* Whether a pass kernel changes the entry speed of block b is data.
MayFlag(b) ==
  \/ slot' = slot
  \/ slot' = [slot EXCEPT ![b].recalculate_flag = TRUE]

\* One iteration of planner_reverse_pass: the window moves one slot back and
\* the kernel runs on block[1] when block[2] exists.
ReverseStep ==
  /\ pc = "reverse" /\ idx # tail
  /\ idx' = prev_block_index(idx) /\ b0' = prev_block_index(idx) /\ b1' = b0
  /\ IF b0 # NULL /\ b1 # NULL THEN MayFlag(b0) ELSE slot' = slot
  /\ UNCHANGED <<head, pc, position, timer, isrVars, issued, goal, origin>>

\* The reverse pass ends when it meets the tail; planner_forward_pass reads
\* the tail afresh.
ReverseDone ==
  /\ pc = "reverse" /\ idx = tail
  /\ pc' = "forward" /\ idx' = tail /\ b0' = NULL /\ b1' = NULL
  /\ UNCHANGED <<head, slot, position, timer, isrVars, issued, goal, origin>>

\* One iteration of planner_forward_pass (b0, b1: block[1], block[2]).
ForwardStep ==
  /\ pc = "forward" /\ idx # head
  /\ idx' = next_block_index(idx) /\ b0' = b1 /\ b1' = idx
  /\ IF b0 # NULL /\ b1 # NULL THEN MayFlag(b1) ELSE slot' = slot
  /\ UNCHANGED <<head, pc, position, timer, isrVars, issued, goal, origin>>

\* The last kernel call of the forward pass; planner_recalculate_trapezoids
\* reads the tail afresh and has no previous block yet.
ForwardDone ==
  /\ pc = "forward" /\ idx = head
  /\ IF b0 # NULL /\ b1 # NULL THEN MayFlag(b1) ELSE slot' = slot
  /\ pc' = "trapezoids" /\ idx' = tail /\ b0' = NULL /\ b1' = NULL
  /\ UNCHANGED <<head, position, timer, isrVars, issued, goal, origin>>

\* calculate_trapezoid_for_block(b) and recalculate_flag = false.
WriteTrapezoid(b) ==
  slot' = [slot EXCEPT ![b] =
    [@ EXCEPT !.trap = slot[b].id, !.recalculate_flag = FALSE]]

\* One iteration of planner_recalculate_trapezoids (b0: next).
TrapezoidStep ==
  /\ pc = "trapezoids" /\ idx # head
  /\ idx' = next_block_index(idx) /\ b0' = idx
  /\ IF b0 # NULL /\ (slot[b0].recalculate_flag \/ slot[idx].recalculate_flag)
     THEN WriteTrapezoid(b0)
     ELSE slot' = slot
  /\ UNCHANGED <<head, pc, b1, position, timer, isrVars, issued, goal, origin>>

\* "Last/newest block in buffer": the pass ends with the newest block ...
TrapezoidLast ==
  /\ pc = "trapezoids" /\ idx = head /\ b0 # NULL
  /\ WriteTrapezoid(b0)
  /\ pc' = "wake" /\ idx' = 0 /\ b0' = NULL
  /\ UNCHANGED <<head, b1, position, timer, isrVars, issued, goal,
                 origin>>

\* ... or through the null pointer when the stepper had already emptied the
\* buffer: undefined behaviour, either a fault or stray writes to flash that
\* are ignored.
TrapezoidNull ==
  /\ pc = "trapezoids" /\ idx = head /\ b0 = NULL
  /\ pc' \in {"fault", "wake"} /\ idx' = 0
  /\ UNCHANGED <<head, slot, b0, b1, position, timer, isrVars,
                 issued, goal, origin>>

\* Variant with a defect: the timer is not enabled.
NoWakeUp ==
  /\ pc = "wake"
  /\ pc' = "idle"
  /\ UNCHANGED <<head, slot, idx, b0, b1, position, timer, isrVars, issued,
                 goal, origin>>

\* enableHwTimer(1)
st_wake_up ==
  /\ pc = "wake"
  /\ timer' = TRUE /\ pc' = "idle"
  /\ UNCHANGED <<head, slot, idx, b0, b1, position, isrVars, issued, goal,
                 origin>>

\* while (plan_get_current_block()) sleep_mode();
SynchronizeCall ==
  /\ pc = "idle" /\ pc' = "synchronize"
  /\ UNCHANGED <<head, slot, idx, b0, b1, position, timer, isrVars,
                 issued, goal, origin>>

st_synchronize ==
  /\ pc = "synchronize" /\ head = tail
  /\ pc' = "idle"
  /\ UNCHANGED <<head, slot, idx, b0, b1, position, timer, isrVars,
                 issued, goal, origin>>

\* The axis is declared to be at zero (G92, the end of zero_x).
plan_set_current_position ==
  /\ pc = "idle"
  /\ position' = 0 /\ origin' = origin - position
  /\ UNCHANGED <<head, slot, fgVars, timer, isrVars, issued, goal>>

-----------------------------------------------------------------------------
(* The stepper interrupt.                                                  *)

\* The block the interrupt works on: current_block, or the one
\* plan_get_current_block returns.
Popped == IF current # NULL THEN current
          ELSE IF head = tail THEN NULL ELSE tail
EventsBefore == IF current = NULL THEN 0 ELSE events

plan_discard_current_block ==
  tail' = IF head # tail THEN next_block_index(tail) ELSE tail

\* Variant with a defect: the finished block stays in the ring.
FinishWithoutDiscard(b) ==
  /\ current' = NULL /\ UNCHANGED tail
  /\ executed' = slot[b].id

\* The block is finished: current_block = NULL, discard.
Finish(b) ==
  /\ current' = NULL
  /\ plan_discard_current_block
  /\ executed' = slot[b].id

\* Nothing to execute: st_go_idle.
InterruptIdle ==
  /\ timer /\ pc # "fault" /\ Popped = NULL
  /\ timer' = FALSE
  /\ UNCHANGED <<head, slot, fgVars, position, isrVars, issued, goal, origin>>

\* One step event of a move; the last one finishes the block.
InterruptStep ==
  /\ timer /\ pc # "fault"
  /\ LET b == Popped IN
     /\ b # NULL
     /\ slot[b].action = "AT_MOVE"
     /\ machine' = machine + Sign(slot[b].delta)
     /\ events' = EventsBefore + 1
     /\ IF EventsBefore + 1 < Abs(slot[b].delta)
        THEN current' = b /\ UNCHANGED <<tail, executed>>
        ELSE Finish(b)
  /\ UNCHANGED <<head, slot, fgVars, position, timer, skipped, issued, goal, origin>>

\* A homing move meets its endstop: the block ends without a pulse.
InterruptEndstop ==
  /\ timer /\ pc # "fault"
  /\ LET b == Popped IN
     /\ b # NULL
     /\ slot[b].action = "AT_MOVE" /\ slot[b].check_endstops
     /\ skipped' = skipped
          + Sign(slot[b].delta) * (Abs(slot[b].delta) - EventsBefore)
     /\ events' = Abs(slot[b].delta)
     /\ Finish(b)
  /\ UNCHANGED <<head, slot, fgVars, position, timer, machine, issued, goal, origin>>

\* AT_WAIT_TEMPS: temp_achieved(EXTRUDER_0) is an input.
InterruptWait(achieved) ==
  /\ timer /\ pc # "fault"
  /\ LET b == Popped IN
     /\ b # NULL
     /\ slot[b].action = "AT_WAIT_TEMPS"
     /\ events' = EventsBefore
     /\ IF achieved THEN Finish(b)
        ELSE current' = b /\ UNCHANGED <<tail, executed>>
  /\ UNCHANGED <<head, slot, fgVars, position, timer, machine, skipped, issued, goal,
                 origin>>

-----------------------------------------------------------------------------
Foreground ==
  \/ WaitForRoom
  \/ \E kind \in MoveKinds, delta \in Deltas : FillMove(kind, delta)
  \/ FillWait \/ Publish
  \/ ReverseStep \/ ReverseDone \/ ForwardStep \/ ForwardDone
  \/ TrapezoidStep \/ TrapezoidLast \/ TrapezoidNull
  \/ st_wake_up \/ st_synchronize

Caller ==
  \/ plan_buffer_action
  \/ SynchronizeCall
  \/ plan_set_current_position

st_interrupt ==
  \/ InterruptIdle \/ InterruptStep \/ InterruptEndstop
  \/ \E achieved \in BOOLEAN : InterruptWait(achieved)

Next == Foreground \/ Caller \/ st_interrupt

Spec == Init /\ [][Next]_vars

\* The foreground keeps running, the timer keeps firing while it is enabled
\* and a heater that is waited for reaches its target.
Fairness ==
  /\ WF_vars(Foreground) /\ WF_vars(st_interrupt)
  /\ SF_vars(InterruptWait(TRUE))

FairSpec == Spec /\ Fairness

-----------------------------------------------------------------------------
(* Properties.                                                             *)

TypeOK ==
  /\ head \in Slots /\ tail \in Slots
  /\ slot \in [Slots -> Blocks]
  /\ pc \in {"idle", "room", "fill", "publish", "reverse", "forward",
             "trapezoids", "wake", "synchronize", "fault"}
  /\ idx \in Slots /\ b0 \in Slots \cup {NULL} /\ b1 \in Slots \cup {NULL}
  /\ position \in Int /\ timer \in BOOLEAN
  /\ current \in Slots \cup {NULL} /\ events \in Nat
  /\ issued \in Ids /\ executed \in Ids
  /\ machine \in Int /\ skipped \in Int
  /\ goal \in [Slots -> Int] /\ origin \in Int

\* Blocks in the ring, and the slot of the k-th of them (0: oldest).
Count == IF head >= tail THEN head - tail ELSE head - tail + BLOCK_BUFFER_SIZE
SlotOf(k) == IF tail + k < BLOCK_BUFFER_SIZE THEN tail + k
             ELSE tail + k - BLOCK_BUFFER_SIZE

\* First in, first out, exactly once: the ring holds precisely the published
\* and not yet executed blocks in the order of plan_buffer_action, whatever
\* the interleaving of plan_buffer_line with st_interrupt, and the stepper
\* only ever works on the oldest of them.
FifoExactlyOnce ==
  /\ Count = issued - executed
  /\ \A k \in Slots : k < Count => slot[SlotOf(k)].id = executed + 1 + k
  /\ current # NULL => head # tail /\ current = tail

\* The slot plan_buffer_line / plan_buffer_wait are writing is not in the
\* ring and is not the one st_interrupt is executing.
NoOverwrite ==
  pc \in {"fill", "publish"} =>
    /\ current # head
    /\ next_block_index(head) # tail

\* When the ring is empty (what st_synchronize waits for) the machine has
\* made every step the planner accounts for in position, except those an
\* endstop suppressed.
SettledPosition ==
  head = tail => current = NULL /\ machine + skipped = position - origin

\* The strengthening that makes the three invariants above inductive.
\* A published move is not empty, and the one being traced has step events
\* left.
MovesNotEmpty ==
  /\ \A k \in Slots : k < Count /\ slot[SlotOf(k)].action = "AT_MOVE"
                       => slot[SlotOf(k)].delta # 0
  /\ current # NULL /\ slot[current].action = "AT_MOVE"
       => events < Abs(slot[current].delta)

\* The block about to be published carries the next id.
FillInv ==
  /\ pc \in {"room", "fill", "publish"} => issued < MaxBlocks
  /\ pc = "publish" =>
       /\ slot[head].id = issued + 1
       /\ slot[head].action = "AT_MOVE" => slot[head].delta # 0

\* The steps block b contributes to the position, and those it still owes.
Travel(b) == IF slot[b].action = "AT_MOVE" THEN slot[b].delta ELSE 0
Owed(b) == IF slot[b].action = "AT_MOVE"
           THEN slot[b].delta - Sign(slot[b].delta) * EventsBefore ELSE 0

\* Each block ends where the next one starts; the oldest one ends where the
\* machine will be after the steps it owes, the newest one at the planner's
\* position.
GoalChain ==
  /\ \A k \in Slots : k + 1 < Count =>
       goal[SlotOf(k + 1)] = goal[SlotOf(k)] + Travel(SlotOf(k + 1))
  /\ head # tail =>
       /\ goal[tail] = machine + skipped + Owed(tail)
       /\ goal[prev_block_index(head)] = position - origin

IInv ==
  /\ TypeOK /\ FifoExactlyOnce /\ NoOverwrite /\ SettledPosition
  /\ MovesNotEmpty /\ FillInv /\ GoalChain

\* Every published block is executed: the timer is never left stopped, by
\* st_go_idle racing st_wake_up, with a block in the ring, and the planner
\* passes end although the tail moves under them.
EveryBlockExecuted ==
  \A i \in 1 .. MaxBlocks : issued = i ~> executed >= i

\* "Last/newest block in buffer ... Always recalculated" (planner.c:265):
\* the pass ends on a block, not on the null pointer.
NewestBlockExists ==
  ~(pc = "trapezoids" /\ idx = head /\ b0 = NULL)

=============================================================================
