--------------------------- MODULE PlannerSpeeds ---------------------------
(***************************************************************************)
(* The speeds of the motion planner, src/libraries/grbl/src/planner.c: the *)
(* junction speed a new block is given, the reverse and the forward pass   *)
(* over the ring, and which trapezoids are computed again.                 *)
(*                                                                         *)
(* Every speed is kept as its SQUARE.  The code compares speeds, takes     *)
(* minima and computes sqrt(v^2 + 2*a*d); on squares all three are integer *)
(* arithmetic, and 2*a*d is one number per block, its "reach": what the    *)
(* one acceleration can add to or take from the square along the block.    *)
(*                                                                         *)
(* The ring is the sequence plan, oldest block first, and the sequence     *)
(* free of the slots behind it, with the three fields of their last user   *)
(* that plan_buffer_wait does not overwrite.  Each pass is one step; the   *)
(* stepper may finish blocks between them.  MotionQueue has the ring's     *)
(* indices and the interrupt inside a pass, Tracer the stepping.           *)
(***************************************************************************)
EXTENDS Integers, Sequences, SequencesExt, FiniteSetsExt

CONSTANTS
  BLOCK_BUFFER_SIZE,
  Nominals,    \* squares of the feed rates asked for
  Reaches,     \* reaches of the lines asked for
  Corners,     \* squares of the corner speeds: the junction deviation's sqrt
  Minimum,     \* square of MINIMUM_PLANNER_SPEED; also the corner of a reversal
  WaitNominal, \* square of the 600 mm/min of a wait block
  WaitReach    \* reach of the 10 mm of a wait block

ASSUME SizeAssumption == BLOCK_BUFFER_SIZE \in Nat \ {0, 1}
ASSUME SpeedAssumption ==
  /\ Minimum \in Nat /\ WaitNominal \in Nat /\ WaitReach \in Nat
  /\ Nominals \subseteq Nat /\ Reaches \subseteq Nat /\ Corners \subseteq Nat
  /\ \A v \in Nominals \cup Corners \cup {WaitReach} : Minimum <= v

VARIABLES
  plan,                   \* blocks from block_buffer_tail to the newest
  free,                   \* the other slots, the next to be filled first
  previous_nominal_speed, \* square; 0 after plan_set_current_position
  pc,                     \* where the foreground is in plan_buffer_*
  last,                   \* history: the block finished last
  raced                   \* history: a block ended while the planner worked

vars == <<plan, free, previous_nominal_speed, pc, last, raced>>

Blocks == [move : BOOLEAN, nominal : Nat, reach : Nat, max_entry : Nat,
           entry : Nat, nominal_length : BOOLEAN, recalculate : BOOLEAN,
           initial : Nat, final : Nat]

\* What a block leaves in its slot.
Leftover(block) == [max_entry |-> block.max_entry,
                    nominal_length |-> block.nominal_length,
                    recalculate |-> block.recalculate]
Leftovers == [max_entry : Nat, nominal_length : BOOLEAN,
              recalculate : BOOLEAN]

\* plan_init; block_buffer is zeroed.
Init ==
  /\ plan = <<>>
  /\ free = [i \in 1 .. BLOCK_BUFFER_SIZE |->
               [max_entry |-> 0, nominal_length |-> FALSE,
                recalculate |-> FALSE]]
  /\ previous_nominal_speed = 0
  /\ pc = "idle" /\ last = [move |-> FALSE, final |-> 0] /\ raced = FALSE

Smaller(a, b) == IF a <= b THEN a ELSE b

\* The square of max_allowable_speed for -config.acceleration.
max_allowable_speed(target, reach) == target + reach

-----------------------------------------------------------------------------
\* Room in the ring; the producer sleeps until there is.
Room == Len(plan) < BLOCK_BUFFER_SIZE - 1

\* The block is published and planner_recalculate entered.
Publish(block) ==
  /\ pc = "idle" /\ Room
  /\ plan' = Append(plan, block) /\ free' = Tail(free)
  /\ pc' = "reverse"
  /\ UNCHANGED <<last, raced>>

\* Variant with a defect: the feed rate of the line before is ignored.
CornerOnly(nominal, corner) ==
  IF plan = <<>> \/ previous_nominal_speed = 0 THEN Minimum
  ELSE Smaller(nominal, corner)

\* Largest entry speed at the junction with the line before: the minimum for
\* the first block, after a reset and for a reversal, otherwise limited by
\* both feed rates and by the corner.
vmax_junction(nominal, corner) ==
  IF plan = <<>> \/ previous_nominal_speed = 0 THEN Minimum
  ELSE Smaller(Smaller(previous_nominal_speed, nominal), corner)

\* plan_buffer_line: a new line that can stop within its own length.  Its
\* trapezoid counts for nothing (0) until the last pass computes it.
plan_buffer_line(nominal, reach, corner) ==
  LET allowable == max_allowable_speed(Minimum, reach)
      junction == vmax_junction(nominal, corner)
  IN  /\ Publish([move |-> TRUE, nominal |-> nominal, reach |-> reach,
                   max_entry |-> junction,
                   entry |-> Smaller(junction, allowable),
                   nominal_length |-> nominal <= allowable,
                   recalculate |-> TRUE, initial |-> 0, final |-> 0])
      /\ previous_nominal_speed' = nominal

\* plan_buffer_wait: max_entry_speed, nominal_length_flag and
\* recalculate_flag stay those of the slot's previous block.
plan_buffer_wait ==
  /\ Publish([move |-> FALSE, nominal |-> WaitNominal, reach |-> WaitReach,
               max_entry |-> Head(free).max_entry, entry |-> WaitNominal,
               nominal_length |-> Head(free).nominal_length,
               recalculate |-> Head(free).recalculate,
               initial |-> WaitNominal, final |-> WaitNominal])
  /\ UNCHANGED previous_nominal_speed

\* "Resets planner junction speeds. Assumes start from rest."
plan_set_current_position ==
  /\ pc = "idle" /\ previous_nominal_speed' = 0
  /\ UNCHANGED <<plan, free, pc, last, raced>>

-----------------------------------------------------------------------------
\* Variant with a defect: blocks that are not flagged are skipped too.
ReverseOnce(current, next) ==
  IF current.entry = current.max_entry \/ ~current.recalculate THEN current
  ELSE [current EXCEPT
    !.entry = IF ~current.nominal_length /\ current.max_entry > next.entry
              THEN Smaller(current.max_entry,
                           max_allowable_speed(next.entry, current.reach))
              ELSE current.max_entry,
    !.recalculate = TRUE]

\* As fast as the junction allows while still slowing down to the next.
planner_reverse_pass_kernel(current, next) ==
  IF current.entry = current.max_entry THEN current
  ELSE [current EXCEPT
    !.entry = IF ~current.nominal_length /\ current.max_entry > next.entry
              THEN Smaller(current.max_entry,
                           max_allowable_speed(next.entry, current.reach))
              ELSE current.max_entry,
    !.recalculate = TRUE]

\* From the newest block back to the one after the tail, whose entry speed
\* is already being executed.
Reversed(p) ==
  LET pass[i \in 1 .. Len(p)] ==
        IF i \in {1, Len(p)} THEN p[i]
        ELSE planner_reverse_pass_kernel(p[i], pass[i + 1])
  IN  [i \in 1 .. Len(p) |-> pass[i]]

planner_reverse_pass ==
  /\ pc = "reverse" /\ pc' = "forward"
  /\ plan' = Reversed(plan)
  /\ UNCHANGED <<free, previous_nominal_speed, last, raced>>

\* No faster than the block before can accelerate to.
planner_forward_pass_kernel(previous, current) ==
  LET reached == max_allowable_speed(previous.entry, previous.reach)
  IN  IF ~previous.nominal_length /\ reached < current.entry
      THEN [current EXCEPT !.entry = reached, !.recalculate = TRUE]
      ELSE current

Forwarded(p) ==
  LET pass[i \in 1 .. Len(p)] ==
        IF i = 1 THEN p[1]
        ELSE planner_forward_pass_kernel(pass[i - 1], p[i])
  IN  [i \in 1 .. Len(p) |-> pass[i]]

planner_forward_pass ==
  /\ pc = "forward" /\ pc' = "trapezoids"
  /\ plan' = Forwarded(plan)
  /\ UNCHANGED <<free, previous_nominal_speed, last, raced>>

\* The end points of the trapezoid; the steps in between are Tracer's.
calculate_trapezoid_for_block(block, exit) ==
  [block EXCEPT !.initial = block.entry, !.final = exit,
                !.recalculate = FALSE]

\* Variant with a defect: only the entry junction is looked at.
RecalculateEntry ==
  /\ pc = "trapezoids" /\ pc' = "idle"
  /\ plan' = [i \in 1 .. Len(plan) |->
       IF i = Len(plan) THEN calculate_trapezoid_for_block(plan[i], Minimum)
       ELSE IF plan[i].recalculate
       THEN calculate_trapezoid_for_block(plan[i], plan[i + 1].entry)
       ELSE plan[i]]
  /\ UNCHANGED <<free, previous_nominal_speed, last, raced>>

\* A block is computed again when its entry or its exit junction is flagged;
\* the newest always, down to the minimum.  Nothing is left to do when the
\* stepper has emptied the ring (MotionQueue has the null pointer).
planner_recalculate_trapezoids ==
  /\ pc = "trapezoids" /\ pc' = "idle"
  /\ plan' = [i \in 1 .. Len(plan) |->
       IF i = Len(plan) THEN calculate_trapezoid_for_block(plan[i], Minimum)
       ELSE IF plan[i].recalculate \/ plan[i + 1].recalculate
       THEN calculate_trapezoid_for_block(plan[i], plan[i + 1].entry)
       ELSE plan[i]]
  /\ UNCHANGED <<free, previous_nominal_speed, last, raced>>

\* The stepper finishes the oldest block.
plan_discard_current_block ==
  /\ plan # <<>>
  /\ last' = [move |-> Head(plan).move, final |-> Head(plan).final]
  /\ plan' = Tail(plan) /\ free' = Append(free, Leftover(Head(plan)))
  /\ raced' = (raced \/ pc # "idle")
  /\ UNCHANGED <<previous_nominal_speed, pc>>

Next ==
  \/ \E nominal \in Nominals, reach \in Reaches, corner \in Corners :
       plan_buffer_line(nominal, reach, corner)
  \/ plan_buffer_wait \/ plan_set_current_position
  \/ planner_reverse_pass \/ planner_forward_pass
  \/ planner_recalculate_trapezoids \/ plan_discard_current_block

Spec == Init /\ [][Next]_vars

-----------------------------------------------------------------------------
TypeOK ==
  /\ plan \in Seq(Blocks) /\ free \in Seq(Leftovers)
  /\ last \in [move : BOOLEAN, final : Nat]
  /\ Len(plan) + Len(free) = BLOCK_BUFFER_SIZE /\ free # <<>>
  /\ previous_nominal_speed \in Nat /\ raced \in BOOLEAN
  /\ pc \in {"idle", "reverse", "forward", "trapezoids"}

\* The reach of the first i blocks, and from the start of block i to the
\* start of block j.
Travel[i \in 0 .. Len(plan)] ==
  IF i = 0 THEN 0 ELSE Travel[i - 1] + plan[i].reach

Between(i, j) == Travel[j - 1] - Travel[i - 1]

\* The limit at junction j, taken alone: the speed the oldest block already
\* has, the limit of the junction, standstill after the newest block.
Limit(j) ==
  IF j = 1 THEN plan[1].entry
  ELSE IF j > Len(plan) THEN Minimum ELSE plan[j].max_entry

\* The fastest plan: every junction at the highest speed from which, and to
\* which, the one acceleration leads from and to the limits of all others.
Fastest(i) ==
  Min({Limit(j) + (IF i <= j THEN Between(i, j) ELSE Between(j, i)) :
         j \in 1 .. Len(plan) + 1})

Planned == pc = "idle" /\ ~raced

\* "When these stages are complete all blocks have an entry speed that will
\* allow all speed changes to be performed using only the one, true constant
\* acceleration, and where no junction speed is greater than the max limit",
\* and no slower than that: although each pass skips the blocks at their
\* limit and those of nominal length, and starts from the last plan.
PlanIsFastest ==
  Planned /\ (\A i \in 1 .. Len(plan) : plan[i].move) =>
    \A i \in 1 .. Len(plan) : plan[i].entry = Fastest(i)

\* The trapezoids fit together: each line starts at its entry speed and ends
\* at the entry speed of the next, the newest stops, and the oldest goes on
\* at the speed at which the line before it ended, although "block
\* trapezoids with no updated junction speeds will not be recalculated and
\* assumed ok as is".
TrapezoidsJoin ==
  LET before(i) == IF i = 1 THEN last ELSE plan[i - 1]
  IN  /\ TypeOK
      /\ Planned =>
        /\ \A i \in 1 .. Len(plan) : plan[i].move /\ before(i).move =>
             plan[i].entry = before(i).final /\ plan[i].entry = plan[i].initial
        /\ plan # <<>> => Last(plan).final = Minimum

\* "The factors represent a factor of braking and must be in the range
\* 0.0-1.0": no line is entered or left faster than its feed rate, whatever
\* the stepper finishes meanwhile.  A line before a wait is excepted: the
\* wait carries the entry limit of the slot's previous block.
FactorsInRange ==
  \A i \in 1 .. Len(plan) : plan[i].move =>
    /\ plan[i].entry <= plan[i].nominal
    /\ i < Len(plan) /\ plan[i + 1].move
         => plan[i + 1].entry <= plan[i].nominal
=============================================================================
