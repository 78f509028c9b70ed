------------------------------ MODULE Tracer -------------------------------
(***************************************************************************)
(* How one queued move becomes pulses: the tracing part of st_interrupt    *)
(* (libraries/grbl/src/stepper.c) and the trapezoid it follows, computed   *)
(* by calculate_trapezoid_for_block (libraries/grbl/src/planner.c).        *)
(*                                                                         *)
(* Three agents interleave: the step timer (one step event per interrupt), *)
(* the acceleration timer, which only sets a flag, and the foreground      *)
(* planner, which may recompute the trapezoid of the very block that is    *)
(* being traced, one unprotected field write at a time.  A step pin also   *)
(* drives the LED of its axis, so it may stay high between two steps; only *)
(* a rising edge moves the motor.                                          *)
(***************************************************************************)
EXTENDS Integers, FiniteSets

CONSTANTS
  Axes,             \* X_AXIS, Y_AXIS, Z_AXIS, E_AXIS
  HomeAxes,         \* the axes with a home switch: all but E_AXIS
  Moves,            \* step counts per axis of the moves that may be queued
  nominal_rate,     \* nominal step rate of the moves
  wait_rate,        \* the entry speed of a wait block, as a rate of the move
  MINIMUM_STEPS_PER_MINUTE,
  rate_delta,       \* rate change per acceleration tick
  TicksPerMinute,   \* ACCELERATION_TICKS_PER_SECOND * 60
  LedPeriod,        \* steps between two toggles of an axis LED, 128
  Leftovers         \* trapezoids earlier blocks may have left in the slot

TrapezoidFields == {"initial_rate", "final_rate", "accelerate_until",
                    "decelerate_after"}

ASSUME MovesAssumption ==
  /\ Moves \subseteq [Axes -> Nat]
  /\ \A m \in Moves : \E a \in Axes : m[a] > 0 /\ \A b \in Axes : m[b] <= m[a]
  /\ HomeAxes \subseteq Axes
ASSUME RateAssumption ==
  /\ nominal_rate \in Nat \ {0} /\ rate_delta \in Nat \ {0}
  /\ wait_rate \in Nat /\ MINIMUM_STEPS_PER_MINUTE \in Nat \ {0}
ASSUME TickAssumption == TicksPerMinute \in Nat \ {0}
ASSUME LedAssumption == LedPeriod \in Nat \ {0}
ASSUME LeftoverAssumption == Leftovers \subseteq [TrapezoidFields -> Nat]

VARIABLES
  active,      \* current_block # NULL
  block,       \* *current_block
  counter,     \* counter_x .. counter_e
  completed,   \* step_events_completed
  rate,        \* trapezoid_adjusted_rate
  accel_flag,  \* set by the acceleration timer
  pin,         \* level of the step pins
  led_count, led_on,
  writes,      \* trapezoid fields the foreground has still to write
  fresh,       \* the trapezoid it is writing
  \* History variables
  asked,       \* step counts of the block started last
  moved,       \* rising edges per axis since it started
  cut,         \* an endstop ended the block
  planned,     \* the block's own trapezoid was complete when it started
  limit        \* nominal_rate or, once the planner rewrites the block, the
               \* highest exit rate of the trapezoids mixed in it if higher

planVars == <<writes, fresh>>
pinVars  == <<pin, led_count, led_on, moved>>
tracerVars == <<active, block, counter, completed, rate, accel_flag, planVars, pinVars,
          asked, cut, planned, limit>>

-----------------------------------------------------------------------------
(* The trapezoid.                                                          *)

CeilDiv(n, d) == -((-n) \div d)
Lesser(m, n) == IF m < n THEN m ELSE n
Greater(m, n) == IF m < n THEN n ELSE m

\* A line is entered at a factor of at most 1.0.  It is left at the entry
\* speed of its neighbour, and a wait block is entered at its own 600 mm/min
\* whatever the speed of the line before it.
EntryRates == 0 .. nominal_rate
ExitRates == 0 .. Greater(nominal_rate, wait_rate)

\* ceil / floor of estimate_acceleration_distance.
AccelerateSteps(i, acc) ==
  CeilDiv(nominal_rate * nominal_rate - i * i, 2 * acc)
DecelerateSteps(f, acc) ==
  (nominal_rate * nominal_rate - f * f) \div (2 * acc)

\* ceil of intersection_distance.
intersection_distance(i, f, acc, count) ==
  CeilDiv(2 * acc * count - i * i + f * f, 4 * acc)

\* Variant with a defect: the limits due to round-off are not checked.
UnclampedTrapezoid(i, f, count) ==
  LET acc == rate_delta * TicksPerMinute
      up == AccelerateSteps(i, acc)
      plateau == count - up - DecelerateSteps(f, acc)
      until == IF plateau < 0 THEN intersection_distance(i, f, acc, count)
               ELSE up
  IN [initial_rate |-> i, final_rate |-> f, accelerate_until |-> until,
      decelerate_after |-> until + Greater(plateau, 0)]

\* The four fields, for entry and exit factors i and f over nominal_rate.
calculate_trapezoid_for_block(i, f, count) ==
  LET acc == rate_delta * TicksPerMinute
      up == AccelerateSteps(i, acc)
      plateau == count - up - DecelerateSteps(f, acc)
      until == IF plateau < 0
               THEN Lesser(Greater(intersection_distance(i, f, acc, count), 0),
                           count)
               ELSE up
  IN [initial_rate |-> i, final_rate |-> f, accelerate_until |-> until,
      decelerate_after |-> until + Greater(plateau, 0)]

\* The fields of block_t that the tracing reads.
TracedBlocks == [steps : [Axes -> Nat], count : Nat, check_endstops : BOOLEAN,
           trapezoid : [TrapezoidFields -> Nat]]

step_event_count(steps) ==
  CHOOSE n \in {steps[a] : a \in Axes} : \A a \in Axes : steps[a] <= n

\* A queued move.  The fields in todo have not been written yet and hold
\* what an earlier user of the slot left there.
NewBlock(steps, trapezoid, old, todo, check) ==
  [steps |-> steps, count |-> step_event_count(steps),
   check_endstops |-> check,
   trapezoid |-> [x \in TrapezoidFields |->
                    IF x \in todo THEN old[x] ELSE trapezoid[x]]]

-----------------------------------------------------------------------------
ZeroSteps == [a \in Axes |-> 0]
NoTrapezoid == [x \in TrapezoidFields |-> 0]
NoBlock == [steps |-> ZeroSteps, count |-> 0, check_endstops |-> FALSE,
            trapezoid |-> NoTrapezoid]

TracerInit ==
  /\ active = FALSE /\ block = NoBlock
  /\ counter = ZeroSteps /\ completed = 0
  /\ rate = 0 /\ accel_flag = FALSE
  /\ pin = [a \in Axes |-> FALSE]
  /\ led_count = [a \in Axes |-> 0] /\ led_on = {}
  /\ writes = {} /\ fresh = NoTrapezoid
  /\ moved = ZeroSteps /\ cut = FALSE
  /\ planned = FALSE /\ limit = nominal_rate
  /\ asked = ZeroSteps

-----------------------------------------------------------------------------
(* The step timer interrupt.                                               *)

\* Variant with a defect: a counter at zero steps too.
StepBitsAtZero(b, c) == {a \in Axes : c[a] + b.steps[a] >= 0}

\* counter_a += steps_a: the axes that step now ...
StepBits(b, c) == {a \in Axes : c[a] + b.steps[a] > 0}

\* ... and the counters afterwards.
Bresenham(b, c) ==
  [a \in Axes |-> c[a] + b.steps[a] - (IF a \in StepBits(b, c) THEN b.count
                                       ELSE 0)]

\* Variant with a defect: pins kept high by a LED are not lowered.
NotLowered(bits) == pin

\* Pin levels after clear_step_pins ...
clear_step_pins(bits) == [a \in Axes |-> pin[a] /\ a \notin bits]

\* ... and the axes whose pin rises in set_step_pins.
RisingEdges(bits) == {a \in bits : ~clear_step_pins(bits)[a]}

\* inc_led_count for each stepping axis.
LedCounts(bits) ==
  [a \in Axes |-> IF a \notin bits THEN led_count[a]
                  ELSE IF led_count[a] + 1 = LedPeriod THEN 0
                  ELSE led_count[a] + 1]
LedToggles(bits) == {a \in bits : led_count[a] + 1 = LedPeriod}
Toggle(s, t) == (s \ t) \cup (t \ s)

\* The rate the step timer is given.  Every store to trapezoid_adjusted_rate
\* is followed by this call.
set_step_events_per_minute(r) == Greater(r, MINIMUM_STEPS_PER_MINUTE)

\* Variant with a defect: the acceleration is not capped.
UncappedRate(b, n, r) ==
  LET t == b.trapezoid IN
  IF n < t.accelerate_until
  THEN IF accel_flag THEN r + rate_delta ELSE r
  ELSE IF n < t.decelerate_after THEN nominal_rate
  ELSE IF n > t.decelerate_after /\ accel_flag
       THEN Greater(IF r > rate_delta THEN r - rate_delta ELSE r, t.final_rate)
       ELSE r

\* The rate after step event n of the traced block, from rate r.
NextRate(b, n, r) ==
  LET t == b.trapezoid IN
  IF n < t.accelerate_until
  THEN IF accel_flag THEN Lesser(r + rate_delta, nominal_rate) ELSE r
  ELSE IF n < t.decelerate_after THEN nominal_rate
  ELSE IF n > t.decelerate_after /\ accel_flag
       THEN Greater(IF r > rate_delta THEN r - rate_delta ELSE r, t.final_rate)
       ELSE r

\* Step events at which a set acceleration flag is consumed.
ClearsFlag(b, n) ==
  n < b.trapezoid.accelerate_until \/ n > b.trapezoid.decelerate_after

\* The block goes on after this event: the pins fall except where a LED is
\* lit.  A LED is lit only where a step has just toggled it or the pin was
\* high already.
GoOn(b, bits, n, r) ==
  /\ active' = TRUE /\ block' = b
  /\ led_on' = Toggle(led_on, LedToggles(bits))
  /\ pin' = [a \in Axes |-> (a \in bits \/ pin[a]) /\ a \in led_on']
  /\ rate' = NextRate(b, n, r)
  /\ accel_flag' = (accel_flag /\ ~ClearsFlag(b, n))

\* current_block = NULL, plan_discard_current_block; all pins low, LEDs off.
\* What the planner still writes to the old slot is of no account.
StopBlock(r) ==
  /\ active' = FALSE /\ block' = NoBlock
  /\ led_on' = {}
  /\ pin' = [a \in Axes |-> FALSE]
  /\ rate' = r /\ UNCHANGED accel_flag

\* One step event of block b with counters c, edges m so far and rate r.
TraceEvent(b, c, n, m, r) ==
  LET bits == StepBits(b, c) IN
  /\ counter' = Bresenham(b, c)
  /\ completed' = n /\ cut' = FALSE
  /\ moved' = [a \in Axes |-> IF a \in RisingEdges(bits) THEN m[a] + 1 ELSE m[a]]
  /\ led_count' = LedCounts(bits)
  /\ IF n < b.count THEN GoOn(b, bits, n, r) ELSE StopBlock(r)

\* The same event when hit_home_stop reports the switch: no pulse, and the
\* block ends.
EndstopEvent(b, c, m, r) ==
  /\ b.check_endstops
  /\ \E a \in HomeAxes : b.steps[a] > 0
  /\ counter' = Bresenham(b, c)
  /\ completed' = b.count /\ cut' = TRUE
  /\ moved' = m
  /\ UNCHANGED led_count
  /\ StopBlock(r)

\* The stores todo of trapezoid t are left after the interrupt.
StillWriting(todo, t) ==
  /\ writes' = IF active' THEN todo ELSE {}
  /\ fresh' = IF writes' = {} THEN NoTrapezoid ELSE t

\* No current block: pop one, reset the trapezoid generator and the
\* counters, and trace its first event in the same interrupt.  The planner
\* may still have fields (todo) of this block to write.
Start(steps, new, old, todo, check) ==
  /\ ~active
  /\ LET b == NewBlock(steps, new, old, todo, check)
         c == [a \in Axes |-> -(b.count \div 2)]
         r == b.trapezoid.initial_rate
     IN \/ TraceEvent(b, c, 1, ZeroSteps, r)
        \/ EndstopEvent(b, c, ZeroSteps, r)
  /\ StillWriting(todo, new)
  /\ asked' = steps /\ planned' = (todo = {}) /\ limit' = nominal_rate

Continue ==
  /\ active
  /\ \/ TraceEvent(block, counter, completed + 1, moved, rate)
     \/ EndstopEvent(block, counter, moved, rate)
  /\ StillWriting(writes, fresh)
  /\ UNCHANGED <<asked, planned, limit>>

TraceInterrupt ==
  \/ Continue
  \/ \E steps \in Moves, i \in EntryRates, f \in ExitRates, old \in Leftovers,
         todo \in SUBSET TrapezoidFields, check \in BOOLEAN :
       Start(steps,
             calculate_trapezoid_for_block(i, f, step_event_count(steps)),
             old, todo, check)

-----------------------------------------------------------------------------
(* The acceleration timer and the planner.                                 *)

accelCallback ==
  /\ accel_flag' = TRUE
  /\ UNCHANGED <<active, block, counter, completed, rate, planVars, pinVars, asked, cut,
                 planned, limit>>

\* planner_recalculate_trapezoids decides to recompute the traced block: its
\* neighbour's entry speed changed.
Replan(i, f) ==
  /\ active /\ writes = {}
  /\ fresh' = calculate_trapezoid_for_block(i, f, block.count)
  /\ writes' = TrapezoidFields
  /\ limit' = Greater(limit, Greater(block.trapezoid.final_rate, f))
  /\ UNCHANGED <<active, block, counter, completed, rate, accel_flag, pinVars,
                 asked, cut, planned>>

\* One of the stores to the block; the compiler may order them freely.
WriteField(x) ==
  /\ x \in writes
  /\ block' = [block EXCEPT !.trapezoid[x] = fresh[x]]
  /\ writes' = writes \ {x}
  /\ fresh' = IF writes' = {} THEN NoTrapezoid ELSE fresh
  /\ UNCHANGED <<active, counter, completed, rate, accel_flag, pinVars,
                 asked, cut, planned, limit>>

Planner ==
  \/ \E i \in EntryRates, f \in ExitRates : Replan(i, f)
  \/ \E x \in TrapezoidFields : WriteField(x)

TracerNext == TraceInterrupt \/ accelCallback \/ Planner

TracerSpec == TracerInit /\ [][TracerNext]_tracerVars

-----------------------------------------------------------------------------
(* Properties.                                                             *)

Distance(m, n) == IF m < n THEN n - m ELSE m - n

TracerTypeOK ==
  /\ active \in BOOLEAN
  /\ block \in TracedBlocks
  /\ counter \in [Axes -> Int] /\ completed \in Nat
  /\ rate \in Nat /\ accel_flag \in BOOLEAN
  /\ pin \in [Axes -> BOOLEAN]
  /\ led_count \in [Axes -> 0 .. LedPeriod - 1] /\ led_on \subseteq Axes
  /\ writes \subseteq TrapezoidFields
  /\ fresh \in [TrapezoidFields -> Nat]
  /\ moved \in [Axes -> Nat] /\ cut \in BOOLEAN /\ planned \in BOOLEAN
  /\ limit \in Nat /\ asked \in [Axes -> Nat]

\* While a move is traced, every axis stays within half a step of the
\* straight line: its motor has seen (rising edges of its pin, LED or not)
\* the rounded share of the step events done.
OnTheLine ==
  active => \A a \in Axes :
    2 * Distance(completed * block.steps[a], block.count * moved[a]) <= block.count

\* A move that no endstop cut short gives each motor exactly the steps the
\* planner put into the block, and one that was cut never gives more,
\* whatever the planner writes into the block meanwhile.
ExactSteps ==
  ~active => \A a \in Axes :
    /\ moved[a] <= asked[a]
    /\ ~cut => moved[a] = asked[a]

\* The acceleration ends before the deceleration starts.  A deceleration lies
\* inside the block, except before a wait that is entered faster than the
\* line's nominal rate: such a line does not decelerate at all.
Shaped(t, count) ==
  /\ t.accelerate_until <= t.decelerate_after
  /\ t.final_rate <= nominal_rate => t.decelerate_after <= count
  /\ t.final_rate > nominal_rate => t.decelerate_after >= count

\* Once the planner's stores are through, the trapezoid in the block is one
\* the step interrupt can follow to the end of the block, in spite of the
\* round-off of calculate_trapezoid_for_block.
TrapezoidShape == active /\ writes = {} => Shaped(block.trapezoid, block.count)

\* A block whose trapezoid was complete when it started drives the step timer
\* at its nominal rate at most, or at the timer's minimum rate if that is
\* higher, even when its exit rate is above nominal (a line before a wait).
\* Only once the planner has begun to rewrite it field by field may an exit
\* rate above nominal be reached: a new final_rate can meet the old
\* decelerate_after.  Then the exit rates of the mixed trapezoids are the limit.
RateWithinNominal ==
  active /\ planned =>
    set_step_events_per_minute(rate) <= Greater(limit, MINIMUM_STEPS_PER_MINUTE)

\* The strengthening that makes the four invariants above inductive.  The
\* Bresenham counters are the distance to the line, shifted by half a count.
Straight(b, c, n, m) ==
  /\ b.count > 0 /\ n < b.count
  /\ \A a \in Axes :
       /\ b.steps[a] <= b.count
       /\ c[a] = n * b.steps[a] - b.count * m[a] - (b.count \div 2)
       /\ -b.count < c[a] /\ c[a] <= 0

Traced ==
  active => Straight(block, counter, completed, moved) /\ asked = block.steps

\* The fields already written belong to the trapezoid being written.
PlanInv ==
  active =>
    /\ writes = {} => Shaped(block.trapezoid, block.count)
    /\ writes # {} =>
         /\ Shaped(fresh, block.count)
         /\ \A x \in TrapezoidFields \ writes :
              block.trapezoid[x] = fresh[x]

RateInv ==
  active /\ planned =>
    /\ nominal_rate <= limit /\ rate <= limit
    /\ \/ block.trapezoid.final_rate <= limit
       \/ writes = {} /\ block.trapezoid.decelerate_after >= block.count
    /\ writes # {} => fresh.final_rate <= limit

TracerInv == TracerTypeOK /\ Traced /\ ExactSteps /\ PlanInv /\ RateInv

=============================================================================
