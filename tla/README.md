# TLA+ verification of the R2C2 firmware

The repository holds the firmware of the R2C2 3D-printer board (LPC17xx): the
CooCox CoOS kernel with drivers around it, and the printer application, whose
motion code is a port of grbl. This directory models the parts in which several
actors share state (motion buffer and step interrupt, kernel services and
tick, host and SD card as sources of commands), model-checks them with TLC and proves the central results with TLAPS.

## 1. The system

`main.c` initialises the board and starts CoOS. `app_main`
(`libraries/Mendel/src/mendel.c`) is the printer's loop; in this commit `main`
does not call it.

| component | state | operations | interacts with |
|---|---|---|---|
| motion block queue (`planner.c`, `stepper.c`) | ring `block_buffer`, head, tail, `position`, `current_block` | `plan_buffer_action/line/wait`, `planner_recalculate`, `plan_discard_current_block`, `st_wake_up`, `st_go_idle`, `st_synchronize` | G-code foreground fills, timer-1 interrupt empties |
| step tracer (`stepper.c`) | Bresenham counters, rate, step pins, LED counters, `accel_flag` | `st_interrupt`, `accelCallback` | reads the trapezoid the planner writes, unprotected |
| planner speeds (`planner.c`) | entry, limit and nominal speeds and the two efficiency flags of the blocks | junction speed of a new block, reverse and forward pass, `planner_recalculate_trapezoids` | writes blocks the interrupt may be tracing |
| CoOS scheduler and tasks (`task.c`, `core.c`, `port.c`) | task control blocks, ready list, `OSSchedLock`, `TaskSchedReq` | `Schedule`, `OsSchedUnlock`, `CoSuspendTask`, `CoAwakeTask`, `CoSetPriority`, `CoDelTask`, `CreateTask` | everything |
| CoOS time and service requests (`time.c`, `serviceReq.c`) | delta list `DlyList`, `TimeReq`, `IsrReq`, queue of requests | `CoTickDelay`, `TimeDispose`, `RespondSRQ`, `InsertInSRQ` | system tick, unlock |
| CoOS events and semaphores (`event.c`, `sem.c`) | counters, waiting lists | `CoPendSem`, `CoPostSem`, `CoAcceptSem`, `isr_PostSem` | tick (time-outs), interrupts (posts) |
| CoOS mutexes (`mutex.c`) | owner, `originalPrio`, `hipriTaskID`, waiting list | `CoEnterMutexSection`, `CoLeaveMutexSection`, `RemoveMutexList` | `CoSetPriority`, `CoDelTask` |
| CoOS software timers (`timer.c`) | delta list `TmrList`, `TmrIDVessel`, `TimerReq` | `CoCreateTmr`, `CoStartTmr`, `CoStopTmr`, `CoDelTmr`, `CoSetTmrCnt`, `TmrDispose` | tick, unlock |
| CoOS heap (`kernelHeap.c`) | one word array with three interleaved lists | `CoKmalloc`, `CoKfree` | any task, under the scheduler lock |
| CoOS mailboxes and queues (`mbox.c`, `queue.c`, `event.c`) | event block, ring of cells, waiting list, mail of a task | create, delete, pend, accept, post, post from an interrupt | tick (time-outs), interrupts (posts); lwIP's mailboxes |
| CoOS flags (`flag.c`) | flag words, waiting list of nodes | create, delete, accept, wait for one, any or all, set, clear | tick (time-outs), interrupts (sets) |
| CoOS memory pools (`mm.c`) | free list of equal blocks | get, free | any task |
| lwIP port (`sys_arch.c`, `EMAC.c`) | semaphores and mailboxes on CoOS | `ENET_IRQHandler`, `sys_*` | posts from the interrupt |
| G-code parser and execution (`gcode_parse.c`, `gcode_process.c`, `mendel.c`) | line state, expected line number, file flags | parse a line, answer `ok`/`rs`, execute | USB FIFO, planner, heaters |
| heaters, slow timers, serial FIFO, SD card, drivers | small, mostly sequential | | main loop, interrupts |

What is hard to test is listed line by line as `hazards` in `PROJECT.json`. In
short: the step interrupt falls between any two stores of the planner; the
tick falls into every locked section, still counts there and leaves the rest
to the unlock; many kernel services test something before they lock and use
it afterwards, or unlock and lock again in the middle of a wait; the heap and the mutex
go wrong only after long sequences of legal calls; the planner keeps plans and
trapezoids it believes still right; and two sources of G-code share one parser and one file object.

## 2. Modules

| module | models | proved in |
|---|---|---|
| `MotionQueue` | the ring between planner and step interrupt | `MotionProofs` |
| `Tracer` | from one block to pulses, with the trapezoid | `MotionProofs` |
| `PlannerSpeeds` | junction speeds, the passes, which trapezoids are renewed | `PlannerSpeedsProofs` |
| `CoKernel` | scheduler, tick, service requests, semaphores | |
| `CoMutex` | one mutex with priority inheritance | `KernelProofs`, without deletion of tasks |
| `CoTimer` | software timers | `CoTimerProofs`, for a careful caller |
| `CoFlag` | event flags | `CoFlagProofs` |
| `MailFifo` | abstract: what a mailbox or queue promises | |
| `CoMail` | mailboxes and queues; implements `MailFifo` | `CoMailProofs`, with the refinement |
| `CommandLoop` | printer loop, G-code parser, SD commands | `CommandLoopProofs` |
| `FirstFit` | abstract: what the heap promises | |
| `KernelHeap` | the heap, word by word; implements `FirstFit` | `KernelProofs`, with the refinement |
| `MC...` | instances for TLC | |
| `DataFacts` | lemmas about minima, induction and folds that several proofs share | itself |

The exact lines behind each definition are in `PROJECT.json` under `map`.
Definitions that begin "Variant with a defect" are never part of a
specification; they are the plausible mistakes the properties are known to
detect. Modules that share a proof module have names of their own for the parts of a
specification (`TracerInit`, `HeapNext`, ...).

**MotionQueue.** The foreground is a program counter through
`plan_buffer_line`/`plan_buffer_wait`: wait for room, fill the slot, publish,
reverse pass, forward pass, trapezoids, `st_wake_up`. The passes go block by
block, because the tail they compare with is moved by the interrupt.
`st_interrupt` runs to completion between two of these steps when its timer
is on: pop or go idle, one step event, the endstop exit of homing moves, the
wait for temperatures. Speeds are abstract: a block remembers for which block
its trapezoid was computed last, and whether a pass changes a junction speed
is a free choice, so each interleaving the real numbers allow is included.
One axis is kept, in steps. `AT_WAIT`, which no caller issues, is left out. The history variables count blocks and steps.

**Tracer.** One block from pop to discard: Bresenham counters of any number of
axes, step pins shared with LEDs (only a rising edge moves the motor),
endstops, the acceleration flag, and the four trapezoid fields that the
foreground rewrites one by one. The trapezoid is computed in integers with
the roundings of the code. An entry rate is at most nominal; an exit rate may be
above it, up to `wait_rate`, because the planner gives the line before a wait an exit
factor above 1.0 (section 6; that no other line has one is `FactorsInRange` of
`PlannerSpeeds`). The timer's minimum rate (`set_step_events_per_minute`) is
modelled; `config_step_timer`, the conversion of a rate to timer cycles, is left out.
The history `limit` is the nominal rate and, once the planner rewrites the block in
flight, the exit rates it has written.

**PlannerSpeeds.** The numbers `MotionQueue` leaves out. The code compares speeds,
takes minima and computes `sqrt(v^2 + 2ad)`, so all of it is exact integer
arithmetic on squared speeds; `2ad` is one number per block, its reach. The oldest
blocks form a sequence, the free slots another, because `plan_buffer_wait` leaves
three fields of the slot's last user in place. A pass is a recursive function over the
blocks and one step; the stepper may finish blocks between the steps (`raced`). The
junction-deviation formula and the feed-rate limits per axis enter as sets of results.

**CoKernel.** Kernel functions map a kernel state to a kernel state; a task
executes a service call in steps (checks before the lock, lock, body, unlock,
each stage of `RespondSRQ`, `Schedule`, opening the lock), and the tick, an
interrupt that posts, and PendSV may come between any two. Lists are
sequences; the case in which a linked task is linked again, which destroys
both lists in C, is recorded in `wild`. `U16` counters wrap.
`RespondSRQ` served inside an interrupt is one step, because nothing
interrupts it there in a way it could see. Served at an unlock, `TimeDispose` takes
a task off the delay list with two stores, `Invalidate` and `MakeReady`. A tick
between them counts down the 0xFFFFFFFF that was just stored (arch.c:68-70), after
which the kernel takes a ready task for a delayed one; the model reaches that
state, records it in `torn` and ends the behaviour there. `Loads` is a set of applications (which calls
each task makes, what the interrupt posts); a behaviour has one of them. `CoMutex`
(`Casts`), `CoFlag` and `CoMail` are parameterised the same way.

**CoMutex.** Mutex functions run under the scheduler lock and are never called
from interrupts, so each is one step. The scheduler is what `CoKernel` shows
of it: the most urgent ready task runs. `CoDelTask` is two steps, since it
leaves the mutex and removes the task in two locked sections. `CoSetPriority` is
modelled as the mutex functions call it, under their lock and while the mutex has no
owner; no task of the firmware calls it, and a call from a task would test and
write outside the lock (section 6).

**CoFlag.** A locked section is one step. What the functions do outside is split: the
test before the lock, the load and the store of the flag word in `CoSetFlag` and
`CoClearFlag`, and the second section in which a woken task takes its flags. Interrupts
set flags through the deferred request, so at an unlock. The history `why` records what
woke a task.

**CoMail.** One event block, of either kind. `PostTest` and `PostPut` are separate
because the full test is outside the lock, `PendLook` and `PendWait` because a pend
that finds nothing unlocks before it locks again to wait. `waitPrev` is kept next to
the list, since insertion and deletion do not always write it. A message is not posted
again while under way, so eight stand for any number. The refinement maps the box to the
messages in order and a hand-over to a waiter to sending and receiving in one step;
`MailFifo` has no way to lose a message but `Delete`, which is mapped to the deletion of
the box alone. The histories `sent` and `given` make every acceptance and every receipt
a change of the abstract state, so a post that is accepted and dropped is no stutter. A box
is deleted only while no task is between two steps of a function on it
(`Undisturbed`, a restriction to applications the code does not enforce; section 6).

**CoTimer.** One task calls the functions. Linking and unlinking are split
into the stores between which a tick makes a difference; the tick counts the
head of the list in every state and fires timers itself or leaves them to the
unlock (`IsrReq`, `TimerReq`, cleared one after the other). A second task
locks and unlocks. `Careful` says whether the caller keeps three rules the
code silently needs: do not start a timer whose counter is 0, do not set a
running timer, do not stop or delete a running one-shot.

**CommandLoop.** One turn of `app_main` is three steps: take a line of the host,
read a line of the printed file, give one of them to `gcode_parse_line` (the
host's first; none while the motion queue is full, which is a free choice
here). A line is a sequence of words, and the parser a fold over them that
starts from what earlier lines left in `next_target`; a word is a field with its
number, a name, a checksum, a comment mark or the end of the line. Words that do
not fit a buffer are cut off, so a line may lose its end, as it does in the code.
A number is cut to the width of its field: G and the checksum to 8 bits, M to 16,
S to a signed 16-bit number, which becomes the 32-bit `sd_pos` with its sign. G20 and G21
set the unit in which later coordinates are stored. S stands for S, P and F, which, like the
file name, keep their value from line to line. `f_gets` is FatFs's, built with
`_USE_STRFUNC` 2: it drops every CR, so `sd_pos`, which grows by the length of the line,
falls behind the file. The rest of FatFs is external: a write to a full card stores what
fits and succeeds, a seek is clipped, a file not open for reading yields nothing. Commands other than those
for the SD card, G20, G21, G90 and G91 only appear in the history variable `last`. Replies,
line numbers (nothing reads `N_expected` without `REQUIRE_LINENUMBER`) and the
start-up file, which runs before the loop, are left out.

**KernelHeap.** The memory is a function from word addresses to contents, links
included, and free blocks overlay their three links on used words exactly as
in C. Owners fill what they asked for, so that a stray store is seen. A loop over a
list is a `Walk`, the pointers met step by step; it has a step for each three words of
the heap, which is enough because a block has no fewer. That a request rounded up fits
32 bits is an assumption (`WidthAssumption`, section 6), and the tests of `CoKfree` for
pointers that are not live blocks are left out: a caller releases what it was given. The
refinement mapping reads the row of tiles off the memory by walking the links.

## 3. Runs

Each run takes at most about two and a half minutes with `tlc -workers 2 -config X.cfg M`.

| run | module, configuration | checks | shows |
|---|---|---|---|
| `motion` | `MCMotionQueue` | `FifoExactlyOnce NoOverwrite SettledPosition EveryBlockExecuted` | no block is lost, doubled, reordered or overwritten; with an empty ring the machine stands where the planner believes; no block is stranded by `st_go_idle` racing `st_wake_up` |
| `tracer` | `MCTracer` | `OnTheLine ExactSteps TrapezoidShape RateWithinNominal` | pulses stay within half a step of the line and add up, although LEDs hold pins high; the timer is driven at the nominal or its minimum rate at most, even with an exit rate above nominal, and above that only while the trapezoid is rewritten in flight, by no more than the exit rates written |
| `speeds` | `MCPlannerSpeeds` | `PlanIsFastest TrapezoidsJoin FactorsInRange` | the passes, which skip blocks and reuse the last plan, find for every queue of lines exactly the fastest admissible entry speeds; trapezoids that are not renewed still fit; no line but one before a wait has a factor above 1.0 |
| `kernel` | `MCCoKernel`, `MCCoKernel.cfg` | `Coherent MostUrgentRuns NeverEarly UnitsConserved DelayEnds` | delays, time-outs and waits of two tasks against the tick and a posting interrupt; suspending, awaking, accepting, posting, round robin; each delay ends; a tick that tears a deferred `TimeDispose` ends the behaviour |
| `mutex` | `MCCoMutex` | `MutualExclusion WaitersQueued NoInversion NeverDemoted EveryWaiterEnters` | three priorities that block inside and outside the section; two tasks of which one is deleted and created again; one owner, nobody inverted, nobody left less urgent than it was created |
| `flags` | `MCCoFlag` | `ListAgrees NobodyStranded` | list, node pointers and delays agree through sets, deletions and time-outs, two waiters for one auto-reset flag included; nobody sleeps on flags that are set |
| `mail` | `MCCoMail` | `ListAgrees ReturnedOnce NoMailWhileWaiting ImplementsFifo` | mailboxes and queues are bounded FIFO channels through hand-over, time-out, wrap-around and deletion, which alone discards messages; nobody returns a message of another call |
| `heap` | `MCKernelHeap` | `LiveIntact LinksAgree ImplementsFirstFit` | every sequence of requests and releases keeps the three lists in step; the words in memory implement the first-fit allocator |
| `timer` | `MCCoTimer`, `MCCoTimer.cfg` | `RunningLinked NeverEarly TimersFire` | a careful caller never sees a timer fire early, get lost or fail to fire |
| `commands` | `MCCommandLoop` | `TypeOK LinesIndependent UploadOwnsFile AtMostOneStray StatusIsTrue` | a complete line is executed with the command, coordinate and S it gives, whatever lines of either source came before; SD codes during an upload do not disturb it; an interrupted print leaves at most one line in it; M27's size is right and its position late by the CRs dropped only |

Where `TypeOK` is not in the list it is a conjunct of another property: of `Coherent`,
`WaitersQueued`, `LinksAgree`, `RunningLinked`, `ListAgrees` and `TrapezoidsJoin`, or, for
`motion` and `tracer`, of the inductive invariant proved in section 4.

Two further runs are expected to fail; each is a disagreement between the code
and what the source says of itself (`findings` in `PROJECT.json`):

| run | violated | disagreement |
|---|---|---|
| `newest_block` | `NewestBlockExists` | the stepper empties the ring while `planner_recalculate` runs; the last trapezoid is computed through a null pointer (planner.c:266) |
| `lost_wakeup` | `WaitsOnlyWhenEmpty` | `CoPendSem` unlocks between finding the counter empty and queueing the task (sem.c:206) |

### Bounds

- `MotionQueue`: a ring of 3 slots, so that it fills (2 blocks), empties and wraps;
  `MaxBlocks` = 3 blocks, one more than fit, so that the producer waits and a slot
  is reused; moves of 0 and of -2 steps, so that a move is rejected and one can
  be cut in the middle. The theorems hold for every size.
- `Tracer`: two axes, one with a home switch; 3:2 diagonal (odd count, so that
  rounding matters) and a single-axis move; `nominal_rate` 3, the smallest
  for which both the round-off limits and the acceleration cap are needed;
  `wait_rate` 4, one above it, and a minimum rate of 1 below; a
  LED period of 2 steps instead of 128.
- `CoKernel`: an idle task and up to three others, of which two share a
  priority; one FIFO semaphore that starts at 0 and is posted by an interrupt,
  one priority-sorted one; a request queue of 2 cells that overflows. Time needs
  no bound, because only differences of ticks are kept.
- `PlannerSpeeds`: three blocks in a ring of 4 slots, two feed rates, lines too short and long
  enough to reach them, a full stop and a corner between the two feed rates: enough for a
  slow block to be limited by its neighbour on either side, to become of nominal length,
  and for a plan to be improved twice. Squares 1, 3, 10 and corners 0, 5, 20 (22.9 million
  states) gave the same result.
- `CoMutex`: three tasks that use the mutex, and two when one of them is deleted and created
  again, because deleting the first of several waiters loses the list (section 6).
- `CoFlag`: three tasks, three flags, five applications: interrupts that set, a more urgent
  task that sets and clears, one that deletes and creates, one that creates a flag set, and one
  in which two tasks wait for an auto-reset flag that a task and interrupts set. Two waiters
  for one auto-reset flag next to a waiter for another need a fourth task, and
  there somebody is stranded (section 6).
- `CoMail`: three tasks, eight messages, a queue of 3 cells, mailbox and queue, FIFO and priority order: two
  receivers and a poster, receivers and a posting interrupt, a poster that deletes and
  creates the box. One poster and, with deletion, one receiver; again see section 6.
- `CoTimer`: two timers (the configured number), counters of 1 and 2 ticks,
  six calls (create, create, start, start, stop, start), at most one
  tick in a locked section (`TicksPerLock`): such a section is a few dozen
  instructions, a tick period 10 ms. With two, the counter of a timer that is being
  linked as the new head wraps (timer.c:84).
- `CommandLoop`: sequences of lines of any length over eleven host lines: every SD
  code that changes more than a flag, a seek to 40000, which S cannot hold, a move, a rejected
  move, a comment, an empty line and one too long for the buffer. The file that is printed
  switches to inches by G276, which is stored as G20, in a line that ends with CR and LF, has a
  line too long for `f_gets` and, without end, a jump back to its beginning. A buffer holds 5 words, an upload 3, so that it fills.
- `KernelHeap`: 15 words are five smallest blocks, enough for a block between
  two used ones that are themselves between free ones; requests of 0, 4 and 5
  bytes make rests of 0, 1, 2 and more words.

`CHECK_DEADLOCK FALSE` is set where the system may stop: in `MotionQueue`, where the
foreground stops after `MaxBlocks` or at the null pointer, in `CoMutex`,
where all tasks may be blocked or deleted, and in `CoKernel`, where a torn delay list
ends the behaviour.

### Fairness

- `MotionQueue`: the foreground loop keeps running, the timer interrupt keeps
  coming while it is enabled, and a heater that is waited for reaches its
  target again and again (strong, on the successful test), which is what
  the wait in the code relies on.
- `CoKernel`: a task inside a service takes its next step, a pending switch
  happens (the exception has only interrupts above it), and the tick comes
  infinitely often, without any assumption on where it falls, as long as the delay
  list is not torn: `DelayEnds` is about the behaviours in which it never is. Nothing is
  assumed of tasks outside services.
- `CoMutex`: a task that can run inside the section again and again leaves it,
  one that runs outside blocks some time (else less urgent tasks never run
  under a strict-priority scheduler), what a sleeping task waits for happens, and
  `CoDelTask`, once begun, ends.
- `CoTimer`: the tick comes (strong only because the bound may disable it), the
  caller is not starved by the other task, locks are released. The number of
  calls is finite: a caller that relinks the head at each tick can
  delay the others without end.

## 4. Proofs

Eight modules hold theorems (`MotionProofs` and `KernelProofs` those of two components each); TLAPS checks each one for every value of the constants that satisfies
the named assumptions. Each component has one inductive invariant (`IInv`, `TracerInv`, `HeapInv`; for the flags three
layers), a lemma per action, and theorems that read the properties of section 3 off it.
TLC checked the invariants on the instances of section 3 before they were proved.

**MotionQueue** (ring of at least two slots, any bound on blocks, any set of
integer moves). `FifoExactlyOnce`, `NoOverwrite` and `SettledPosition` are not
inductive. `IInv` adds: a published move is not empty and the one traced has
events left (`MovesNotEmpty`: otherwise the interrupt would make an event
too many); the slot being filled carries the next number (`FillInv`); and
each block ends where the next begins, the oldest at the machine's position plus
what it still owes, the newest at the planner's position (`GoalChain`, which
turns the statement about the empty ring into one about each block).
The proof has a step lemma per kind of step: steps that leave ring and position
alone, filling, publishing, `plan_set_current_position`, a step event, an
endstop, a wait.
`TypeOK` is its first conjunct.
Results: `MotionInvariant`, `MotionFifo`, `MotionNoOverwrite`, `MotionSettles`.

**Tracer** (any axes, moves with a longest axis, positive rates and LED
period, any exit rates up to any `wait_rate`, any minimum rate, any leftovers in the slot). `TracerInv` says that each Bresenham counter is
exactly `events * steps - count * moved` less half a count, and lies in
`(-count, 0]` (`Traced`); that fields already rewritten belong to the
trapezoid being written (`PlanInv`); and that the rate of a block started with its
own trapezoid is at most `limit`, and so is its final rate unless
`decelerate_after` is beyond the end of the block, so that it is never used (`RateInv`).
Lemmas about `CeilDiv` and the clamped intersection give the shape of the
trapezoid for all rates and lengths. Results: `TracerInvariant`,
`TracerOnTheLine`, `TracerExactSteps`, `TracerShape`, `TracerRate`.

**PlannerSpeeds** (any ring, feed rates, corners and lengths; `Minimum <= WaitReach`, because
`MINIMUM_PLANNER_SPEED` is 0.0, stepper.h:82). `PlanIsFastest` says that each junction speed is
the lower envelope of all limits; nothing of that is inductive, since the passes skip blocks and build on the plan before.
The invariant has three layers. `Lines` and `Memory`: a line keeps to its limits and to the feed rate before it, raced or not.
`Joined`: `recalculate_flag` is set exactly where a trapezoid no longer fits, and the oldest block's speed never changes. `Fast`:
between the passes each block is *checked* (at its limit or braking for what follows), after them also *attained* (as
fast as the block before allows, or braking down to a limit); these two local facts give the global envelope.
The passes are recursive functions; lemmas say what one call returns, by induction over a set of indices.
`SpeedsFactors` exempts the exit of a line before a wait, where the code does exceed the feed rate (section 6).
Results: `SpeedsInvariant`, `SpeedsFactors`, `SpeedsJoin`, `SpeedsFastest`.

**CoMutex** (any tasks and priorities; `NoDeletion`, as `RemoveMutexList` can lose waiters, and no task calls `CoSetPriority` itself, section 6).
`NoInversion` is about waiters and owner only; `Promoted` adds that the owner is at least as urgent as when it came,
without which leaving the section could lower it below a waiter, and `Members` that `mutexID` marks owner
and waiters. `NeverDemoted` is inductive only with a bound on `originalPrio`, to which a section may reset its owner.
Results: `MutexInvariant`, `MutexExcludes`, `MutexQueues`, `MutexInherits`, `MutexNeverDemotes`.

**KernelHeap** (any heap of at least three words, any sizes asked for that fit 32 bits when rounded up). Neither property is inductive: that data is left
alone depends on every link. `HeapInv` says that there are two sets of addresses, the starts `B` of all blocks and `U` of the
used ones, such that blocks are three words apart at least and no two free ones are neighbours (`Heads`), each link in memory leads
to the next or the last element of the set it is about, with the right tag (`UsedLinks`, `FreeLinks`), the head of the free list
to the first free block, and the data of each owner lies behind the two links of its block and before the next block (`Owned`).
The lemmas about next and previous elements say how they change when a block is taken, split off or joined; `WalkAlong` says that a walk
meets the blocks of its set in order and all of them within its steps, by induction, so the loops of `CoKmalloc` and
`GetPreFMB` find what they should (`Chosen`, `GetPreFMBIs`). A request takes a whole block or its front (`WholeShape`, `SplitShape`).
The nine cases of `CoKfree` are three on the right times three on the left (`RightSide`, `LeftSide`): the block after the released one is
missing, free or used, and so is the one before; the case in which the code reaches the free block on the right through the
free list instead of the link is shown to find the same block (`MergedSides`). For the refinement, the addresses in `B` have exactly one enumeration
in ascending order (`Row`, `RowOnce`), the walk along the links yields it (`WalkRow`), and tile i of `FirstFit` is read off its i-th and next address (`TilesAre`).
A request inserts at most one address into the row and a release takes out up to two; the lemma `SplicedIs` of `DataFacts` says when such a change is a
replacement of a piece of the sequence (`GrantsAllocates`, `FreesReleases`). That the tile taken is the *first* that fits follows from the order of the free
list (`ChosenFirst`). A request that fails leaves the tiles alone. Results: `HeapInvariant`, `HeapIntact`, `HeapLinks`, and `HeapImplements`: the memory implements `FirstFit`.

**CoTimer** (any number of timers, any counts). The hypothesis `Disciplined` is that the caller is `Careful` and that at most one tick falls into a
locked section (`TicksPerLock <= 1`); without the first a started timer may be in no list, with two ticks in one section the
counter of the timer being linked can pass 0 (section 6 and Bounds). The counters are deltas along the list and, in the middle of a call, wrong
on purpose: the sum up to a timer is only right once the stores still to come are added. The invariant says that there are
deadlines, one per running timer, not before their time, of which the *effective* counters (those in memory, completed by what
the call in progress will still write) are the differences along the list; and that list, states, pending
requests and the place found by the search in `InsertTmrList` agree with them (`Placed`, `Between`). A tick lowers all deadlines by one, wherever it falls.
Results: `TimersInvariant`, `TimersLinked`, `TimersNeverEarly`.

**CoFlag** (any tasks, flags and applications). `FlagInvariant` and `FlagLists` hold without a condition: node
pointers, delays and control points agree with the list. `NobodyStranded` is true only of applications that keep rules the code
needs and does not enforce (`Tidy`), and section 6 has what happens otherwise: who sets or clears flags is more urgent than all
others that use them, and then interrupts set none (`WritesAlone`); an auto-reset flag is waited for by one task (`WaitsAlone`,
others may accept it); a flag that may be deleted is waited for by itself and not where flags are created set (`WaitsSafely`).
Two layers on top of `IInv`: `WordInv` says what a task between load and store may rely on, and `WaitInv` that
a node asks for what its task called for and that a waiter whose flags are set is only there while the walk that will wake it is still to
come. Result: `FlagWakes`. Of the five applications of the run, `Interrupts`, `Setter` and `Recreator` are `Tidy`; the other two
are covered by TLC only.

**CoMail** (any tasks, priorities, queue size; `Disciplined`: one task posts, or only interrupts, because the
full test is outside the lock, and a box with several receivers is not deleted under them, because deletion leaves `waitPrev`).
The invariant ties ring, list with its back links, mail handed over and control points together: the box is not full for
the one that has passed the test, mail given to a task is nobody else's and not in the box. Results: `MailInvariant`,
`MailLists`, `MailReturned`, `MailPrompt` and `MailImplementsFifo`, the refinement: each step sends, forwards,
receives, creates or deletes in `MailFifo`, or leaves the channel alone.

**CommandLoop** (any lines, files and buffer sizes). `AtMostOneStray` is not inductive: `OneStrayLeft`
says that while the line already read is pending, none has strayed yet, and `OpenFileExists` is what seeks and
writes rely on. What a line does is a fold of the parser over its words, handled by one lemma per word. For `LinesIndependent` the lemma `CharRead` says what
one word does to letters, values and comment marks, `Follows` relates the parser after n words to the
first n words of the line (comments, the last G or M and the last X that count, the field not yet stored), induction carries it
to the end of the line, and the invariant `Rested` says what the reset leaves between lines. The theorem is about the command,
the coordinate and the S a line gives, in the width of their fields; what it does not give (unit, S, P, F, file name) it
does take from earlier lines. `StatusIsTrue` is inductive with the count of dropped CRs (`dropped`). `LinesIndependent` is proved for
`Plain` lines: what follows M23 or M28 is a name, `*` or the end. Otherwise the property is false: in `M23 ( ) G1`
the parser takes G1 for the name. Results: `LoopInvariant`, `LoopTypes`,
`LoopUpload`, `LoopStray`, `LoopStatus`, `LoopLines`.

**Recursion.** The library's induction theorems have an operator as parameter, which the provers cannot instantiate.
`DataFacts` states induction over a *set* of numbers (those for which the claim holds), derived from the
well-foundedness of the naturals, and shows that a recursive function over an interval exists; so what
`Without`, the parser's fold, the planner's passes and the walks through the heap compute is proved for every length.

**Only model-checked**:

- all liveness properties (`EveryBlockExecuted`, `EveryWaiterEnters`, `DelayEnds`, `TimersFire`): TLAPS here
  does neither fairness nor `ENABLED`;
- the mutex while tasks are deleted, and mail, flags and timers in applications that break the rules above;
- `CoKernel`: its properties depend on one another through every stage of an unlock, with interrupts between them.

## 5. Not modelled

Per component with reasons in `PROJECT.json`. Vendored code (lwIP, FatFs,
LPCUSB, CMSIS, NXP drivers, iLib), start-up code and `printf` are not this
project's logic; register-level drivers, the SD card and the configuration
file are sequential I/O; the legacy `dda*.c` is replaced by grbl. Inside the
modelled parts: deletion of semaphores, `CoResetTaskDelayTick`, timer calls by several
tasks, suspension of a task that holds a mutex, interrupts inside a planner pass with
numeric speeds (`MotionQueue` has them inside, `PlannerSpeeds` between the passes), and
`InsertDelayList` as separate stores (it is one step of `CoKernel`; `CoTimer`
shows the same algorithm store by store).

Of the 591 files about 120 000 lines are C; roughly 8 800 code lines, less than a tenth, are
this project's own logic (kernel, application, motion). The definitions in `map` stand for about
3 750 of them, two fifths; the rest of these is the other G-codes, heaters, pools, drivers and
the disabled legacy motion code.

## 6. Further disagreements seen while modelling

Found as counterexamples of the models, or, where marked *(read)*, by reading
only; no run is kept for them.

- planner.c:588 publishes a block before its trapezoid is computed, so a running
  interrupt may start it with the rates of the slot's previous user; the comment at
  :564 says "Always calculate trapezoid for new block".
- stepper.c:565: `accel_flag` is one bit; acceleration ticks between two step events
  merge, so slow moves accelerate slower than stepper.c:119-120 says.
- planner.c:618: `plan_buffer_wait` leaves `max_entry_speed` of the slot's previous block;
  the line before a wait can be left faster than its own feed rate, an exit factor above 1.0,
  where :202 says the factors "must be in the range 0.0-1.0" (hence the exception in
  `FactorsInRange`). With a complete trapezoid the tracer never reaches that rate, because
  `decelerate_after` then lies beyond the block; while the trapezoid is rewritten in flight the new
  `final_rate` can meet the old `decelerate_after` (hence `limit` in `RateWithinNominal`). Later the wait's own entry is lowered to that limit although the line
  before it was planned for 600 mm/min, and the line after a wait is given the junction
  speed with the line before it, though the machine stands still in between.
- stepper.c:718: a block whose nominal rate is below 1200 steps per minute is driven faster than
  that, at the minimum of the timer, as stepper.h:85-88 says.
- planner.c:293: a block that ends between two passes: its successor's entry is still raised by
  the next pass, or its trapezoid not renewed, so the speed jumps at the junction
  (`TrapezoidsJoin` without `raced`), against "all speed changes ... using only the one, true
  constant acceleration" (:282).
- mutex.c:222, 231, 247: `hipriTaskID` survives a hand-over that promoted nobody; with two
  waiters the last owner takes over the priority of the one before it, and leaving with an empty
  list resets nothing, although :250 says "Reset the task priority". With three tasks a
  priority so outlives its section; it is never lower than the task's own (`NeverDemoted`).
- flag.c:535, 548: the walk for an auto-reset flag stops at the first waiter it wakes. With four
  tasks, W and V waiting for auto-reset flag 0 and X for flag 1, a setter that sets 0 and then 1
  before W has run wakes W and, for flag 1, V, whose flag is still set; X sleeps on with its flag
  set (`NobodyStranded`).
- flag.c:312: a woken task takes its flag in a second locked section. With two takers the other may
  have taken it in between; the woken one still returns E_OK, against "your task owns the Flag" (:254).
- flag.c:521: `CoSetFlag` and `CoClearFlag` load and store the flag word unlocked; an interrupt or,
  if setter and consumer share a priority, a task in between loses a set or brings back a taken flag.
- time.c:335: a deferred `TimeDispose` marks the head of the delay list as not delayed before
  it unlinks it. A tick between the two stores counts the 0xFFFFFFFF down (arch.c:68-70): the
  ready task keeps a delay that looks valid (`torn`; `Coherent` until then).
- flag.c: deleting one flag of a task that waits for all of several, the others set, leaves it
  asleep; the test that a flag is active precedes the lock, so a task may wait for a deleted flag.
- queue.c:335: two posters may both pass the test for a full queue before either locks; then
  `qSize` exceeds `qMaxSize` and the equality test never refuses again, under the comment "If
  queue is not full" (:339). lwIP's mailboxes are such queues.
- event.c:158, 383: `DeleteEvent` with two waiters leaves `waitPrev` of the second; a time-out later
  leaves it linked. A timed waiter woken by deletion returns E_TIMEOUT; a pend between its two
  sections waits in a box that was deleted meanwhile.
- mbox.c:203, queue.c: the gap of `CoPendSem`: a post in it leaves a message in the box
  and the task waiting (hence `PostersYield` in `NoMailWhileWaiting`).
- *(read)* lwIP posts NULL (api_msg.c:314, 323), which a timed pend reports as E_TIMEOUT;
  `sys_mbox_post` ignores E_QUEUE_FULL; queue.c:73 keeps the queue slot when no event block
  is free; `CoDelQueue` changes `QueueIDVessel` unlocked.
- *(read)* time.c:76: the tick counts the head of the delay list while a task, with only the scheduler
  locked, links a new head.
- sem.c:271: the overflow test of `CoPostSem` precedes the lock; an interrupt
  in between leaves the counter above its maximum, and the equality test never stops
  it again.
- sem.c:140: `CoAcceptSem` decrements after the unlock; two tasks may take the last unit and
  the counter wraps.
- task.c:1220: `CoAwakeTask` checks before it locks; a task awakened
  in between is inserted into the ready list twice.
- mutex.c:312-314: deleting the first of several waiters leaves `waittingList` pointing
  to it.
- *(read)* task.c:672: raising a waiter re-enters `CoSetPriority` for the owner, after the unlock,
  which stores the promotion in `originalPrio` (:617); task.c:609-635 tests the state of the task and
  writes its priority before the lock, so a call preempted there re-inserts a task that
  has begun to wait into the ready list. Nothing in the firmware calls it from a task.
- *(read)* task.c:1162: `CoSuspendTask` tests for TASK_WAITING before it locks; a task that is woken or
  begins to wait in between is in two lists. In the run only the most urgent task suspends.
- task.c:981: `CoDelTask` leaves the mutex and removes the task in two
  locked sections; a deleted holder that wakes in the gap runs in the section without owning
  the mutex.
- *(read)* timer.c:268, 305: the state is tested before the lock; a one-shot that fires in between
  is unlinked twice, and `RemoveTmrList` takes a timer without links for the only
  one and empties the list (:124-126).
- timer.c:235, 48: a one-shot that has run out, started again, is RUNNING but in no
  list (`RunningLinked` with `Careful` FALSE); `CoStartTmr` returns E_OK, "Insert a timer to
  timer list and start it successful." (:210).
- mendel.c:195 reads the file whether or not a host line is pending; the comment
  above says "process SD file if no serial command pending". If that line is M28, the line
  read is stored in the upload (`AtMostOneStray` cannot be sharpened to none).
- gcode_parse.c:245-250 does not reset `getting_string`: after a line cut inside a file name, the
  first word of the next line is taken for the name. A line without its end loses its last field:
  G falls back to G0, M to the M of an earlier line (hence `clean` in `LinesIndependent`).
- *(read)* gcode_parse.c:488: `request_resend` names `next_target.N`, which is not reset; a rejected
  line whose number was lost asks for an earlier line instead of "the current line" (:480).
- *(read)* gcode_process.c:401: `f_write` to a full card returns FR_OK with fewer bytes written; the
  host is told `ok` for a line that is lost.
- gcode_process.c:386, ff.c:3564: `sd_pos` grows by the length of the string `f_gets` returns, from
  which CRs are dropped: of a file with CR LF ends M27 reports a position that
  falls behind by one per line (`dropped` in `StatusIsTrue`).
- gcode_process.c:698: M26 beyond 32767 becomes a negative number and, as an unsigned position, seeks to the
  end of the file (`StatusIsTrue`).
- *(read)* S, P, F and the file name keep their value from line to line: G4 without P
  (gcode_process.c:500) and M104 without S (:767) use that of an earlier, even rejected, line, M23
  without a name selects the last file again; a G20 in a printed file also holds for the host's lines.
- timer.c:371: setting a running timer overwrites the counter that
  `RemoveTmrList` then hands to the successor, which fires early or late.
- *(read)* kernelHeap.c:80: rounding up a request of nearly 2^32 bytes wraps, and a small block is
  handed out (excluded by `WidthAssumption`).
- *(read)* kernelHeap.c:252: the search for a foreign pointer in `CoKfree`
  subtracts 1 before it tests for `Co_NULL`.
- *(read)* time.c:236 tests before it locks.
- *(read)* mendel.c:241: `steptimeout` is reset only by the legacy stepper code; serial_fifo.c:122:
  `_fifo_free` calls the variant that re-enables the interrupt; gcode_process.c:821: M112
  disables the acceleration timer, not the step timer; serviceReq.c:44-45: the documented
  return values are swapped.

## 7. Plan

Done: the motion queue and tracer, planner speeds, mutex, timers, flags, mailboxes and queues with their abstract
FIFO, heap, command loop, all with proofs, mail and heap as refinements; the kernel is model-checked.

1. Proofs: `Coherent` of `CoKernel` and, on top, `MostUrgentRuns`.
2. An abstract FIFO that `MotionQueue` implements, with the refinement proved.
3. The acknowledgement protocol between host and firmware over the serial FIFO
   (`serial_fifo.c`) around `CommandLoop`: replies, resend requests, lost and repeated
   lines; a command is executed once.
4. Memory pools, semaphore deletion and `CoResetTaskDelayTick`.
5. The other commands: heaters, slow timers, idle power-off and homing as the producer of
   `MotionQueue`.
