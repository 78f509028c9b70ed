------------------------------ MODULE MCCoFlag ------------------------------
EXTENDS CoFlag, TLC

CONSTANTS S, W, V

Set(i)      == [op |-> "CoSetFlag", flags |-> {i}]
Clear(i)    == [op |-> "CoClearFlag", flags |-> {i}]
Del(i, opt) == [op |-> "CoDelFlag", flags |-> {i}, opt |-> opt]
Create(a, b) ==
  [op |-> "CoCreateFlag", flags |-> {}, auto |-> a, initial |-> b]
Accept(fs, type) == [op |-> "CoAcceptFlags", flags |-> fs, type |-> type]
Wait(fs, type, timed) ==
  [op |-> "CoWaitForFlags", flags |-> fs, type |-> type, timed |-> timed]

Calls(s, w, v) == S :> s @@ W :> w @@ V :> v

TakesOne == {Wait({0}, "ONE", TRUE), Wait({0}, "ONE", FALSE),
             Accept({0}, "ONE")}
TakesTwo == {Wait({1, 2}, "ALL", TRUE), Wait({1, 2}, "ANY", FALSE)}

\* Interrupts set the flags; tasks of one priority take them, each its own.
Interrupts ==
  [prio |-> S :> 1 @@ W :> 1 @@ V :> 1,
   calls |-> Calls({}, TakesOne, TakesTwo \cup {Accept({1, 2}, "ALL")}),
   isr |-> {0, 1, 2}, active |-> {0, 1, 2}, auto |-> {0, 1, 2}]

\* A more urgent task sets the flags; flag 2, which both others wait for, is
\* not auto-reset and the task clears it.
Setter ==
  [prio |-> S :> 1 @@ W :> 2 @@ V :> 2,
   calls |-> Calls({Set(0), Set(1), Set(2), Clear(2)},
                   TakesOne \cup {Wait({2}, "ONE", TRUE)}, TakesTwo),
   isr |-> {}, active |-> {0, 1, 2}, auto |-> {0, 1}]

\* The more urgent task deletes and creates the flag another one waits for ...
Deleter ==
  [prio |-> S :> 1 @@ W :> 2 @@ V :> 2,
   calls |-> Calls({Set(0), Del(0, "NO_PEND"), Del(0, "ANYWAY"),
                    Del(1, "ANYWAY"), Create(TRUE, FALSE)},
                   {Wait({0}, "ONE", TRUE), Wait({0}, "ONE", FALSE)},
                   {Wait({1, 2}, "ALL", TRUE)}),
   isr |-> {}, active |-> {0, 1, 2}, auto |-> {0, 1, 2}]

\* ... or accepts, and creates it set.
Recreator ==
  [prio |-> S :> 1 @@ W :> 2 @@ V :> 2,
   calls |-> Calls({Del(0, "ANYWAY"), Create(TRUE, TRUE)},
                   {Accept({0}, "ONE")}, {Wait({1, 2}, "ALL", TRUE)}),
   isr |-> {1, 2}, active |-> {0, 1, 2}, auto |-> {0, 1, 2}]

\* Two tasks wait for one auto-reset flag, which a task and interrupts set and
\* the third task also takes without waiting.
Contenders ==
  [prio |-> S :> 1 @@ W :> 2 @@ V :> 2,
   calls |-> Calls({Set(0), Clear(0), Accept({0}, "ONE")},
                   TakesOne, TakesOne \cup {Wait({0, 1}, "ANY", TRUE)}),
   isr |-> {0}, active |-> {0, 1, 2}, auto |-> {0}]

MCLoads == {Interrupts, Setter, Deleter, Recreator, Contenders}
=============================================================================
