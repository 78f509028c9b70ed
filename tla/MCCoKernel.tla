----------------------------- MODULE MCCoKernel -----------------------------
EXTENDS CoKernel

CONSTANTS H, L, M, s1, s2

Delay(n)       == [op |-> "CoTickDelay", ticks |-> n]
Pend(s, n)     == [op |-> "CoPendSem", id |-> s, ticks |-> n]
Post(s)        == [op |-> "CoPostSem", id |-> s]
Accept(s)      == [op |-> "CoAcceptSem", id |-> s]
Suspend(t)     == [op |-> "CoSuspendTask", task |-> t]
Awake(t)       == [op |-> "CoAwakeTask", task |-> t]

\* H is more urgent than L and M, which share a priority.
MCTasks == {Idle, H, L, M}
MCPrio  == H :> 1 @@ L :> 2 @@ M :> 2 @@ Idle :> 3
MCSems  == {s1, s2}
MCSort  == s1 :> "FIFO" @@ s2 :> "PRIO"
MCInit  == s1 :> 0 @@ s2 :> 1
MCMax   == s1 :> 1 @@ s2 :> 1


Runs4(h, l, m) == H :> h @@ L :> l @@ M :> m @@ Idle :> {}

\* Delays, timed and untimed waits for s1, which an interrupt posts.
WaitLoad ==
  [calls |-> Runs4({Delay(1), Pend(s1, 2)}, {Delay(2), Pend(s1, 0)}, {}),
   isr   |-> {s1}]

\* H manages L, which may also suspend itself; L and M, of one priority,
\* share s2.
TaskLoad ==
  [calls |-> Runs4({Suspend(L), Awake(L), Accept(s2), Delay(1)},
                   {Suspend(L), Post(s2)}, {Delay(2), Pend(s2, 1)}),
   isr   |-> {}]

MCLoads == {WaitLoad, TaskLoad}

\* One waiter and an interrupt that posts.
PendLoads == {[calls |-> Runs4({Pend(s1, 0)}, {}, {}), isr |-> {s1}]}

=============================================================================
