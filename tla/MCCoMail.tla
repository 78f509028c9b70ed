------------------------------ MODULE MCCoMail ------------------------------
EXTENDS CoMail, TLC

CONSTANTS C, D, P

Post        == [op |-> "Post"]
Accepts     == [op |-> "Accept"]
Pend(timed) == [op |-> "Pend", timed |-> timed]
Delete(opt) == [op |-> "Del", opt |-> opt]
Creates     == [op |-> "Create"]

Calls(c, d, p) == C :> c @@ D :> d @@ P :> p

\* Two tasks receive, a less urgent one posts.
Receivers ==
  {[kind |-> k, sort |-> s, prio |-> C :> 1 @@ D :> 2 @@ P :> 3,
    calls |-> Calls({Pend(TRUE), Pend(FALSE)},
                    {Pend(TRUE), Pend(FALSE), Accepts}, {Post}),
    isr |-> FALSE] : k \in {"MBOX", "QUEUE"}, s \in {"FIFO", "PRIO"}}

\* Interrupts post, also into the gap of a pend.
Interrupts ==
  {[kind |-> k, sort |-> "FIFO", prio |-> C :> 1 @@ D :> 1 @@ P :> 1,
    calls |-> Calls({Pend(TRUE), Accepts}, {Pend(FALSE), Pend(TRUE)}, {}),
    isr |-> TRUE] : k \in {"MBOX", "QUEUE"}}

\* The task that posts also deletes and creates the box another one uses.
Owner ==
  {[kind |-> k, sort |-> "PRIO", prio |-> C :> 1 @@ D :> 1 @@ P :> 2,
    calls |-> Calls({Pend(TRUE), Pend(FALSE), Accepts}, {},
                    {Post, Delete("NO_PEND"), Delete("ANYWAY"), Creates}),
    isr |-> FALSE] : k \in {"MBOX", "QUEUE"}}

MCLoads == Receivers \cup Interrupts \cup Owner
=============================================================================
