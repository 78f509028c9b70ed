----------------------------- MODULE MCCoMutex -----------------------------
EXTENDS CoMutex, TLC

CONSTANTS H, M, L

MCPrio == H :> 1 @@ M :> 2 @@ L :> 3

\* Three tasks that only use the mutex.
Contenders == [tasks |-> {H, M, L}, deletable |-> {}]

\* Two tasks, of which one is deleted and created again.
Managed == [tasks |-> {H, L}, deletable |-> {L}]

MCCasts == {Contenders, Managed}
=============================================================================
