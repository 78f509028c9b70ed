------------------------------ MODULE MCTracer ------------------------------
EXTENDS Tracer

CONSTANTS x, e

\* A diagonal of three and two steps and one step of one axis.
MCMoves == {[a \in Axes |-> IF a = x THEN 3 ELSE 2],
            [a \in Axes |-> IF a = x THEN 0 ELSE 1]}

\* What a block of a faster move left behind.
MCLeftovers == {[initial_rate |-> 4, final_rate |-> 4,
                 accelerate_until |-> 1, decelerate_after |-> 9]}
=============================================================================
