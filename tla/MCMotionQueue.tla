--------------------------- MODULE MCMotionQueue ---------------------------
EXTENDS MotionQueue

\* A zero-length move and a move of two step events.
MCDeltas == {-2, 0}
=============================================================================
