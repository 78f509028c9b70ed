------------------------------ MODULE MCCoTimer ------------------------------
EXTENDS CoTimer

MCCounts == {1, 2}
=============================================================================
