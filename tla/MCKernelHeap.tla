---------------------------- MODULE MCKernelHeap ----------------------------
EXTENDS KernelHeap

\* Nothing; one word; one word and a byte, which takes two.
MCRequests == {0, 4, 5}
=============================================================================
