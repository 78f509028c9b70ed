SPECIFICATION HeapSpec
CONSTANTS
  KHEAP_SIZE = 15
  Requests <- MCRequests
INVARIANTS LiveIntact LinksAgree
PROPERTY ImplementsFirstFit
