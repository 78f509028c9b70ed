SPECIFICATION Spec
CONSTANTS
  C = C
  D = D
  P = P
  NONE = NONE
  Tasks = {C, D, P}
  qMaxSize = 3
  Messages = {1, 2, 3, 4, 5, 6, 7, 8}
  Loads <- MCLoads
INVARIANTS ListAgrees ReturnedOnce NoMailWhileWaiting
PROPERTY ImplementsFifo
