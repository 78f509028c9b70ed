SPECIFICATION Spec
CONSTANTS
  S = S
  W = W
  V = V
  Tasks = {S, W, V}
  FLAG_MAX_NUM = 3
  Loads <- MCLoads
INVARIANTS ListAgrees NobodyStranded
