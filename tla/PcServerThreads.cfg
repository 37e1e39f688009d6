\* Two clients, each a letter ahead, that produce and consume twice over a
\* ring with one slot more than the two letters nobody consumes.
SPECIFICATION FairSpec
CONSTANTS
  Clients = {c1, c2}
  ARR_SIZE = 3
  WARMUP = 1
  ITER = 4
  L = 2
INVARIANTS
  NoGridlock
  SetRemovedAtExit
PROPERTIES
  ImplementsFifo
  RequestAnswered
