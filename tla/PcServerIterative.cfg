\* Three clients over a ring of two slots, so that letters are refused.
SPECIFICATION FairSpec
CONSTANTS
  Clients = {c1, c2, c3}
  ARR_SIZE = 2
  WARMUP = 1
  ITER = 2
  L = 2
PROPERTIES
  ImplementsFifo
  RequestAnswered
  SigintEnds
