\* Two producer-mode clients and one consumer-mode client over two slots.
SPECIFICATION FairSpec
CONSTANTS
  Clients = {p1, p2, c1}
  ProducerMode = {p1, p2}
  ARR_SIZE = 2
  ITER = 3
  L = 2
INVARIANTS
  ServedOnce
PROPERTIES
  ImplementsFifo
  SettledOrGridlocked
