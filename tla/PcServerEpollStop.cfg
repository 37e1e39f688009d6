\* The server is stopped while a request is on the way.
SPECIFICATION Spec
CONSTANTS
  Clients = {p1, c1}
  ProducerMode = {p1}
  ARR_SIZE = 1
  ITER = 2
  L = 1
INVARIANT
  OkMeansServed
