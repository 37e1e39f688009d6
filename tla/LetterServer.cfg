\* Two clients and two letters; the clients make at most four connections,
\* after which the model may stop.
SPECIFICATION FairSpec
CONSTANTS
  Clients = {a, b}
  ARR_SIZE = 2
  MaxConn = 4
CHECK_DEADLOCK FALSE
INVARIANTS
  RepliesTruthful
PROPERTIES
  AnsweredOrOrphan
