\* One client reserves both letters; does the server shut down?
SPECIFICATION FairSpec
CONSTANTS
  Clients = {a}
  ARR_SIZE = 2
  MaxConn = 3
CHECK_DEADLOCK FALSE
PROPERTY
  ShutsDownWhenFull
