\* Two clients with slots of their own, two tickets, one old request in the network.
SPECIFICATION FairSpec
CONSTANTS
  Pids = {10, 11}
  MAX_CLIENTS = 2
  MaxTickets = 2
  MaxStale = 1
PROPERTIES
  FirstComeFirstServed
  EndsOrStuck
