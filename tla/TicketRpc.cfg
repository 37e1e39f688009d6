\* Two clients and five sessions, with SIGINT, killed clients and a dying server at any point.
SPECIFICATION FairSpec
CONSTANTS
  Clients = {c1, c2}
  MaxTickets = 5
INVARIANTS
  FirstComeFirstServed
  NoTicketLost
PROPERTIES
  ServedUnlessAbandoned
