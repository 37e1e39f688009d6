\* Two starts of the daemon, three signals, one change of its configuration, one reboot;
\* two clients and two starts of the datagram servers; an alphabet of six, blocks of four,
\* a 3.txt that is empty, shorter and longer than half of the alphabet;
\* two clients and two connections of the calculator;
\* a tree of seven nodes, one directory of it open, unreadable or not to be searched.
\* The programs end, and the daemon sleeps: the system may stop.
SPECIFICATION Spec
CONSTANTS
  NStarts = 2
  NEdits = 1
  NSignals = 3
  NBoots = 1
  Message <- MCMessage
  Reply <- MCReply
  AnswerRead <- MCAnswerRead
  Clients = {c1, c2}
  NRuns = 2
  NSigints = 2
  N = 6
  BufSize = 4
  OldFiles <- MCOldFiles
  Users = {u1, u2}
  NConns = 2
  Root = "r"
  ParentOf <- MCParentOf
  Above <- MCAbove
  Files = {"f", "g", "h"}
  Special = "c"
  Kinds = {"dir", "dnr", "nox"}
  Home = "a"
  Arguments <- MCArguments
INVARIANTS
  OncePerBoot
  ServiceOutlivesSignals
  NameFreedAtEnd
  TreeReported
PROPERTIES
  HupRereads
  StreamsEnd
  AnsweredOrAbandoned
  LettersKept
  OwnResultsAndStop
CHECK_DEADLOCK FALSE
