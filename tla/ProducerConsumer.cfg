\* Two producers (2, 4) and two consumers (1, 3), a page that is overrun.
SPECIFICATION FairSpec
CONSTANTS
  N = 2
  K = 4
  PERIOD = 2
  ROOM = 3
  L = 2
  MaxItems = 3
INVARIANTS
  MutualExclusion
  SlotsConserved
  AlphabetInOrder
  IpcOutlivesChildren
PROPERTIES
  EndsOrStranded
