\* Two writers and two readers on both platforms; an alphabet of one letter for the
\* semaphores, two letters and two rounds for the events.
SPECIFICATION BothSpec
CONSTANTS
  NWriters = 2
  NReaders = 2
  L = 1
  WinL = 2
  WinRounds = 2
INVARIANTS
  Exclusion
  OneToken
PROPERTIES
  ReadersSeeStableLetter
  ProgramsEnd
