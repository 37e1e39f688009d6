\* Releases of Q and W, and the 0xE0 prefix, which has bit 7 set and is beyond the table;
\* a pot of three bytes, two processes and four calls; three cached objects and two mounts.
\* Without rmmod and with the bounds on keys and calls reached, the modules may simply rest.
SPECIFICATION LabSpec
CONSTANTS
  Codes = {144, 145, 224}
  MaxKeys = 2
  Callers = {p1, p2}
  PotSize = 3
  NCalls = 4
  Objects = {o1, o2, o3}
  Mounts = {m1, m2}
INVARIANTS
  BottomHalvesSettle
  FreedWhenUnused
  CookiesInOrder
  StoresInside
  CleanUnload
CHECK_DEADLOCK FALSE
