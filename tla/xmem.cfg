\* 4 pages, two per EMS page; XMS blocks of 1, 2 and 3 pages, EMS handles of up to 4
CONSTANTS
  Pages = 4
  Past = 0
  XmsHandles = {1, 2}
  EmsHandles = {1, 2}
  PerEmsPage = 2
  MaxLock = 1
  XmsSizes = {0, 1, 5, 12}
  Strays = FALSE
  EmsSizes = {0, 1, 2}
SPECIFICATION Spec
INVARIANTS DataKept NoPageLost XmsInARow AllocationSucceeds
VIEW View
CHECK_DEADLOCK FALSE
