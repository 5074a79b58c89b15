CONSTANTS
  f = f
  g = g
  root = root
  missing = missing
  Null = Null
  Absent = Absent
  Freed = Freed
  Files = {f, g}
  Contents <- MCContents
  Dirs = {root, missing}
  Root = root
  Listing <- MCListing
  MaxOpen = 2
  SectorSize = 2
  StreamLimit = 3
  Modes = {0, 1, 2}
  Indexes = {0, 2}
SPECIFICATION Spec
INVARIANTS SlotsHoldOpenStreams ListingIsOrdered
PROPERTIES HandlesStayPut ReadsMoveByTheirCount
CHECK_DEADLOCK FALSE
