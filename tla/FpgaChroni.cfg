CONSTANTS
  CharLines = 2
  Modes <- MCModes
  Lists <- MCLists
SPECIFICATION Spec
INVARIANTS ShowsTheList
PROPERTIES FramesStart
