CONSTANTS
  Lists <- MCLists
  Lines = 26
  ScanWidth = 60
  Writes <- MCWrites
  Accesses = 6
SPECIFICATION ChroniSpec
INVARIANTS SectionsKeepTheirLines LinesFollowTheWindow MachinesAgree
