SPECIFICATION Spec
CONSTANTS
  p1 = p1
  p2 = p2
  Procs <- MCProcs
  MaxVersion = 2
  MaxCommands = 3
  MaxDays = 1
  MaxTrouble = 0
SYMMETRY MCSymmetry
CHECK_DEADLOCK FALSE
INVARIANTS RefreshRepairs
