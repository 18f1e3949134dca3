SPECIFICATION Spec
CONSTANTS
  t1 = t1
  t2 = t2
  ok = ok
  bad = bad
  Checking = Checking
  Techs <- MCTechs
  Verdicts <- MCVerdicts
  Flagged <- MCFlagged
  MaxEvidence = 1
  MaxLoads = 1
  MaxRestarts = 0
  MaxFaults = 0
CHECK_DEADLOCK FALSE
INVARIANTS BadgeClearedWithResult
