SPECIFICATION FairSpec
CONSTANTS
  t1 = t1
  t2 = t2
  ok = ok
  bad = bad
  Checking = Checking
  Techs <- MCTechs
  Verdicts <- MCVerdicts
  Flagged <- MCFlagged
  MaxEvidence = 2
  MaxLoads = 1
  MaxRestarts = 1
  MaxFaults = 1
CHECK_DEADLOCK FALSE
INVARIANTS TypeOK ResultOfThisLoad BadgeShowsResult
PROPERTIES NeverOlderEvidence ResultLifeCycle EveryScanConcludes
