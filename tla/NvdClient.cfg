SPECIFICATION NvdSpec
CONSTANTS
  l1 = l1
  l2 = l2
  none = none
  key = key
  Lookups <- MCLookups
  Keys <- MCKeys
  Budget <- MCBudget
  Window = 2
  RetryDelay = 1
  MaxAttempts = 2
  MaxRecords = 2
  MaxChanges = 1
  MaxClients = 2
  MaxTime = 3
SYMMETRY MCSymmetry
CHECK_DEADLOCK FALSE
INVARIANTS NvdTypeOK WithinBudget DelayedOnlyByBudget EveryRecordIsRead
