\* One task, from its specification to the cleanup, interrupted anywhere.
SPECIFICATION FairSpec
CONSTANTS
  t1 = t1
  Task = {t1}
  NoTask = NoTask
  MaxRounds = 2
  MaxCommits = 4
  MaxAgain = 1
  MaxPulls = 2
INVARIANTS
  TypeOK
  OnlyApprovedMerged
  BudgetHolds
PROPERTIES
  NoBlindRelaunch
  NothingDeletedUnmerged
  CleanupResumes
CHECK_DEADLOCK FALSE
