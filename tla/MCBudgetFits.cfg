CONSTANTS
  None = None
  OS_PAGE_SIZE = 64
  Budgets <- MCBudgets
  Available <- MCAvailable
  Dirs <- MCDirs
  Cwd <- MCCwd
  FirstMounts <- MCFirstMounts
  NewMounts <- MCNewMounts
  Links <- NoLinks
  Requests <- MCRequests
  MaxSteps = 4
SPECIFICATION Spec
CHECK_DEADLOCK FALSE
INVARIANT FitsBudget
