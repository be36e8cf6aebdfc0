SPECIFICATION Spec
CONSTANTS
  Packets = {p1}
  Ring = 16
  Starts <- MCStarts
  MaxTicks = 4
  MaxDelay = 3
  MaxProbes = 2
  ProbeTimeout = 2
  UnknownRtt = 1
  Guard = 0
  Budgets <- MCBudgets
  RepairTime = 3
  RetryGap = 1
  MaxRounds = 2
  MaxRetransmits = 1
  MaxSuspended = 2
INVARIANT
  AnswerIsUsed
CHECK_DEADLOCK FALSE
