SPECIFICATION FairMapSpec
CONSTANTS
  NewAge = 3
  OldAge = 4
  QueueLimit = 3
  MinPeriod = 1
  MaxPeriod = 2
  Full = 3
  LeastHover = 2
  MostHover = 3
  HoverPercentage = 1
  Yaws <- TwoYaws
  Limits <- TwoLimits
INVARIANTS QueueInv SolveInv
PROPERTIES InfeasibleHasCause KeepsLearning
