SPECIFICATION Spec
CONSTANTS
  r1 = r1
  r2 = r2
  Rivals = {r1, r2}
  NoRival = NoRival
  MaxTier = 2
  Full = 1
  RaidTiers = {2}
  Shared = TRUE
  Plan = 2
  EndOnLoss = TRUE
  BankBest = TRUE
  MaxStars = 0
  StopOnFirstLoss = FALSE
  MaxPasses = 30
  MaxBridgeErrors = 2
  MaxIdlePasses = 3
  Flaky = TRUE
CHECK_DEADLOCK FALSE
SYMMETRY Symmetry
INVARIANTS TypeOK NothingSentTwice WinsAreReal ReportIsTrue NoIdleSpinning
