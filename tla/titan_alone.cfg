SPECIFICATION Spec
CONSTANTS
  r1 = r1
  r2 = r2
  Rivals = {r1, r2}
  NoRival = NoRival
  MaxTier = 2
  Full = 2
  RaidTiers = {1}
  Shared = FALSE
  Plan = 2
  EndOnLoss = FALSE
  BankBest = TRUE
  MaxStars = 2
  StopOnFirstLoss = FALSE
  MaxPasses = 4
  MaxBridgeErrors = 2
  MaxIdlePasses = 2
  Flaky = FALSE
CHECK_DEADLOCK FALSE
SYMMETRY Symmetry
INVARIANTS NoTierLeftBehind BankedHasLanded
