SPECIFICATION Spec
CONSTANTS
  MaxRetries = 3  Flaky = TRUE
  Heroes = {1, 2, 3}  Weak = {1, 2}  MaxLevel = 2  MaxCoins = 4  Limit = 2  Others = 1
  Rounds = 4  Coins = 3  MaxGames = 2  OpenBeforeCoins = TRUE  Kills = 1
  Items = {"chest", "egg"}  Known = {"chest"}  PerCall <- TwoPerCall
  MaxRounds = 2  MaxStock = 3  Inside = 2
  Slots = 4  Price <- Prices  Purse <- Purses  Copies <- TwoBuffs
  Rank <- MaestroRanks  Gold = "gold"  Funds = 4
  Missions = {1, 2}  Cost = 2  ItemCost = 1  Stamina = 5  Potions = 2  MaxIterations = 3
  Daily = {"recipe", "artifact"}  Recipe = "recipe"  Guild = {"sparks"}
  Enabled = {"recipe", "artifact"}  Steps <- RecipeLength  Reach <- Fulfils
  Shop = {"artifact"}  Excluded = {"artifact"}  Fallbacks = 1  Reruns = 1  OtherRuns = 1
  Ranks = 4  Top = 2  Retries = 1  Drifts = 2
INVARIANTS
  TypeOK
  ExitZeroIsDone ReportedIsReal
  PaidWithinLimit BudgetIsCeiling DryRunForetells HeroesComeFirst
  OncePerCycle AttacksAreAllowed AttemptSpentOnce
CHECK_DEADLOCK FALSE
