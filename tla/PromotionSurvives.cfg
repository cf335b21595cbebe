\* The trader with whole writes only: the dashboard alone loses a promotion.
SPECIFICATION RegistrySpec
CONSTANTS
  MaxModels = 2
  LastDate = 2
  MaxCrashes = 1
  MaxTears = 0
INVARIANT PromotionSurvives
