SPECIFICATION GridSpec
CONSTANTS
  MaxRepublishes = 4
  Margin = 6
  Block = 12
  Ids = 8
  DoubleBoots = FALSE
  MaxIncidents = 2
  MaxLoss = 2
  MaxMishaps = 3
  MaxUp = 3
CHECK_DEADLOCK FALSE
INVARIANTS PromotionIsTrue
PROPERTIES PromotionComesBack AnchorIsRepaired
