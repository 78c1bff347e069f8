SPECIFICATION GridSpec
CONSTANTS
  MaxRepublishes = 5
  Margin = 7
  Block = 15
  Ids = 8
  DoubleBoots = TRUE
  MaxIncidents = 2
  MaxLoss = 0
  MaxMishaps = 2
  MaxUp = 3
CHECK_DEADLOCK FALSE
PROPERTIES GridComesBack
