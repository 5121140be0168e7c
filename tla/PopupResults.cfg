CONSTANTS
  MaxPopups = 3
  MaxForwards = 3
SPECIFICATION puSpec
PROPERTIES ResultsReachTheChild
CHECK_DEADLOCK FALSE
