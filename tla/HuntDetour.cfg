\* The code's depth, a map of 9 x 3 cells with one way round.
CONSTANTS
  Maps <- Detour
  MaxDepth = 10
SPECIFICATION DetourSpec
PROPERTIES
  HuntArrives
CHECK_DEADLOCK FALSE
