\* Every map of 3 x 3 or 6 x 1 cells and the field of 5 x 2; depth 5 cuts both off.
CONSTANTS
  Maps <- MCMaps
  MaxDepth = 5
SPECIFICATION HuntSpec
INVARIANTS
  TypeOK
  PathWalkable
  NearestReached
PROPERTIES
  TurnsRunOut
  HuntArrives
CHECK_DEADLOCK FALSE
