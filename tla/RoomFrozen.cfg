\* Two clients, one of whom leaves between an attack and its blow.
CONSTANTS
  MaxSessions = 2
  Cells <- Corridor
  PlayerSpawn <- West
  MonsterSpawn <- East
  PlayerHp = 5
  PlayerAttack = 30
  MonsterHp = 30
  MonsterAttack = 5
  Delay = 1
  MaxDepth = 10
  EarlyFailures = FALSE
SPECIFICATION Spec
PROPERTIES
  HuntGoesOn
CHECK_DEADLOCK FALSE
