\* One client whose connection is reset while OnConnected runs.
CONSTANTS
  MaxSessions = 1
  Cells <- Corridor
  PlayerSpawn <- West
  MonsterSpawn <- East
  PlayerHp = 5
  PlayerAttack = 30
  MonsterHp = 30
  MonsterAttack = 5
  Delay = 1
  MaxDepth = 10
  EarlyFailures = TRUE
SPECIFICATION SafeSpec
INVARIANTS
  DisconnectedHasLeft
CHECK_DEADLOCK FALSE
