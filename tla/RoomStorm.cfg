\* Two clients, any of whose sends and receives may fail at once, in the least room.
CONSTANTS
  MaxSessions = 2
  Cells <- Pair
  PlayerSpawn <- West
  MonsterSpawn <- Middle
  PlayerHp = 5
  PlayerAttack = 30
  MonsterHp = 30
  MonsterAttack = 5
  Delay = 1
  MaxDepth = 10
  EarlyFailures = TRUE
SPECIFICATION SafeSpec
INVARIANTS
  NobodyDead
  AttackerStays
  StaysDefined
  NestingEnds
CHECK_DEADLOCK FALSE
