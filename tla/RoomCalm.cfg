\* Two clients; failures are reported by completions only.  The worker
\* loop and the clock are fair.
CONSTANTS
  MaxSessions = 2
  Cells <- Corridor
  PlayerSpawn <- West
  MonsterSpawn <- East
  PlayerHp = 10
  PlayerAttack = 30
  MonsterHp = 30
  MonsterAttack = 5
  Delay = 1
  MaxDepth = 10
  EarlyFailures = FALSE
SPECIFICATION Spec
INVARIANTS
  TypeOK
  ViewsAgree
PROPERTIES
  MovesAreOfKnownObjects
  ImplementsReplicas
  AttackEnds
CHECK_DEADLOCK FALSE
