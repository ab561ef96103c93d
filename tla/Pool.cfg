SPECIFICATION Spec
CONSTANTS
  Workers = {w1, w2, w3}
  Nobody = Nobody
  MaxTasks = 3
  MaxSpurious = 1
INVARIANTS
  TypeOK
  PopFindsTask
  HandedOutOnce
  NoTaskSleptOn
PROPERTIES
  EveryTaskRuns
CHECK_DEADLOCK FALSE
