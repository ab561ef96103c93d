SPECIFICATION Spec
CONSTANTS
  Workers = {w1, w2}
  Nobody = Nobody
  MaxTasks = 1
  MaxSpurious = 0
PROPERTIES
  DestructorReturns
CHECK_DEADLOCK FALSE
