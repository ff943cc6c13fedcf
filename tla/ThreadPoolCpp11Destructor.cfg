CONSTANTS
  Workers = {w1}
  Tasks = {t1}
SPECIFICATION Spec
PROPERTY DestructorReturns
CHECK_DEADLOCK FALSE
