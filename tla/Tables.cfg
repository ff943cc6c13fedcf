SPECIFICATION Spec
INVARIANTS
  CreateReplaces
CHECK_DEADLOCK FALSE
