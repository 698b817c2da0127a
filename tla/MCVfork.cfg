SPECIFICATION Spec
CONSTANTS
  Callers = {a}
  MaxStrays = 1
CHECK_DEADLOCK FALSE
PROPERTY
  VforkParentResumes
