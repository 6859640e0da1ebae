CONSTANTS
  Ranges = {"day", "week"}
  Metrics = {"tokens", "requests"}
  Answers = {"summary", "requests"}
  MaxLoads = 3
  MaxVersion = 3
SPECIFICATION Spec
INVARIANTS
  ReadyIsCurrent
PROPERTIES
  NeverGoesBack
