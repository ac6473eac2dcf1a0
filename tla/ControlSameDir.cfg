CONSTANTS
  Coms = {"USB0", "USB1"}
  Masks = {"m1", "m2"}
  Configs <- MCConfigs
  LogNames = {"a", "b"}
  SameDir = TRUE
  MaxLines = 2
SPECIFICATION Spec
INVARIANT ConfigKept
