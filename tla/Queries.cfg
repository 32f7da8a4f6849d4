SPECIFICATION Spec
CONSTANTS
  a = a
  b = b
  Files = {a, b}
  Contents <- Texts
  MaxReindex = 1
  MaxStarts = 1
  MaxLate = 1
INVARIANTS CalleesShown CallersShown DependenciesTrue
CHECK_DEADLOCK FALSE
