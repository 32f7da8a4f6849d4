SPECIFICATION FairSpec
CONSTANTS
  f1 = f1
  f2 = f2
  old = old
  new = new
  Files = {f1}
  Contents = {old, new}
  Tables = {"callers", "dependencies"}
  Failures = {"hash", "upsert", "commit"}
  MaxEdits = 2
  MaxStarts = 2
INVARIANTS TypeOK BehindIsTracked HashNamesSymbols ResolvedUnlessTorn LastResolutionUnlessOverlap
PROPERTIES ColdStartDrains
CHECK_DEADLOCK FALSE
