SPECIFICATION Spec
CONSTANTS
  r1 = r1
  r2 = r2
  f1 = f1
  f2 = f2
  Requests = {r1, r2}
  Files = {f1, f2}
  FileOf <- SameFile
  Unreadable = {}
  MaxCrashesInWindow = 2
  CrashWindow = 1
  BackoffMax = 1
  Timeout = 0
  ProjectChecks = {"probe"}
  Faults = {"die"}
  MaxSpawns = 2
SYMMETRY Interchangeable
INVARIANTS OpenedOnceBeforeAsked
CHECK_DEADLOCK FALSE
