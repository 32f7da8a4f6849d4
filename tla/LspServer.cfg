SPECIFICATION FairSpec
CONSTANTS
  r1 = r1
  r2 = r2
  f1 = f1
  f2 = f2
  Requests = {r1}
  Files = {f1, f2}
  FileOf <- OneAction
  Unreadable = {}
  MaxCrashesInWindow = 2
  CrashWindow = 1
  BackoffMax = 2
  Timeout = 1
  ProjectChecks = {"found", "no_compile_db"}
  Faults = {"die", "init_error"}
  MaxSpawns = 3
INVARIANTS TypeOK CallbackFiresOnce OneChargePerProcess BreakerMatchesWindow HandshakeFirst AcceptedIsHeld
PROPERTIES ImplementsPolicy HandshakeEnds AcceptedIsResolved
CHECK_DEADLOCK FALSE
