SPECIFICATION FairSpec
CONSTANTS
  f1 = f1
  f2 = f2
  c1 = c1
  c2 = c2
  Files = {f1}
  ExtensionOf <- Cpp
  FileActions = {"Add", "Modified", "Delete", "Moved"}
  Clients = {c1}
  Window = 1
  IdleTimeout = 2
  PipeCapacity = 3
  Signals = 1
  MaxEdits = 0
  MaxStarts = 1
PROPERTIES StopHonoured
CHECK_DEADLOCK FALSE
