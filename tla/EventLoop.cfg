SPECIFICATION PoliteSpec
CONSTANTS
  f1 = f1
  f2 = f2
  c1 = c1
  c2 = c2
  Files = {f1}
  ExtensionOf <- Cpp
  FileActions = {"Add", "Modified", "Delete", "Moved"}
  Clients = {c1}
  Window = 1
  IdleTimeout = 2
  PipeCapacity = 3
  Signals = 1
  MaxEdits = 2
  MaxStarts = 2
INVARIANTS NoLostWakeup EveryChangeTracked
PROPERTIES ImplementsFeed ChangesAreIndexed StopHonoured ClientsAnswered
CHECK_DEADLOCK FALSE
