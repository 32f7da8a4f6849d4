SPECIFICATION FairSpec
CONSTANTS
  d0 = d0
  d1 = d1
  d2 = d2
  t1 = t1
  t2 = t2
  Pids = {d0, d1, d2}
  Past = d0
  Commands = {t1, t2}
  Ops = {"start", "stop"}
  Latest = 2
  MaxCommands = 3
  MaxCrashes = 0
  MaxReuse = 0
PROPERTIES CommandsEnd StartGivesDaemon
CHECK_DEADLOCK FALSE
