CONSTANTS
  user = user
  scheduler = scheduler
  console = console
  Callers = {user}
  Scheduler = scheduler
  Clients = {console}
  Cooldown = 1
  Hour = 2
  MaxPerHour = 1
  Interval = 1
SPECIFICATION Spec
PROPERTY SuspensionBlocksRuns
