CONSTANTS
  scheduler = scheduler
  panel = panel
  console = console
  Callers = {}
  Scheduler = scheduler
  Clients = {panel, console}
  Cooldown = 0
  Hour = 1
  MaxPerHour = 1
  Interval = 1
SPECIFICATION Spec
SYMMETRY ClientSymmetry
INVARIANT SuspensionPersists
