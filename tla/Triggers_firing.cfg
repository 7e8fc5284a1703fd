CONSTANTS
  user = user
  scheduler = scheduler
  console = console
  Callers = {user}
  Scheduler = scheduler
  Clients = {console}
  Cooldown = 1
  Hour = 3
  MaxPerHour = 2
  Interval = 2
SPECIFICATION Spec
INVARIANT TypeOK
INVARIANT CooldownRespected
INVARIANT HourlyLimit
INVARIANT StartsAreRecorded
INVARIANT WaitsAfterStartup
INVARIANT SuspensionKept
INVARIANT PauseKept
PROPERTY ScheduleGoesOn
