SPECIFICATION CompanySpec
CONSTANTS
  None = None
  Sources = {s1}
  Runs = {r1, r2}
  Workers = {w1}
  Admins = {a1}
  Schedulers = {}
  Releasers = {}
  Importers = {}
  Companies = {{a1, w1}}
  Calm = {}
  Careful = {}
  ScheduleSource = s1
  ScheduleComplete = TRUE
  MaxRetries = 0
  Faults = {}
  MaxFaults = 0
PROPERTY TerminalIsFinal
CHECK_DEADLOCK FALSE
