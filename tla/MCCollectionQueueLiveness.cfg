SPECIFICATION FairCompanySpec
CONSTANTS
  None = None
  Sources = {s1}
  Runs = {r1, r2}
  Workers = {w1, w2}
  Admins = {a1}
  Schedulers = {}
  Releasers = {}
  Importers = {}
  Companies = {{a1, w1, w2}, {a1, w1}}
  Calm = {}
  Careful = {{a1, w1, w2}}
  ScheduleSource = s1
  ScheduleComplete = TRUE
  MaxRetries = 0
  Faults = {"worker_lost", "hard_limit", "exception", "client_lost"}
  MaxFaults = 1
PROPERTIES EveryCarefulRunCloses LockIsReleased LostRunIsReplacedInTime
CHECK_DEADLOCK FALSE
