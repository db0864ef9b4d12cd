SPECIFICATION CompanySpec
CONSTANTS
  None = None
  Sources = {s1}
  Runs = {r1, r2}
  Workers = {w1, w2}
  Admins = {a1}
  Schedulers = {b1}
  Releasers = {b1}
  Importers = {i1}
  Companies = {{a1, b1, w1, w2}, {a1, i1, w1, w2}}
  Calm = {{a1, b1, w1, w2}}
  Careful = {}
  ScheduleSource = s1
  ScheduleComplete = TRUE
  MaxRetries = 1
  Faults = {"worker_lost", "duplicate_publish", "lock_lost"}
  MaxFaults = 1
SYMMETRY Symmetry
INVARIANTS TypeOK OneCollectorPerSource SuccessWasImported PromotableIsUndisputed OpenRunIsAttended
PROPERTIES ClosedStaysClosed LifecycleSpec
CHECK_DEADLOCK FALSE
