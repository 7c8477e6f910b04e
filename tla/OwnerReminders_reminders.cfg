\* A one-time and a recurring reminder; a call that fails or a restart, at any point.
SPECIFICATION FairSpec
CONSTANTS
  Reminders = {r1, r2}
  OneTime = {r2}
  NoOne = NoOne
  MaxActive = 2
  MaxTime = 1
  MaxTroubles = 1
INVARIANTS TypeOK OneLateTextAtMost
PROPERTIES KnownJobsGo
CHECK_DEADLOCK FALSE
