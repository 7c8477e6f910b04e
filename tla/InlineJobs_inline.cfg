\* Two turns of a call, one failed request or outbox write, one restart.
SPECIFICATION FairSpec
CONSTANTS
  Jobs = {j1, j2}
  MaxFaults = 1
  MaxCrashes = 1
INVARIANTS TypeOK SpokenIsNotTexted
PROPERTIES Answered RestartIsTold
CHECK_DEADLOCK FALSE
